-------------------------- MODULE TenantStore_proofs --------------------------
(***************************************************************************)
(* What holds of the tenants table and of tenants.json for any operations, *)
(* interleaved and killed anywhere. A command between Connect and its end  *)
(* has DuckDB for itself (LockInv), so the two halves of an extract, and of *)
(* a removal, are not interleaved with another's (HalvesInv). As long as no *)
(* two saves overlap, the file is a document throughout and the one        *)
(* operation that saves is about to make of it what it promised (AloneInv). *)
(***************************************************************************)
EXTENDS TenantStore, FiniteSetTheorems, TLAPS

PcInv == pc \in [Ops -> Steps]

LockInv == \A o \in Ops : pc[o] \in {"connected", "half"} => db = o

HalvesInv ==
  \A o \in Ops : pc[o] = "half" =>
    /\ Kind[o] = "extract" => Target[o] \in rows
    /\ Kind[o] = "remove" => Target[o] \notin data

RowsInv == PcInv /\ LockInv /\ HalvesInv /\ RowsFindable

LEMMA RowsInit == Init => RowsInv
BY OpsAssumption DEF Init, RowsInv, PcInv, Steps, LockInv, HalvesInv, RowsFindable

(* Steps on the file alone leave database and connection as they are, and   *)
(* no operation at "connected" or "half" that was not there before.         *)
LEMMA FileSteps ==
  ASSUME RowsInv, UNCHANGED <<db, rows, data>>, PcInv',
         \A o \in Ops : pc'[o] \in {"connected", "half"} => pc'[o] = pc[o]
  PROVE  RowsInv'
BY DEF RowsInv, LockInv, HalvesInv, RowsFindable

LEMMA RowsStep == RowsInv /\ [Next]_vars => RowsInv'
<1> SUFFICES ASSUME RowsInv, [Next]_vars PROVE RowsInv'
  OBVIOUS
<1> USE DEF PcInv
<1>0. CASE UNCHANGED vars
  BY <1>0 DEF vars, tables, files, local, history, RowsInv, LockInv, HalvesInv, RowsFindable
<1>1. ASSUME NEW o \in Ops, Load(o) PROVE RowsInv'
  <2>1. /\ pc' \in [Ops -> Steps] /\ UNCHANGED <<db, rows, data>>
        /\ \E step \in {"failed", "unlisted", "resolved", "refused", "ready"} :
             pc' = [pc EXCEPT ![o] = step]
    BY <1>1 DEF Load, Goto, tables, RowsInv, Steps, Saving, Ended
  <2>2. QED
    BY <2>1, FileSteps DEF RowsInv
<1>2. ASSUME NEW o \in Ops, Open(o) PROVE RowsInv'
  <2>1. pc' = [pc EXCEPT ![o] = "opened"] /\ UNCHANGED <<db, rows, data>>
    BY <1>2 DEF Open, Goto, tables
  <2>2. QED
    BY <2>1, FileSteps DEF RowsInv, Steps, Saving
<1>3. ASSUME NEW o \in Ops, Write(o) PROVE RowsInv'
  <2>1. pc' = [pc EXCEPT ![o] = "written"] /\ UNCHANGED <<db, rows, data>>
    BY <1>3 DEF Write, Goto, tables
  <2>2. QED
    BY <2>1, FileSteps DEF RowsInv, Steps, Saving
<1>4. ASSUME NEW o \in Ops, Replace(o) PROVE RowsInv'
  <2>1. /\ UNCHANGED <<db, rows, data>>
        /\ \E step \in {"saved", "ok", "failed"} : pc' = [pc EXCEPT ![o] = step]
    BY <1>4 DEF Replace, Goto, tables
  <2>2. QED
    BY <2>1, FileSteps DEF RowsInv, Steps, Ended
<1>5. ASSUME NEW o \in Ops, Connect(o) PROVE RowsInv'
  <2>1. \/ /\ UNCHANGED <<db, rows, data>>
           /\ \E step \in {"refused", "resolved", "busy"} : pc' = [pc EXCEPT ![o] = step]
        \/ /\ db = None /\ db' = o /\ UNCHANGED <<rows, data>>
           /\ pc' = [pc EXCEPT ![o] = "connected"]
    BY <1>5 DEF Connect, Goto, tables
  <2>2. CASE /\ UNCHANGED <<db, rows, data>>
             /\ \E step \in {"refused", "resolved", "busy"} : pc' = [pc EXCEPT ![o] = step]
    BY <2>2, FileSteps DEF RowsInv, Steps, Ended
  <2>3. CASE /\ db = None /\ db' = o /\ UNCHANGED <<rows, data>>
             /\ pc' = [pc EXCEPT ![o] = "connected"]
    <3>1. PcInv'
      BY <2>3 DEF RowsInv, Steps
    <3>2. \A p \in Ops : pc[p] \notin {"connected", "half"}
      BY <2>3, OpsAssumption DEF RowsInv, LockInv
    <3>3. QED
      BY <2>3, <3>1, <3>2 DEF RowsInv, LockInv, HalvesInv, RowsFindable
  <2>4. QED
    BY <2>1, <2>2, <2>3
<1>6. ASSUME NEW o \in Ops, pc[o] \in {"connected", "half"},
             NEW step \in {"ok", "failed", "half"}, pc' = [pc EXCEPT ![o] = step],
             IF step = "half" THEN db' = db ELSE db' = None
      PROVE  /\ PcInv' /\ LockInv'
             /\ \A p \in Ops : pc'[p] = "half" => p = o /\ step = "half"
  <2>1. \A p \in Ops \ {o} : pc[p] \notin {"connected", "half"}
    BY <1>6 DEF RowsInv, LockInv
  <2>2. QED
    BY <1>6, <2>1 DEF RowsInv, LockInv, Steps, Ended
<1>7. ASSUME NEW o \in Ops, Register(o) PROVE RowsInv'
  <2>1. PICK step \in {"ok", "half"} :
          /\ pc' = [pc EXCEPT ![o] = step]
          /\ step = "half" => Kind[o] = "extract"
          /\ IF step = "half" THEN db' = db ELSE db' = None
    BY <1>7 DEF Register, Goto
  <2>2. /\ PcInv' /\ LockInv'
        /\ \A p \in Ops : pc'[p] = "half" => p = o /\ step = "half"
    <3>1. pc[o] \in {"connected", "half"} /\ step \in {"ok", "failed", "half"}
      BY <1>7 DEF Register
    <3>2. QED
      BY <1>6, <2>1, <3>1
  <2>3. QED
    BY <1>7, <2>1, <2>2 DEF Register, RowsInv, HalvesInv, RowsFindable
<1>8. ASSUME NEW o \in Ops, Extract(o) PROVE RowsInv'
  <2>1. PICK step \in {"ok", "failed"} : pc' = [pc EXCEPT ![o] = step]
    BY <1>8 DEF Extract, Goto
  <2>2. /\ PcInv' /\ LockInv'
        /\ \A p \in Ops : pc'[p] # "half"
    BY <1>6, <1>8, <2>1 DEF Extract
  <2>3. rows' = rows /\ data' \subseteq data \cup {Target[o]} /\ Target[o] \in rows
    BY <1>8 DEF Extract, RowsInv, HalvesInv
  <2>4. QED
    BY <2>2, <2>3 DEF RowsInv, HalvesInv, RowsFindable
<1>9. ASSUME NEW o \in Ops, RemoveFirst(o) PROVE RowsInv'
  <2>1. /\ PcInv' /\ LockInv'
        /\ \A p \in Ops : pc'[p] = "half" => p = o
    BY <1>6, <1>9 DEF RemoveFirst, Goto
  <2>2. data' = data \ {Target[o]} /\ rows' = rows
    BY <1>9 DEF RemoveFirst, Delete, ClearedFirst, DataTables
  <2>3. Kind[o] = "remove"
    BY <1>9 DEF RemoveFirst
  <2>4. QED
    BY <2>1, <2>2, <2>3 DEF RowsInv, HalvesInv, RowsFindable
<1>10. ASSUME NEW o \in Ops, RemoveLast(o) PROVE RowsInv'
  <2>1. /\ PcInv' /\ LockInv'
        /\ \A p \in Ops : pc'[p] # "half"
    BY <1>6, <1>10 DEF RemoveLast, Goto
  <2>2. data' = data /\ rows' = rows \ {Target[o]}
    BY <1>10 DEF RemoveLast, Delete, ClearedFirst, DataTables, TenantsTable
  <2>3. Target[o] \notin data
    BY <1>10 DEF RemoveLast, RowsInv, HalvesInv
  <2>4. QED
    BY <2>1, <2>2, <2>3 DEF RowsInv, HalvesInv, RowsFindable
<1>11. ASSUME NEW o \in Ops, Crash(o) PROVE RowsInv'
  <2>1. PcInv'
    BY <1>11 DEF Crash, RowsInv, Steps, Ended
  <2>2. \A p \in Ops : pc'[p] \in {"connected", "half"} => pc'[p] = pc[p] /\ p \notin Killed(o)
    BY <1>11, Zenon DEF Crash
  <2>3. LockInv'
    BY <1>11, <2>2 DEF Crash, RowsInv, LockInv
  <2>4. QED
    BY <1>11, <2>1, <2>2, <2>3 DEF Crash, tables, RowsInv, HalvesInv, RowsFindable
<1>12. QED
  BY <1>0, <1>1, <1>2, <1>3, <1>4, <1>5, <1>7, <1>8, <1>9, <1>10, <1>11 DEF Next, Step

(* Whatever overlaps or is killed, a tenant with extracted data has its row *)
(* in the tenants table, so that `tenant remove` still finds it.            *)
THEOREM DataFindable == Spec => []RowsFindable
<1>1. RowsInv => RowsFindable
  BY DEF RowsInv
<1>2. QED
  BY RowsInit, RowsStep, <1>1, PTL DEF Spec

-----------------------------------------------------------------------------
(* The types. An operation has a handle exactly while its file is open: one  *)
(* that is about to open a .tmp finds an inode for it.                      *)

HandleInv == \A o \in Ops : handle[o] # None <=> pc[o] = "opened"

TypeInv == TypeOK /\ HandleInv

-----------------------------------------------------------------------------
(* As long as no two saves overlap: what the file holds, what the one       *)
(* operation that saves is about to make of it, and where it stands.        *)

(* A key is listed under its tenant, and only once its mint has ended.      *)
KeysListed(doc) == \A t \in Tenants : \A k \in KeysOf(doc, t) : Target[k] = t /\ pc[k] = "ok"

Minted(o, t) == IF o \in Keys /\ t = Target[o] THEN {o} ELSE {}

(* o's document lists the keys of doc but those o drops, and the one it mints. *)
Follows(new, doc, o) ==
  /\ new \in Docs
  /\ \A t \in Tenants : KeysOf(new, t) = (KeysOf(doc, t) \ drops[o]) \cup Minted(o, t)

FileInv == content[live] \in Docs /\ KeysListed(content[live]) /\ tmp # live

OneSaver == \A o, p \in Ops : pc[o] \in Saving /\ pc[p] \in Saving => o = p

SaverInv(o) ==
  /\ pc[o] \in Saving => drops[o] \subseteq KeysOf(content[live], Target[o])
  /\ pc[o] \in {"ready", "opened"} => Follows(copy[o], content[live], o)
  /\ pc[o] = "opened" => tmp # None /\ handle[o] = tmp /\ content[tmp] = Empty
  /\ pc[o] = "written" => tmp # None /\ Follows(content[tmp], content[live], o)

KeysInv ==
  /\ \A k \in withdrawn : pc[k] = "ok" /\ k \notin KeysOf(content[live], Target[k])
  /\ \A k \in issued \ withdrawn : k \in KeysOf(content[live], Target[k])

AloneInv == ~overlapped => /\ FileInv /\ OneSaver /\ KeysInv
                           /\ \A o \in Ops : SaverInv(o)

LEMMA TypeInit == Init => TypeInv
<1> SUFFICES ASSUME Init PROVE TypeInv
  OBVIOUS
<1>1. 0 \in Inodes
  BY OpsAssumption, FS_CardinalityType DEF Inodes
<1>2. NoTenants \in Docs /\ [t \in Tenants |-> IF t \in First THEN {} ELSE None] \in Docs
  BY DEF NoTenants, Docs
<1>3. content \in [Inodes -> Contents]
  BY <1>2 DEF Init, Contents
<1>4. TypeOK
  <2>1. crashes \in 0..MaxCrashes
    BY BoundAssumption DEF Init
  <2>2. QED
    BY <1>1, <1>2, <1>3, <2>1, OpsAssumption DEF Init, TypeOK, Steps
<1>5. HandleInv
  BY DEF Init, HandleInv
<1>6. QED
  BY <1>4, <1>5 DEF TypeInv

(* There is always an inode for a new .tmp: more inodes than names and      *)
(* handles, and the operation that opens it has none yet.                   *)
LEMMA InodeLeft ==
  ASSUME TypeInv, NEW o \in Ops, pc[o] # "opened"
  PROVE  Unused # {}
<1> SUFFICES ASSUME Unused = {} PROVE FALSE
  OBVIOUS
<1>1. \A i \in Inodes \ {live} : \E p \in Ops : handle[p] = i
  BY DEF Unused
<1> DEFINE f == [i \in Inodes |-> IF i = live THEN o ELSE CHOOSE p \in Ops : handle[p] = i]
<1>2. \A i \in Inodes \ {live} : f[i] \in Ops /\ handle[f[i]] = i
  BY <1>1
<1>3. f[live] = o /\ handle[o] = None /\ None \notin Inodes /\ live \in Inodes
  BY OpsAssumption DEF TypeInv, TypeOK, HandleInv
<1>4. f \in [Inodes -> Ops]
  BY <1>2, <1>3
<1> HIDE DEF f
<1>5. \A i, j \in Inodes : f[i] = f[j] => i = j
  BY <1>2, <1>3
<1>6. f \in Injection(Inodes, Ops)
  BY <1>4, <1>5 DEF Injection, IsInjective
<1>7. Cardinality(Inodes) <= Cardinality(Ops)
  BY <1>6, OpsAssumption, FS_Injection
<1>8. Cardinality(Ops) \in Nat
  BY OpsAssumption, FS_CardinalityType
<1>9. Cardinality(Inodes) = Cardinality(Ops) + 1
  BY <1>8, FS_Interval DEF Inodes
<1>10. QED
  BY <1>7, <1>8, <1>9

LEMMA OpenedInode ==
  ASSUME TypeInv, NEW o \in Ops, pc[o] # "opened"
  PROVE  /\ Opened(o) \in Inodes
         /\ Opened(o) = tmp \/ Opened(o) # live
<1>1. (CHOOSE i \in Unused : TRUE) \in Unused
  BY InodeLeft
<1>2. Unused \subseteq Inodes \ {live}
  BY DEF Unused
<1>3. QED
  BY <1>1, <1>2 DEF Opened, TypeInv, TypeOK

(* The document an operation makes of the one it loaded: the keys of the    *)
(* others stay where they were, its own comes, the dropped ones go.         *)
LEMMA ParsedDoc ==
  ASSUME NEW c \in Contents, Parsed(c) # Torn
  PROVE  Parsed(c) \in Docs
BY DEF Contents, Parsed, NoTenants, Docs

LEMMA LoadedSets ==
  ASSUME NEW doc \in Docs, NEW o \in Ops, Listed(doc, o)
  PROVE  doc[Target[o]] \subseteq Keys /\ KeysOf(doc, Target[o]) = doc[Target[o]]
BY DEF Docs, Listed, KeysOf, Tenants

LEMMA ChangedDoc ==
  ASSUME NEW doc \in Docs, NEW o \in Ops, Kind[o] # "extract", ~Refused(doc, o),
         Kind[o] = "remove" => Listed(doc, o)
  PROVE  /\ Changed(doc, o) \in Docs
         /\ Dropped(doc, o) \subseteq KeysOf(doc, Target[o]) /\ Dropped(doc, o) \subseteq Keys
         /\ KeysOf(Changed(doc, o), Target[o])
              = (KeysOf(doc, Target[o]) \ Dropped(doc, o)) \cup ({o} \cap Keys)
         /\ \A t \in Tenants \ {Target[o]} : KeysOf(Changed(doc, o), t) = KeysOf(doc, t)
<1> DEFINE old == doc[Target[o]]
           new == Changed(doc, o)[Target[o]]
<1>1. Target[o] \in Tenants
  BY DEF Tenants
<1>2. /\ DOMAIN Changed(doc, o) = Tenants
      /\ \A t \in Tenants \ {Target[o]} : Changed(doc, o)[t] = doc[t]
  BY DEF Changed, Docs
<1>3. Listed(doc, o) => old \subseteq Keys /\ KeysOf(doc, Target[o]) = old
  BY LoadedSets
<1>4. new \in {None} \cup SUBSET Keys
      /\ Dropped(doc, o) \subseteq KeysOf(doc, Target[o]) /\ Dropped(doc, o) \subseteq Keys
      /\ KeysOf(Changed(doc, o), Target[o])
              = (KeysOf(doc, Target[o]) \ Dropped(doc, o)) \cup ({o} \cap Keys)
  <2>1. CASE Kind[o] \in {"mint", "cliMint"}
    <3>1. o \in Keys /\ Listed(doc, o) /\ Dropped(doc, o) = {}
      BY <2>1 DEF Keys, Refused, Dropped
    <3>2. new = old \cup {o}
      BY <1>1, <2>1, <3>1 DEF Changed, KeysWith, Docs
    <3>3. new \subseteq Keys /\ new # None
      BY <1>3, <3>1, <3>2, OpsAssumption
    <3>4. QED
      BY <1>3, <3>1, <3>2, <3>3 DEF KeysOf
  <2>2. CASE Kind[o] = "revoke"
    <3>1. o \notin Keys /\ Listed(doc, o) /\ Dropped(doc, o) = Labelled(doc, o)
      BY <2>2 DEF Keys, Refused, Dropped
    <3>2. new = old \ Labelled(doc, o) /\ Labelled(doc, o) \subseteq old
      BY <1>1, <2>2, <3>1 DEF Changed, Revoked, Docs, Labelled
    <3>3. new \subseteq Keys /\ new # None
      BY <1>3, <3>1, <3>2, OpsAssumption
    <3>4. QED
      BY <1>3, <3>1, <3>2, <3>3 DEF KeysOf
  <2>3. CASE Kind[o] = "add"
    <3>1. o \notin Keys /\ ~Listed(doc, o) /\ Dropped(doc, o) = {}
      BY <2>3 DEF Keys, Refused, Dropped
    <3>2. new = {}
      BY <1>1, <2>3, <3>1 DEF Changed, Docs
    <3>3. QED
      BY <3>1, <3>2, OpsAssumption DEF KeysOf, Listed
  <2>4. CASE Kind[o] = "remove"
    <3>1. o \notin Keys /\ Listed(doc, o) /\ Dropped(doc, o) = old
      BY <2>4 DEF Keys, Dropped
    <3>2. new = None
      BY <1>1, <2>4, <3>1 DEF Changed, Docs
    <3>3. QED
      BY <1>3, <3>1, <3>2 DEF KeysOf
  <2>5. QED
    BY <2>1, <2>2, <2>3, <2>4, OpsAssumption DEF Kinds
<1>5. Changed(doc, o) \in Docs
  <2>1. PICK v : Changed(doc, o) = [doc EXCEPT ![Target[o]] = v]
    BY Zenon DEF Changed
  <2>2. v \in {None} \cup SUBSET Keys
    BY <1>1, <1>4, <2>1 DEF Docs
  <2>3. QED
    BY <1>1, <2>1, <2>2 DEF Docs
<1>6. \A t \in Tenants \ {Target[o]} : KeysOf(Changed(doc, o), t) = KeysOf(doc, t)
  BY <1>2 DEF KeysOf
<1>7. QED
  BY <1>4, <1>5, <1>6

(* The steps of one operation that open and close no file.                  *)
LEMMA NoFileStep ==
  ASSUME TypeInv, NEW o \in Ops, NEW step \in Steps \ {"opened"}, pc[o] # "opened",
         pc' = [pc EXCEPT ![o] = step], handle' = handle
  PROVE  /\ pc' \in [Ops -> Steps] /\ handle' \in [Ops -> Inodes \cup {None}]
         /\ HandleInv'
BY DEF TypeInv, TypeOK, HandleInv

LEMMA TypeStep == TypeInv /\ [Next]_vars => TypeInv'
<1> SUFFICES ASSUME TypeInv, [Next]_vars PROVE TypeInv'
  OBVIOUS
<1>0. CASE UNCHANGED vars
  BY <1>0 DEF vars, TypeInv, TypeOK, HandleInv
<1>1. ASSUME NEW o \in Ops, Load(o) PROVE TypeInv'
  <2> DEFINE doc == Parsed(content[live])
  <2>1. PICK step \in {"failed", "unlisted", "resolved", "refused", "ready"} :
          pc' = [pc EXCEPT ![o] = step]
    BY <1>1, Zenon DEF Load, Goto
  <2>2. pc[o] # "opened" /\ handle' = handle
    BY <1>1 DEF Load, MayStart
  <2>3. copy' \in [Ops -> Docs] /\ drops' \in [Ops -> SUBSET Keys]
    <3>1. CASE UNCHANGED <<copy, drops>>
      BY <3>1 DEF TypeInv, TypeOK
    <3>2. CASE /\ doc # Torn /\ ~Refused(doc, o) /\ Kind[o] # "extract"
               /\ Kind[o] = "remove" => Listed(doc, o)
               /\ copy' = [copy EXCEPT ![o] = Changed(doc, o)]
               /\ drops' = [drops EXCEPT ![o] = Dropped(doc, o)]
      <4>1. doc \in Docs
        BY <3>2, ParsedDoc DEF TypeInv, TypeOK
      <4>2. Changed(doc, o) \in Docs /\ Dropped(doc, o) \subseteq Keys
        BY <3>2, <4>1, ChangedDoc
      <4>3. QED
        BY <3>2, <4>2 DEF TypeInv, TypeOK
    <3>3. QED
      BY <1>1, <3>1, <3>2, Zenon DEF Load
  <2>4. overlapped' \in BOOLEAN
    BY <1>1 DEF Load, TypeInv, TypeOK
  <2>5. /\ pc' \in [Ops -> Steps] /\ handle' \in [Ops -> Inodes \cup {None}]
        /\ HandleInv'
    BY <2>1, <2>2, NoFileStep DEF Steps, Saving, Ended
  <2>6. QED
    BY <1>1, <2>3, <2>4, <2>5 DEF Load, files, tables, TypeInv, TypeOK
<1>2. ASSUME NEW o \in Ops, Open(o) PROVE TypeInv'
  <2>1. pc[o] = "ready" /\ pc' = [pc EXCEPT ![o] = "opened"]
        /\ handle' = [handle EXCEPT ![o] = Opened(o)]
    BY <1>2 DEF Open, Goto
  <2>2. Opened(o) \in Inodes /\ Opened(o) # None
    BY <2>1, OpenedInode, OpsAssumption
  <2>3. content' \in [Inodes -> Contents]
    BY <1>2, <2>2 DEF Open, TypeInv, TypeOK, Contents
  <2>4. HandleInv' /\ pc' \in [Ops -> Steps] /\ handle' \in [Ops -> Inodes \cup {None}]
    BY <2>1, <2>2 DEF HandleInv, TypeInv, TypeOK, Steps, Saving
  <2>5. QED
    BY <1>2, <2>2, <2>3, <2>4 DEF Open, tables, history, TypeInv, TypeOK
<1>3. ASSUME NEW o \in Ops, Write(o) PROVE TypeInv'
  <2>1. pc' = [pc EXCEPT ![o] = "written"] /\ handle' = [handle EXCEPT ![o] = None]
    BY <1>3 DEF Write, Goto
  <2>2. NoTenants \in Docs /\ copy[o] \in Docs
    BY DEF NoTenants, Docs, TypeInv, TypeOK
  <2>3. \A old : Overwritten(old, copy[o]) \in Contents
    BY <2>2 DEF Overwritten, Contents
  <2>4. content' \in [Inodes -> Contents]
    BY <1>3, <2>3 DEF Write, TypeInv, TypeOK
  <2>5. HandleInv' /\ pc' \in [Ops -> Steps] /\ handle' \in [Ops -> Inodes \cup {None}]
    BY <2>1 DEF HandleInv, TypeInv, TypeOK, Steps, Saving
  <2>6. copy' \in [Ops -> Docs]
    BY <1>3, <2>2 DEF Write, TypeInv, TypeOK
  <2>7. QED
    BY <1>3, <2>4, <2>5, <2>6 DEF Write, tables, history, TypeInv, TypeOK
<1>4. ASSUME NEW o \in Ops, Replace(o) PROVE TypeInv'
  <2>1. PICK step \in {"saved", "ok", "failed"} : pc' = [pc EXCEPT ![o] = step]
    BY <1>4, Zenon DEF Replace, Goto
  <2>2. pc[o] # "opened" /\ handle' = handle
    BY <1>4 DEF Replace
  <2>3. /\ pc' \in [Ops -> Steps] /\ handle' \in [Ops -> Inodes \cup {None}]
        /\ HandleInv'
    BY <2>1, <2>2, NoFileStep DEF Steps, Ended
  <2>4. /\ content' \in [Inodes -> Contents] /\ live' \in Inodes
        /\ tmp' \in Inodes \cup {None}
    BY <1>4 DEF Replace, TmpThere, files, TypeInv, TypeOK, Contents
  <2>5. issued' \subseteq Keys /\ withdrawn' \subseteq Keys
    BY <1>4 DEF Replace, TypeInv, TypeOK
  <2>6. drops' \in [Ops -> SUBSET Keys]
    BY <1>4 DEF Replace, TypeInv, TypeOK
  <2>7. QED
    BY <1>4, <2>3, <2>4, <2>5, <2>6 DEF Replace, tables, TypeInv, TypeOK
<1>5. ASSUME NEW o \in Ops, Connect(o) PROVE TypeInv'
  <2>1. PICK step \in {"connected", "refused", "resolved", "busy"} :
          pc' = [pc EXCEPT ![o] = step] /\ db' \in {db, o}
    BY <1>5, Zenon DEF Connect, Goto
  <2>2. pc[o] # "opened" /\ handle' = handle
    BY <1>5 DEF Connect, local
  <2>3. /\ pc' \in [Ops -> Steps] /\ handle' \in [Ops -> Inodes \cup {None}]
        /\ HandleInv'
    BY <2>1, <2>2, NoFileStep DEF Steps, Ended
  <2>4. QED
    BY <1>5, <2>1, <2>3 DEF Connect, files, local, tables, history, TypeInv, TypeOK
<1>6. ASSUME NEW o \in Ops,
             Register(o) \/ Extract(o) \/ RemoveFirst(o) \/ RemoveLast(o)
      PROVE  TypeInv'
  <2>1. PICK step \in {"ok", "half", "failed"} : pc' = [pc EXCEPT ![o] = step]
    BY <1>6, Zenon DEF Register, Extract, RemoveFirst, RemoveLast, Goto
  <2>2. pc[o] # "opened" /\ handle' = handle
    BY <1>6 DEF Register, Extract, RemoveFirst, RemoveLast, local
  <2>3. /\ pc' \in [Ops -> Steps] /\ handle' \in [Ops -> Inodes \cup {None}]
        /\ HandleInv'
    BY <2>1, <2>2, NoFileStep DEF Steps, Ended
  <2>4. rows' \subseteq Tenants /\ data' \subseteq Tenants /\ db' \in {db, None}
    BY <1>6 DEF Register, Extract, RemoveFirst, RemoveLast, Delete, TypeInv, TypeOK, Tenants
  <2>5. UNCHANGED <<files, local, history, crashes>>
    BY <1>6 DEF Register, Extract, RemoveFirst, RemoveLast
  <2>6. QED
    BY <2>3, <2>4, <2>5 DEF files, local, history, TypeInv, TypeOK
<1>7. ASSUME NEW o \in Ops, Crash(o) PROVE TypeInv'
  <2>1. pc' \in [Ops -> Steps] /\ handle' \in [Ops -> Inodes \cup {None}] /\ HandleInv'
    BY <1>7 DEF Crash, TypeInv, TypeOK, HandleInv, Steps, Ended
  <2>2. copy' \in [Ops -> Docs] /\ drops' \in [Ops -> SUBSET Keys]
    BY <1>7 DEF Crash, NoTenants, Docs, TypeInv, TypeOK
  <2>3. content' \in [Inodes -> Contents]
    BY <1>7 DEF Crash, Contents, TypeInv, TypeOK
  <2>4. crashes' \in 0..MaxCrashes /\ db' \in Ops \cup {None}
    BY <1>7, BoundAssumption DEF Crash, TypeInv, TypeOK
  <2>5. QED
    BY <1>7, <2>1, <2>2, <2>3, <2>4 DEF Crash, tables, history, TypeInv, TypeOK
<1>8. QED
  BY <1>0, <1>1, <1>2, <1>3, <1>4, <1>5, <1>6, <1>7 DEF Next, Step

(* Type correctness.                                                        *)
THEOREM TypeCorrect == Spec => []TypeOK
<1>1. TypeInv => TypeOK
  BY DEF TypeInv
<1>2. QED
  BY TypeInit, TypeStep, <1>1, PTL DEF Spec

LEMMA AloneInit == Init => AloneInv
<1> SUFFICES ASSUME Init PROVE AloneInv
  OBVIOUS
<1>1. 0 \in Inodes /\ live = 0
  BY OpsAssumption, FS_CardinalityType DEF Inodes, Init
<1>2. content[live] = [t \in Tenants |-> IF t \in First THEN {} ELSE None]
  BY <1>1 DEF Init
<1>3. content[live] \in Docs /\ \A t \in Tenants : KeysOf(content[live], t) = {}
  BY <1>2 DEF Docs, KeysOf
<1>4. tmp # live
  BY <1>1, OpsAssumption DEF Init
<1>5. FileInv
  BY <1>3, <1>4 DEF FileInv, KeysListed
<1>6. OneSaver /\ KeysInv /\ \A o \in Ops : SaverInv(o)
  BY DEF Init, OneSaver, KeysInv, SaverInv, Saving
<1>7. QED
  BY <1>5, <1>6 DEF AloneInv

(* A step that leaves the file, and the operation that saves, as they are.  *)
LEMMA FileKept ==
  ASSUME TypeInv, AloneInv,
         UNCHANGED <<live, tmp, issued, withdrawn, overlapped>>,
         ~overlapped => content'[live] = content[live],
         content' = content \/ overlapped \/ \A p \in Ops : pc'[p] \notin Saving,
         \A p \in Ops : pc'[p] \in Saving =>
           /\ pc'[p] = pc[p]
           /\ copy'[p] = copy[p] /\ drops'[p] = drops[p] /\ handle'[p] = handle[p],
         \A p \in Ops : pc[p] = "ok" => pc'[p] = "ok"
  PROVE  AloneInv'
<1> SUFFICES ASSUME ~overlapped
             PROVE  (FileInv /\ OneSaver /\ KeysInv /\ \A o \in Ops : SaverInv(o))'
  BY DEF AloneInv
<1>1. FileInv /\ OneSaver /\ KeysInv /\ \A o \in Ops : SaverInv(o)
  BY DEF AloneInv
<1>2. \A t \in Tenants : KeysOf(content[live], t) \subseteq Ops
  BY <1>1 DEF FileInv, KeysOf, Docs, Keys
<1>3. FileInv'
  BY <1>1, <1>2 DEF FileInv, KeysListed
<1>4. OneSaver'
  BY <1>1 DEF OneSaver
<1>5. KeysInv'
  BY <1>1 DEF KeysInv, TypeInv, TypeOK, Keys
<1>6. ASSUME NEW o \in Ops PROVE SaverInv(o)'
  <2>1. CASE pc'[o] \notin Saving
    BY <2>1 DEF SaverInv, Saving
  <2>2. CASE pc'[o] \in Saving
    <3>1. /\ content' = content /\ pc'[o] = pc[o]
          /\ copy'[o] = copy[o] /\ drops'[o] = drops[o] /\ handle'[o] = handle[o]
      BY <2>2
    <3>2. QED
      BY <1>1, <3>1 DEF SaverInv, Follows
  <2>3. QED
    BY <2>1, <2>2
<1>7. QED
  BY <1>3, <1>4, <1>5, <1>6

(* A save goes on alone: what the other operations keep, and the keys.      *)
LEMMA SaveGoesOn ==
  ASSUME TypeInv, AloneInv, ~overlapped, NEW o \in Ops, pc[o] \in Saving,
         NEW step \in Saving, pc' = [pc EXCEPT ![o] = step],
         UNCHANGED <<live, drops, issued, withdrawn, overlapped>>,
         content'[live] = content[live], tmp' # live, SaverInv(o)'
  PROVE  AloneInv'
<1>1. FileInv /\ OneSaver /\ KeysInv /\ \A p \in Ops : SaverInv(p)
  BY DEF AloneInv
<1>2. \A t \in Tenants : KeysOf(content[live], t) \subseteq Ops
  BY <1>1 DEF FileInv, KeysOf, Docs, Keys
<1>3. /\ pc'[o] = step /\ \A p \in Ops \ {o} : pc'[p] = pc[p]
      /\ \A p \in Ops : pc[p] = "ok" => pc'[p] = "ok"
      /\ \A p \in Ops \ {o} : pc'[p] \notin Saving
  BY <1>1 DEF TypeInv, TypeOK, OneSaver, Saving
<1>4. FileInv'
  BY <1>1, <1>2, <1>3 DEF FileInv, KeysListed
<1>5. OneSaver'
  BY <1>3 DEF OneSaver
<1>6. KeysInv'
  BY <1>1, <1>3 DEF KeysInv, TypeInv, TypeOK, Keys
<1>7. \A p \in Ops \ {o} : SaverInv(p)'
  BY <1>3 DEF SaverInv, Saving
<1>8. QED
  BY <1>4, <1>5, <1>6, <1>7 DEF AloneInv

LEMMA AloneLoad ==
  ASSUME TypeInv, AloneInv, NEW o \in Ops, Load(o) PROVE AloneInv'
<1> DEFINE doc == Parsed(content[live])
<1>1. pc \in [Ops -> Steps] /\ copy \in [Ops -> Docs] /\ drops \in [Ops -> SUBSET Keys]
  BY DEF TypeInv, TypeOK
<1>2. pc[o] # "ok" /\ UNCHANGED <<content, live, tmp, handle, issued, withdrawn>>
  BY <1>1 DEF Load, MayStart, files
<1>3. CASE UNCHANGED <<copy, drops, overlapped>>
           /\ \E step \in {"failed", "unlisted", "resolved", "refused"} :
                pc' = [pc EXCEPT ![o] = step]
  BY <1>1, <1>2, <1>3, FileKept DEF Saving
<1>4. CASE /\ doc # Torn /\ ~Refused(doc, o) /\ Kind[o] # "extract"
           /\ Kind[o] = "remove" => Listed(doc, o)
           /\ copy' = [copy EXCEPT ![o] = Changed(doc, o)]
           /\ drops' = [drops EXCEPT ![o] = Dropped(doc, o)]
           /\ overlapped' = (overlapped \/ \E p \in Ops : pc[p] \in Saving)
           /\ pc' = [pc EXCEPT ![o] = "ready"]
  <2> SUFFICES ASSUME ~overlapped' PROVE AloneInv'
    BY DEF AloneInv
  <2>1. ~overlapped /\ overlapped' = overlapped /\ \A p \in Ops : pc[p] \notin Saving
    BY <1>4 DEF TypeInv, TypeOK
  <2>2. FileInv /\ KeysInv
    BY <2>1 DEF AloneInv
  <2>3. doc = content[live] /\ doc \in Docs
    BY <2>2, OpsAssumption DEF FileInv, Parsed
  <2>4. /\ Changed(doc, o) \in Docs
        /\ Dropped(doc, o) \subseteq KeysOf(doc, Target[o])
        /\ KeysOf(Changed(doc, o), Target[o])
             = (KeysOf(doc, Target[o]) \ Dropped(doc, o)) \cup ({o} \cap Keys)
        /\ \A t \in Tenants \ {Target[o]} : KeysOf(Changed(doc, o), t) = KeysOf(doc, t)
    BY <1>4, <2>3, ChangedDoc
  <2>5. copy'[o] = Changed(doc, o) /\ drops'[o] = Dropped(doc, o) /\ pc'[o] = "ready"
    BY <1>1, <1>4
  <2>6. \A t \in Tenants \ {Target[o]} : KeysOf(doc, t) \cap Dropped(doc, o) = {}
    BY <2>2, <2>3, <2>4 DEF FileInv, KeysListed, Tenants
  <2>7. Follows(copy[o], content[live], o)'
    BY <1>2, <2>3, <2>4, <2>5, <2>6 DEF Follows, Minted
  <2>8. SaverInv(o)'
    BY <1>2, <2>3, <2>4, <2>5, <2>7 DEF SaverInv
  <2>9. \A p \in Ops \ {o} : pc'[p] \notin Saving /\ pc'[p] = pc[p]
    BY <1>1, <1>4, <2>1
  <2>10. \A p \in Ops \ {o} : SaverInv(p)'
    BY <2>9 DEF SaverInv, Saving
  <2>11. OneSaver'
    BY <2>9 DEF OneSaver
  <2>12. \A t \in Tenants : KeysOf(content[live], t) \subseteq Ops
    BY <2>2 DEF FileInv, KeysOf, Docs, Keys
  <2>13. FileInv'
    BY <1>2, <2>2, <2>9, <2>12 DEF FileInv, KeysListed
  <2>14. KeysInv'
    BY <1>2, <2>2, <2>9 DEF KeysInv, TypeInv, TypeOK, Keys
  <2>15. QED
    BY <2>8, <2>10, <2>11, <2>13, <2>14 DEF AloneInv
<1>5. QED
  BY <1>3, <1>4, Zenon DEF Load, Goto

LEMMA AloneOpen ==
  ASSUME TypeInv, AloneInv, NEW o \in Ops, Open(o) PROVE AloneInv'
<1> SUFFICES ASSUME ~overlapped PROVE AloneInv'
  BY DEF Open, history, AloneInv
<1>1. FileInv /\ SaverInv(o)
  BY DEF AloneInv
<1>2. pc[o] = "ready" /\ pc' = [pc EXCEPT ![o] = "opened"]
  BY DEF Open, Goto
<1>3. Opened(o) \in Inodes /\ Opened(o) # live /\ Opened(o) # None
  BY <1>1, <1>2, OpenedInode, OpsAssumption DEF FileInv
<1>4. /\ handle' = [handle EXCEPT ![o] = Opened(o)] /\ tmp' = Opened(o)
      /\ content' = [content EXCEPT ![Opened(o)] = Empty]
      /\ UNCHANGED <<live, copy, drops, issued, withdrawn, overlapped>>
  BY DEF Open, history
<1>5. content'[live] = content[live] /\ content'[tmp'] = Empty /\ handle'[o] = tmp'
      /\ pc'[o] = "opened"
  BY <1>2, <1>3, <1>4 DEF TypeInv, TypeOK
<1>6. SaverInv(o)'
  BY <1>1, <1>2, <1>3, <1>4, <1>5 DEF SaverInv, Follows, Saving
<1>7. QED
  BY <1>2, <1>3, <1>4, <1>5, <1>6, SaveGoesOn DEF Saving

LEMMA AloneWrite ==
  ASSUME TypeInv, AloneInv, NEW o \in Ops, Write(o) PROVE AloneInv'
<1> SUFFICES ASSUME ~overlapped PROVE AloneInv'
  BY DEF Write, history, AloneInv
<1>1. FileInv /\ SaverInv(o)
  BY DEF AloneInv
<1>2. pc[o] = "opened" /\ pc' = [pc EXCEPT ![o] = "written"]
  BY DEF Write, Goto
<1>3. /\ handle[o] = tmp /\ tmp \in Inodes /\ tmp # None /\ tmp # live /\ content[tmp] = Empty
      /\ Follows(copy[o], content[live], o)
  BY <1>1, <1>2 DEF SaverInv, FileInv, TypeInv, TypeOK
<1>4. Overwritten(content[tmp], copy[o]) = copy[o]
  BY <1>3, OpsAssumption DEF Overwritten
<1>5. /\ content' = [content EXCEPT ![tmp] = copy[o]]
      /\ UNCHANGED <<live, tmp, drops, issued, withdrawn, overlapped>>
  BY <1>3, <1>4 DEF Write, history
<1>6. content'[live] = content[live] /\ content'[tmp] = copy[o] /\ pc'[o] = "written"
  BY <1>2, <1>3, <1>5 DEF TypeInv, TypeOK
<1>7. SaverInv(o)'
  BY <1>1, <1>2, <1>3, <1>5, <1>6 DEF SaverInv, Follows, Saving
<1>8. QED
  BY <1>2, <1>3, <1>5, <1>6, <1>7, SaveGoesOn DEF Saving

LEMMA AloneReplace ==
  ASSUME TypeInv, AloneInv, NEW o \in Ops, Replace(o) PROVE AloneInv'
<1> DEFINE old == content[live]
           new == content[tmp]
<1> SUFFICES ASSUME ~overlapped PROVE AloneInv'
  BY DEF Replace, AloneInv
<1>1. FileInv /\ OneSaver /\ KeysInv /\ SaverInv(o)
  BY DEF AloneInv
<1>2. pc[o] = "written" /\ tmp # None /\ Follows(new, old, o)
      /\ drops[o] \subseteq KeysOf(old, Target[o])
  BY <1>1 DEF Replace, SaverInv, Saving
<1>3. /\ live' = tmp /\ tmp' = None /\ content' = [content EXCEPT ![live] = Empty]
      /\ issued' = issued \cup ({o} \cap Keys) /\ withdrawn' = withdrawn \cup drops[o]
      /\ pc' = [pc EXCEPT ![o] = IF Kind[o] \in {"add", "remove"} THEN "saved" ELSE "ok"]
      /\ UNCHANGED overlapped
  BY <1>2 DEF Replace, TmpThere, Goto
<1>4. tmp \in Inodes /\ live \in Inodes /\ tmp # live /\ content'[live'] = new /\ new \in Docs
  BY <1>1, <1>2, <1>3 DEF FileInv, TypeInv, TypeOK, Follows
<1>5. /\ o \in Keys => pc'[o] = "ok"
      /\ \A p \in Ops \ {o} : pc'[p] = pc[p]
      /\ \A p \in Ops : pc[p] = "ok" => p # o /\ pc'[p] = "ok"
      /\ \A p \in Ops : pc'[p] \notin Saving
  BY <1>1, <1>2, <1>3 DEF TypeInv, TypeOK, OneSaver, Saving, Keys
<1>6. /\ \A t \in Tenants : \A k \in KeysOf(old, t) : k \in Ops /\ Target[k] = t /\ pc[k] = "ok"
      /\ \A k \in Ops : Target[k] \in Tenants
  BY <1>1 DEF FileInv, KeysListed, KeysOf, Docs, Keys, Tenants
<1>7. \A t \in Tenants : KeysOf(new, t) = (KeysOf(old, t) \ drops[o]) \cup Minted(o, t)
  BY <1>2 DEF Follows
<1>8. FileInv'
  <2>1. tmp' # live'
    BY <1>2, <1>3
  <2>2. \A t \in Tenants : KeysOf(content'[live'], t) = KeysOf(new, t)
    BY <1>4
  <2>3. \A t \in Tenants : \A k \in KeysOf(new, t) : Target[k] = t /\ pc'[k] = "ok"
    BY <1>5, <1>6, <1>7 DEF Minted
  <2>4. QED
    BY <1>4, <2>1, <2>2, <2>3 DEF FileInv, KeysListed
<1>9. KeysInv'
  <2>1. ASSUME NEW k \in withdrawn'
        PROVE  pc'[k] = "ok" /\ k \notin KeysOf(new, Target[k])
    <3>1. CASE k \in withdrawn
      <4>1. k \in Ops /\ pc[k] = "ok" /\ k \notin KeysOf(old, Target[k])
        BY <1>1, <3>1 DEF KeysInv, TypeInv, TypeOK, Keys
      <4>2. QED
        BY <1>5, <1>6, <1>7, <4>1 DEF Minted
    <3>2. CASE k \in drops[o]
      <4>1. k \in Ops /\ pc[k] = "ok" /\ Target[k] = Target[o]
        BY <1>2, <1>6, <3>2
      <4>2. QED
        BY <1>5, <1>6, <1>7, <3>2, <4>1 DEF Minted
    <3>3. QED
      BY <1>3, <2>1, <3>1, <3>2
  <2>2. ASSUME NEW k \in issued' \ withdrawn'
        PROVE  k \in KeysOf(new, Target[k])
    <3>1. CASE k \in issued
      <4>1. k \in Ops /\ k \in KeysOf(old, Target[k]) /\ k \notin drops[o]
        BY <1>1, <1>3, <2>2, <3>1 DEF KeysInv, TypeInv, TypeOK, Keys
      <4>2. QED
        BY <1>6, <1>7, <4>1
    <3>2. CASE k \in {o} \cap Keys
      BY <1>6, <1>7, <3>2 DEF Minted
    <3>3. QED
      BY <1>3, <2>2, <3>1, <3>2
  <2>3. QED
    BY <1>4, <2>1, <2>2 DEF KeysInv
<1>10. OneSaver' /\ \A p \in Ops : SaverInv(p)'
  BY <1>5 DEF OneSaver, SaverInv, Saving
<1>11. QED
  BY <1>8, <1>9, <1>10 DEF AloneInv

LEMMA AloneCrash ==
  ASSUME TypeInv, AloneInv, NEW o \in Ops, Crash(o) PROVE AloneInv'
<1>1. /\ UNCHANGED <<live, tmp, issued, withdrawn, overlapped>>
      /\ pc' = [p \in Ops |-> IF p \in Killed(o) THEN "dead" ELSE pc[p]]
  BY DEF Crash, history
<1>2. \A p \in Ops : pc[p] = "ok" => pc'[p] = "ok"
  BY <1>1 DEF Killed, Running, Ended
<1>3. \A p \in Ops : pc'[p] \in Saving =>
        /\ pc'[p] = pc[p] /\ p \notin Killed(o)
        /\ copy'[p] = copy[p] /\ drops'[p] = drops[p] /\ handle'[p] = handle[p]
  BY <1>1 DEF Crash, Saving
<1>4. CASE UNCHANGED content
  BY <1>1, <1>2, <1>3, <1>4, FileKept
<1>5. CASE \E p \in Killed(o) : /\ pc[p] = "opened"
                                /\ content' = [content EXCEPT ![handle[p]] = Torn]
  <2>1. CASE overlapped
    BY <1>1, <2>1 DEF AloneInv
  <2>2. CASE ~overlapped
    <3>1. PICK p \in Killed(o) : /\ pc[p] = "opened"
                                 /\ content' = [content EXCEPT ![handle[p]] = Torn]
      BY <1>5
    <3>2. p \in Ops
      BY DEF Killed
    <3>3. handle[p] = tmp /\ tmp # live
      BY <2>2, <3>1, <3>2 DEF AloneInv, SaverInv, FileInv
    <3>4. content'[live] = content[live]
      BY <3>1, <3>3 DEF TypeInv, TypeOK
    <3>5. \A q \in Ops : pc'[q] \notin Saving
      BY <1>3, <2>2, <3>1, <3>2 DEF AloneInv, OneSaver, Saving
    <3>6. QED
      BY <1>1, <1>2, <1>3, <3>4, <3>5, FileKept
  <2>3. QED
    BY <2>1, <2>2
<1>6. QED
  BY <1>4, <1>5 DEF Crash

LEMMA AloneStep == TypeInv /\ AloneInv /\ [Next]_vars => AloneInv'
<1> SUFFICES ASSUME TypeInv, AloneInv, [Next]_vars PROVE AloneInv'
  OBVIOUS
<1>0. CASE UNCHANGED vars
  BY <1>0, FileKept DEF vars
<1>1. ASSUME NEW o \in Ops,
             Connect(o) \/ Register(o) \/ Extract(o) \/ RemoveFirst(o) \/ RemoveLast(o)
      PROVE  AloneInv'
  <2>1. UNCHANGED <<files, local, history>>
    BY <1>1 DEF Connect, Register, Extract, RemoveFirst, RemoveLast
  <2>2. PICK step \in {"connected", "refused", "resolved", "busy", "ok", "half", "failed"} :
          pc' = [pc EXCEPT ![o] = step]
    BY <1>1, Zenon DEF Connect, Register, Extract, RemoveFirst, RemoveLast, Goto
  <2>3. pc[o] # "ok"
    BY <1>1 DEF Connect, Register, Extract, RemoveFirst, RemoveLast
  <2>4. /\ \A p \in Ops : pc'[p] \in Saving => pc'[p] = pc[p]
        /\ \A p \in Ops : pc[p] = "ok" => pc'[p] = "ok"
    BY <2>2, <2>3 DEF TypeInv, TypeOK, Saving
  <2>5. QED
    BY <2>1, <2>4, FileKept DEF files, local, history
<1>2. QED
  BY <1>0, <1>1, AloneLoad, AloneOpen, AloneWrite, AloneReplace, AloneCrash DEF Next, Step

LEMMA AloneAlways == Spec => [](TypeInv /\ AloneInv)
BY TypeInit, TypeStep, AloneInit, AloneStep, PTL DEF Spec

(* As long as no two saves overlap, a reader never finds the file empty or  *)
(* torn, wherever a writer is killed.                                       *)
THEOREM RewritesWhole == Spec => []AloneRewritesWhole
<1>1. TypeInv /\ AloneInv => AloneRewritesWhole
  BY DEF AloneInv, FileInv, AloneRewritesWhole, Whole
<1>2. QED
  BY AloneAlways, <1>1, PTL

(* As long as no two saves overlap, a key somebody was given is accepted    *)
(* until it is withdrawn ...                                                *)
THEOREM KeysKept == Spec => []AloneKeysKept
<1>1. TypeInv /\ AloneInv => AloneKeysKept
  BY DEF AloneInv, FileInv, KeysInv, AloneKeysKept, Accepted, Whole
<1>2. QED
  BY AloneAlways, <1>1, PTL

(* ... and never again after.                                               *)
THEOREM RevokedStayRejected == Spec => []AloneRevokedRejected
<1>1. TypeInv /\ AloneInv => AloneRevokedRejected
  BY DEF AloneInv, KeysInv, AloneRevokedRejected, Accepted
<1>2. QED
  BY AloneAlways, <1>1, PTL
====
