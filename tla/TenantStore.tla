------------------------------ MODULE TenantStore ------------------------------
(***************************************************************************)
(* tenants.json and the tenants in DuckDB, and everything that writes them: *)
(* POST and DELETE /tenants/{id}/api-keys, `tenant add`, `remove` and      *)
(* `create-api-key`, `extract`. Each loads the whole file, changes its     *)
(* copy and saves it whole through tenants.json.tmp; nothing locks the     *)
(* file. Authentication reads it afresh on every request.                  *)
(***************************************************************************)
EXTENDS Integers, FiniteSets

CONSTANTS
  Ops,          \* the requests and commands
  Kind,         \* Kind[o]: what operation o does
  Target,       \* Target[o]: its tenant
  Label,        \* Label[o]: the key label it names
  First,        \* the tenants the file lists to begin with, each without keys
  MaxStarted,   \* bound on the operations of a behaviour
  MaxCrashes,   \* bound on the processes killed
  Empty, Torn,  \* a file with nothing in it, one that does not parse
  None          \* not listed, no inode, no connection

Kinds   == {"mint", "cliMint", "revoke", "add", "remove", "extract"}
Keys    == {o \in Ops : Kind[o] \in {"mint", "cliMint"}}     \* each mints its own
Tenants == {Target[o] : o \in Ops}

(* What the file can hold.                                                  *)
Docs     == [Tenants -> {None} \cup SUBSET Keys]
Contents == Docs \cup {Empty, Torn}
NoTenants == [t \in Tenants |-> None]

(* The inodes in use are those the two names denote and those open.         *)
Inodes == 0..Cardinality(Ops)

Saving  == {"ready", "opened", "written"}
Ended   == {"ok", "refused", "failed", "busy", "dead"}
Steps   == {"idle", "unlisted", "resolved", "saved", "connected", "half"} \cup Saving \cup Ended

ASSUME OpsAssumption ==
  /\ \A o \in Ops : Kind[o] \in Kinds
  /\ None \notin Ops /\ None \notin Inodes /\ \A S \in SUBSET Keys : S # None
  /\ IsFiniteSet(Ops) /\ First \subseteq Tenants
  /\ Empty \notin Docs /\ Torn \notin Docs /\ Empty # Torn
ASSUME BoundAssumption == MaxStarted \in Nat /\ MaxCrashes \in Nat

VARIABLES
  content,     \* content[i]: what inode i holds
  live, tmp,   \* the inodes tenants.json and tenants.json.tmp name
  pc,          \* pc[o]: the last thing operation o did
  copy,        \* copy[o]: the document o is to save
  drops,       \* drops[o]: the keys that copy leaves out on purpose
  handle,      \* handle[o]: the inode o has open for writing
  db,          \* the command with a DuckDB connection
  rows,        \* tenants with a row in the tenants table
  data,        \* tenants with rows in the tables extract fills
  issued,      \* keys whose plaintext somebody was given
  withdrawn,   \* keys whose revocation was acknowledged, or whose tenant was removed
  overlapped,  \* some operation loaded the file while another was yet to save it
  crashes

vars == <<content, live, tmp, pc, copy, drops, handle, db, rows, data, issued, withdrawn,
          overlapped, crashes>>

files   == <<content, live, tmp>>
local   == <<copy, drops, handle>>
tables  == <<rows, data>>
history == <<issued, withdrawn, overlapped>>

Goto(o, step) == pc' = [pc EXCEPT ![o] = step]

Init ==
  /\ content = [i \in Inodes |-> IF i = 0
                                 THEN [t \in Tenants |-> IF t \in First THEN {} ELSE None]
                                 ELSE Empty]
  /\ live = 0 /\ tmp = None
  /\ pc = [o \in Ops |-> "idle"]
  /\ copy = [o \in Ops |-> NoTenants]
  /\ drops = [o \in Ops |-> {}]
  /\ handle = [o \in Ops |-> None]
  /\ db = None
  /\ rows = First /\ data = {}
  /\ issued = {} /\ withdrawn = {} /\ overlapped = FALSE
  /\ crashes = 0

-----------------------------------------------------------------------------
(* load_tenants and what each operation makes of the document. *)

(* An empty file reads as no tenants at all.                                *)
Parsed(c) == IF c = Empty THEN NoTenants ELSE c

Listed(doc, o) == doc[Target[o]] # None
Labelled(doc, o) == {k \in doc[Target[o]] : Label[k] = Label[o]}
FirstLabelled(doc, o) == {CHOOSE k \in doc[Target[o]] : Label[k] = Label[o]}

OnlyKey(doc, o) == {o}
KeysWith(doc, o) == doc[Target[o]] \cup {o}
Revoked(doc, o) == Labelled(doc, o)

Refused(doc, o) ==
  CASE Kind[o] = "mint"    -> ~Listed(doc, o) \/ Labelled(doc, o) # {}     \* 404, 409
    [] Kind[o] = "cliMint" -> ~Listed(doc, o)
    [] Kind[o] = "revoke"  -> ~Listed(doc, o) \/ Labelled(doc, o) = {}     \* 404
    [] Kind[o] = "add"     -> Listed(doc, o)
    [] OTHER               -> FALSE

Changed(doc, o) ==
  [doc EXCEPT ![Target[o]] =
    CASE o \in Keys          -> KeysWith(doc, o)
      [] Kind[o] = "revoke"  -> doc[Target[o]] \ Revoked(doc, o)
      [] Kind[o] = "add"     -> {}
      [] Kind[o] = "remove"  -> None]

Dropped(doc, o) ==
  CASE Kind[o] = "revoke" -> Labelled(doc, o)
    [] Kind[o] = "remove" -> doc[Target[o]]
    [] OTHER              -> {}

(* A request or command that did not go through can be made again. (One     *)
(* that mints would mint another key.)                                      *)
MayStart(o) ==
  \/ pc[o] = "idle" /\ Cardinality({p \in Ops : pc[p] # "idle"}) < MaxStarted
  \/ pc[o] \in {"failed", "busy", "dead"} /\ o \notin Keys

Load(o) ==
  /\ MayStart(o)
  /\ LET doc == Parsed(content[live]) IN
     IF doc = Torn THEN Goto(o, "failed") /\ UNCHANGED <<copy, drops, overlapped>>
     ELSE IF Kind[o] \in {"remove", "extract"} /\ ~Listed(doc, o)
     THEN Goto(o, "unlisted") /\ UNCHANGED <<copy, drops, overlapped>>
     ELSE IF Kind[o] = "extract"
     THEN Goto(o, "resolved") /\ UNCHANGED <<copy, drops, overlapped>>
     ELSE IF Refused(doc, o)
     THEN Goto(o, "refused") /\ UNCHANGED <<copy, drops, overlapped>>
     ELSE /\ copy' = [copy EXCEPT ![o] = Changed(doc, o)]
          /\ drops' = [drops EXCEPT ![o] = Dropped(doc, o)]
          /\ overlapped' = (overlapped \/ \E p \in Ops : pc[p] \in Saving)
          /\ Goto(o, "ready")
  /\ UNCHANGED <<files, handle, db, tables, issued, withdrawn, crashes>>

-----------------------------------------------------------------------------
(* save_tenants: write_text on the .tmp, which truncates it and writes, and *)
(* replace.                                                                 *)

InPlace(o) == live
Unused == {i \in Inodes \ {live} : \A p \in Ops : handle[p] # i}
Opened(o) == IF tmp # None THEN tmp ELSE CHOOSE i \in Unused : TRUE

Open(o) ==
  /\ pc[o] = "ready"
  /\ handle' = [handle EXCEPT ![o] = Opened(o)]
  /\ tmp' = Opened(o)
  /\ content' = [content EXCEPT ![Opened(o)] = Empty]
  /\ Goto(o, "opened")
  /\ UNCHANGED <<live, copy, drops, db, tables, history, crashes>>

(* Two writers may have the same inode open: the later text overwrites the  *)
(* earlier one, whose tail stays when it was longer.                        *)
Length(doc) == Cardinality({t \in Tenants : doc[t] # None})
               + Cardinality({k \in Keys : \E t \in Tenants : doc[t] # None /\ k \in doc[t]})
Overwritten(old, doc) ==
  IF old = Torn \/ (old \in Docs /\ Length(old) > Length(doc)) THEN Torn ELSE doc

Write(o) ==
  /\ pc[o] = "opened"
  /\ content' = [content EXCEPT ![handle[o]] = Overwritten(content[handle[o]], copy[o])]
  /\ handle' = [handle EXCEPT ![o] = None]
  /\ copy' = [copy EXCEPT ![o] = NoTenants]
  /\ Goto(o, "written")
  /\ UNCHANGED <<live, tmp, drops, db, tables, history, crashes>>

(* Whatever inode the .tmp names by now becomes tenants.json; nobody else   *)
(* may have moved it already.                                               *)
Assumed == TRUE
TmpThere == tmp # None

Replace(o) ==
  /\ pc[o] = "written"
  /\ IF TmpThere
     THEN /\ live' = tmp /\ tmp' = None
          /\ content' = [content EXCEPT ![live] = Empty]
          /\ issued' = issued \cup ({o} \cap Keys)
          /\ withdrawn' = withdrawn \cup drops[o]
          /\ Goto(o, IF Kind[o] \in {"add", "remove"} THEN "saved" ELSE "ok")
     ELSE /\ Goto(o, "failed")                      \* FileNotFoundError
          /\ UNCHANGED <<files, issued, withdrawn>>
  /\ drops' = [drops EXCEPT ![o] = {}]
  /\ UNCHANGED <<copy, handle, db, tables, overlapped, crashes>>

-----------------------------------------------------------------------------
(* The database half of the commands. The file lock lets one process in: a  *)
(* command that finds another, or the API, there raises.                    *)

Connect(o) ==
  /\ pc[o] \in {"saved", "resolved", "unlisted"}
  /\ \/ /\ db = None
        /\ IF pc[o] # "unlisted" THEN Goto(o, "connected") /\ db' = o
           ELSE IF Target[o] \notin rows THEN Goto(o, "refused") /\ UNCHANGED db
           ELSE IF Kind[o] = "remove" THEN Goto(o, "connected") /\ db' = o
           ELSE Goto(o, "resolved") /\ UNCHANGED db      \* _resolve_tenant closes again
     \/ Goto(o, "busy") /\ UNCHANGED db
  /\ UNCHANGED <<files, local, tables, history, crashes>>

(* register_tenant, by `add` and at the start of every extract. *)
Register(o) ==
  /\ pc[o] = "connected" /\ Kind[o] \in {"add", "extract"}
  /\ rows' = rows \cup {Target[o]}
  /\ IF Kind[o] = "add" THEN Goto(o, "ok") /\ db' = None
     ELSE Goto(o, "half") /\ UNCHANGED db
  /\ UNCHANGED <<files, local, data, history, crashes>>

(* Fetched and upserted resource by resource, until one of them fails.      *)
Extract(o) ==
  /\ pc[o] = "half" /\ Kind[o] = "extract"
  /\ \/ Goto(o, "ok") /\ data' = data \cup {Target[o]}
     \/ Goto(o, "failed") /\ data' \in {data, data \cup {Target[o]}}
  /\ db' = None
  /\ UNCHANGED <<files, local, rows, history, crashes>>

(* remove_tenant_db: one DELETE per table, the tenants table last.          *)
TenantsTable == {"tenants"}
DataTables == {"data"}
ClearedFirst == DataTables

Delete(o, cleared) ==
  /\ data' = IF "data" \in cleared THEN data \ {Target[o]} ELSE data
  /\ rows' = IF "tenants" \in cleared THEN rows \ {Target[o]} ELSE rows

RemoveFirst(o) ==
  /\ pc[o] = "connected" /\ Kind[o] = "remove"
  /\ Delete(o, ClearedFirst)
  /\ Goto(o, "half")
  /\ UNCHANGED <<files, local, db, history, crashes>>

RemoveLast(o) ==
  /\ pc[o] = "half" /\ Kind[o] = "remove"
  /\ Delete(o, (DataTables \cup TenantsTable) \ ClearedFirst)
  /\ Goto(o, "ok") /\ db' = None
  /\ UNCHANGED <<files, local, history, crashes>>

-----------------------------------------------------------------------------
(* A process killed, the API with all the requests it serves: what they had *)
(* not flushed is lost, or in part, and a connection closes.                *)
Running(o) == pc[o] \notin Ended \cup {"idle"}
InApi(o) == Kind[o] \in {"mint", "revoke"}
Killed(o) == {p \in Ops : Running(p) /\ (p = o \/ (InApi(p) /\ InApi(o)))}

Crash(o) ==
  /\ Running(o)
  /\ crashes < MaxCrashes
  /\ crashes' = crashes + 1
  /\ \/ UNCHANGED content
     \/ \E p \in Killed(o) : /\ pc[p] = "opened"
                             /\ content' = [content EXCEPT ![handle[p]] = Torn]
  /\ pc' = [p \in Ops |-> IF p \in Killed(o) THEN "dead" ELSE pc[p]]
  /\ db' = IF db \in Killed(o) THEN None ELSE db
  /\ handle' = [p \in Ops |-> IF p \in Killed(o) THEN None ELSE handle[p]]
  /\ copy' = [p \in Ops |-> IF p \in Killed(o) THEN NoTenants ELSE copy[p]]
  /\ drops' = [p \in Ops |-> IF p \in Killed(o) THEN {} ELSE drops[p]]
  /\ UNCHANGED <<live, tmp, tables, history>>

Step(o) ==
  \/ Load(o) \/ Open(o) \/ Write(o) \/ Replace(o)
  \/ Connect(o) \/ Register(o) \/ Extract(o) \/ RemoveFirst(o) \/ RemoveLast(o)
  \/ Crash(o)

Next == \E o \in Ops : Step(o)

Spec == Init /\ [][Next]_vars

-----------------------------------------------------------------------------
TypeOK ==
  /\ content \in [Inodes -> Contents]
  /\ live \in Inodes /\ tmp \in Inodes \cup {None}
  /\ pc \in [Ops -> Steps]
  /\ copy \in [Ops -> Docs]
  /\ drops \in [Ops -> SUBSET Keys]
  /\ handle \in [Ops -> Inodes \cup {None}]
  /\ db \in Ops \cup {None}
  /\ rows \subseteq Tenants /\ data \subseteq Tenants
  /\ issued \subseteq Keys /\ withdrawn \subseteq Keys
  /\ overlapped \in BOOLEAN
  /\ crashes \in 0..MaxCrashes

KeysOf(doc, t) == IF doc[t] = None THEN {} ELSE doc[t]
Whole == content[live] \in Docs
Accepted(k) == Whole /\ k \in KeysOf(content[live], Target[k])

(* As long as no two saves overlap, a reader never finds the file empty or  *)
(* torn, wherever a writer is killed.                                       *)
AloneRewritesWhole == ~overlapped => Whole

(* As long as no two saves overlap, a key somebody was given is accepted    *)
(* until it is withdrawn ...                                                *)
AloneKeysKept == ~overlapped => \A k \in issued \ withdrawn : Accepted(k)

(* ... and never again after, though `create-api-key` lets keys share a     *)
(* label.                                                                   *)
AloneRevokedRejected == ~overlapped => \A k \in withdrawn : ~Accepted(k)

(* Whatever overlaps or is killed, a tenant with extracted data has its row *)
(* in the tenants table, so that `tenant remove` still finds it.            *)
RowsFindable == data \subseteq rows

-----------------------------------------------------------------------------
(* What the repository says and the code does not do. *)

(* delete_api_key: "Existing in-flight requests using the key will fail on  *)
(* the next call."                                                          *)
RevokedRejected == \A k \in withdrawn : ~Accepted(k)
=============================================================================
