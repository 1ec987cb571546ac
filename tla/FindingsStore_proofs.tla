-------------------------- MODULE FindingsStore_proofs --------------------------
(***************************************************************************)
(* What holds of the findings table for any operations, interleaved,       *)
(* failed and killed anywhere.                                             *)
(***************************************************************************)
EXTENDS FindingsStore, SequenceTheorems, TLAPS

-----------------------------------------------------------------------------
(* Tables, and the resources an operation has left. *)

Names   == {"policies", "users"}
Rows(r) == [Objects(r) -> Contents(r) \cup {Absent}]
Lefts   == {Resources, Tail(Resources), <<>>}

LEMMA TableRows == ASSUME NEW t \in Tables, NEW r \in Names PROVE t[r] \in Rows(r)
BY DEF Tables, Objects, Names, Rows

LEMMA TableUpdate ==
  ASSUME NEW t \in Tables, NEW r \in Names, NEW x \in Rows(r)
  PROVE  /\ [t EXCEPT ![r] = x] \in Tables
         /\ \A n \in Names : [t EXCEPT ![r] = x][n] = IF n = r THEN x ELSE t[n]
BY DEF Tables, Objects, Names, Rows

LEMMA TableOf ==
  ASSUME NEW f, f = [r \in Names |-> f[r]], \A r \in Names : f[r] \in Rows(r)
  PROVE  f \in Tables
BY DEF Tables, Objects, Names, Rows

LEMMA TableEqual ==
  ASSUME NEW s \in Tables, NEW t \in Tables, \A r \in Names : s[r] = t[r]
  PROVE  s = t
BY DEF Tables, Names

LEMMA TableDomain == DOMAIN Empty = Names /\ \A t \in Tables : DOMAIN t = Names
BY DEF Empty, Tables, Names

LEMMA EmptyTable == Empty \in Tables
BY DEF Empty, Tables

LEMMA UpsertedRows ==
  ASSUME NEW r \in Names, NEW rows \in Rows(r), NEW payload \in Rows(r)
  PROVE  /\ Upserted(rows, payload) \in Rows(r)
         /\ \A x \in Objects(r) :
              Upserted(rows, payload)[x] = IF payload[x] = Absent THEN rows[x] ELSE payload[x]
BY DEF Upserted, Rows

LEMMA PartlyRows ==
  ASSUME NEW r \in Names, NEW rows \in Rows(r), NEW payload \in Rows(r), NEW S
  PROVE  Partly(rows, payload, S) \in Rows(r)
BY UpsertedRows DEF Partly, Rows

LEMMA LeftLength ==
  ASSUME NEW l \in Lefts, Len(l) > 1
  PROVE  Len(l) # 1 /\ l = Resources /\ Tail(l) # <<>>
<1>1. Len(Resources) = 2 /\ Len(Tail(Resources)) = 1 /\ Len(<<>>) = 0 /\ Tail(Resources) # <<>>
  BY DEF Resources
<1>2. CASE l = Resources
  BY <1>1, <1>2
<1>3. CASE l = Tail(Resources)
  <2>1. Len(l) = 1
    BY <1>1, <1>3, Zenon
  <2>2. QED
    BY <2>1
<1>4. CASE l = <<>>
  BY <1>1, <1>4
<1>5. QED
  BY <1>2, <1>3, <1>4 DEF Lefts

LEMMA LeftTail ==
  ASSUME NEW l \in Lefts, l # <<>>
  PROVE  Head(l) \in Names /\ Tail(l) \in Lefts
<1>1. Resources = <<"policies", "users">> /\ Tail(Resources) = <<"users">>
  BY DEF Resources
<1>2. Head(Resources) = "policies" /\ Head(<<"users">>) = "users" /\ Tail(<<"users">>) = <<>>
  BY <1>1
<1>3. QED
  BY <1>1, <1>2 DEF Lefts, Names

-----------------------------------------------------------------------------
(* The categories an audit has yet to write. *)

LEMMA Categorised ==
  ASSUME NEW s \in Seq(SUBSET Findings), s # <<>>
  PROVE  /\ Head(s) \in SUBSET Findings /\ Tail(s) \in Seq(SUBSET Findings)
         /\ AllOf(s) = Head(s) \cup AllOf(Tail(s))
<1>1. Len(s) \in Nat \ {0} /\ DOMAIN s = 1..Len(s)
  OBVIOUS
<1>2. DOMAIN Tail(s) = 1..(Len(s) - 1) /\ \A i \in 1..(Len(s) - 1) : Tail(s)[i] = s[i + 1]
  OBVIOUS
<1>3. ASSUME NEW f PROVE f \in AllOf(s) <=> f \in Head(s) \cup AllOf(Tail(s))
  <2>1. f \in AllOf(s) <=> \E i \in 1..Len(s) : f \in s[i]
    BY <1>1 DEF AllOf
  <2>2. f \in AllOf(Tail(s)) <=> \E i \in 1..(Len(s) - 1) : f \in s[i + 1]
    BY <1>2 DEF AllOf
  <2>3. ASSUME NEW i \in 1..Len(s), f \in s[i]
        PROVE  f \in s[1] \/ \E j \in 1..(Len(s) - 1) : f \in s[j + 1]
    <3>1. i = 1 \/ (i - 1 \in 1..(Len(s) - 1) /\ s[(i - 1) + 1] = s[i])
      BY <1>1
    <3>2. QED
      BY <2>3, <3>1
  <2>4. ASSUME NEW j \in 1..(Len(s) - 1), f \in s[j + 1]
        PROVE  \E i \in 1..Len(s) : f \in s[i]
    <3>1. j + 1 \in 1..Len(s)
      BY <1>1
    <3>2. QED
      BY <2>4, <3>1
  <2>5. 1 \in 1..Len(s) /\ Head(s) = s[1]
    BY <1>1
  <2>6. QED
    BY <2>1, <2>2, <2>3, <2>4, <2>5
<1>4. QED
  BY <1>3

LEMMA Recategorised ==
  ASSUME NEW s \in Seq(SUBSET Findings), s # <<>>, NEW S \in SUBSET Findings
  PROVE  /\ <<S>> \o Tail(s) \in Seq(SUBSET Findings)
         /\ <<S>> \o Tail(s) # <<>> /\ Head(<<S>> \o Tail(s)) = S
         /\ AllOf(<<S>> \o Tail(s)) = S \cup AllOf(Tail(s))
<1>1. /\ <<S>> \o Tail(s) \in Seq(SUBSET Findings) /\ <<S>> \o Tail(s) # <<>>
      /\ Head(<<S>> \o Tail(s)) = S /\ Tail(<<S>> \o Tail(s)) = Tail(s)
  OBVIOUS
<1>2. QED
  BY <1>1, Categorised

LEMMA NoCategories == AllOf(<<>>) = {} /\ \A S : AllOf(<<S>>) = S
BY DEF AllOf

LEMMA ComputedFindings ==
  ASSUME NEW o \in Ops, NEW context \in Tables
  PROVE  Computed(o, context) \in Seq(SUBSET Findings)
<1>1. Asked[o] \in Seq(Categories)
  BY OpsAssumption
<1>2. \A i \in DOMAIN Asked[o] : Asked[o][i] \in Categories
  BY <1>1
<1>3. ASSUME NEW i \in DOMAIN Asked[o]
      PROVE  {Finding(Target[o], f) : f \in Raised(Asked[o][i], context)} \in SUBSET Findings
  BY <1>2, RaisedAssumption DEF Finding, Findings, Tenants
<1>4. QED
  BY <1>1, <1>3 DEF Computed

LEMMA IdsOf ==
  /\ \A S \in SUBSET Findings : Ids(S) \subseteq Tenants \X Keys
  /\ \A S, T : Ids(S \cup T) = Ids(S) \cup Ids(T)
  /\ \A S : \A f \in S : f.id \in Ids(S)
  /\ \A S, f : Ids(S \cup {f}) = Ids(S) \cup {f.id}
  /\ Ids({}) = {}
BY DEF Ids, Findings

-----------------------------------------------------------------------------
(* The invariant. *)

TypeInv ==
  /\ graph \in [Tenants -> Tables] /\ tables \in [Tenants -> Tables]
  /\ version \in 1..MaxVersion
  /\ registered \subseteq Tenants
  /\ findings \subseteq Findings
  /\ scores \subseteq Tenants \X Signins \X (1..MaxVersion)
  /\ pc \in [Ops -> Steps]
  /\ left \in [Ops -> Lefts]
  /\ seen \in [Ops -> Tables]
  /\ todo \in [Ops -> Seq(SUBSET Findings)]
  /\ chosen \in [Ops -> Findings \cup {None}]
  /\ given \in [Ops -> SUBSET (Tenants \X Keys)]
  /\ wrote \in [Ops -> SUBSET (Tenants \X Keys)]
  /\ edits \in 0..MaxEdits /\ crashes \in 0..MaxCrashes

(* What an operation holds at each of its steps.                            *)
PhaseInv == \A o \in Ops :
  /\ pc[o] \in {"loading", "fetched"} => Loads(o) /\ left[o] # <<>>
  /\ pc[o] = "removing" => Kind[o] = "remove"
  /\ pc[o] = "reading" => Audits(o)
  /\ pc[o] = "scoring" => Kind[o] \in {"score", "cliScore"}
  /\ pc[o] \in {"found", "missing"} => Kind[o] \in {"audit", "cliAudit", "score", "cliScore"}
  /\ pc[o] \notin {"found", "missing"} => todo[o] = <<>>
  /\ pc[o] \notin {"found", "missing", "ok"} => given[o] = {} /\ wrote[o] = {}
  /\ pc[o] = "missing" => todo[o] # <<>> /\ chosen[o] \in Head(todo[o])
  /\ pc[o] # "missing" => chosen[o] = None

(* A process that is not the API is alone with the file.                    *)
LockInv == \A o, q \in Ops : o # q /\ Running(o) /\ Running(q) => InApi(o) /\ InApi(q)

(* Every id that was computed is stored or yet to be written; what counts   *)
(* as new is stored, and counted once.                                      *)
WriteInv == \A o \in Ops :
  /\ Ids(AllOf(todo[o])) \subseteq given[o]
  /\ given[o] \subseteq Ids(findings) \cup Ids(AllOf(todo[o]))
  /\ wrote[o] \subseteq given[o] /\ wrote[o] \subseteq Ids(findings)
CountInv == \A o, q \in Ops : o # q => wrote[o] \cap wrote[q] = {}

(* What a command found missing is missing still.                           *)
MissingInv == \A o \in Ops :
  pc[o] = "missing" /\ ~InApi(o) => chosen[o].id \notin Ids(findings)

(* What an extract or a load has upserted is there, and a fixture's is what *)
(* the bundle holds.                                                        *)
ExtractInv == \A o \in Ops : pc[o] \in {"loading", "fetched"} =>
  /\ \A r \in Sources(o) : \A x \in Objects(r) :
       seen[o][r][x] # Absent => tables[Target[o]][r][x] = seen[o][r][x]
  /\ Target[o] \in Fixtures =>
       \A r \in Names : r \in Sources(o) \/ (pc[o] = "fetched" /\ r = Head(left[o]))
                         => seen[o][r] = graph[Target[o]][r]

BaseInv == TypeInv /\ PhaseInv /\ LockInv

-----------------------------------------------------------------------------
(* Types and phases, action by action. *)

LEMMA BaseInit == Init => BaseInv
<1> SUFFICES ASSUME Init PROVE BaseInv
  OBVIOUS
<1>1. tables \in [Tenants -> Tables]
  BY OpsAssumption, EmptyTable DEF Init
<1>2. <<>> \in Seq(SUBSET Findings) /\ <<>> \in Lefts
  BY DEF Lefts
<1>3. TypeInv
  BY <1>1, <1>2, OpsAssumption, StoreBoundAssumption, EmptyTable DEF Init, TypeInv, Steps, Ended
<1>4. PhaseInv /\ LockInv
  BY DEF Init, PhaseInv, LockInv, Running, Ended
<1>5. QED
  BY <1>3, <1>4 DEF BaseInv

(* Only Connect starts an operation, and only when it may open the file.    *)
LEMMA LockStep ==
  ASSUME BaseInv, NEW o \in Ops, PhaseInv',
         pc' \in [Ops -> Steps], \A q \in Ops \ {o} : pc'[q] = pc[q],
         Running(o) \/ ~Running(o)' \/ MayOpen(o)
  PROVE  LockInv'
<1>1. \A q \in Ops : Running(q)' => q = o \/ Running(q)
  BY DEF Running
<1>2. QED
  BY <1>1 DEF BaseInv, LockInv, MayOpen

LEMMA LocalPhase ==
  ASSUME BaseInv, NEW o \in Ops,
         \A q \in Ops \ {o} : /\ pc'[q] = pc[q] /\ left'[q] = left[q] /\ todo'[q] = todo[q]
                              /\ chosen'[q] = chosen[q] /\ given'[q] = given[q]
                              /\ wrote'[q] = wrote[q],
         /\ pc'[o] \in {"loading", "fetched"} => Loads(o) /\ left'[o] # <<>>
         /\ pc'[o] = "removing" => Kind[o] = "remove"
         /\ pc'[o] = "reading" => Audits(o)
         /\ pc'[o] = "scoring" => Kind[o] \in {"score", "cliScore"}
         /\ pc'[o] \in {"found", "missing"} => Kind[o] \in {"audit", "cliAudit", "score", "cliScore"}
         /\ pc'[o] \notin {"found", "missing"} => todo'[o] = <<>>
         /\ pc'[o] \notin {"found", "missing", "ok"} => given'[o] = {} /\ wrote'[o] = {}
         /\ pc'[o] = "missing" => todo'[o] # <<>> /\ chosen'[o] \in Head(todo'[o])
         /\ pc'[o] # "missing" => chosen'[o] = None
  PROVE  PhaseInv'
BY DEF BaseInv, PhaseInv, Loads, Audits

LEMMA ConnectBase == ASSUME BaseInv, NEW o \in Ops, Connect(o) PROVE BaseInv'
<1> USE DEF BaseInv
<1>1. PICK step \in {"loading", "removing", "reading", "scoring", "busy"} :
        /\ pc' = [pc EXCEPT ![o] = step]
        /\ step # "busy" => MayOpen(o) /\ step = FirstStep(o)
        /\ left' = [left EXCEPT ![o] = IF step = "busy" THEN @ ELSE Resources]
  BY DEF Connect, Goto, FirstStep, TypeInv
<1>2. /\ registered' \subseteq Tenants
      /\ UNCHANGED <<outside, tables, findings, scores, seen, todo, chosen, given, wrote, crashes>>
  BY DEF Connect, TypeInv, Tenants
<1>3. TypeInv'
  BY <1>1, <1>2 DEF TypeInv, outside, Steps, Ended, Lefts
<1>4. PhaseInv'
  <2>1. pc[o] \in {"idle", "failed", "busy", "dead"}
    BY DEF Connect, MayStart
  <2>2. /\ todo'[o] = <<>> /\ given'[o] = {} /\ wrote'[o] = {} /\ chosen'[o] = None
    BY <1>2, <2>1 DEF PhaseInv
  <2>3. /\ step = "loading" => Loads(o) /\ Resources # <<>>
        /\ step = "removing" => Kind[o] = "remove"
        /\ step = "reading" => Audits(o)
        /\ step = "scoring" => Kind[o] \in {"score", "cliScore"}
    BY <1>1, OpsAssumption DEF FirstStep, Kinds, Audits, Loads, Resources
  <2>4. pc'[o] = step /\ (step # "busy" => left'[o] = Resources)
    BY <1>1 DEF TypeInv
  <2>5. \A q \in Ops \ {o} : pc'[q] = pc[q] /\ left'[q] = left[q]
    BY <1>1 DEF TypeInv
  <2>6. QED
    BY <1>2, <2>2, <2>3, <2>4, <2>5, LocalPhase
<1>5. ~Running(o)' \/ MayOpen(o)
  BY <1>1 DEF Running, Ended, TypeInv
<1>6. LockInv'
  BY <1>1, <1>3, <1>4, <1>5, LockStep DEF TypeInv
<1>7. QED
  BY <1>3, <1>4, <1>6

LEMMA FetchBase == ASSUME BaseInv, NEW o \in Ops, Fetch(o) PROVE BaseInv'
<1> USE DEF BaseInv
<1>1. pc[o] = "loading" /\ Head(left[o]) \in Names /\ Target[o] \in Tenants /\ left[o] # <<>>
  BY LeftTail DEF Fetch, PhaseInv, TypeInv, Tenants
<1>2. /\ UNCHANGED <<outside, registered, findings, scores, todo, chosen, given, wrote, crashes>>
      /\ \/ /\ seen' = [seen EXCEPT ![o] = [@ EXCEPT ![Head(left[o])] = graph[Target[o]][Head(left[o])]]]
            /\ tables' = tables \/ tables' = [tables EXCEPT ![Target[o]] = Hydrated(Target[o])]
            /\ pc' = [pc EXCEPT ![o] = "fetched"] /\ left' = left
         \/ /\ seen' = [seen EXCEPT ![o] = Empty] /\ tables' = tables
            /\ pc' = [pc EXCEPT ![o] = "failed"] /\ left' = [left EXCEPT ![o] = <<>>]
  BY DEF Fetch, Goto
<1>3. Hydrated(Target[o]) \in Tables
  <2>1. \A r \in Names : tables[Target[o]][r] \in Rows(r) /\ graph[Target[o]][r] \in Rows(r)
    BY <1>1, TableRows DEF TypeInv
  <2>2. \A r \in Names : Upserted(tables[Target[o]][r], graph[Target[o]][r]) \in Rows(r)
    BY <2>1, UpsertedRows
  <2>3. Hydrated(Target[o])
          = [r \in Names |-> Upserted(tables[Target[o]][r], graph[Target[o]][r])]
    BY <1>1, TableDomain DEF TypeInv, Hydrated
  <2>4. \A r \in Names : Hydrated(Target[o])[r] \in Rows(r)
    BY <2>2, <2>3
  <2>5. QED
    BY <2>3, <2>4, TableOf
<1>4. [seen[o] EXCEPT ![Head(left[o])] = graph[Target[o]][Head(left[o])]] \in Tables
  BY <1>1, TableRows, TableUpdate DEF TypeInv
<1>5. /\ seen' \in [Ops -> Tables] /\ tables' \in [Tenants -> Tables]
      /\ pc' \in [Ops -> Steps] /\ left' \in [Ops -> Lefts]
  <2>1. seen' \in [Ops -> Tables]
    BY <1>2, <1>4, EmptyTable DEF TypeInv
  <2>2. tables' \in [Tenants -> Tables]
    BY <1>2, <1>3 DEF TypeInv
  <2>3. pc' \in [Ops -> Steps]
    BY <1>2 DEF TypeInv, Steps, Ended
  <2>4. left' \in [Ops -> Lefts]
    BY <1>2 DEF TypeInv, Lefts
  <2>5. QED
    BY <2>1, <2>2, <2>3, <2>4
<1>6. TypeInv'
  BY <1>2, <1>5 DEF TypeInv, outside
<1>7. PhaseInv'
  <2>1. Loads(o) /\ todo[o] = <<>> /\ given[o] = {} /\ wrote[o] = {} /\ chosen[o] = None
    BY <1>1 DEF PhaseInv
  <2>2. \A q \in Ops \ {o} : pc'[q] = pc[q] /\ left'[q] = left[q]
    BY <1>2 DEF TypeInv
  <2>3. pc'[o] \in {"fetched", "failed"} /\ (pc'[o] = "fetched" => left'[o] # <<>>)
    BY <1>1, <1>2 DEF TypeInv
  <2>4. QED
    BY <1>2, <2>1, <2>2, <2>3, LocalPhase
<1>8. LockInv'
  <2>1. Running(o)
    BY <1>1 DEF Running, Ended
  <2>2. QED
    BY <1>2, <1>5, <1>7, <2>1, LockStep DEF TypeInv
<1>9. QED
  BY <1>6, <1>7, <1>8

LEMMA UpsertBase == ASSUME BaseInv, NEW o \in Ops, Upsert(o) PROVE BaseInv'
<1> USE DEF BaseInv
<1>1. /\ pc[o] = "fetched" /\ left[o] \in Lefts /\ left[o] # <<>>
      /\ Head(left[o]) \in Names /\ Tail(left[o]) \in Lefts /\ Target[o] \in Tenants
  BY LeftTail DEF Upsert, PhaseInv, TypeInv, Tenants
<1> DEFINE t == Target[o]
           r == Head(left[o])
           row == Upserted(tables[t][r], seen[o][r])
<1>2. /\ tables' = [tables EXCEPT ![t] = [@ EXCEPT ![r] = row]]
      /\ UNCHANGED <<outside, registered, findings, scores, todo, chosen, given, wrote, crashes>>
  BY DEF Upsert
<1>3. PICK step \in {"loading", "reading", "ok"} :
        /\ pc' = [pc EXCEPT ![o] = step]
        /\ step = "loading" => Len(left[o]) > 1 /\ left' = [left EXCEPT ![o] = Tail(@)]
        /\ step = "reading" => Audits(o)
  <2>1. left' = [left EXCEPT ![o] = IF Len(left[o]) = 1 /\ Audits(o) THEN Resources ELSE Tail(@)]
    BY DEF Upsert
  <2>2. pc' = [pc EXCEPT ![o] = IF Len(left[o]) > 1 THEN "loading"
                                ELSE IF Audits(o) THEN "reading" ELSE "ok"]
    BY DEF Upsert, Goto
  <2>3. CASE Len(left[o]) > 1
    <3>1. Len(left[o]) # 1
      BY <1>1, <2>3, LeftLength
    <3>2. left' = [left EXCEPT ![o] = Tail(@)] /\ pc' = [pc EXCEPT ![o] = "loading"]
      BY <2>1, <2>2, <2>3, <3>1
    <3>3. QED
      BY <2>3, <3>2
  <2>4. CASE ~(Len(left[o]) > 1)
    BY <2>2, <2>4
  <2>5. QED
    BY <2>3, <2>4
<1>4. left' \in [Ops -> Lefts] /\ \A q \in Ops \ {o} : left'[q] = left[q]
  <2>1. Resources \in Lefts
    BY DEF Lefts
  <2>2. left' = [left EXCEPT ![o] = Resources] \/ left' = [left EXCEPT ![o] = Tail(left[o])]
    BY DEF Upsert
  <2>3. QED
    BY <1>1, <2>1, <2>2 DEF TypeInv
<1>5. seen' \in [Ops -> Tables]
  BY EmptyTable DEF Upsert, TypeInv
<1>6. tables' \in [Tenants -> Tables]
  <2>1. row \in Rows(r)
    BY <1>1, TableRows, UpsertedRows DEF TypeInv
  <2>2. QED
    BY <1>1, <1>2, <2>1, TableUpdate DEF TypeInv
<1>7. pc' \in [Ops -> Steps]
  BY <1>3 DEF TypeInv, Steps, Ended
<1>8. TypeInv'
  BY <1>2, <1>4, <1>5, <1>6, <1>7 DEF TypeInv, outside
<1>9. PhaseInv'
  <2>1. Loads(o) /\ todo[o] = <<>> /\ given[o] = {} /\ wrote[o] = {} /\ chosen[o] = None
    BY <1>1 DEF PhaseInv
  <2>2. step = "loading" => left'[o] # <<>>
    <3>1. Len(left[o]) > 1 => Tail(left[o]) # <<>>
      BY <1>1, LeftLength
    <3>2. QED
      BY <1>3, <3>1 DEF TypeInv
  <2>3. pc'[o] = step /\ \A q \in Ops \ {o} : pc'[q] = pc[q]
    BY <1>3 DEF TypeInv
  <2>4. QED
    BY <1>2, <1>3, <1>4, <2>1, <2>2, <2>3, LocalPhase
<1>10. LockInv'
  <2>1. Running(o)
    BY <1>1 DEF Running, Ended
  <2>2. QED
    BY <1>3, <1>7, <1>9, <2>1, LockStep DEF TypeInv
<1>11. QED
  BY <1>8, <1>9, <1>10

LEMMA RemoveBase == ASSUME BaseInv, NEW o \in Ops, Remove(o) PROVE BaseInv'
<1> USE DEF BaseInv
<1>1. pc[o] = "removing" /\ Target[o] \in Tenants /\ left[o] \in Lefts
  BY DEF Remove, TypeInv, Tenants
<1>2. UNCHANGED <<outside, findings, scores, seen, todo, chosen, given, wrote, crashes>>
  BY DEF Remove
<1>3. CASE left[o] # <<>>
  <2>1. /\ tables' = [tables EXCEPT ![Target[o]] = [@ EXCEPT ![Head(left[o])] = Empty[Head(left[o])]]]
        /\ left' = [left EXCEPT ![o] = Tail(left[o])] /\ UNCHANGED <<registered, pc>>
    BY <1>3 DEF Remove
  <2>2. Head(left[o]) \in Names /\ Tail(left[o]) \in Lefts
    BY <1>1, <1>3, LeftTail
  <2>3. tables' \in [Tenants -> Tables]
    BY <1>1, <2>1, <2>2, EmptyTable, TableRows, TableUpdate DEF TypeInv
  <2>4. left' \in [Ops -> Lefts]
    BY <2>1, <2>2 DEF TypeInv
  <2>5. TypeInv'
    BY <1>2, <2>1, <2>3, <2>4 DEF TypeInv, outside
  <2>6. PhaseInv'
    <3>1. \A q \in Ops \ {o} : left'[q] = left[q]
      BY <2>1 DEF TypeInv
    <3>2. QED
      BY <1>1, <1>2, <2>1, <3>1 DEF PhaseInv, Loads, Audits
  <2>7. LockInv'
    BY <2>1 DEF LockInv, Running
  <2>8. QED
    BY <2>5, <2>6, <2>7
<1>4. CASE left[o] = <<>>
  <2>1. /\ registered' = registered \ {Target[o]} /\ pc' = [pc EXCEPT ![o] = "ok"]
        /\ UNCHANGED <<tables, left>>
    BY <1>4 DEF Remove, Goto
  <2>2. TypeInv'
    BY <1>2, <2>1 DEF TypeInv, outside, Steps, Ended
  <2>3. PhaseInv'
    BY <1>1, <1>2, <2>1 DEF PhaseInv, Loads, Audits, TypeInv
  <2>4. LockInv'
    BY <2>1 DEF LockInv, Running, Ended, TypeInv
  <2>5. QED
    BY <2>2, <2>3, <2>4
<1>5. QED
  BY <1>3, <1>4

LEMMA ReadBase == ASSUME BaseInv, NEW o \in Ops, Read(o) PROVE BaseInv'
<1> USE DEF BaseInv
<1>1. /\ pc[o] = "reading" /\ Target[o] \in Tenants
      /\ Head(left[o]) \in Names /\ Tail(left[o]) \in Lefts
  BY LeftTail DEF Read, TypeInv, Tenants
<1>2. /\ seen' = [seen EXCEPT ![o] = [@ EXCEPT ![Head(left[o])] = tables[Target[o]][Head(left[o])]]]
      /\ left' = [left EXCEPT ![o] = Tail(left[o])]
      /\ UNCHANGED <<outside, db, todo, chosen, given, wrote, pc, crashes>>
  BY DEF Read
<1>3. seen' \in [Ops -> Tables]
  <2>1. [seen[o] EXCEPT ![Head(left[o])] = tables[Target[o]][Head(left[o])]] \in Tables
    BY <1>1, TableRows, TableUpdate DEF TypeInv
  <2>2. QED
    BY <1>2, <2>1 DEF TypeInv
<1>4. TypeInv'
  BY <1>1, <1>2, <1>3 DEF TypeInv, outside, db
<1>5. PhaseInv'
  <2>1. \A q \in Ops \ {o} : left'[q] = left[q]
    BY <1>2 DEF TypeInv
  <2>2. QED
    BY <1>1, <1>2, <2>1 DEF PhaseInv, Loads, Audits
<1>6. LockInv'
  BY <1>2 DEF LockInv, Running
<1>7. QED
  BY <1>4, <1>5, <1>6

LEMMA ComputeBase == ASSUME BaseInv, NEW o \in Ops, Compute(o) PROVE BaseInv'
<1> USE DEF BaseInv
<1>1. /\ pc[o] = "reading" /\ Audits(o)
      /\ seen' = [seen EXCEPT ![o] = Empty]
      /\ UNCHANGED <<outside, db, left, chosen, wrote, crashes>>
  BY DEF Compute, PhaseInv
<1>2. CASE Kind[o] = "dry"
  <2>1. pc' = [pc EXCEPT ![o] = "ok"] /\ UNCHANGED <<todo, given>>
    BY <1>2 DEF Compute, Goto
  <2>2. TypeInv'
    BY <1>1, <2>1, EmptyTable DEF TypeInv, outside, db, Steps, Ended
  <2>3. PhaseInv'
    BY <1>1, <2>1 DEF PhaseInv, Loads, Audits, TypeInv
  <2>4. LockInv'
    BY <2>1 DEF LockInv, Running, Ended, TypeInv
  <2>5. QED
    BY <2>2, <2>3, <2>4
<1>3. CASE Kind[o] # "dry"
  <2> DEFINE categories == Computed(o, seen[o])
  <2>1. categories \in Seq(SUBSET Findings)
    BY ComputedFindings DEF TypeInv
  <2>2. Ids(AllOf(categories)) \in SUBSET (Tenants \X Keys)
    <3>1. AllOf(categories) \in SUBSET Findings
      BY <2>1 DEF AllOf
    <3>2. QED
      BY <3>1, IdsOf
  <2> HIDE DEF categories
  <2>3. /\ todo' = [todo EXCEPT ![o] = categories]
        /\ given' = [given EXCEPT ![o] = Ids(AllOf(categories))]
        /\ pc' = [pc EXCEPT ![o] = "found"]
    BY <1>3 DEF Compute, Goto, categories
  <2>4. TypeInv'
    BY <1>1, <2>1, <2>2, <2>3, EmptyTable DEF TypeInv, outside, db, Steps
  <2>5. PhaseInv'
    <3>1. Kind[o] \in {"audit", "cliAudit"}
      BY <1>1, <1>3 DEF Audits
    <3>2. pc'[o] = "found" /\ chosen[o] = None
      BY <1>1, <2>3 DEF TypeInv, PhaseInv
    <3>3. \A q \in Ops \ {o} : pc'[q] = pc[q] /\ todo'[q] = todo[q] /\ given'[q] = given[q]
      BY <2>3 DEF TypeInv
    <3>4. QED
      BY <1>1, <3>1, <3>2, <3>3, LocalPhase
  <2>6. LockInv'
    BY <1>1, <2>3 DEF LockInv, Running, Ended, TypeInv
  <2>7. QED
    BY <2>4, <2>5, <2>6
<1>4. QED
  BY <1>2, <1>3

LEMMA ScoreSigninsBase == ASSUME BaseInv, NEW o \in Ops, ScoreSignins(o) PROVE BaseInv'
<1> USE DEF BaseInv
<1>1. /\ pc[o] = "scoring" /\ Kind[o] \in {"score", "cliScore"} /\ Target[o] \in Tenants
      /\ chosen[o] = None
  BY DEF ScoreSignins, PhaseInv, Tenants
<1>2. PICK S \in SUBSET Flagged(version) :
        LET alerts == {Finding(Target[o], [key |-> s, severity |-> Score(version, s)]) : s \in S} IN
        /\ todo' = [todo EXCEPT ![o] = <<alerts>>]
        /\ given' = [given EXCEPT ![o] = Ids(alerts)]
  BY DEF ScoreSignins
<1> DEFINE alerts == {Finding(Target[o], [key |-> s, severity |-> Score(version, s)]) : s \in S}
<1>3. alerts \in SUBSET Findings
  <2>1. \A s \in S : s \in Keys /\ Score(version, s) \in Severities
    BY OpsAssumption, RaisedAssumption DEF Flagged, TypeInv
  <2>2. QED
    BY <1>1, <2>1 DEF Finding, Findings
<1>4. todo' = [todo EXCEPT ![o] = <<alerts>>] /\ given' = [given EXCEPT ![o] = Ids(alerts)]
  BY <1>2
<1> HIDE DEF alerts
<1>5. /\ scores' = scores \cup {<<Target[o], s, version>> : s \in Signins}
      /\ left' = [left EXCEPT ![o] = <<>>] /\ pc' = [pc EXCEPT ![o] = "found"]
      /\ UNCHANGED <<outside, tables, registered, findings, seen, chosen, wrote, crashes>>
  BY DEF ScoreSignins, Goto
<1>6. TypeInv'
  <2>1. Ids(alerts) \in SUBSET (Tenants \X Keys) /\ <<alerts>> \in Seq(SUBSET Findings)
    BY <1>3, IdsOf
  <2>2. scores' \subseteq Tenants \X Signins \X (1..MaxVersion)
    BY <1>1, <1>5 DEF TypeInv
  <2>3. /\ todo' \in [Ops -> Seq(SUBSET Findings)]
        /\ given' \in [Ops -> SUBSET (Tenants \X Keys)]
    BY <1>4, <2>1 DEF TypeInv
  <2>4. left' \in [Ops -> Lefts] /\ pc' \in [Ops -> Steps]
    BY <1>5 DEF TypeInv, Lefts, Steps
  <2>5. QED
    BY <1>5, <2>2, <2>3, <2>4 DEF TypeInv, outside
<1>7. PhaseInv'
  <2>1. \A q \in Ops \ {o} : /\ pc'[q] = pc[q] /\ todo'[q] = todo[q] /\ given'[q] = given[q]
                             /\ left'[q] = left[q]
    BY <1>4, <1>5 DEF TypeInv
  <2>2. pc'[o] = "found"
    BY <1>5 DEF TypeInv
  <2>3. QED
    BY <1>1, <1>5, <2>1, <2>2, LocalPhase
<1>8. LockInv'
  BY <1>1, <1>5 DEF LockInv, Running, Ended, TypeInv
<1>9. QED
  BY <1>6, <1>7, <1>8

LEMMA LookBase == ASSUME BaseInv, NEW o \in Ops, Look(o) PROVE BaseInv'
<1> USE DEF BaseInv
<1>1. PICK f \in Head(todo[o]) :
        IF Known(f)
        THEN /\ todo' = [todo EXCEPT ![o] = <<RestIfKnown(o, f)>> \o Tail(todo[o])]
             /\ wrote' = wrote
             /\ UNCHANGED <<chosen, pc>>
        ELSE /\ chosen' = [chosen EXCEPT ![o] = f]
             /\ pc' = [pc EXCEPT ![o] = "missing"]
             /\ UNCHANGED <<todo, wrote>>
  <2>1. [wrote EXCEPT ![o] = wrote[o]] = wrote
    BY DEF TypeInv
  <2>2. QED
    BY <2>1 DEF Look, CountedIfKnown, Goto
<1>2. /\ pc[o] = "found" /\ todo[o] # <<>> /\ todo[o] \in Seq(SUBSET Findings)
      /\ Kind[o] \in {"audit", "cliAudit", "score", "cliScore"} /\ chosen[o] = None
      /\ UNCHANGED <<outside, db, left, seen, given, crashes>>
  BY DEF Look, TypeInv, PhaseInv
<1>3. f \in Findings /\ f # None
  BY <1>1, <1>2, Categorised, OpsAssumption
<1>4. CASE Known(f)
  <2>1. Head(todo[o]) \ {f} \in SUBSET Findings
    BY <1>2, Categorised
  <2>2. <<Head(todo[o]) \ {f}>> \o Tail(todo[o]) \in Seq(SUBSET Findings)
    BY <1>2, <2>1, Recategorised
  <2>3. todo' \in [Ops -> Seq(SUBSET Findings)]
    BY <1>1, <1>4, <2>2 DEF TypeInv, RestIfKnown
  <2>4. TypeInv'
    BY <1>1, <1>2, <1>4, <2>3 DEF TypeInv, outside, db
  <2>5. PhaseInv'
    <3>1. \A q \in Ops \ {o} : todo'[q] = todo[q]
      BY <1>1, <1>4 DEF TypeInv
    <3>2. QED
      BY <1>1, <1>2, <1>4, <3>1, LocalPhase
  <2>6. LockInv'
    BY <1>1, <1>4 DEF LockInv, Running
  <2>7. QED
    BY <2>4, <2>5, <2>6
<1>5. CASE ~Known(f)
  <2>1. chosen' \in [Ops -> Findings \cup {None}] /\ pc' \in [Ops -> Steps]
    BY <1>1, <1>3, <1>5 DEF TypeInv, Steps
  <2>2. TypeInv'
    BY <1>1, <1>2, <1>5, <2>1 DEF TypeInv, outside, db
  <2>3. PhaseInv'
    <3>1. /\ \A q \in Ops \ {o} : chosen'[q] = chosen[q] /\ pc'[q] = pc[q]
          /\ pc'[o] = "missing" /\ chosen'[o] = f
      BY <1>1, <1>5 DEF TypeInv
    <3>2. QED
      BY <1>1, <1>2, <1>5, <3>1, LocalPhase
  <2>4. LockInv'
    BY <1>1, <1>2, <1>5 DEF LockInv, Running, Ended, TypeInv
  <2>5. QED
    BY <2>2, <2>3, <2>4
<1>6. QED
  BY <1>4, <1>5

LEMMA InsertBase == ASSUME BaseInv, NEW o \in Ops, Insert(o) PROVE BaseInv'
<1> USE DEF BaseInv
<1>1. /\ pc[o] = "missing" /\ todo[o] \in Seq(SUBSET Findings) /\ todo[o] # <<>>
      /\ chosen[o] \in Head(todo[o]) /\ chosen[o] \in Findings
      /\ Kind[o] \in {"audit", "cliAudit", "score", "cliScore"}
  <2>1. /\ pc[o] = "missing" /\ todo[o] \in Seq(SUBSET Findings) /\ todo[o] # <<>>
        /\ chosen[o] \in Head(todo[o])
        /\ Kind[o] \in {"audit", "cliAudit", "score", "cliScore"}
    BY DEF Insert, TypeInv, PhaseInv
  <2>2. QED
    BY <2>1, Categorised
<1>2. /\ chosen' = [chosen EXCEPT ![o] = None]
      /\ UNCHANGED <<outside, tables, registered, scores, left, seen, crashes>>
  BY DEF Insert
<1>3. CASE chosen[o].id \notin Ids(findings)
  <2>1. /\ findings' = findings \cup {chosen[o]}
        /\ wrote' = [wrote EXCEPT ![o] = @ \cup {chosen[o].id}]
        /\ todo' = [todo EXCEPT ![o] = <<Head(@) \ {chosen[o]}>> \o Tail(@)]
        /\ pc' = [pc EXCEPT ![o] = "found"]
        /\ UNCHANGED given
    BY <1>3 DEF Insert, Goto
  <2>2. Head(todo[o]) \ {chosen[o]} \in SUBSET Findings
    BY <1>1, Categorised
  <2>3. <<Head(todo[o]) \ {chosen[o]}>> \o Tail(todo[o]) \in Seq(SUBSET Findings)
    BY <1>1, <2>2, Recategorised
  <2>4. todo' \in [Ops -> Seq(SUBSET Findings)]
    BY <2>1, <2>3 DEF TypeInv
  <2>5. chosen[o].id \in Tenants \X Keys
    BY <1>1 DEF Findings
  <2>6. wrote' \in [Ops -> SUBSET (Tenants \X Keys)]
    BY <2>1, <2>5 DEF TypeInv
  <2>7. TypeInv'
    BY <1>1, <1>2, <2>1, <2>4, <2>6 DEF TypeInv, outside, Steps
  <2>8. PhaseInv'
    <3>1. /\ \A q \in Ops \ {o} : /\ pc'[q] = pc[q] /\ todo'[q] = todo[q]
                                  /\ chosen'[q] = chosen[q] /\ wrote'[q] = wrote[q]
          /\ pc'[o] = "found" /\ chosen'[o] = None
      BY <1>2, <2>1 DEF TypeInv
    <3>2. QED
      BY <1>1, <1>2, <2>1, <3>1, LocalPhase
  <2>9. LockInv'
    BY <1>1, <2>1 DEF LockInv, Running, Ended, TypeInv
  <2>10. QED
    BY <2>7, <2>8, <2>9
<1>4. CASE chosen[o].id \in Ids(findings)
  <2>1. /\ todo' = [todo EXCEPT ![o] = <<>>]
        /\ given' = [given EXCEPT ![o] = {}]
        /\ wrote' = [wrote EXCEPT ![o] = {}]
        /\ pc' = [pc EXCEPT ![o] = "failed"]
        /\ UNCHANGED findings
    BY <1>4 DEF Insert, Goto
  <2>2. TypeInv'
    BY <1>2, <2>1 DEF TypeInv, outside, Steps, Ended
  <2>3. PhaseInv'
    <3>1. /\ \A q \in Ops \ {o} : /\ pc'[q] = pc[q] /\ todo'[q] = todo[q]
                                  /\ chosen'[q] = chosen[q] /\ wrote'[q] = wrote[q]
                                  /\ given'[q] = given[q]
          /\ pc'[o] = "failed" /\ chosen'[o] = None /\ todo'[o] = <<>>
          /\ given'[o] = {} /\ wrote'[o] = {}
      BY <1>2, <2>1 DEF TypeInv
    <3>2. QED
      BY <1>2, <3>1, LocalPhase
  <2>4. LockInv'
    BY <1>1, <2>1 DEF LockInv, Running, Ended, TypeInv
  <2>5. QED
    BY <2>2, <2>3, <2>4
<1>5. QED
  BY <1>3, <1>4

LEMMA NextCategoryBase == ASSUME BaseInv, NEW o \in Ops, NextCategory(o) PROVE BaseInv'
<1> USE DEF BaseInv
<1>1. /\ pc[o] = "found" /\ todo[o] \in Seq(SUBSET Findings) /\ chosen[o] = None
      /\ Kind[o] \in {"audit", "cliAudit", "score", "cliScore"}
      /\ UNCHANGED <<outside, db, left, seen, chosen, given, wrote, crashes>>
  BY DEF NextCategory, TypeInv, PhaseInv
<1>2. CASE todo[o] = <<>> /\ Goto(o, "ok") /\ UNCHANGED todo
  <2>1. pc' = [pc EXCEPT ![o] = "ok"]
    BY <1>2 DEF Goto
  <2>2. TypeInv'
    BY <1>1, <1>2, <2>1 DEF TypeInv, outside, db, Steps, Ended
  <2>3. PhaseInv'
    <3>1. pc'[o] = "ok" /\ \A q \in Ops \ {o} : pc'[q] = pc[q]
      BY <2>1 DEF TypeInv
    <3>2. QED
      BY <1>1, <1>2, <3>1, LocalPhase
  <2>4. LockInv'
    BY <2>1 DEF LockInv, Running, Ended, TypeInv
  <2>5. QED
    BY <2>2, <2>3, <2>4
<1>3. CASE todo[o] # <<>> /\ todo' = [todo EXCEPT ![o] = Tail(todo[o])] /\ UNCHANGED pc
  <2>1. Tail(todo[o]) \in Seq(SUBSET Findings)
    BY <1>1, <1>3, Categorised
  <2>2. TypeInv'
    BY <1>1, <1>3, <2>1 DEF TypeInv, outside, db
  <2>3. PhaseInv'
    <3>1. \A q \in Ops \ {o} : todo'[q] = todo[q]
      BY <1>3 DEF TypeInv
    <3>2. QED
      BY <1>1, <1>3, <3>1, LocalPhase
  <2>4. LockInv'
    BY <1>3 DEF LockInv, Running
  <2>5. QED
    BY <2>2, <2>3, <2>4
<1>4. QED
  BY <1>2, <1>3 DEF NextCategory

(* What a crash leaves of a table is rows of before and rows of the payload. *)
LEMMA CrashBase == ASSUME BaseInv, NEW o \in Ops, Crash(o) PROVE BaseInv'
<1> USE DEF BaseInv
<1>1. /\ Running(o) /\ crashes' = crashes + 1 /\ crashes < MaxCrashes
      /\ pc' = Cleared(pc, o, "dead")
      /\ left' = Cleared(left, o, <<>>) /\ seen' = Cleared(seen, o, Empty)
      /\ todo' = Cleared(todo, o, <<>>) /\ chosen' = Cleared(chosen, o, None)
      /\ given' = Cleared(given, o, {}) /\ wrote' = Cleared(wrote, o, {})
      /\ UNCHANGED <<outside, registered, findings, scores>>
  BY DEF Crash
<1>2. tables' \in [Tenants -> Tables]
  <2>1. Target[o] \in Tenants
    BY DEF Tenants
  <2>2. PICK S \in SUBSET (Policies \cup Users) :
          tables' = [tables EXCEPT ![Target[o]] =
                       [r \in DOMAIN Empty |-> Partly(tables[Target[o]][r], Pending(o, r), S)]]
    BY DEF Crash, TypeInv
  <2>3. ASSUME NEW r \in Names
        PROVE  Pending(o, r) \in Rows(r)
    <3>1. /\ Empty[r] \in Rows(r) /\ seen[o][r] \in Rows(r) /\ graph[Target[o]][r] \in Rows(r)
      BY <2>1, EmptyTable, TableRows DEF TypeInv
    <3>2. QED
      BY <3>1 DEF Pending
  <2> DEFINE table == [r \in Names |-> Partly(tables[Target[o]][r], Pending(o, r), S)]
  <2>4. \A r \in Names : table[r] \in Rows(r)
    BY <2>1, <2>3, TableRows, PartlyRows DEF TypeInv
  <2>5. table = [r \in Names |-> table[r]]
    OBVIOUS
  <2> HIDE DEF table
  <2>6. table \in Tables
    BY <2>4, <2>5, TableOf
  <2>7. tables' = [tables EXCEPT ![Target[o]] = table]
    BY <2>2, TableDomain DEF table
  <2>8. QED
    BY <2>1, <2>6, <2>7 DEF TypeInv
<1>3. <<>> \in Lefts /\ <<>> \in Seq(SUBSET Findings) /\ "dead" \in Steps
  BY DEF Lefts, Steps, Ended
<1>4. TypeInv'
  <2>1. /\ pc' \in [Ops -> Steps] /\ left' \in [Ops -> Lefts] /\ seen' \in [Ops -> Tables]
    BY <1>1, <1>3, EmptyTable DEF TypeInv, Cleared
  <2>2. /\ todo' \in [Ops -> Seq(SUBSET Findings)] /\ chosen' \in [Ops -> Findings \cup {None}]
        /\ given' \in [Ops -> SUBSET (Tenants \X Keys)]
        /\ wrote' \in [Ops -> SUBSET (Tenants \X Keys)]
    BY <1>1, <1>3 DEF TypeInv, Cleared
  <2>3. crashes' \in 0..MaxCrashes
    BY <1>1, StoreBoundAssumption DEF TypeInv
  <2>4. QED
    BY <1>1, <1>2, <2>1, <2>2, <2>3 DEF TypeInv, outside
<1>5. \A q \in Ops : q \in Killed(o) => /\ pc'[q] = "dead" /\ todo'[q] = <<>> /\ given'[q] = {}
                                        /\ wrote'[q] = {} /\ chosen'[q] = None
  BY <1>1 DEF Cleared
<1>6. \A q \in Ops : q \notin Killed(o) =>
        /\ pc'[q] = pc[q] /\ todo'[q] = todo[q] /\ given'[q] = given[q]
        /\ wrote'[q] = wrote[q] /\ chosen'[q] = chosen[q] /\ left'[q] = left[q]
  BY <1>1 DEF Cleared
<1>7. PhaseInv'
  BY <1>5, <1>6 DEF PhaseInv, Loads, Audits
<1>8. LockInv'
  <2>1. \A q \in Ops : Running(q)' => Running(q)
    BY <1>5, <1>6 DEF Running, Ended
  <2>2. QED
    BY <2>1 DEF LockInv
<1>9. QED
  BY <1>4, <1>7, <1>8

LEMMA EditBase ==
  ASSUME BaseInv, NEW t \in Tenants, NEW i \in DOMAIN Resources,
         NEW x \in Objects(Resources[i]), Edit(t, Resources[i], x)
  PROVE  BaseInv'
<1> USE DEF BaseInv
<1> DEFINE r == Resources[i]
<1>1. r \in Names
  BY DEF Resources, Names
<1>2. PICK c \in Contents(r) \cup {Absent} : graph' = [graph EXCEPT ![t][r][x] = c]
  BY DEF Edit
<1>3. /\ edits < MaxEdits /\ edits' = edits + 1
      /\ UNCHANGED <<version, db, local, pc, crashes>>
  BY DEF Edit
<1>4. graph[t] \in Tables /\ graph[t][r] \in Rows(r)
  BY <1>1, TableRows DEF TypeInv
<1> HIDE DEF r
<1>5. [graph[t][r] EXCEPT ![x] = c] \in Rows(r)
  BY <1>4 DEF Rows, r
<1>6. [graph[t] EXCEPT ![r] = [graph[t][r] EXCEPT ![x] = c]] \in Tables
  BY <1>1, <1>4, <1>5, TableUpdate
<1>7. graph' = [graph EXCEPT ![t] = [graph[t] EXCEPT ![r] = [graph[t][r] EXCEPT ![x] = c]]]
  BY <1>2 DEF r
<1>8. graph' \in [Tenants -> Tables]
  BY <1>6, <1>7 DEF TypeInv
<1>9. edits' \in 0..MaxEdits
  BY <1>3, StoreBoundAssumption DEF TypeInv
<1>10. TypeInv'
  BY <1>3, <1>8, <1>9 DEF TypeInv, db, local
<1>11. PhaseInv' /\ LockInv'
  BY <1>3 DEF PhaseInv, LockInv, Loads, Audits, Running, local
<1>12. QED
  BY <1>10, <1>11

LEMMA BaseStep == BaseInv /\ [Next]_vars => BaseInv'
<1> SUFFICES ASSUME BaseInv, [Next]_vars PROVE BaseInv'
  OBVIOUS
<1>1. CASE UNCHANGED vars
  BY <1>1 DEF vars, outside, db, local, BaseInv, TypeInv, PhaseInv, LockInv, Loads, Audits, Running
<1>2. ASSUME NEW o \in Ops, Step(o) PROVE BaseInv'
  BY <1>2, ConnectBase, FetchBase, UpsertBase, RemoveBase, ReadBase, ComputeBase,
     ScoreSigninsBase, LookBase, InsertBase, NextCategoryBase, CrashBase DEF Step
<1>3. CASE NewVersion
  <2>1. version' \in 1..MaxVersion
    BY <1>3, StoreBoundAssumption DEF NewVersion, BaseInv, TypeInv
  <2>2. UNCHANGED <<graph, edits, db, local, pc, crashes>>
    BY <1>3 DEF NewVersion
  <2>3. QED
    BY <2>1, <2>2 DEF db, local, BaseInv, TypeInv, PhaseInv, LockInv, Loads, Audits, Running
<1>4. QED
  BY <1>1, <1>2, <1>3, EditBase DEF Next

-----------------------------------------------------------------------------
(* What is written. *)

LogInv == WriteInv /\ CountInv /\ MissingInv /\ CommandsNeverClash

LEMMA LogInit == Init => LogInv
BY NoCategories, IdsOf DEF Init, LogInv, WriteInv, CountInv, MissingInv, CommandsNeverClash

(* A step that writes nothing and looks for nothing.                        *)
LEMMA QuietStep ==
  ASSUME LogInv, UNCHANGED <<findings, todo, chosen, given, wrote>>,
         \A o \in Ops : pc'[o] = "missing" => pc[o] = "missing",
         \A o \in Ops : pc'[o] = "failed" => pc[o] = "failed" \/ InApi(o) \/ Kind[o] = "extract"
  PROVE  LogInv'
BY DEF LogInv, WriteInv, CountInv, MissingInv, CommandsNeverClash, InApi

LEMMA FetchFails ==
  ASSUME BaseInv, NEW o \in Ops, Fetch(o)
  PROVE  \A q \in Ops : /\ pc'[q] = "missing" => pc[q] = "missing"
                        /\ pc'[q] = "failed" => pc[q] = "failed" \/ Kind[q] = "extract"
<1>1. pc' = [pc EXCEPT ![o] = "fetched"]
      \/ (Target[o] \notin Fixtures /\ pc' = [pc EXCEPT ![o] = "failed"])
  BY DEF Fetch, Goto
<1>2. pc[o] = "loading" /\ Loads(o)
  BY DEF BaseInv, PhaseInv, Fetch
<1>3. Target[o] \notin Fixtures => Kind[o] = "extract"
  BY <1>2, OpsAssumption DEF Loads
<1>4. QED
  BY <1>1, <1>3 DEF BaseInv, TypeInv

LEMMA QuietLog ==
  ASSUME BaseInv, LogInv, NEW o \in Ops,
         Connect(o) \/ Fetch(o) \/ Upsert(o) \/ Remove(o) \/ Read(o)
  PROVE  LogInv'
<1>1. UNCHANGED <<findings, todo, chosen, given, wrote>>
  BY DEF Connect, Fetch, Upsert, Remove, Read, db
<1>2. CASE Connect(o)
  <2>1. PICK step \in {"loading", "removing", "reading", "scoring", "busy"} :
          pc' = [pc EXCEPT ![o] = step]
    BY <1>2 DEF Connect, Goto, FirstStep
  <2>2. QED
    BY <1>1, <2>1, QuietStep DEF BaseInv, TypeInv
<1>3. CASE Fetch(o)
  BY <1>1, <1>3, FetchFails, QuietStep
<1>4. CASE Upsert(o)
  <2>1. PICK step \in {"loading", "reading", "ok"} : pc' = [pc EXCEPT ![o] = step]
    BY <1>4 DEF Upsert, Goto
  <2>2. QED
    BY <1>1, <2>1, QuietStep DEF BaseInv, TypeInv
<1>5. CASE Remove(o)
  <2>1. pc' = pc \/ pc' = [pc EXCEPT ![o] = "ok"]
    BY <1>5 DEF Remove, Goto
  <2>2. QED
    BY <1>1, <2>1, QuietStep DEF BaseInv, TypeInv
<1>6. CASE Read(o)
  BY <1>1, <1>6, QuietStep DEF Read
<1>7. QED
  BY <1>2, <1>3, <1>4, <1>5, <1>6

(* An operation that has its findings computed has written none of them.    *)
LEMMA ComputedLog ==
  ASSUME BaseInv, LogInv, NEW o \in Ops, NEW categories \in Seq(SUBSET Findings),
         wrote[o] = {}, todo' = [todo EXCEPT ![o] = categories],
         given' = [given EXCEPT ![o] = Ids(AllOf(categories))],
         pc' = [pc EXCEPT ![o] = "found"], UNCHANGED <<findings, chosen, wrote>>
  PROVE  LogInv'
<1>1. WriteInv'
  BY DEF BaseInv, TypeInv, LogInv, WriteInv
<1>2. CountInv'
  BY DEF LogInv, CountInv
<1>3. MissingInv' /\ CommandsNeverClash'
  BY DEF BaseInv, TypeInv, LogInv, MissingInv, CommandsNeverClash, InApi
<1>4. QED
  BY <1>1, <1>2, <1>3 DEF LogInv

LEMMA ComputeLog == ASSUME BaseInv, LogInv, NEW o \in Ops, Compute(o) PROVE LogInv'
<1>1. UNCHANGED <<findings, chosen, wrote>> /\ pc[o] = "reading" /\ wrote[o] = {}
  BY DEF Compute, db, BaseInv, PhaseInv
<1>2. CASE Kind[o] = "dry"
  <2>1. pc' = [pc EXCEPT ![o] = "ok"] /\ UNCHANGED <<todo, given>>
    BY <1>2 DEF Compute, Goto
  <2>2. QED
    BY <1>1, <2>1, QuietStep DEF BaseInv, TypeInv
<1>3. CASE Kind[o] # "dry"
  <2>1. /\ todo' = [todo EXCEPT ![o] = Computed(o, seen[o])]
        /\ given' = [given EXCEPT ![o] = Ids(AllOf(Computed(o, seen[o])))]
        /\ pc' = [pc EXCEPT ![o] = "found"]
    BY <1>3 DEF Compute, Goto
  <2>2. Computed(o, seen[o]) \in Seq(SUBSET Findings)
    BY ComputedFindings DEF BaseInv, TypeInv
  <2>3. QED
    BY <1>1, <2>1, <2>2, ComputedLog
<1>4. QED
  BY <1>2, <1>3

LEMMA ScoreSigninsLog == ASSUME BaseInv, LogInv, NEW o \in Ops, ScoreSignins(o) PROVE LogInv'
<1>1. /\ UNCHANGED <<findings, chosen, wrote>> /\ wrote[o] = {}
      /\ pc' = [pc EXCEPT ![o] = "found"]
  BY DEF ScoreSignins, Goto, BaseInv, PhaseInv
<1>2. PICK alerts : /\ todo' = [todo EXCEPT ![o] = <<alerts>>]
                    /\ given' = [given EXCEPT ![o] = Ids(alerts)]
  BY DEF ScoreSignins
<1>3. todo'[o] = <<alerts>> /\ todo'[o] \in Seq(SUBSET Findings)
  BY <1>2, ScoreSigninsBase DEF BaseInv, TypeInv
<1>4. AllOf(<<alerts>>) = alerts
  BY NoCategories
<1>5. QED
  BY <1>1, <1>2, <1>3, <1>4, ComputedLog

LEMMA LookLog == ASSUME BaseInv, LogInv, NEW o \in Ops, Look(o) PROVE LogInv'
<1>1. /\ pc[o] = "found" /\ todo[o] # <<>> /\ todo[o] \in Seq(SUBSET Findings)
      /\ UNCHANGED <<findings, given>>
  BY DEF Look, db, BaseInv, TypeInv
<1>2. AllOf(todo[o]) = Head(todo[o]) \cup AllOf(Tail(todo[o])) /\ Head(todo[o]) \in SUBSET Findings
  BY <1>1, Categorised
<1>3. PICK f \in Head(todo[o]) :
        IF Known(f)
        THEN /\ todo' = [todo EXCEPT ![o] = <<RestIfKnown(o, f)>> \o Tail(todo[o])]
             /\ wrote' = [wrote EXCEPT ![o] = CountedIfKnown(o, f)]
             /\ UNCHANGED <<chosen, pc>>
        ELSE /\ chosen' = [chosen EXCEPT ![o] = f]
             /\ pc' = [pc EXCEPT ![o] = "missing"]
             /\ UNCHANGED <<todo, wrote>>
  BY DEF Look, Goto
<1>4. CASE Known(f)
  <2> DEFINE rest == <<Head(todo[o]) \ {f}>> \o Tail(todo[o])
  <2>1. AllOf(rest) = (Head(todo[o]) \ {f}) \cup AllOf(Tail(todo[o]))
    BY <1>1, <1>2, Recategorised
  <2>2. AllOf(todo[o]) \subseteq AllOf(rest) \cup {f} /\ AllOf(rest) \subseteq AllOf(todo[o])
    BY <1>2, <2>1
  <2> HIDE DEF rest
  <2>3. Ids(AllOf(todo[o])) \subseteq Ids(AllOf(rest)) \cup {f.id}
        /\ Ids(AllOf(rest)) \subseteq Ids(AllOf(todo[o]))
    BY <2>2 DEF Ids
  <2>4. todo' = [todo EXCEPT ![o] = rest] /\ UNCHANGED <<wrote, chosen, pc>> /\ f.id \in Ids(findings)
    BY <1>3, <1>4 DEF RestIfKnown, CountedIfKnown, Known, rest, BaseInv, TypeInv
  <2>5. WriteInv'
    BY <1>1, <2>3, <2>4 DEF BaseInv, TypeInv, LogInv, WriteInv
  <2>6. QED
    BY <1>1, <2>4, <2>5 DEF LogInv, CountInv, MissingInv, CommandsNeverClash, InApi
<1>5. CASE ~Known(f)
  <2>1. /\ chosen' = [chosen EXCEPT ![o] = f] /\ pc' = [pc EXCEPT ![o] = "missing"]
        /\ UNCHANGED <<todo, wrote>> /\ f.id \notin Ids(findings)
    BY <1>3, <1>5 DEF Known
  <2>2. WriteInv' /\ CountInv'
    BY <1>1, <2>1 DEF LogInv, WriteInv, CountInv
  <2>3. MissingInv' /\ CommandsNeverClash'
    BY <1>1, <2>1 DEF BaseInv, TypeInv, LogInv, MissingInv, CommandsNeverClash, InApi
  <2>4. QED
    BY <2>2, <2>3 DEF LogInv
<1>6. QED
  BY <1>4, <1>5

(* An INSERT that goes through records the finding chosen; it is refused    *)
(* only to a request.                                                       *)
LEMMA InsertLog == ASSUME BaseInv, LogInv, NEW o \in Ops, Insert(o) PROVE LogInv'
<1>1. /\ pc[o] = "missing" /\ todo[o] # <<>> /\ todo[o] \in Seq(SUBSET Findings)
      /\ chosen[o] \in Head(todo[o]) /\ Running(o)
  BY DEF Insert, BaseInv, TypeInv, PhaseInv, Running, Ended
<1>2. AllOf(todo[o]) = Head(todo[o]) \cup AllOf(Tail(todo[o])) /\ Head(todo[o]) \in SUBSET Findings
  BY <1>1, Categorised
<1> DEFINE f == chosen[o]
           rest == <<Head(todo[o]) \ {f}>> \o Tail(todo[o])
<1>3. f.id \in Ids(AllOf(todo[o])) /\ f.id \in given[o]
  BY <1>1, <1>2 DEF Ids, LogInv, WriteInv
<1>4. CASE f.id \notin Ids(findings)
  <2>1. /\ findings' = findings \cup {f}
        /\ wrote' = [wrote EXCEPT ![o] = @ \cup {f.id}]
        /\ todo' = [todo EXCEPT ![o] = rest]
        /\ chosen' = [chosen EXCEPT ![o] = None]
        /\ pc' = [pc EXCEPT ![o] = "found"]
        /\ UNCHANGED given
    BY <1>4 DEF Insert, Goto
  <2>2. AllOf(rest) = (Head(todo[o]) \ {f}) \cup AllOf(Tail(todo[o]))
    BY <1>1, <1>2, Recategorised
  <2>3. AllOf(todo[o]) \subseteq AllOf(rest) \cup {f} /\ AllOf(rest) \subseteq AllOf(todo[o])
    BY <1>2, <2>2
  <2> HIDE DEF rest, f
  <2>4. Ids(AllOf(todo[o])) \subseteq Ids(AllOf(rest)) \cup {f.id}
        /\ Ids(AllOf(rest)) \subseteq Ids(AllOf(todo[o]))
    BY <2>3 DEF Ids
  <2>5. Ids(findings') = Ids(findings) \cup {f.id}
    BY <2>1 DEF Ids
  <2>6. WriteInv'
    BY <1>3, <2>1, <2>4, <2>5 DEF BaseInv, TypeInv, LogInv, WriteInv
  <2>7. CountInv'
    <3>1. \A q \in Ops : f.id \notin wrote[q]
      BY <1>4 DEF LogInv, WriteInv
    <3>2. QED
      BY <2>1, <3>1 DEF BaseInv, TypeInv, LogInv, CountInv
  <2>8. MissingInv'
    <3>1. ASSUME NEW q \in Ops, pc'[q] = "missing" PROVE InApi(q)
      <4>1. q # o /\ pc[q] = "missing"
        BY <2>1, <3>1 DEF BaseInv, TypeInv
      <4>2. Running(q)
        BY <4>1 DEF Running, Ended
      <4>3. QED
        BY <1>1, <4>1, <4>2 DEF BaseInv, LockInv
    <3>2. QED
      BY <3>1 DEF MissingInv, InApi
  <2>9. CommandsNeverClash'
    BY <2>1 DEF BaseInv, TypeInv, LogInv, CommandsNeverClash, InApi
  <2>10. QED
    BY <2>6, <2>7, <2>8, <2>9 DEF LogInv
<1>5. CASE f.id \in Ids(findings)
  <2>1. /\ todo' = [todo EXCEPT ![o] = <<>>] /\ given' = [given EXCEPT ![o] = {}]
        /\ wrote' = [wrote EXCEPT ![o] = {}] /\ chosen' = [chosen EXCEPT ![o] = None]
        /\ pc' = [pc EXCEPT ![o] = "failed"] /\ UNCHANGED findings
    BY <1>5 DEF Insert, Goto
  <2>2. WriteInv'
    BY <2>1, NoCategories, IdsOf DEF BaseInv, TypeInv, LogInv, WriteInv
  <2>3. CountInv'
    BY <2>1 DEF BaseInv, TypeInv, LogInv, CountInv
  <2>4. MissingInv'
    BY <2>1 DEF BaseInv, TypeInv, LogInv, MissingInv, InApi
  <2>5. InApi(o)
    BY <1>1, <1>5 DEF LogInv, MissingInv
  <2>6. CommandsNeverClash'
    BY <2>1, <2>5 DEF BaseInv, TypeInv, LogInv, CommandsNeverClash, InApi
  <2>7. QED
    BY <2>2, <2>3, <2>4, <2>6 DEF LogInv
<1>6. QED
  BY <1>4, <1>5

LEMMA NextCategoryLog == ASSUME BaseInv, LogInv, NEW o \in Ops, NextCategory(o) PROVE LogInv'
<1>1. pc[o] = "found" /\ UNCHANGED <<findings, chosen, given, wrote>>
  BY DEF NextCategory, db
<1>2. CASE pc' = [pc EXCEPT ![o] = "ok"] /\ UNCHANGED todo
  BY <1>1, <1>2, QuietStep DEF BaseInv, TypeInv
<1>3. CASE /\ todo[o] # <<>> /\ Head(todo[o]) = {}
           /\ todo' = [todo EXCEPT ![o] = Tail(todo[o])] /\ UNCHANGED pc
  <2>1. AllOf(todo[o]) = AllOf(Tail(todo[o]))
    BY <1>3, Categorised DEF BaseInv, TypeInv
  <2>2. WriteInv'
    BY <1>1, <1>3, <2>1 DEF BaseInv, TypeInv, LogInv, WriteInv
  <2>3. QED
    BY <1>1, <1>3, <2>2 DEF LogInv, CountInv, MissingInv, CommandsNeverClash, InApi
<1>4. QED
  BY <1>2, <1>3 DEF NextCategory, Goto

LEMMA CrashLog == ASSUME BaseInv, LogInv, NEW o \in Ops, Crash(o) PROVE LogInv'
<1>1. /\ \A q \in Ops : q \in Killed(o) =>
           pc'[q] = "dead" /\ todo'[q] = <<>> /\ given'[q] = {} /\ wrote'[q] = {}
      /\ \A q \in Ops : q \notin Killed(o) =>
           /\ pc'[q] = pc[q] /\ todo'[q] = todo[q] /\ chosen'[q] = chosen[q]
           /\ given'[q] = given[q] /\ wrote'[q] = wrote[q]
      /\ UNCHANGED findings
  BY DEF Crash, Cleared
<1>2. WriteInv'
  BY <1>1, NoCategories, IdsOf DEF LogInv, WriteInv
<1>3. CountInv'
  BY <1>1 DEF LogInv, CountInv
<1>4. MissingInv' /\ CommandsNeverClash'
  BY <1>1 DEF LogInv, MissingInv, CommandsNeverClash, InApi
<1>5. QED
  BY <1>2, <1>3, <1>4 DEF LogInv

LEMMA LogStep == BaseInv /\ LogInv /\ [Next]_vars => LogInv'
<1> SUFFICES ASSUME BaseInv, LogInv, [Next]_vars PROVE LogInv'
  OBVIOUS
<1>1. CASE UNCHANGED <<db, local, pc>>
  BY <1>1, QuietStep DEF db, local
<1>2. ASSUME NEW o \in Ops, Step(o) PROVE LogInv'
  BY <1>2, QuietLog, ComputeLog, ScoreSigninsLog, LookLog, InsertLog, NextCategoryLog, CrashLog
     DEF Step
<1>3. QED
  BY <1>1, <1>2 DEF Next, Edit, NewVersion, vars

-----------------------------------------------------------------------------
(* What is read and what is loaded. *)

Done(l) == {r \in Names : \A i \in DOMAIN l : l[i] # r}

LEMMA DoneIs ==
  /\ Done(Resources) = {} /\ Done(<<>>) = Names
  /\ \A l \in Lefts : l # <<>> => /\ Head(l) \in Names \ Done(l)
                                  /\ Done(Tail(l)) = Done(l) \cup {Head(l)}
<1>1. /\ Resources = <<"policies", "users">> /\ Tail(Resources) = <<"users">>
      /\ Head(Resources) = "policies" /\ Head(<<"users">>) = "users" /\ Tail(<<"users">>) = <<>>
  BY DEF Resources
<1>2. Done(<<"policies", "users">>) = {} /\ Done(<<"users">>) = {"policies"} /\ Done(<<>>) = Names
  BY DEF Done, Names
<1>3. QED
  BY <1>1, <1>2 DEF Lefts, Names

LEMMA SourcesAre == \A o \in Ops : Sources(o) = Done(left[o])
BY TableDomain DEF Sources, Done

(* AuditsSeeTables and ExtractInv, of one operation.                        *)
AuditSees(o) == Audits(o) =>
  /\ pc[o] = "reading" => \A r \in Sources(o) : seen[o][r] = tables[Target[o]][r]
  /\ pc[o] \in {"found", "missing"} => given[o] = Ids(AllOf(Computed(o, tables[Target[o]])))
HasLoaded(o) == pc[o] \in {"loading", "fetched"} =>
  /\ \A r \in Sources(o) : \A x \in Objects(r) :
       seen[o][r][x] # Absent => tables[Target[o]][r][x] = seen[o][r][x]
  /\ Target[o] \in Fixtures =>
       \A r \in Names : r \in Sources(o) \/ (pc[o] = "fetched" /\ r = Head(left[o]))
                         => seen[o][r] = graph[Target[o]][r]
TableInv == \A o \in Ops : AuditSees(o) /\ HasLoaded(o)

LEMMA TableInvIs == TableInv <=> AuditsSeeTables /\ ExtractInv
BY DEF TableInv, AuditSees, HasLoaded, AuditsSeeTables, ExtractInv

LEMMA NotAtWork ==
  ASSUME NEW o \in Ops, ~Running(o)'
  PROVE  AuditSees(o)' /\ HasLoaded(o)'
BY DEF Running, Ended, AuditSees, HasLoaded

LEMMA TableInit == Init => TableInv
BY DEF Init, TableInv, AuditSees, HasLoaded

(* An operation that takes no step keeps what it has: while it runs, nobody *)
(* else changes the tables, and a fixture's bundle nobody changes at all.   *)
LEMMA Bystander ==
  ASSUME TableInv, NEW q \in Ops,
         pc'[q] = pc[q], left'[q] = left[q], seen'[q] = seen[q], given'[q] = given[q],
         tables' = tables \/ ~Running(q),
         Target[q] \in Fixtures => graph'[Target[q]] = graph[Target[q]]
  PROVE  AuditSees(q)' /\ HasLoaded(q)'
<1>1. CASE ~Running(q)
  <2>1. ~Running(q)'
    BY <1>1 DEF Running
  <2>2. QED
    BY <2>1, NotAtWork
<1>2. CASE tables' = tables
  <2>1. AuditSees(q) /\ HasLoaded(q)
    BY DEF TableInv
  <2>2. AuditSees(q)'
    BY <1>2, <2>1 DEF AuditSees, Audits, Sources, Computed
  <2>3. HasLoaded(q)'
    BY <1>2, <2>1 DEF HasLoaded, Sources
  <2>4. QED
    BY <2>2, <2>3
<1>3. QED
  BY <1>1, <1>2

LEMMA Others ==
  ASSUME BaseInv, NEW o \in Ops, Step(o), ~Crash(o)
  PROVE  /\ \A q \in Ops \ {o} : /\ pc'[q] = pc[q] /\ left'[q] = left[q] /\ seen'[q] = seen[q]
                                 /\ given'[q] = given[q]
         /\ graph' = graph
         /\ tables' = tables \/ \A q \in Ops \ {o} : ~Running(q)
<1>1. CASE Fetch(o) \/ Upsert(o) \/ Remove(o)
  <2>1. pc[o] \in {"loading", "fetched"} => Loads(o)
    BY DEF BaseInv, PhaseInv
  <2>2. Running(o) /\ ~InApi(o)
    <3>1. pc[o] \in {"loading", "fetched", "removing"}
      BY <1>1 DEF Fetch, Upsert, Remove
    <3>2. Kind[o] \in {"extract", "load", "cliAudit", "remove"}
      BY <2>1, <3>1 DEF Loads, BaseInv, PhaseInv
    <3>3. QED
      BY <3>1, <3>2 DEF Running, Ended, InApi
  <2>3. \A q \in Ops \ {o} : ~Running(q)
    BY <2>2 DEF BaseInv, LockInv
  <2>4. \A q \in Ops \ {o} : pc'[q] = pc[q] /\ left'[q] = left[q]
    BY <1>1 DEF Fetch, Upsert, Remove, Goto, BaseInv, TypeInv
  <2>5. \A q \in Ops \ {o} : seen'[q] = seen[q]
    BY <1>1 DEF Fetch, Upsert, Remove, BaseInv, TypeInv
  <2>6. given' = given /\ graph' = graph
    BY <1>1 DEF Fetch, Upsert, Remove, outside
  <2>7. QED
    BY <2>3, <2>4, <2>5, <2>6
<1>2. CASE Connect(o) \/ Read(o) \/ Compute(o)
  <2>1. tables' = tables /\ graph' = graph
    BY <1>2 DEF Connect, Read, Compute, outside, db
  <2>2. \A q \in Ops \ {o} : pc'[q] = pc[q] /\ left'[q] = left[q]
    BY <1>2 DEF Connect, Read, Compute, Goto, BaseInv, TypeInv
  <2>3. \A q \in Ops \ {o} : seen'[q] = seen[q] /\ given'[q] = given[q]
    BY <1>2 DEF Connect, Read, Compute, BaseInv, TypeInv
  <2>4. QED
    BY <2>1, <2>2, <2>3
<1>3. CASE ScoreSignins(o) \/ Look(o) \/ Insert(o) \/ NextCategory(o)
  <2>1. tables' = tables /\ graph' = graph /\ seen' = seen
    BY <1>3 DEF ScoreSignins, Look, Insert, NextCategory, outside, db
  <2>2. \A q \in Ops \ {o} : pc'[q] = pc[q] /\ left'[q] = left[q]
    BY <1>3 DEF ScoreSignins, Look, Insert, NextCategory, Goto, BaseInv, TypeInv
  <2>3. \A q \in Ops \ {o} : given'[q] = given[q]
    BY <1>3 DEF ScoreSignins, Look, Insert, NextCategory, BaseInv, TypeInv
  <2>4. QED
    BY <2>1, <2>2, <2>3
<1>4. QED
  BY <1>1, <1>2, <1>3 DEF Step

LEMMA FetchTables ==
  ASSUME BaseInv, TableInv, NEW o \in Ops, Fetch(o)
  PROVE  AuditSees(o)' /\ HasLoaded(o)'
<1> DEFINE t == Target[o]
           r == Head(left[o])
<1>1. /\ pc[o] = "loading" /\ t \in Tenants /\ r \in Names \ Done(left[o])
      /\ left[o] \in Lefts
  BY DoneIs DEF Fetch, BaseInv, TypeInv, PhaseInv, Tenants
<1>2. CASE pc' = [pc EXCEPT ![o] = "failed"]
  BY <1>2, NotAtWork DEF Running, Ended, BaseInv, TypeInv
<1>3. CASE /\ seen' = [seen EXCEPT ![o] = [@ EXCEPT ![r] = graph[t][r]]]
           /\ \/ tables' = tables
              \/ t \in Fixtures /\ tables' = [tables EXCEPT ![t] = Hydrated(t)]
           /\ pc' = [pc EXCEPT ![o] = "fetched"] /\ left' = left /\ graph' = graph
  <2>1. \A n \in Names : seen'[o][n] = IF n = r THEN graph[t][r] ELSE seen[o][n]
    <3>1. graph[t][r] \in Rows(r)
      BY <1>1, TableRows DEF BaseInv, TypeInv
    <3>2. seen[o] \in Tables /\ seen'[o] = [seen[o] EXCEPT ![r] = graph[t][r]]
      BY <1>3 DEF BaseInv, TypeInv
    <3>3. QED
      BY <1>1, <3>1, <3>2, TableUpdate
  <2>2. Sources(o) = Done(left[o]) /\ Sources(o)' = Done(left[o]) /\ Done(left[o]) \subseteq Names
    BY <1>3, TableDomain DEF Sources, Done
  <2>3. pc'[o] = "fetched" /\ left'[o] = left[o]
    BY <1>3 DEF BaseInv, TypeInv
  <2>4. t \in Fixtures => \A n \in Done(left[o]) : seen[o][n] = graph[t][n]
    BY <1>1, <2>2 DEF TableInv, HasLoaded
  <2>5. ASSUME NEW n \in Done(left[o]), NEW x \in Objects(n), seen[o][n][x] # Absent
        PROVE  tables'[t][n][x] = seen[o][n][x]
    <3>1. n \in Names /\ tables[t][n][x] = seen[o][n][x]
      BY <1>1, <2>2, <2>5 DEF TableInv, HasLoaded
    <3>2. CASE t \in Fixtures /\ tables' = [tables EXCEPT ![t] = Hydrated(t)]
      <4>1. tables'[t][n] = Upserted(tables[t][n], graph[t][n])
        BY <1>1, <3>1, <3>2, TableDomain DEF Hydrated, BaseInv, TypeInv
      <4>2. tables[t][n] \in Rows(n) /\ graph[t][n] \in Rows(n)
        BY <1>1, <3>1, TableRows DEF BaseInv, TypeInv
      <4>3. seen[o][n] = graph[t][n]
        BY <2>4, <3>2
      <4>4. QED
        BY <2>5, <3>1, <4>1, <4>2, <4>3, UpsertedRows
    <3>3. QED
      BY <1>3, <3>1, <3>2
  <2>6. \A n \in Done(left[o]) : n \in Names /\ n # r
    BY <1>1, <2>2
  <2>7. HasLoaded(o)'
    <3>1. \A n \in Sources(o)' : \A x \in Objects(n) :
            seen'[o][n][x] # Absent => tables'[t][n][x] = seen'[o][n][x]
      BY <2>1, <2>2, <2>5, <2>6
    <3>2. t \in Fixtures => \A n \in Names : n \in Sources(o)' \/ n = r => seen'[o][n] = graph'[t][n]
      BY <1>3, <2>1, <2>2, <2>4
    <3>3. QED
      BY <2>3, <3>1, <3>2 DEF HasLoaded
  <2>8. AuditSees(o)'
    BY <2>3 DEF AuditSees
  <2>9. QED
    BY <2>7, <2>8
<1>4. QED
  BY <1>2, <1>3, Others DEF Fetch, Goto, Step, outside

LEMMA UpsertTables ==
  ASSUME BaseInv, TableInv, NEW o \in Ops, Upsert(o)
  PROVE  AuditSees(o)' /\ HasLoaded(o)'
<1> DEFINE t == Target[o]
           r == Head(left[o])
<1>1. /\ pc[o] = "fetched" /\ t \in Tenants /\ left[o] \in Lefts /\ left[o] # <<>>
      /\ r \in Names /\ r \notin Done(left[o])
      /\ Done(Tail(left[o])) = Done(left[o]) \cup {r} /\ Done(left[o]) \subseteq Names
  BY DoneIs DEF Upsert, BaseInv, TypeInv, PhaseInv, Tenants, Done
<1>2. CASE Len(left[o]) > 1
  <2>1. Len(left[o]) # 1
    BY <1>1, <1>2, LeftLength
  <2>2. /\ pc' = [pc EXCEPT ![o] = "loading"] /\ left' = [left EXCEPT ![o] = Tail(left[o])]
        /\ seen' = seen /\ graph' = graph
        /\ tables' = [tables EXCEPT ![t][r] = Upserted(tables[t][r], seen[o][r])]
    BY <1>2, <2>1 DEF Upsert, Goto, outside
  <2>3. /\ tables[t] \in Tables /\ tables[t][r] \in Rows(r) /\ seen[o][r] \in Rows(r)
        /\ Upserted(tables[t][r], seen[o][r]) \in Rows(r)
    BY <1>1, TableRows, UpsertedRows DEF BaseInv, TypeInv
  <2>4. \A n \in Names : tables'[t][n] = IF n = r THEN Upserted(tables[t][r], seen[o][r])
                                        ELSE tables[t][n]
    <3>1. tables'[t] = [tables[t] EXCEPT ![r] = Upserted(tables[t][r], seen[o][r])]
      BY <1>1, <2>2 DEF BaseInv, TypeInv
    <3>2. QED
      BY <1>1, <2>3, <3>1, TableUpdate
  <2>5. Sources(o) = Done(left[o]) /\ Sources(o)' = Done(left[o]) \cup {r}
    <3>1. left'[o] = Tail(left[o])
      BY <2>2 DEF BaseInv, TypeInv
    <3>2. Sources(o)' = Done(left'[o])
      BY TableDomain DEF Sources, Done
    <3>3. QED
      BY <1>1, <3>1, <3>2, SourcesAre
  <2>6. pc'[o] = "loading"
    BY <2>2 DEF BaseInv, TypeInv
  <2>7. ASSUME NEW n \in Sources(o)', NEW x \in Objects(n), seen[o][n][x] # Absent
        PROVE  tables'[t][n][x] = seen[o][n][x]
    <3>1. CASE n = r
      BY <1>1, <2>3, <2>4, <2>7, <3>1, UpsertedRows
    <3>2. CASE n # r
      <4>1. n \in Sources(o) /\ n \in Names
        BY <1>1, <2>5, <3>2
      <4>2. tables[t][n][x] = seen[o][n][x]
        BY <1>1, <2>7, <4>1 DEF TableInv, HasLoaded
      <4>3. QED
        BY <2>4, <3>2, <4>1, <4>2
    <3>3. QED
      BY <3>1, <3>2
  <2>8. t \in Fixtures => \A n \in Sources(o)' : seen[o][n] = graph[t][n]
    BY <1>1, <2>5 DEF TableInv, HasLoaded
  <2>9. HasLoaded(o)'
    BY <2>2, <2>6, <2>7, <2>8 DEF HasLoaded
  <2>10. AuditSees(o)'
    BY <2>6 DEF AuditSees
  <2>11. QED
    BY <2>9, <2>10
<1>3. CASE ~(Len(left[o]) > 1) /\ Audits(o)
  <2>1. pc' = [pc EXCEPT ![o] = "reading"] /\ left' = [left EXCEPT ![o] = Resources]
    <3>1. Len(left[o]) = 1
      BY <1>1, <1>3 DEF Lefts, Resources
    <3>2. QED
      BY <1>3, <3>1 DEF Upsert, Goto
  <2>2. pc'[o] = "reading" /\ left'[o] = Resources
    BY <2>1 DEF BaseInv, TypeInv
  <2>3. Sources(o)' = {}
    <3>1. Sources(o)' = Done(left'[o])
      BY TableDomain DEF Sources, Done
    <3>2. QED
      BY <2>2, <3>1, DoneIs
  <2>4. QED
    BY <2>2, <2>3 DEF AuditSees, HasLoaded
<1>4. CASE ~(Len(left[o]) > 1) /\ ~Audits(o)
  <2>1. pc' = [pc EXCEPT ![o] = "ok"]
    BY <1>4 DEF Upsert, Goto
  <2>2. QED
    BY <2>1, NotAtWork DEF Running, Ended, BaseInv, TypeInv
<1>5. QED
  BY <1>2, <1>3, <1>4

LEMMA ReadTables ==
  ASSUME BaseInv, TableInv, NEW o \in Ops, Read(o)
  PROVE  AuditSees(o)' /\ HasLoaded(o)'
<1> DEFINE t == Target[o]
           r == Head(left[o])
<1>1. /\ pc[o] = "reading" /\ Audits(o) /\ t \in Tenants /\ left[o] \in Lefts /\ left[o] # <<>>
      /\ r \in Names /\ r \notin Done(left[o])
      /\ Done(Tail(left[o])) = Done(left[o]) \cup {r} /\ Done(left[o]) \subseteq Names
  BY DoneIs DEF Read, BaseInv, TypeInv, PhaseInv, Tenants, Done
<1>2. /\ seen' = [seen EXCEPT ![o] = [@ EXCEPT ![r] = tables[t][r]]]
      /\ left' = [left EXCEPT ![o] = Tail(left[o])] /\ UNCHANGED <<tables, pc>>
  BY DEF Read, db
<1>3. \A n \in Names : seen'[o][n] = IF n = r THEN tables[t][r] ELSE seen[o][n]
  <2>1. tables[t][r] \in Rows(r)
    BY <1>1, TableRows DEF BaseInv, TypeInv
  <2>2. seen[o] \in Tables /\ seen'[o] = [seen[o] EXCEPT ![r] = tables[t][r]]
    BY <1>2 DEF BaseInv, TypeInv
  <2>3. QED
    BY <1>1, <2>1, <2>2, TableUpdate
<1>4. Sources(o) = Done(left[o]) /\ Sources(o)' = Done(left[o]) \cup {r}
  <2>1. left'[o] = Tail(left[o])
    BY <1>2 DEF BaseInv, TypeInv
  <2>2. Sources(o)' = Done(left'[o])
    BY TableDomain DEF Sources, Done
  <2>3. QED
    BY <1>1, <2>1, <2>2, SourcesAre
<1>5. \A n \in Done(left[o]) : seen[o][n] = tables[t][n]
  BY <1>1, <1>4 DEF TableInv, AuditSees
<1>6. \A n \in Sources(o)' : seen'[o][n] = tables'[t][n]
  BY <1>1, <1>2, <1>3, <1>4, <1>5
<1>7. QED
  BY <1>1, <1>2, <1>6 DEF AuditSees, HasLoaded

LEMMA ComputeTables ==
  ASSUME BaseInv, TableInv, NEW o \in Ops, Compute(o)
  PROVE  AuditSees(o)' /\ HasLoaded(o)'
<1>1. /\ pc[o] = "reading" /\ Audits(o) /\ left[o] = <<>> /\ tables' = tables
      /\ seen[o] \in Tables /\ tables[Target[o]] \in Tables
  BY DEF Compute, db, BaseInv, TypeInv, PhaseInv, Tenants
<1>2. seen[o] = tables[Target[o]]
  <2>1. \A r \in Names : seen[o][r] = tables[Target[o]][r]
    BY <1>1, SourcesAre, DoneIs DEF TableInv, AuditSees
  <2>2. QED
    BY <1>1, <2>1, TableEqual
<1>3. CASE Kind[o] = "dry"
  BY <1>3, NotAtWork DEF Compute, Goto, Running, Ended, BaseInv, TypeInv
<1>4. CASE Kind[o] # "dry"
  <2>1. /\ given'[o] = Ids(AllOf(Computed(o, tables[Target[o]]))) /\ pc'[o] = "found"
    BY <1>2, <1>4 DEF Compute, Goto, BaseInv, TypeInv
  <2>2. QED
    BY <1>1, <2>1 DEF AuditSees, HasLoaded, Computed
<1>5. QED
  BY <1>3, <1>4

LEMMA OtherTables ==
  ASSUME BaseInv, TableInv, NEW o \in Ops,
         Connect(o) \/ Remove(o) \/ ScoreSignins(o) \/ Look(o) \/ Insert(o) \/ NextCategory(o)
  PROVE  AuditSees(o)' /\ HasLoaded(o)'
<1>1. CASE Connect(o)
  <2>1. CASE MayOpen(o)
    <3>1. left'[o] = Resources /\ pc'[o] = FirstStep(o)
      BY <1>1, <2>1 DEF Connect, Goto, BaseInv, TypeInv
    <3>2. Sources(o)' = {}
      <4>1. Sources(o)' = Done(left'[o])
        BY TableDomain DEF Sources, Done
      <4>2. QED
        BY <3>1, <4>1, DoneIs
    <3>3. pc'[o] \notin {"found", "missing", "fetched"}
      BY <3>1 DEF FirstStep
    <3>4. QED
      BY <3>2, <3>3 DEF AuditSees, HasLoaded
  <2>2. CASE ~MayOpen(o)
    BY <1>1, <2>2, NotAtWork DEF Connect, Goto, Running, Ended, BaseInv, TypeInv
  <2>3. QED
    BY <2>1, <2>2
<1>2. CASE Remove(o)
  <2>1. pc'[o] \in {"removing", "ok"}
    BY <1>2 DEF Remove, Goto, BaseInv, TypeInv
  <2>2. QED
    BY <2>1 DEF AuditSees, HasLoaded
<1>3. CASE ScoreSignins(o)
  <2>1. pc'[o] = "found" /\ ~Audits(o)
    BY <1>3 DEF ScoreSignins, Goto, BaseInv, TypeInv, PhaseInv, Audits
  <2>2. QED
    BY <2>1 DEF AuditSees, HasLoaded, Audits
<1>4. CASE Look(o) \/ Insert(o) \/ NextCategory(o)
  <2>1. pc[o] \in {"found", "missing"} /\ tables' = tables
    BY <1>4 DEF Look, Insert, NextCategory, db
  <2>2. ~Running(o)' \/ (pc'[o] \in {"found", "missing"} /\ given' = given)
    <3>1. CASE Look(o)
      <4>1. pc'[o] \in {"found", "missing"}
        BY <3>1 DEF Look, Goto, BaseInv, TypeInv
      <4>2. QED
        BY <3>1, <4>1 DEF Look
    <3>2. CASE Insert(o)
      BY <3>2 DEF Insert, Goto, Running, Ended, BaseInv, TypeInv
    <3>3. CASE NextCategory(o)
      BY <3>3 DEF NextCategory, Goto, Running, Ended, BaseInv, TypeInv
    <3>4. QED
      BY <1>4, <3>1, <3>2, <3>3
  <2>3. CASE pc'[o] \in {"found", "missing"} /\ given' = given
    BY <2>1, <2>3 DEF AuditSees, HasLoaded, TableInv, Audits, Computed
  <2>4. QED
    BY <2>2, <2>3, NotAtWork
<1>5. QED
  BY <1>1, <1>2, <1>3, <1>4

(* A crash ends everything that runs: whoever shares the file with the      *)
(* process killed is in it.                                                 *)
LEMMA CrashTables ==
  ASSUME BaseInv, NEW o \in Ops, Crash(o), NEW q \in Ops
  PROVE  ~Running(q)'
<1>1. Running(q) => q \in Killed(o)
  BY DEF Crash, Killed, BaseInv, LockInv
<1>2. pc'[q] = IF q \in Killed(o) THEN "dead" ELSE pc[q]
  BY DEF Crash, Cleared
<1>3. QED
  BY <1>1, <1>2 DEF Running, Ended

LEMMA TableStep == BaseInv /\ TableInv /\ [Next]_vars => TableInv'
<1> SUFFICES ASSUME BaseInv, TableInv, [Next]_vars, NEW q \in Ops
             PROVE  AuditSees(q)' /\ HasLoaded(q)'
  BY DEF TableInv
<1>1. ASSUME NEW o \in Ops, Step(o) PROVE AuditSees(q)' /\ HasLoaded(q)'
  <2>1. CASE Crash(o)
    BY <2>1, CrashTables, NotAtWork
  <2>2. CASE ~Crash(o) /\ q = o
    BY <1>1, <2>2, FetchTables, UpsertTables, ReadTables, ComputeTables, OtherTables DEF Step
  <2>3. CASE ~Crash(o) /\ q # o
    BY <1>1, <2>3, Others, Bystander
  <2>4. QED
    BY <2>1, <2>2, <2>3
<1>2. ASSUME NEW t \in Tenants, NEW i \in DOMAIN Resources, NEW x \in Objects(Resources[i]),
             Edit(t, Resources[i], x)
      PROVE  AuditSees(q)' /\ HasLoaded(q)'
  <2>1. /\ pc' = pc /\ left' = left /\ seen' = seen /\ given' = given /\ tables' = tables
        /\ t \notin Fixtures
    BY <1>2 DEF Edit, db, local
  <2>2. \A u \in Tenants \ {t} : graph'[u] = graph[u]
    BY <1>2 DEF Edit, BaseInv, TypeInv
  <2>3. Target[q] \in Fixtures => graph'[Target[q]] = graph[Target[q]]
    BY <2>1, <2>2 DEF Tenants
  <2>4. QED
    BY <2>1, <2>3, Bystander
<1>3. CASE UNCHANGED <<graph, db, local, pc>>
  BY <1>3, Bystander DEF db, local
<1>4. QED
  BY <1>1, <1>2, <1>3 DEF Next, NewVersion, vars, outside

-----------------------------------------------------------------------------
(* The theorems. *)

LEMMA Invariance == Spec => [](BaseInv /\ LogInv /\ TableInv)
<1>1. Init => BaseInv /\ LogInv /\ TableInv
  BY BaseInit, LogInit, TableInit
<1>2. BaseInv /\ LogInv /\ TableInv /\ [Next]_vars => (BaseInv /\ LogInv /\ TableInv)'
  BY BaseStep, LogStep, TableStep
<1>3. QED
  BY <1>1, <1>2, PTL DEF Spec

(* Every variable has its type; an operation has a finding chosen just when *)
(* its SELECT found none, and nothing to write but what it computed.        *)
THEOREM TypeCorrect == Spec => []TypeOK
<1>1. BaseInv /\ LogInv => TypeOK
  <2> SUFFICES ASSUME BaseInv, LogInv, NEW o \in Ops
               PROVE  /\ chosen[o] # None <=> pc[o] = "missing"
                      /\ todo[o] # <<>> => pc[o] \in {"found", "missing"}
                      /\ left[o] \in {Resources, Tail(Resources), <<>>}
                      /\ AllOf(todo[o]) # {} => Ids(AllOf(todo[o])) \subseteq given[o]
                      /\ wrote[o] \subseteq given[o]
    BY DEF TypeOK, BaseInv, TypeInv
  <2>1. chosen[o] # None <=> pc[o] = "missing"
    <3>1. pc[o] = "missing" => chosen[o] \in Findings
      BY Categorised DEF BaseInv, TypeInv, PhaseInv
    <3>2. QED
      BY <3>1, OpsAssumption DEF BaseInv, PhaseInv
  <2>2. QED
    BY <2>1 DEF BaseInv, TypeInv, PhaseInv, Lefts, LogInv, WriteInv
<1>2. QED
  BY Invariance, <1>1, PTL

(* The counts audits report add up: no two that were answered count one     *)
(* finding as new.                                                          *)
THEOREM NewOnce == Spec => []NewCountedOnce
<1>1. LogInv => NewCountedOnce
  BY DEF LogInv, CountInv, NewCountedOnce
<1>2. QED
  BY Invariance, <1>1, PTL

(* Nothing changes the tables from an audit's first read to its answer.     *)
THEOREM AuditsSee == Spec => []AuditsSeeTables
<1>1. TableInv => AuditsSeeTables
  BY TableInvIs
<1>2. QED
  BY Invariance, <1>1, PTL

(* Only requests that overlap another lose an audit to a duplicate id.      *)
THEOREM CommandsGoThrough == Spec => []CommandsNeverClash
<1>1. LogInv => CommandsNeverClash
  BY DEF LogInv
<1>2. QED
  BY Invariance, <1>1, PTL

(* An extract or a load that ends well leaves all that it fetched.          *)
THEOREM ExtractsKept == Spec => ExtractKeepsAll
<1>1. ASSUME BaseInv, TableInv, [Next]_vars, NEW o \in Ops, Kind[o] \in {"extract", "load"},
             pc[o] # "ok", pc'[o] = "ok", NEW r \in DOMAIN Empty, NEW x \in DOMAIN Empty[r],
             seen[o][r][x] # Absent
      PROVE  tables'[Target[o]][r][x] = seen[o][r][x]
  <2>1. Step(o) /\ ~Crash(o)
    <3>1. ASSUME NEW q \in Ops, Step(q) PROVE Step(o) /\ ~Crash(o)
      <4>1. ~Crash(q)
        BY <1>1, CrashTables DEF Crash, Cleared
      <4>2. QED
        BY <1>1, <3>1, <4>1, Others
    <3>2. pc' # pc
      BY <1>1
    <3>3. QED
      BY <1>1, <3>1, <3>2 DEF Next, Edit, NewVersion, vars
  <2>2. Upsert(o) /\ pc[o] = "fetched" /\ Target[o] \in Tenants
    <3>1. Audits(o) = FALSE
      BY <1>1 DEF Audits
    <3>2. pc[o] \notin {"removing", "reading", "found"}
      BY <1>1, <3>1 DEF BaseInv, PhaseInv
    <3>3. ~Connect(o) /\ ~Fetch(o) /\ ~Insert(o) /\ ~Look(o) /\ ~ScoreSignins(o) /\ ~Read(o)
      BY <1>1, <3>2 DEF Connect, FirstStep, Fetch, Insert, Look, ScoreSignins, Read, Goto, BaseInv, TypeInv
    <3>4. Upsert(o)
      BY <2>1, <3>2, <3>3 DEF Step, Remove, Compute, NextCategory
    <3>5. QED
      BY <3>4 DEF Upsert, Tenants
  <2>3. Done(Tail(left[o])) = Names /\ r \in Names /\ x \in Objects(r)
    <3>1. ~(Len(left[o]) > 1) /\ left[o] \in Lefts /\ left[o] # <<>>
      BY <1>1, <2>2 DEF Upsert, Goto, BaseInv, TypeInv, PhaseInv
    <3>2. Tail(left[o]) = <<>>
      BY <3>1 DEF Lefts, Resources
    <3>3. r \in Names /\ x \in Objects(r)
      BY <1>1, TableDomain DEF Names, Objects, Empty
    <3>4. QED
      BY <3>2, <3>3, DoneIs
  <2> DEFINE h == Head(left[o])
  <2>4. /\ h \in Names /\ Names = Done(left[o]) \cup {h}
    <3>1. left[o] \in Lefts /\ left[o] # <<>>
      BY <1>1, <2>2 DEF BaseInv, TypeInv, PhaseInv
    <3>2. QED
      BY <2>3, <3>1, DoneIs
  <2>5. /\ tables[Target[o]] \in Tables /\ tables[Target[o]][h] \in Rows(h) /\ seen[o][h] \in Rows(h)
        /\ tables'[Target[o]] = [tables[Target[o]] EXCEPT ![h] = Upserted(tables[Target[o]][h], seen[o][h])]
    BY <1>1, <2>2, <2>4, TableRows DEF Upsert, BaseInv, TypeInv
  <2>6. \A n \in Names : tables'[Target[o]][n] = IF n = h THEN Upserted(tables[Target[o]][h], seen[o][h])
                                                 ELSE tables[Target[o]][n]
    BY <2>4, <2>5, UpsertedRows, TableUpdate
  <2>7. CASE r = h
    BY <1>1, <2>3, <2>5, <2>6, <2>7, UpsertedRows
  <2>8. CASE r # h
    <3>1. r \in Sources(o)
      BY <2>3, <2>4, <2>8, SourcesAre
    <3>2. QED
      BY <1>1, <2>2, <2>3, <2>6, <2>8, <3>1 DEF TableInv, HasLoaded
  <2>9. QED
    BY <2>7, <2>8
<1>2. BaseInv /\ TableInv /\ [Next]_vars =>
        [\A o \in Ops : Kind[o] \in {"extract", "load"} /\ pc[o] # "ok" /\ pc'[o] = "ok" =>
           \A r \in DOMAIN Empty : \A x \in DOMAIN Empty[r] :
             seen[o][r][x] # Absent => tables'[Target[o]][r][x] = seen[o][r][x]]_vars
  BY <1>1
<1>3. QED
  BY Invariance, <1>2, PTL DEF Spec, ExtractKeepsAll

(* Who has been answered stays answered, and finds it all stored.           *)
AnswersStored == Answered \subseteq Ids(findings)

LEMMA AnsweredStored == BaseInv /\ LogInv => AnswersStored
<1>1. ASSUME BaseInv, LogInv, NEW o \in Ops, pc[o] = "ok" PROVE given[o] \subseteq Ids(findings)
  <2>1. todo[o] = <<>>
    BY <1>1 DEF BaseInv, PhaseInv
  <2>2. QED
    BY <1>1, <2>1, NoCategories, IdsOf DEF LogInv, WriteInv
<1>2. QED
  BY <1>1 DEF AnswersStored, Answered

LEMMA AnsweredStays ==
  ASSUME BaseInv, NEW o \in Ops, Step(o)
  PROVE  \A q \in Ops : pc[q] = "ok" => pc'[q] = "ok" /\ given'[q] = given[q]
<1>1. CASE Crash(o)
  <2>1. \A q \in Ops : pc[q] = "ok" => q \notin Killed(o)
    BY DEF Killed, Running, Ended
  <2>2. QED
    BY <1>1, <2>1 DEF Crash, Cleared
<1>2. CASE ~Crash(o)
  <2>1. pc[o] # "ok"
    BY <1>2 DEF Step, Connect, MayStart, Fetch, Upsert, Remove, Read, Compute, ScoreSignins,
                Look, Insert, NextCategory
  <2>2. QED
    BY <1>2, <2>1, Others
<1>3. QED
  BY <1>1, <1>2

LEMMA InsertRecords ==
  ASSUME BaseInv, NEW o \in Ops, Insert(o), findings' # findings
  PROVE  \E f \in Findings : Log!Record(f)
<1>1. /\ chosen[o].id \notin Ids(findings) /\ findings' = findings \cup {chosen[o]}
      /\ pc' = [pc EXCEPT ![o] = "found"] /\ given' = given /\ pc[o] = "missing"
  BY DEF Insert, Goto
<1>2. chosen[o] \in Findings
  BY <1>1, Categorised DEF BaseInv, TypeInv, PhaseInv
<1>3. {q \in Ops : pc'[q] = "ok"} = {q \in Ops : pc[q] = "ok"}
  BY <1>1 DEF BaseInv, TypeInv
<1>4. Answered' = Answered
  BY <1>1, <1>3 DEF Answered
<1>5. QED
  BY <1>1, <1>2, <1>4 DEF Log!Record, Log!Ids, Ids

LEMMA FindingsKept ==
  ASSUME NEW o \in Ops, Step(o), ~Insert(o)
  PROVE  findings' = findings
BY DEF Step, Connect, Fetch, Upsert, Remove, Read, Compute, ScoreSignins, Look, NextCategory,
       Crash, db

(* The findings table is an append-only log: INSERTs record, everything     *)
(* else at most tells somebody about what is recorded.                      *)
THEOREM ImplementsLog == Spec => LogKept
<1>1. Init => Log!Init
  <2> SUFFICES ASSUME Init PROVE findings = {} /\ Answered = {}
    BY DEF Log!Init
  <2>1. {q \in Ops : pc[q] = "ok"} = {}
    BY DEF Init
  <2>2. QED
    BY <2>1 DEF Init, Answered
<1>2. ASSUME BaseInv, [Next]_vars, AnswersStored'
      PROVE  [Log!Next]_<<findings, Answered>>
  <2>1. ASSUME NEW o \in Ops, Step(o) PROVE Log!Next \/ UNCHANGED <<findings, Answered>>
    <3>1. CASE findings' # findings
      BY <1>2, <2>1, <3>1, FindingsKept, InsertRecords DEF Log!Next
    <3>2. CASE findings' = findings
      <4>1. Answered \subseteq Answered'
        BY <1>2, <2>1, AnsweredStays DEF Answered
      <4>2. Answered' \subseteq Ids(findings)'
        BY <1>2 DEF AnswersStored
      <4>3. QED
        BY <3>2, <4>1, <4>2 DEF Log!Next, Log!Answer, Log!Ids, Ids
    <3>3. QED
      BY <3>1, <3>2
  <2>2. CASE UNCHANGED <<db, local, pc>>
    BY <2>2 DEF db, local, Answered
  <2>3. QED
    BY <1>2, <2>1, <2>2 DEF Next, Edit, NewVersion, vars
<1>3. QED
  BY Invariance, AnsweredStored, <1>1, <1>2, PTL DEF Spec, LogKept, Log!Spec
=============================================================================
