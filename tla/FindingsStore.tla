------------------------------ MODULE FindingsStore ------------------------------
(***************************************************************************)
(* The findings table and everything that reads or writes it or the tables *)
(* it is computed from: POST /audit/run, /audit/dry-run and /anomaly/score, *)
(* each on a connection of its own inside the API, and `audit`, `extract`, *)
(* `fixtures load` and `clear`, `tenant remove` and `anomaly score`, each  *)
(* a process of its own. DuckDB lets one process open the file; a process  *)
(* that finds it open raises. Every statement commits by itself.           *)
(***************************************************************************)
EXTENDS Integers, Sequences, FiniteSets

CONSTANTS
  Ops,            \* the requests and commands
  Kind,           \* Kind[o]: what operation o does
  Target,         \* Target[o]: its tenant
  Asked,          \* Asked[o]: the categories an audit is asked for, in the order they run
  Fixtures,       \* the tenants whose data is bundled
  Policies, Users, Signins,
  Held,           \* Held[t]: what Graph, or the bundle, holds of tenant t to begin with
  Extracted,      \* the tenants extracted before
  Contents(_),    \* what a policy or a user can be
  Keys, Severities,   \* what findings are about, within a tenant; how severe they are
  Raised(_, _),   \* the findings [key, severity] of a category, given the tables
  Score(_, _),    \* the severity a model version gives a sign-in, or None
  MaxVersion, MaxStarted, MaxEdits, MaxCrashes,   \* bounds
  Absent, None

Kinds   == {"audit", "dry", "score", "cliAudit", "cliScore", "extract", "load", "remove"}
Tenants == {Target[o] : o \in Ops}
Categories == {"coverage", "rules", "exclusions"}

Resources == <<"policies", "users">>
Objects(r) == IF r = "policies" THEN Policies ELSE Users
Tables  == [policies : [Policies -> Contents("policies") \cup {Absent}],
            users    : [Users -> Contents("users") \cup {Absent}]]
Findings == [id : Tenants \X Keys, severity : Severities]
Empty   == [policies |-> [p \in Policies |-> Absent], users |-> [u \in Users |-> Absent]]

ASSUME OpsAssumption ==
  /\ \A o \in Ops : Kind[o] \in Kinds
  /\ IsFiniteSet(Ops) /\ Held \in [Tenants -> Tables]
  /\ Absent \notin Contents("policies") \cup Contents("users") /\ Extracted \subseteq Tenants
  /\ None \notin Severities \cup Findings /\ Signins \subseteq Keys
  /\ \A o \in Ops : Asked[o] \in Seq(Categories)
  /\ \A o \in Ops : Kind[o] \in {"audit", "dry"} => Asked[o] # <<>>        \* 422 otherwise
  /\ \A o \in Ops : Kind[o] = "load" => Target[o] \in Fixtures
ASSUME RaisedAssumption ==
  /\ \A c \in Categories, context \in Tables :
       Raised(c, context) \subseteq [key : Keys, severity : Severities]
  /\ \A v \in 1..MaxVersion, s \in Signins : Score(v, s) \in Severities \cup {None}
ASSUME StoreBoundAssumption ==
  {MaxVersion, MaxStarted, MaxEdits, MaxCrashes} \subseteq Nat /\ MaxVersion >= 1

VARIABLES
  graph,      \* graph[t]: what Graph holds of t, or the bundle
  version,    \* the model version that scores
  tables,     \* tables[t]: the resource tables' rows of t
  registered, \* tenants with a row
  findings,   \* the rows of findings
  scores,     \* the keys of the rows of anomaly_scores
  pc,         \* pc[o]: the last thing operation o did
  left,       \* left[o]: the resources it has yet to read or fetch
  seen,       \* seen[o]: what it has read or fetched
  todo,       \* todo[o]: the findings it has yet to write, category by category
  chosen,     \* chosen[o]: the finding its SELECT did not find
  given,      \* given[o]: the ids of the findings it computed to write
  wrote,      \* wrote[o]: the ids it counts as newly written
  edits, crashes

outside == <<graph, version, edits>>
db      == <<tables, registered, findings, scores>>
local   == <<left, seen, todo, chosen, given, wrote>>
vars    == <<outside, db, local, pc, crashes>>

Ended == {"ok", "failed", "busy", "dead"}
Steps == {"idle", "loading", "fetched", "removing", "reading", "scoring", "found", "missing"}
         \cup Ended

Goto(o, step) == pc' = [pc EXCEPT ![o] = step]

InApi(o)   == Kind[o] \in {"audit", "dry", "score"}
Audits(o)  == Kind[o] \in {"audit", "dry", "cliAudit"}
Loads(o)   == Kind[o] \in {"extract", "load"} \/ (Kind[o] = "cliAudit" /\ Target[o] \in Fixtures)
Running(o) == pc[o] \notin Ended \cup {"idle"}

Init ==
  /\ graph = Held /\ version = 1
  /\ tables = [t \in Tenants |-> IF t \in Extracted THEN Held[t] ELSE Empty]
  /\ registered = Extracted
  /\ findings = {} /\ scores = {}
  /\ pc = [o \in Ops |-> "idle"]
  /\ left = [o \in Ops |-> <<>>] /\ seen = [o \in Ops |-> Empty]
  /\ todo = [o \in Ops |-> <<>>] /\ chosen = [o \in Ops |-> None]
  /\ given = [o \in Ops |-> {}] /\ wrote = [o \in Ops |-> {}]
  /\ edits = 0 /\ crashes = 0

-----------------------------------------------------------------------------
(* Administrators and training, outside the store. *)

Edit(t, r, x) ==
  /\ t \notin Fixtures /\ edits < MaxEdits
  /\ \E c \in Contents(r) \cup {Absent} : /\ c # graph[t][r][x]
                                       /\ graph' = [graph EXCEPT ![t][r][x] = c]
  /\ edits' = edits + 1
  /\ UNCHANGED <<version, db, local, pc, crashes>>

NewVersion ==
  /\ version < MaxVersion
  /\ version' = version + 1
  /\ UNCHANGED <<graph, edits, db, local, pc, crashes>>

-----------------------------------------------------------------------------
(* duckdb.connect: a process of its own has the file to itself, requests of *)
(* the API share it. What did not go through may be tried again.            *)

Anyone(o) == TRUE
MayOpen(o) == \A q \in Ops : Running(q) => InApi(o) /\ InApi(q)

MayStart(o) ==
  \/ pc[o] = "idle" /\ Cardinality({q \in Ops : pc[q] # "idle"}) < MaxStarted
  \/ pc[o] \in {"failed", "busy", "dead"}

(* upserts: INSERT OR REPLACE what was fetched, delete nothing.             *)
Ignored(rows, payload) == [x \in DOMAIN rows |-> IF rows[x] = Absent THEN payload[x] ELSE rows[x]]
Upserted(rows, payload) == [x \in DOMAIN rows |-> IF payload[x] = Absent THEN rows[x] ELSE payload[x]]
Hydrated(t) == [r \in DOMAIN graph[t] |-> Upserted(tables[t][r], graph[t][r])]

FirstStep(o) ==
  CASE Loads(o)           -> "loading"
    [] Kind[o] = "remove" -> "removing"
    [] Audits(o)          -> "reading"
    [] OTHER              -> "scoring"

(* `audit`, `extract` and `fixtures load` register the tenant; `audit` of a *)
(* fixture tenant loads its bundle before it reads.                         *)
Connect(o) ==
  /\ MayStart(o)
  /\ IF MayOpen(o)
     THEN /\ Goto(o, FirstStep(o))
          /\ left' = [left EXCEPT ![o] = Resources]
          /\ registered' = IF Kind[o] \in {"cliAudit", "extract", "load"}
                           THEN registered \cup {Target[o]} ELSE registered
     ELSE Goto(o, "busy") /\ UNCHANGED <<left, registered>>
  /\ UNCHANGED <<outside, tables, findings, scores, seen, todo, chosen, given, wrote, crashes>>

-----------------------------------------------------------------------------
(* Extraction: each resource is fetched and upserted before the next one.   *)

(* A fixture's payload is the bundle, loaded whole before it is read.       *)
Fetch(o) ==
  /\ pc[o] = "loading"
  /\ LET t == Target[o]
         r == Head(left[o]) IN
     \/ /\ seen' = [seen EXCEPT ![o][r] = graph[t][r]]
        /\ tables' = IF t \in Fixtures /\ Kind[o] = "extract"
                     THEN [tables EXCEPT ![t] = Hydrated(t)] ELSE tables
        /\ Goto(o, "fetched")
        /\ UNCHANGED <<left>>
     \/ /\ t \notin Fixtures                              \* Graph did not answer
        /\ Goto(o, "failed")
        /\ seen' = [seen EXCEPT ![o] = Empty]
        /\ left' = [left EXCEPT ![o] = <<>>]
        /\ UNCHANGED tables
  /\ UNCHANGED <<outside, registered, findings, scores, todo, chosen, given, wrote, crashes>>

Upsert(o) ==
  /\ pc[o] = "fetched"
  /\ LET t == Target[o]
         r == Head(left[o]) IN
     tables' = [tables EXCEPT ![t][r] = Upserted(tables[t][r], seen[o][r])]
  /\ left' = [left EXCEPT ![o] = IF Len(left[o]) = 1 /\ Audits(o) THEN Resources ELSE Tail(@)]
  /\ seen' = IF Len(left[o]) = 1 THEN [seen EXCEPT ![o] = Empty] ELSE seen
  /\ Goto(o, IF Len(left[o]) > 1 THEN "loading" ELSE IF Audits(o) THEN "reading" ELSE "ok")
  /\ UNCHANGED <<outside, registered, findings, scores, todo, chosen, given, wrote, crashes>>

(* remove_tenant_db, by `tenant remove` and `fixtures clear`: one DELETE    *)
(* per table, the tenants table last.                                       *)
Remove(o) ==
  /\ pc[o] = "removing"
  /\ LET t == Target[o] IN
     IF left[o] # <<>>
     THEN /\ tables' = [tables EXCEPT ![t][Head(left[o])] = Empty[Head(left[o])]]
          /\ left' = [left EXCEPT ![o] = Tail(left[o])]
          /\ UNCHANGED <<registered, pc>>
     ELSE /\ registered' = registered \ {t}
          /\ Goto(o, "ok")
          /\ UNCHANGED <<tables, left>>
  /\ UNCHANGED <<outside, findings, scores, seen, todo, chosen, given, wrote, crashes>>

-----------------------------------------------------------------------------
(* Audits: load_context_from_db table by table, then the categories asked   *)
(* for, computed before the first of them is written.                       *)

Unscoped(t, f) == [id |-> f.key, severity |-> f.severity]
Finding(t, f) == [id |-> <<t, f.key>>, severity |-> f.severity]     \* Finding.compute_id
Computed(o, context) ==
  [i \in DOMAIN Asked[o] |-> {Finding(Target[o], f) : f \in Raised(Asked[o][i], context)}]
Ids(S) == {f.id : f \in S}
AllOf(categories) == UNION {categories[i] : i \in DOMAIN categories}

Read(o) ==
  /\ pc[o] = "reading" /\ left[o] # <<>>
  /\ LET r == Head(left[o]) IN seen' = [seen EXCEPT ![o][r] = tables[Target[o]][r]]
  /\ left' = [left EXCEPT ![o] = Tail(left[o])]
  /\ UNCHANGED <<outside, db, todo, chosen, given, wrote, pc, crashes>>

Compute(o) ==
  /\ pc[o] = "reading" /\ left[o] = <<>>
  /\ seen' = [seen EXCEPT ![o] = Empty]
  /\ IF Kind[o] = "dry"
     THEN Goto(o, "ok") /\ UNCHANGED <<todo, given>>
     ELSE LET categories == Computed(o, seen[o]) IN
          /\ todo' = [todo EXCEPT ![o] = categories]
          /\ given' = [given EXCEPT ![o] = Ids(AllOf(categories))]
          /\ Goto(o, "found")
  /\ UNCHANGED <<outside, db, left, chosen, wrote, crashes>>

(* score_batch, write_scores and findings_from_anomalies; the rows are kept *)
(* per version, the finding is the sign-in's. Which sign-ins become one is  *)
(* the caller's threshold, and a request may ask for none.                  *)
Flagged(v) == {s \in Signins : Score(v, s) # None}
ScoreSignins(o) ==
  /\ pc[o] = "scoring"
  /\ scores' = scores \cup {<<Target[o], s, version>> : s \in Signins}
  /\ \E S \in SUBSET Flagged(version) :
     LET alerts == {Finding(Target[o], [key |-> s, severity |-> Score(version, s)]) : s \in S} IN
     /\ todo' = [todo EXCEPT ![o] = <<alerts>>]
     /\ given' = [given EXCEPT ![o] = Ids(alerts)]
  /\ left' = [left EXCEPT ![o] = <<>>]
  /\ Goto(o, "found")
  /\ UNCHANGED <<outside, tables, registered, findings, seen, chosen, wrote, crashes>>

-----------------------------------------------------------------------------
(* write_findings: per finding a SELECT for the id and, if there is none, an *)
(* INSERT; in no particular order, as the rows come from the tables.        *)

NotLookedFor(f) == FALSE
Known(f) == f.id \in Ids(findings)

CountedAnyway(o, f) == wrote[o] \cup {f.id}
CountedIfKnown(o, f) == wrote[o]

RestDropped(o, f) == {}
RestIfKnown(o, f) == Head(todo[o]) \ {f}

Look(o) ==
  /\ pc[o] = "found" /\ todo[o] # <<>>
  /\ \E f \in Head(todo[o]) :
       IF Known(f)
       THEN /\ todo' = [todo EXCEPT ![o] = <<RestIfKnown(o, f)>> \o Tail(todo[o])]
            /\ wrote' = [wrote EXCEPT ![o] = CountedIfKnown(o, f)]
            /\ UNCHANGED <<chosen, pc>>
       ELSE /\ chosen' = [chosen EXCEPT ![o] = f]
            /\ Goto(o, "missing")
            /\ UNCHANGED <<todo, wrote>>
  /\ UNCHANGED <<outside, db, left, seen, given, crashes>>

(* The primary key refuses an id somebody else inserted meanwhile; nothing  *)
(* catches that, and what was yet to be written is not.                     *)
Insert(o) ==
  /\ pc[o] = "missing"
  /\ IF chosen[o].id \notin Ids(findings)
     THEN /\ findings' = findings \cup {chosen[o]}
          /\ wrote' = [wrote EXCEPT ![o] = @ \cup {chosen[o].id}]
          /\ todo' = [todo EXCEPT ![o] = <<Head(@) \ {chosen[o]}>> \o Tail(@)]
          /\ Goto(o, "found")
          /\ UNCHANGED given
     ELSE /\ todo' = [todo EXCEPT ![o] = <<>>]
          /\ given' = [given EXCEPT ![o] = {}]
          /\ wrote' = [wrote EXCEPT ![o] = {}]
          /\ Goto(o, "failed")
          /\ UNCHANGED findings
  /\ chosen' = [chosen EXCEPT ![o] = None]
  /\ UNCHANGED <<outside, tables, registered, scores, left, seen, crashes>>

NextCategory(o) ==
  /\ pc[o] = "found"
  /\ \/ todo[o] = <<>> /\ Goto(o, "ok") /\ UNCHANGED todo       \* the counts are reported
     \/ /\ todo[o] # <<>> /\ Head(todo[o]) = {}
        /\ todo' = [todo EXCEPT ![o] = Tail(todo[o])]
        /\ UNCHANGED pc
  /\ UNCHANGED <<outside, db, left, seen, chosen, given, wrote, crashes>>

-----------------------------------------------------------------------------
(* A process killed, the API with every request it serves. Of the rows of   *)
(* an upsert in progress any may have been written.                         *)
Killed(o) == {q \in Ops : Running(q) /\ (q = o \/ (InApi(q) /\ InApi(o)))}
Cleared(f, o, blank) == [q \in Ops |-> IF q \in Killed(o) THEN blank ELSE f[q]]

Pending(o, r) ==
  IF pc[o] = "fetched" /\ r = Head(left[o]) THEN seen[o][r]
  ELSE IF pc[o] = "loading" /\ Kind[o] = "extract" /\ Target[o] \in Fixtures THEN graph[Target[o]][r]
  ELSE Empty[r]

Partly(rows, payload, S) == [x \in DOMAIN rows |-> IF x \in S THEN Upserted(rows, payload)[x] ELSE rows[x]]

Crash(o) ==
  /\ Running(o) /\ crashes < MaxCrashes
  /\ crashes' = crashes + 1
  /\ \E S \in SUBSET (Policies \cup Users) :
       tables' = [tables EXCEPT ![Target[o]] =
                    [r \in DOMAIN Empty |-> Partly(@[r], Pending(o, r), S)]]
  /\ pc' = Cleared(pc, o, "dead")
  /\ left' = Cleared(left, o, <<>>) /\ seen' = Cleared(seen, o, Empty)
  /\ todo' = Cleared(todo, o, <<>>) /\ chosen' = Cleared(chosen, o, None)
  /\ given' = Cleared(given, o, {}) /\ wrote' = Cleared(wrote, o, {})
  /\ UNCHANGED <<outside, registered, findings, scores>>

Step(o) ==
  \/ Connect(o) \/ Fetch(o) \/ Upsert(o) \/ Remove(o)
  \/ Read(o) \/ Compute(o) \/ ScoreSignins(o)
  \/ Look(o) \/ Insert(o) \/ NextCategory(o) \/ Crash(o)

Next ==
  \/ \E o \in Ops : Step(o)
  \/ \E t \in Tenants, i \in DOMAIN Resources :
       \E x \in Objects(Resources[i]) : Edit(t, Resources[i], x)
  \/ NewVersion

Spec == Init /\ [][Next]_vars
-----------------------------------------------------------------------------
TypeOK ==
  /\ graph \in [Tenants -> Tables] /\ tables \in [Tenants -> Tables]
  /\ version \in 1..MaxVersion
  /\ registered \subseteq Tenants
  /\ findings \subseteq Findings
  /\ scores \subseteq Tenants \X Signins \X (1..MaxVersion)
  /\ pc \in [Ops -> Steps]
  /\ seen \in [Ops -> Tables]
  /\ \A o \in Ops : /\ chosen[o] # None <=> pc[o] = "missing"
                    /\ todo[o] # <<>> => pc[o] \in {"found", "missing"}
                    /\ left[o] \in {Resources, Tail(Resources), <<>>}
                    /\ AllOf(todo[o]) # {} => Ids(AllOf(todo[o])) \subseteq given[o]
                    /\ wrote[o] \subseteq given[o]
  /\ edits \in 0..MaxEdits /\ crashes \in 0..MaxCrashes

(* Whatever runs at once, fails or is killed: a finding keeps the content   *)
(* and the first_seen_at it was first stored with, nobody deletes it, and   *)
(* everyone who is answered finds all it computed stored.                   *)
Answered == UNION {given[o] : o \in {q \in Ops : pc[q] = "ok"}}
Log == INSTANCE FindingsLog WITH recorded <- findings, promised <- Answered
LogKept == Log!Spec

(* The counts audits report add up: no two of those that were answered      *)
(* count one finding as new.                                                *)
NewCountedOnce ==
  \A o, q \in Ops : o # q /\ {pc[o], pc[q]} = {"ok"} => wrote[o] \cap wrote[q] = {}

(* The context is read table by table without a transaction, and what is    *)
(* computed from it is written long after; yet nothing changes the tables   *)
(* from an audit's first read to its answer.                                *)
Sources(o) == {r \in DOMAIN Empty : \A i \in DOMAIN left[o] : left[o][i] # r}
AuditsSeeTables ==
  \A o \in Ops : Audits(o) =>
    /\ pc[o] = "reading" => \A r \in Sources(o) : seen[o][r] = tables[Target[o]][r]
    /\ pc[o] \in {"found", "missing"} => given[o] = Ids(AllOf(Computed(o, tables[Target[o]])))

(* Only requests that overlap another can lose an audit to a duplicate id:  *)
(* a command never does.                                                    *)
CommandsNeverClash ==
  \A o \in Ops : pc[o] = "failed" => InApi(o) \/ Kind[o] = "extract"

(* An extract or a load that ends well leaves all that it fetched, each     *)
(* object as it was fetched: nothing undoes it between its first upsert and *)
(* its last, a removal of the tenant no more than another extract.          *)
ExtractKeepsAll ==
  [][\A o \in Ops : Kind[o] \in {"extract", "load"} /\ pc[o] # "ok" /\ pc'[o] = "ok" =>
       \A r \in DOMAIN Empty : \A x \in DOMAIN Empty[r] :
         seen[o][r][x] # Absent => tables'[Target[o]][r][x] = seen[o][r][x]]_vars
=============================================================================
