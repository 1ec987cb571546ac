------------------------------- MODULE Migrations -------------------------------
(***************************************************************************)
(* run_migrations, which every command, the API as it starts and every     *)
(* request of the API call first: whatever _migrations does not list is    *)
(* executed and then listed, each statement committing by itself. DuckDB   *)
(* lets one process open the file; the connections of the API share it.    *)
(***************************************************************************)
EXTENDS Integers, Sequences, FiniteSets

CONSTANTS
  Commands, Requests,     \* processes of their own; requests to the API
  Lifespan,               \* the API as it starts
  MaxKills                \* bound

Runs == Commands \cup Requests \cup {Lifespan}
InApi(r) == r \notin Commands

ASSUME RunsAssumption == Lifespan \notin Commands \cup Requests /\ Commands \cap Requests = {}
ASSUME KillsAssumption == MaxKills \in Nat

(* MIGRATIONS: what each version brings. Tables, and the indexes that go    *)
(* with them, are created IF NOT EXISTS; the column of version 11 is added  *)
(* whether it is there or not.                                              *)
TenantTables == <<
  {"tenants"}, {"raw_ingestions"}, {"ca_policies"}, {"named_locations"},
  {"users", "groups", "directory_roles", "role_assignments"} >>
ResultTables == <<
  {"findings"}, {"signins"}, {"anomaly_scores"}, {"narrative_cache"},
  {"eval_runs", "eval_scores"} >>
Creates == TenantTables \o ResultTables \o << {"anomaly_scores.model_tier"} >>

Columns  == {"anomaly_scores.model_tier"}
Versions == DOMAIN Creates
Schema(vs) == UNION {Creates[v] : v \in vs}

VARIABLES
  made,       \* the tables and columns there are
  recorded,   \* the versions _migrations lists
  pc,         \* pc[r]: how far r has come
  pending,    \* pending[r]: the versions it found missing and has yet to apply
  up,         \* the API has started
  kills

vars == <<made, recorded, pc, pending, up, kills>>

Steps == {"idle", "migrating", "applied", "recorded", "ready", "failed"}
Open(r) == pc[r] \in {"migrating", "applied", "recorded", "ready"}
Goto(r, step) == pc' = [pc EXCEPT ![r] = step]

Least(vs) == CHOOSE v \in vs : \A w \in vs : v <= w

(* A database any earlier release left.                                     *)
Init ==
  /\ \E k \in 0..Len(Creates) : recorded = 1..k
  /\ made = Schema(recorded)
  /\ pc = [r \in Runs |-> "idle"]
  /\ pending = [r \in Runs |-> {}]
  /\ up = FALSE /\ kills = 0

-----------------------------------------------------------------------------
Unlocked(r) == TRUE
MayOpen(r) == \A q \in Runs : Open(q) => InApi(q) /\ InApi(r)

(* Requests are served once lifespan's startup is over.                     *)
Always == TRUE
Served == up

FromZero(r) == (0..Len(Creates) - 1) \ recorded
NotApplied(r) == Versions \ recorded

Begin(r) ==
  /\ pc[r] \in {"idle", "failed"} /\ MayOpen(r)
  /\ CASE r \in Requests -> Served
       [] r = Lifespan   -> ~up
       [] OTHER          -> TRUE
  /\ pending' = [pending EXCEPT ![r] = NotApplied(r)]
  /\ Goto(r, "migrating")
  /\ UNCHANGED <<made, recorded, up, kills>>

Fail(r) ==
  /\ Goto(r, "failed")
  /\ pending' = [pending EXCEPT ![r] = {}]
  /\ UNCHANGED <<made, recorded, up, kills>>

Execute(r, next) ==
  LET v == Least(pending[r]) IN
  IF Creates[v] \cap Columns \cap made # {} THEN Fail(r)      \* the column exists
  ELSE /\ made' = made \cup Creates[v]
       /\ Goto(r, next)
       /\ UNCHANGED <<recorded, pending, up, kills>>

Record(r, next) ==
  LET v == Least(pending[r]) IN
  IF v \in recorded THEN Fail(r)                              \* the primary key
  ELSE /\ recorded' = recorded \cup {v}
       /\ Goto(r, next)
       /\ UNCHANGED <<made, pending, up, kills>>

(* The two statements of a migration, in this order.                        *)
RecordFirst(r) == (pc[r] = "migrating" /\ Record(r, "applied"))
                  \/ (pc[r] = "applied" /\ Execute(r, "recorded"))
InOrder(r) == (pc[r] = "migrating" /\ Execute(r, "applied"))
              \/ (pc[r] = "applied" /\ Record(r, "recorded"))

Migrate(r) ==
  /\ pending[r] # {}
  /\ \/ InOrder(r)
     \/ /\ pc[r] = "recorded"
        /\ pending' = [pending EXCEPT ![r] = @ \ {Least(@)}]
        /\ Goto(r, "migrating")
        /\ UNCHANGED <<made, recorded, up, kills>>

(* run_migrations returns; what the connection is for comes next.           *)
Return(r) ==
  /\ pc[r] = "migrating" /\ pending[r] = {}
  /\ Goto(r, "ready")
  /\ UNCHANGED <<made, recorded, pending, up, kills>>

(* The connection closes; lifespan's does so that requests can be served.   *)
Close(r) ==
  /\ pc[r] = "ready"
  /\ Goto(r, "idle")
  /\ up' = (up \/ r = Lifespan)
  /\ UNCHANGED <<made, recorded, pending, kills>>

Stop ==
  /\ up /\ \A r \in Requests : ~Open(r)
  /\ up' = FALSE
  /\ UNCHANGED <<made, recorded, pc, pending, kills>>

Killed(r) == {q \in Runs : Open(q) /\ (q = r \/ (InApi(q) /\ InApi(r)))}

Kill(r) ==
  /\ Open(r) /\ kills < MaxKills
  /\ kills' = kills + 1
  /\ pc' = [q \in Runs |-> IF q \in Killed(r) THEN "idle" ELSE pc[q]]
  /\ pending' = [q \in Runs |-> IF q \in Killed(r) THEN {} ELSE pending[q]]
  /\ up' = (up /\ ~InApi(r))
  /\ UNCHANGED <<made, recorded>>

Next ==
  \/ \E r \in Runs : Begin(r) \/ Migrate(r) \/ Return(r) \/ Close(r) \/ Kill(r)
  \/ Stop

Spec == Init /\ [][Next]_vars

-----------------------------------------------------------------------------
TypeOK ==
  /\ made \subseteq Schema(Versions) /\ recorded \subseteq Versions
  /\ pc \in [Runs -> Steps] /\ pending \in [Runs -> SUBSET Versions]
  /\ up \in BOOLEAN /\ kills \in 0..MaxKills

(* Wherever earlier runs were killed, whoever gets past run_migrations      *)
(* finds every table and column the code uses.                              *)
ReadyFindsSchema == \A r \in Runs : pc[r] = "ready" => made = Schema(Versions)

(* Requests run the migrations side by side, on connections of their own,   *)
(* but there is never one left for them to apply.                           *)
RequestsApplyNothing == \A r \in Requests : pending[r] = {}

(* A kill is fatal to later runs in one place, between the ALTER TABLE of   *)
(* version 11 and its row; nothing else makes a run fail.                   *)
FatalOnlyAtColumn ==
  \A r \in Runs : pc[r] = "failed" =>
    /\ kills > 0
    /\ Columns \subseteq made
    /\ recorded = Versions \ {v \in Versions : Creates[v] \cap Columns # {}}
=============================================================================
