----------------------------- MODULE ModelRegistry -----------------------------
(***************************************************************************)
(* The anomaly model of one tenant: its registered versions, the           *)
(* @challenger and @champion aliases (packages/ml-mlops), the commands that *)
(* train, gate, promote and score with it (packages/ml-anomaly, the CLI,   *)
(* POST /anomaly/score), and the Compose script that bootstraps it.        *)
(*                                                                         *)
(* A job is one command or request. The registry is shared by all of them  *)
(* without a lock; DuckDB's file lock, which a job holds while it has a    *)
(* connection, is the only exclusion there is.                             *)
(***************************************************************************)
EXTENDS Integers, FiniteSets

CONSTANTS
  Jobs,         \* the commands and requests
  Kind,         \* Kind[j]: what job j does
  Boot,         \* the job that runs the bootstrap script, one command after another
  Alerts,       \* Alerts[v]: anomalies version v predicts on the recent window
  WindowRows,   \* how many sign-ins the recent window may hold
  MaxVersion,   \* bound on the versions registered
  MaxCrashes,   \* bound on the processes killed
  None          \* nothing judged, nothing moved

MinRows     == 100     \* should_promote
MaxDeltaPct == 20

Kinds    == {"train", "promote", "promoteForce", "cliScore", "apiScore", "script"}
Versions == 1..MaxVersion
Verdict  == [champion : 0..MaxVersion, challenger : Versions]
Move     == [from : 0..MaxVersion, to : Versions]
Stages   == {"extract", "train", "promote", "score", "touch"}
Ended    == {"done", "refused", "busy", "failed", "dead"}
Steps    == {"idle", "connected", "logged", "registered", "resolved", "approved", "reread",
             "admitted", "found", "loaded"} \cup Ended

ASSUME JobsAssumption ==
  /\ Kind \in [Jobs -> Kinds]
  /\ \A j \in Jobs : Kind[j] = "script" <=> j = Boot
ASSUME BoundsAssumption ==
  /\ MaxVersion \in Nat \ {0}
  /\ MaxCrashes \in Nat
  /\ Alerts \in [Versions -> Nat]
  /\ WindowRows \subseteq Nat
ASSUME NoneAssumption == None \notin Verdict \cup Move

VARIABLES
  pc,        \* pc[j]: the last thing job j did
  stage,     \* the command the bootstrap script is at
  sentinel,  \* /data/.bootstrap-tenant-a-done exists
  latest,    \* the newest registered version; versions are 1..latest
  alias,     \* the registered-model aliases; 0 is unset
  db,        \* the jobs with a DuckDB connection
  got,       \* got[j]: the version job j last read or registered, 0 before
  via,       \* via[j]: the alias job j found it through
  bundle,    \* bundle[j]: the version whose artifact job j downloaded
  scores,    \* scores[v]: the version that computed the rows stored under version v
  crashes,   \* processes killed so far
  judged,    \* judged[j]: what the promotion gate compared, or None (history)
  moved      \* moved[j]: the last move of @champion by job j, or None (history)

vars == <<pc, stage, sentinel, latest, alias, db, got, via, bundle, scores, crashes, judged, moved>>

(* The script: signins extract, anomaly train --skip-if-registered, promote *)
(* --force, score, and touch.                                               *)
Command   == [extract |-> "extract", train |-> "trainSkip", promote |-> "promoteForce",
              score |-> "cliScore", touch |-> "touch"]
Following == [extract |-> "train", train |-> "promote", promote |-> "score", score |-> "touch"]

Does(j) == IF j = Boot THEN Command[stage] ELSE Kind[j]

Api == {j \in Jobs : Kind[j] = "apiScore"}

(* should_promote over shadow_score: enough rows, and the alert volume of   *)
(* the challenger within 20% of the champion's either way (any alert at all *)
(* is too many when the champion raises none).                              *)
AbsDiff(a, b) == IF a < b THEN b - a ELSE a - b
WithinDelta(champion, challenger) ==
  AbsDiff(Alerts[challenger], Alerts[champion]) * 100 <= MaxDeltaPct * Alerts[champion]
ShouldPromote(champion, challenger, rows) ==
  rows >= MinRows /\ WithinDelta(champion, challenger)

Init ==
  /\ pc = [j \in Jobs |-> "idle"]
  /\ stage = "extract"
  /\ sentinel = FALSE
  /\ latest = 0
  /\ alias = [champion |-> 0, challenger |-> 0]
  /\ db = {}
  /\ got = [j \in Jobs |-> 0]
  /\ via = [j \in Jobs |-> "champion"]
  /\ bundle = [j \in Jobs |-> 0]
  /\ scores = [v \in Versions |-> 0]
  /\ crashes = 0
  /\ judged = [j \in Jobs |-> None]
  /\ moved = [j \in Jobs |-> None]

registry == <<latest, alias>>
script   == <<stage, sentinel>>
local    == <<got, via, bundle>>
history  == <<judged, moved>>

(* A job's step: where it goes, and whether it still has its connection.    *)
Goto(j, step) == pc' = [pc EXCEPT ![j] = step]
KeepOpen(j) == db' = db
Close(j) == db' = db \ {j}
End(j, how) == Goto(j, how) /\ Close(j)

-----------------------------------------------------------------------------
(* DuckDB lets one process have the file: a CLI command needs it to itself, *)
(* API requests share theirs.                                               *)
Unlocked(j) == TRUE
Lockable(j) == IF j \in Api THEN db \subseteq Api ELSE db = {}

(* Outside Compose (which starts the API when the bootstrap has succeeded)   *)
(* requests come at any time.                                               *)
Startable(j) ==
  /\ pc[j] = "idle"
  /\ Does(j) \in {"extract", "train", "trainSkip", "promote", "cliScore", "apiScore"}

Connect(j) ==
  /\ Startable(j)
  /\ IF Lockable(j)
     THEN Goto(j, "connected") /\ db' = db \cup {j}
     ELSE Goto(j, "busy") /\ UNCHANGED db             \* duckdb.connect raises
  /\ UNCHANGED <<registry, script, local, scores, crashes, history>>

-----------------------------------------------------------------------------
(* `signins extract`: the sign-ins everything below works on are there from *)
(* here on.                                                                 *)
ExtractSignins(j) ==
  /\ pc[j] = "connected" /\ Does(j) = "extract"
  /\ End(j, "done")
  /\ UNCHANGED <<registry, script, local, scores, crashes, history>>

(* train_tenant *)

(* --skip-if-registered *)
SkipTraining(j) ==
  /\ pc[j] = "connected" /\ Does(j) = "trainSkip" /\ alias.champion # 0
  /\ End(j, "done")
  /\ UNCHANGED <<registry, script, local, scores, crashes, history>>

(* The fit, and log_artifact under a new run. *)
Fit(j) ==
  /\ pc[j] = "connected"
  /\ \/ Does(j) = "train"
     \/ Does(j) = "trainSkip" /\ alias.champion = 0
  /\ Goto(j, "logged")
  /\ UNCHANGED <<registry, script, db, local, scores, crashes, history>>

(* register_model: MLflow numbers the versions. *)
Register(j) ==
  /\ pc[j] = "logged" /\ latest < MaxVersion
  /\ latest' = latest + 1
  /\ got' = [got EXCEPT ![j] = latest + 1]
  /\ Goto(j, "registered")
  /\ UNCHANGED <<alias, script, db, via, bundle, scores, crashes, history>>

(* set_alias(..., CHALLENGER_ALIAS), and the connection closes. *)
SetChallenger(j) ==
  /\ pc[j] = "registered"
  /\ alias' = [alias EXCEPT !.challenger = got[j]]
  /\ End(j, "done")
  /\ UNCHANGED <<latest, script, local, scores, crashes, history>>

-----------------------------------------------------------------------------
(* `anomaly promote`: evaluate_for_promotion under a connection, which it   *)
(* closes, then promote_challenger_to_champion, which reads @challenger     *)
(* again. --force starts at the second half.                                *)

(* get_alias_version's answer when the alias is not set.                    *)
NeverNone(version) == FALSE
IsNone(version) == version = 0

(* The two alias lookups. Only a trainer moves @challenger, and the         *)
(* connection keeps trainers out, so they are one step.                     *)
Resolve(j) ==
  /\ pc[j] = "connected" /\ Does(j) = "promote"
  /\ IF IsNone(alias.challenger) THEN End(j, "refused")
     ELSE IF alias.champion = 0
     THEN End(j, "approved")
     ELSE Goto(j, "resolved") /\ UNCHANGED db
  /\ judged' = IF ~IsNone(alias.challenger) /\ alias.champion = 0
               THEN [judged EXCEPT ![j] = [champion |-> 0, challenger |-> alias.challenger]]
               ELSE judged
  /\ UNCHANGED <<registry, script, local, scores, crashes, moved>>

(* Both bundles are downloaded by alias and compared on the window. *)
Judge(j, rows) ==
  /\ pc[j] = "resolved"
  /\ IF ShouldPromote(alias.champion, alias.challenger, rows)
     THEN /\ judged' = [judged EXCEPT ![j] =
                         [champion |-> alias.champion, challenger |-> alias.challenger]]
          /\ End(j, "approved")
     ELSE /\ UNCHANGED judged
          /\ End(j, "refused")
  /\ UNCHANGED <<registry, script, local, scores, crashes, moved>>

(* promote_challenger_to_champion's own lookup. None is no error: the       *)
(* command prints the reason and exits 0.                                   *)
Reread(j) ==
  /\ \/ pc[j] = "approved"
     \/ pc[j] = "idle" /\ Does(j) = "promoteForce"
  /\ got' = [got EXCEPT ![j] = alias.challenger]
  /\ Goto(j, IF IsNone(alias.challenger) THEN "done" ELSE "reread")
  /\ UNCHANGED <<registry, script, db, via, bundle, scores, crashes, history>>

LatestVersion(j) == latest
Promoted(j) == got[j]
Install(j) ==
  /\ pc[j] = "reread"
  /\ alias' = [alias EXCEPT !.champion = Promoted(j)]
  /\ moved' = [moved EXCEPT ![j] = [from |-> alias.champion, to |-> Promoted(j)]]
  /\ Goto(j, "done")
  /\ UNCHANGED <<latest, script, db, local, scores, crashes, judged>>

-----------------------------------------------------------------------------
(* Scoring: the CLI command, or the request after _ensure_champion. *)

(* load_bundle's first half: the version of @champion, else of @challenger. *)
ChampionOnly == "champion"
Preferred == IF alias.champion # 0 THEN "champion" ELSE "challenger"

(* _ensure_champion answers 503 when neither alias is set; else the request *)
(* goes on to load_bundle.                                                  *)
EnsureChampion(j) ==
  /\ pc[j] = "connected" /\ Does(j) = "apiScore"
  /\ IF alias.champion = 0 /\ alias.challenger = 0
     THEN End(j, "refused")
     ELSE Goto(j, "admitted") /\ UNCHANGED db
  /\ UNCHANGED <<registry, script, local, scores, crashes, history>>

ReadVersion(j) ==
  /\ \/ pc[j] = "admitted"
     \/ pc[j] = "connected" /\ Does(j) = "cliScore"
  /\ got' = [got EXCEPT ![j] = alias[Preferred]]
  /\ via' = [via EXCEPT ![j] = Preferred]
  /\ IF alias[Preferred] = 0                      \* LookupError
     THEN End(j, "failed")
     ELSE Goto(j, "found") /\ UNCHANGED db
  /\ UNCHANGED <<registry, script, bundle, scores, crashes, history>>

(* load_bundle's second half downloads by alias, not by the version read.   *)
Download(j) ==
  /\ pc[j] = "found"
  /\ bundle' = [bundle EXCEPT ![j] = alias[via[j]]]
  /\ Goto(j, "loaded")
  /\ UNCHANGED <<registry, script, db, got, via, scores, crashes, history>>

(* write_scores: rows keyed by sign-in and model version, replaced.         *)
WriteScores(j) ==
  /\ pc[j] = "loaded"
  /\ scores' = [scores EXCEPT ![got[j]] = bundle[j]]
  /\ End(j, "done")
  /\ UNCHANGED <<registry, script, local, crashes, history>>

-----------------------------------------------------------------------------
(* The bootstrap script (`set -e`) and the operator who brings the stack up *)
(* again when it has ended without the sentinel.                            *)

SucceededOrNot == {"done", "busy", "failed"}
Succeeded == {"done"}

NextCommand ==
  /\ Boot \in Jobs /\ pc[Boot] \in Succeeded
  /\ stage' = Following[stage]
  /\ Goto(Boot, "idle")
  /\ UNCHANGED <<sentinel, registry, db, local, scores, crashes, history>>

Touch ==
  /\ Boot \in Jobs /\ pc[Boot] = "idle" /\ stage = "touch" /\ ~sentinel
  /\ sentinel' = TRUE
  /\ UNCHANGED <<pc, stage, registry, db, local, scores, crashes, history>>

Restarted == "extract"

ComposeUp ==
  /\ Boot \in Jobs /\ pc[Boot] \in {"busy", "failed", "dead"}
  /\ stage' = Restarted
  /\ Goto(Boot, "idle")
  /\ UNCHANGED <<sentinel, registry, db, local, scores, crashes, history>>

(* A process killed, or an exception nobody handles, between any two steps. *)
Crash(j) ==
  /\ \/ pc[j] \notin Ended \cup {"idle"}
     \/ j = Boot /\ pc[j] # "dead" /\ ~sentinel     \* between two commands
  /\ crashes < MaxCrashes
  /\ crashes' = crashes + 1
  /\ End(j, "dead")
  /\ UNCHANGED <<registry, script, local, scores, history>>

-----------------------------------------------------------------------------
Work(j) ==
  \/ Connect(j)
  \/ ExtractSignins(j) \/ SkipTraining(j) \/ Fit(j) \/ Register(j) \/ SetChallenger(j)
  \/ Resolve(j) \/ (\E rows \in WindowRows : Judge(j, rows)) \/ Reread(j) \/ Install(j)
  \/ EnsureChampion(j) \/ ReadVersion(j) \/ Download(j) \/ WriteScores(j)

Next ==
  \/ \E j \in Jobs : Work(j) \/ Crash(j)
  \/ NextCommand \/ Touch \/ ComposeUp

Spec == Init /\ [][Next]_vars

(* A command or request that has started goes on, the script runs its       *)
(* commands, and the operator who wants the stack brings it up again when   *)
(* it has failed. Nobody has to start any other command.                    *)
Fairness ==
  /\ \A j \in Jobs : WF_vars((j = Boot \/ pc[j] # "idle") /\ Work(j))
  /\ WF_vars(NextCommand) /\ WF_vars(Touch) /\ WF_vars(ComposeUp)

FairSpec == Spec /\ Fairness

-----------------------------------------------------------------------------
TypeOK ==
  /\ pc \in [Jobs -> Steps]
  /\ stage \in Stages
  /\ sentinel \in BOOLEAN
  /\ latest \in 0..MaxVersion
  /\ alias \in [{"champion", "challenger"} -> 0..MaxVersion]
  /\ db \subseteq Jobs
  /\ got \in [Jobs -> 0..MaxVersion]
  /\ via \in [Jobs -> {"champion", "challenger"}]
  /\ bundle \in [Jobs -> 0..MaxVersion]
  /\ scores \in [Versions -> 0..MaxVersion]
  /\ crashes \in 0..MaxCrashes
  /\ judged \in [Jobs -> Verdict \cup {None}]
  /\ moved \in [Jobs -> Move \cup {None}]

(* Two trainers never leave @challenger on the older of their versions: the *)
(* file lock they hold for the sign-ins also orders register and set_alias, *)
(* which the registry itself does not.                                      *)
ChallengerNeverOlder == [][alias'.challenger >= alias.challenger]_vars

(* What serves was offered: @champion is never newer than @challenger, so a *)
(* version whose training died before set_alias is never promoted.          *)
ChampionWasChallenger == alias.champion <= alias.challenger

(* What a gated promotion installs is the version the gate judged or one    *)
(* trained after it, never one the gate had already been offered a          *)
(* successor of.                                                            *)
GatedNeverOlder ==
  \A j \in Jobs : Kind[j] = "promote" /\ moved[j] # None =>
    judged[j] # None /\ moved[j].to >= judged[j].challenger

(* A request that _ensure_champion let through finds a bundle.              *)
CheckedRequestScores == \A j \in Api : pc[j] # "failed"

(* The sentinel is only left when the tenant has a champion and scores of   *)
(* its, whatever killed the script before.                                  *)
SentinelMeansScored == sentinel => alias.champion # 0 /\ \E v \in Versions : scores[v] # 0

(* The stack comes up: killed finitely often, the script gets to the        *)
(* sentinel.                                                                *)
BootstrapEnds == Boot \in Jobs => <>sentinel

-----------------------------------------------------------------------------
(* What the repository says and the code does not do. *)

(* load_bundle: "Returns ``(bundle, alias_used, version)``."                *)
RowsByTheirVersion == \A v \in Versions : scores[v] \in {0, v}
=============================================================================
