-------------------------- MODULE ModelRegistry_proofs --------------------------
(***************************************************************************)
(* The safety properties of ModelRegistry for any jobs, versions, alert    *)
(* volumes and numbers of crashes. The registry has no lock of its own;    *)
(* the argument rests on DuckDB's (LockInv), which keeps trainers apart    *)
(* and so makes @challenger monotone, and everything else on that.         *)
(***************************************************************************)
EXTENDS ModelRegistry, TLAPS

Open == {"connected", "logged", "registered", "resolved", "admitted", "found", "loaded"}
CliOnly == {"logged", "registered", "resolved", "approved", "reread"}

(* A job between Connect and its end has its connection, and a CLI command  *)
(* that has one is alone.                                                   *)
LockInv ==
  /\ \A j \in Jobs : pc[j] \in Open => j \in db
  /\ \A j \in Jobs : pc[j] \in CliOnly => j \notin Api
  /\ \A j \in db : j \notin Api => db = {j}

(* The aliases are in the order the versions were trained, and what a job   *)
(* has read of them is still there or has been succeeded.                   *)
OrderInv ==
  /\ alias.champion <= alias.challenger
  /\ alias.challenger <= latest
  /\ \A j \in Jobs :
       /\ pc[j] = "registered" => got[j] = latest /\ got[j] # 0
       /\ pc[j] = "reread" => got[j] # 0 /\ got[j] <= alias.challenger
       /\ pc[j] \in {"resolved", "admitted"} => alias.challenger # 0
       /\ pc[j] \in {"found", "loaded"} => got[j] # 0
       /\ pc[j] = "found" => alias[via[j]] # 0
       /\ pc[j] = "loaded" => bundle[j] # 0

(* A gated promotion has a verdict, and what it holds is no older.          *)
GateInv ==
  \A j \in Jobs :
    /\ judged[j] # None => judged[j].challenger <= alias.challenger
    /\ pc[j] = "approved" => judged[j] # None
    /\ Kind[j] = "promote" =>
         /\ pc[j] = "reread" => judged[j] # None /\ got[j] >= judged[j].challenger
         /\ moved[j] # None =>
              /\ pc[j] = "done"
              /\ judged[j] # None
              /\ moved[j].to >= judged[j].challenger

(* How far the script is, and what it has left behind by then.              *)
Scored == \E v \in Versions : scores[v] # 0
BootInv ==
  Boot \in Jobs =>
    /\ stage = "extract" => pc[Boot] \in {"idle", "connected", "done", "busy", "dead"}
    /\ stage = "train" =>
         /\ pc[Boot] \in {"idle", "connected", "logged", "registered", "done", "busy", "dead"}
         /\ pc[Boot] = "done" => alias.challenger # 0
    /\ stage = "promote" =>
         /\ pc[Boot] \in {"idle", "reread", "done", "dead"}
         /\ alias.challenger # 0
         /\ pc[Boot] = "done" => alias.champion # 0
    /\ stage = "score" =>
         /\ pc[Boot] \in {"idle", "connected", "found", "loaded", "done", "busy", "failed", "dead"}
         /\ alias.champion # 0
         /\ pc[Boot] = "done" => Scored
    /\ stage = "touch" =>
         /\ pc[Boot] \in {"idle", "dead"}
         /\ alias.champion # 0
         /\ Scored

RequestInv == CheckedRequestScores
Inv == TypeOK /\ LockInv /\ OrderInv /\ GateInv /\ BootInv /\ RequestInv /\ SentinelMeansScored

-----------------------------------------------------------------------------
LEMMA InitInv == Init => Inv
<1> SUFFICES ASSUME Init PROVE Inv
  OBVIOUS
<1>1. TypeOK
  <2>1. alias \in [{"champion", "challenger"} -> 0..MaxVersion]
    BY BoundsAssumption DEF Init
  <2>2. pc \in [Jobs -> Steps] /\ via \in [Jobs -> {"champion", "challenger"}]
    BY DEF Init, Steps
  <2>3. latest \in 0..MaxVersion /\ crashes \in 0..MaxCrashes /\ stage \in Stages
    BY BoundsAssumption DEF Init, Stages
  <2>4. /\ got \in [Jobs -> 0..MaxVersion]
        /\ bundle \in [Jobs -> 0..MaxVersion]
        /\ scores \in [Versions -> 0..MaxVersion]
    BY BoundsAssumption DEF Init
  <2>5. judged \in [Jobs -> Verdict \cup {None}] /\ moved \in [Jobs -> Move \cup {None}]
    BY DEF Init
  <2>6. QED
    BY <2>1, <2>2, <2>3, <2>4, <2>5 DEF Init, TypeOK
<1>2. LockInv
  BY DEF Init, LockInv, Open, CliOnly
<1>3. OrderInv
  BY DEF Init, OrderInv
<1>4. GateInv
  BY DEF Init, GateInv
<1>5. BootInv
  BY DEF Init, BootInv
<1>6. RequestInv
  BY DEF Init, RequestInv, CheckedRequestScores, Api
<1>7. SentinelMeansScored
  BY DEF Init, SentinelMeansScored
<1>8. QED
  BY <1>1, <1>2, <1>3, <1>4, <1>5, <1>6, <1>7 DEF Inv

(* What a job does is its kind, except for the script's.                    *)
LEMMA DoesKind ==
  ASSUME TypeOK, NEW j \in Jobs
  PROVE  /\ j # Boot => Does(j) = Kind[j] /\ Kind[j] \in Kinds /\ Kind[j] # "script"
         /\ j = Boot => Kind[j] = "script"
         /\ j = Boot => Does(j) = Command[stage]
         /\ j \in Api => j # Boot /\ Does(j) = "apiScore"
         /\ Does(j) = "apiScore" => j \in Api
<1>1. j # Boot => Does(j) = Kind[j] /\ Kind[j] \in Kinds /\ Kind[j] # "script"
  BY JobsAssumption DEF Does
<1>2. j = Boot => Kind[j] = "script" /\ Does(j) = Command[stage]
  BY JobsAssumption DEF Does
<1>3. Command[stage] # "apiScore"
  BY DEF Command, Stages, TypeOK
<1>4. QED
  BY <1>1, <1>2, <1>3 DEF Api

(* @challenger only moves to the newest version, which a trainer registered *)
(* under the connection it still has; so no lookup is undone.               *)
Rise ==
  /\ alias'.challenger >= alias.challenger
  /\ alias'.champion = 0 => alias.champion = 0
  /\ latest' >= latest

LEMMA AliasesRise == Inv /\ [Next]_vars => Rise
<1> SUFFICES ASSUME Inv, [Next]_vars PROVE Rise
  OBVIOUS
<1> USE DEF Inv, TypeOK, Versions, Rise
<1>1. CASE UNCHANGED vars
  BY <1>1 DEF vars
<1>2. ASSUME NEW j \in Jobs, SetChallenger(j) PROVE Rise
  BY <1>2 DEF SetChallenger, OrderInv
<1>3. ASSUME NEW j \in Jobs, Install(j) PROVE Rise
  BY <1>3 DEF Install, Promoted, OrderInv
<1>4. ASSUME NEW j \in Jobs, Register(j) PROVE Rise
  BY <1>4 DEF Register
<1>5. CASE UNCHANGED registry
  BY <1>5 DEF registry
<1>6. QED
  BY <1>1, <1>2, <1>3, <1>4, <1>5
     DEF Next, Work, Connect, ExtractSignins, SkipTraining, Fit, Resolve, Judge, Reread, EnsureChampion,
         ReadVersion, Download, WriteScores, Crash, NextCommand, Touch, ComposeUp

-----------------------------------------------------------------------------
(* Preservation, one conjunct of the invariant at a time.                   *)

LEMMA TypeStep == Inv /\ [Next]_vars => TypeOK'
<1> SUFFICES ASSUME Inv, [Next]_vars PROVE TypeOK'
  OBVIOUS
<1> USE BoundsAssumption DEF Inv, TypeOK, Goto, End, Close, registry, script, local, history
<1>1. ASSUME NEW j \in Jobs, Connect(j) PROVE TypeOK'
  BY <1>1 DEF Connect, Startable, Steps, Ended
<1>0. ASSUME NEW j \in Jobs, ExtractSignins(j) PROVE TypeOK'
  BY <1>0 DEF ExtractSignins, Steps, Ended
<1>2. ASSUME NEW j \in Jobs, SkipTraining(j) PROVE TypeOK'
  BY <1>2 DEF SkipTraining, Steps, Ended
<1>3. ASSUME NEW j \in Jobs, Fit(j) PROVE TypeOK'
  BY <1>3 DEF Fit, Steps, Ended
<1>4. ASSUME NEW j \in Jobs, Register(j) PROVE TypeOK'
  <2>1. latest + 1 \in 0..MaxVersion
    BY <1>4 DEF Register
  <2>2. QED
    BY <1>4, <2>1 DEF Register, Steps
<1>5. ASSUME NEW j \in Jobs, SetChallenger(j) PROVE TypeOK'
  BY <1>5 DEF SetChallenger, OrderInv, Steps, Ended
<1>6. ASSUME NEW j \in Jobs, Resolve(j) PROVE TypeOK'
  <2>1. alias.challenger # 0 => [champion |-> 0, challenger |-> alias.challenger] \in Verdict
    BY DEF Verdict, Versions
  <2>2. QED
    BY <1>6, <2>1 DEF Resolve, IsNone, Steps, Ended
<1>7. ASSUME NEW j \in Jobs, NEW rows \in WindowRows, Judge(j, rows) PROVE TypeOK'
  <2>1. [champion |-> alias.champion, challenger |-> alias.challenger] \in Verdict
    BY <1>7 DEF Judge, OrderInv, Verdict, Versions
  <2>2. QED
    BY <1>7, <2>1 DEF Judge, Steps, Ended
<1>8. ASSUME NEW j \in Jobs, Reread(j) PROVE TypeOK'
  BY <1>8 DEF Reread, IsNone, Steps, Ended
<1>9. ASSUME NEW j \in Jobs, Install(j) PROVE TypeOK'
  <2>1. [from |-> alias.champion, to |-> got[j]] \in Move
    BY <1>9 DEF Install, OrderInv, Move, Versions
  <2>2. moved' \in [Jobs -> Move \cup {None}]
    BY <1>9, <2>1 DEF Install, Promoted
  <2>3. alias' \in [{"champion", "challenger"} -> 0..MaxVersion]
    BY <1>9 DEF Install, Promoted
  <2>4. QED
    BY <1>9, <2>2, <2>3 DEF Install, Steps, Ended
<1>10. ASSUME NEW j \in Jobs, EnsureChampion(j) PROVE TypeOK'
  BY <1>10 DEF EnsureChampion, Steps, Ended
<1>11. ASSUME NEW j \in Jobs, ReadVersion(j) PROVE TypeOK'
  BY <1>11 DEF ReadVersion, Preferred, Steps, Ended
<1>12. ASSUME NEW j \in Jobs, Download(j) PROVE TypeOK'
  BY <1>12 DEF Download, Steps, Ended
<1>13. ASSUME NEW j \in Jobs, WriteScores(j) PROVE TypeOK'
  BY <1>13 DEF WriteScores, OrderInv, Versions, Steps, Ended
<1>14. ASSUME NEW j \in Jobs, Crash(j) PROVE TypeOK'
  BY <1>14 DEF Crash, Steps, Ended
<1>15. CASE NextCommand
  BY <1>15 DEF NextCommand, Following, Succeeded, BootInv, Stages, Steps, Ended
<1>16. CASE Touch
  BY <1>16 DEF Touch, Steps, Ended
<1>17. CASE ComposeUp
  BY <1>17 DEF ComposeUp, Restarted, Stages, Steps, Ended
<1>18. CASE UNCHANGED vars
  BY <1>18 DEF vars
<1>19. QED
  BY <1>0, <1>1, <1>2, <1>3, <1>4, <1>5, <1>6, <1>7, <1>8, <1>9, <1>10, <1>11,
         <1>12, <1>13, <1>14, <1>15, <1>16, <1>17, <1>18 DEF Next, Work

(* Only a CLI command trains or promotes, and none connects beside another  *)
(* process.                                                                 *)
LEMMA LockStep == Inv /\ [Next]_vars => LockInv'
<1> SUFFICES ASSUME Inv, [Next]_vars PROVE LockInv'
  OBVIOUS
<1> USE DoesKind DEF Inv, LockInv, TypeOK, Open, CliOnly, Goto, End, Close, registry,
          script, local, history
<1>1. ASSUME NEW j \in Jobs, Connect(j) PROVE LockInv'
  BY <1>1 DEF Connect, Startable, Lockable
<1>0. ASSUME NEW j \in Jobs, ExtractSignins(j) PROVE LockInv'
  BY <1>0 DEF ExtractSignins
<1>2. ASSUME NEW j \in Jobs, SkipTraining(j) PROVE LockInv'
  BY <1>2 DEF SkipTraining
<1>3. ASSUME NEW j \in Jobs, Fit(j) PROVE LockInv'
  BY <1>3 DEF Fit
<1>4. ASSUME NEW j \in Jobs, Register(j) PROVE LockInv'
  BY <1>4 DEF Register
<1>5. ASSUME NEW j \in Jobs, SetChallenger(j) PROVE LockInv'
  BY <1>5 DEF SetChallenger
<1>6. ASSUME NEW j \in Jobs, Resolve(j) PROVE LockInv'
  BY <1>6 DEF Resolve, IsNone
<1>7. ASSUME NEW j \in Jobs, NEW rows \in WindowRows, Judge(j, rows) PROVE LockInv'
  BY <1>7 DEF Judge
<1>8. ASSUME NEW j \in Jobs, Reread(j) PROVE LockInv'
  BY <1>8 DEF Reread, IsNone
<1>9. ASSUME NEW j \in Jobs, Install(j) PROVE LockInv'
  BY <1>9 DEF Install, Promoted
<1>10. ASSUME NEW j \in Jobs, EnsureChampion(j) PROVE LockInv'
  BY <1>10 DEF EnsureChampion
<1>11. ASSUME NEW j \in Jobs, ReadVersion(j) PROVE LockInv'
  BY <1>11 DEF ReadVersion, Preferred
<1>12. ASSUME NEW j \in Jobs, Download(j) PROVE LockInv'
  BY <1>12 DEF Download
<1>13. ASSUME NEW j \in Jobs, WriteScores(j) PROVE LockInv'
  BY <1>13 DEF WriteScores
<1>14. ASSUME NEW j \in Jobs, Crash(j) PROVE LockInv'
  BY <1>14 DEF Crash, Ended
<1>15. CASE NextCommand
  BY <1>15 DEF NextCommand, Following, Succeeded
<1>16. CASE Touch
  BY <1>16 DEF Touch
<1>17. CASE ComposeUp
  BY <1>17 DEF ComposeUp, Restarted
<1>18. CASE UNCHANGED vars
  BY <1>18 DEF vars
<1>19. QED
  BY <1>0, <1>1, <1>2, <1>3, <1>4, <1>5, <1>6, <1>7, <1>8, <1>9, <1>10, <1>11,
         <1>12, <1>13, <1>14, <1>15, <1>16, <1>17, <1>18 DEF Next, Work

(* A job's lookup outlives every other step because the aliases rise; that  *)
(* of a trainer, because no other trainer has a connection.                 *)
LEMMA OrderStep == Inv /\ [Next]_vars => OrderInv'
<1> SUFFICES ASSUME Inv, [Next]_vars PROVE OrderInv'
  OBVIOUS
<1> USE AliasesRise, DoesKind DEF Inv, OrderInv, Rise, TypeOK, Versions, Goto, End, Close,
          registry, script, local, history
<1>1. ASSUME NEW j \in Jobs, Connect(j) PROVE OrderInv'
  BY <1>1 DEF Connect, Startable
<1>0. ASSUME NEW j \in Jobs, ExtractSignins(j) PROVE OrderInv'
  BY <1>0 DEF ExtractSignins
<1>2. ASSUME NEW j \in Jobs, SkipTraining(j) PROVE OrderInv'
  BY <1>2 DEF SkipTraining
<1>3. ASSUME NEW j \in Jobs, Fit(j) PROVE OrderInv'
  BY <1>3 DEF Fit
<1>4. ASSUME NEW j \in Jobs, Register(j) PROVE OrderInv'
  BY <1>4 DEF Register, LockInv, Open, CliOnly
<1>5. ASSUME NEW j \in Jobs, SetChallenger(j) PROVE OrderInv'
  BY <1>5 DEF SetChallenger
<1>6. ASSUME NEW j \in Jobs, Resolve(j) PROVE OrderInv'
  BY <1>6 DEF Resolve, IsNone
<1>7. ASSUME NEW j \in Jobs, NEW rows \in WindowRows, Judge(j, rows) PROVE OrderInv'
  BY <1>7 DEF Judge
<1>8. ASSUME NEW j \in Jobs, Reread(j) PROVE OrderInv'
  BY <1>8 DEF Reread, IsNone
<1>9. ASSUME NEW j \in Jobs, Install(j) PROVE OrderInv'
  BY <1>9 DEF Install, Promoted
<1>10. ASSUME NEW j \in Jobs, EnsureChampion(j) PROVE OrderInv'
  BY <1>10 DEF EnsureChampion
<1>11. ASSUME NEW j \in Jobs, ReadVersion(j) PROVE OrderInv'
  BY <1>11 DEF ReadVersion, Preferred
<1>12. ASSUME NEW j \in Jobs, Download(j) PROVE OrderInv'
  BY <1>12 DEF Download
<1>13. ASSUME NEW j \in Jobs, WriteScores(j) PROVE OrderInv'
  BY <1>13 DEF WriteScores
<1>14. ASSUME NEW j \in Jobs, Crash(j) PROVE OrderInv'
  BY <1>14 DEF Crash
<1>15. CASE NextCommand
  BY <1>15 DEF NextCommand, Following, Succeeded
<1>16. CASE Touch
  BY <1>16 DEF Touch
<1>17. CASE ComposeUp
  BY <1>17 DEF ComposeUp, Restarted
<1>18. CASE UNCHANGED vars
  BY <1>18 DEF vars
<1>19. QED
  BY <1>0, <1>1, <1>2, <1>3, <1>4, <1>5, <1>6, <1>7, <1>8, <1>9, <1>10, <1>11,
         <1>12, <1>13, <1>14, <1>15, <1>16, <1>17, <1>18 DEF Next, Work

(* A verdict names the @challenger of the moment, and its job has moved     *)
(* nothing yet.                                                             *)
LEMMA VerdictKeepsGate ==
  ASSUME Inv, NEW j \in Jobs, NEW champion \in 0..MaxVersion,
         alias.challenger # 0, pc[j] # "done", UNCHANGED <<alias, got, moved>>,
         pc' = [pc EXCEPT ![j] = "approved"],
         judged' = [judged EXCEPT ![j] =
                      [champion |-> champion, challenger |-> alias.challenger]]
  PROVE  GateInv'
<1> DEFINE verdict == [champion |-> champion, challenger |-> alias.challenger]
<1>1. verdict \in Verdict /\ verdict.challenger = alias.challenger /\ verdict # None
  BY NoneAssumption DEF Inv, TypeOK, Verdict, Versions
<1>2. judged'[j] = verdict /\ pc'[j] = "approved"
  BY DEF Inv, TypeOK
<1>3. \A i \in Jobs \ {j} : judged'[i] = judged[i] /\ pc'[i] = pc[i]
  BY DEF Inv, TypeOK
<1>4. Kind[j] = "promote" => moved[j] = None
  BY DEF Inv, GateInv
<1>5. alias.challenger <= alias.challenger
  BY DEF Inv, TypeOK
<1> HIDE DEF verdict
<1>6. QED
  BY <1>1, <1>2, <1>3, <1>4, <1>5 DEF Inv, GateInv

LEMMA GateStep == Inv /\ [Next]_vars => GateInv'
<1> SUFFICES ASSUME Inv, [Next]_vars PROVE GateInv'
  OBVIOUS
<1> USE AliasesRise, DoesKind DEF Inv, GateInv, OrderInv, Rise, TypeOK, Verdict, Move,
          Versions, Goto, End, Close, registry, script, local, history
<1>1. ASSUME NEW j \in Jobs, Connect(j) PROVE GateInv'
  BY <1>1 DEF Connect, Startable
<1>0. ASSUME NEW j \in Jobs, ExtractSignins(j) PROVE GateInv'
  BY <1>0 DEF ExtractSignins
<1>2. ASSUME NEW j \in Jobs, SkipTraining(j) PROVE GateInv'
  BY <1>2 DEF SkipTraining
<1>3. ASSUME NEW j \in Jobs, Fit(j) PROVE GateInv'
  BY <1>3 DEF Fit
<1>4. ASSUME NEW j \in Jobs, Register(j) PROVE GateInv'
  BY <1>4 DEF Register
<1>5. ASSUME NEW j \in Jobs, SetChallenger(j) PROVE GateInv'
  BY <1>5 DEF SetChallenger
<1>6. ASSUME NEW j \in Jobs, Resolve(j) PROVE GateInv'
  <2>1. CASE alias.challenger = 0
    BY <1>6, <2>1 DEF Resolve, IsNone
  <2>2. CASE alias.challenger # 0 /\ alias.champion = 0
    BY <1>6, <2>2, 0 \in 0..MaxVersion, VerdictKeepsGate DEF Resolve, IsNone, Steps, Ended
  <2>3. CASE alias.challenger # 0 /\ alias.champion # 0
    BY <1>6, <2>3 DEF Resolve, IsNone
  <2>4. QED
    BY <2>1, <2>2, <2>3
<1>7. ASSUME NEW j \in Jobs, NEW rows \in WindowRows, Judge(j, rows) PROVE GateInv'
  <2>1. CASE ShouldPromote(alias.champion, alias.challenger, rows)
    BY <1>7, <2>1, VerdictKeepsGate DEF Judge, Steps, Ended
  <2>2. CASE ~ShouldPromote(alias.champion, alias.challenger, rows)
    BY <1>7, <2>2 DEF Judge
  <2>3. QED
    BY <2>1, <2>2
<1>8. ASSUME NEW j \in Jobs, Reread(j) PROVE GateInv'
  BY <1>8 DEF Reread, IsNone
<1>9. ASSUME NEW j \in Jobs, Install(j) PROVE GateInv'
  BY <1>9 DEF Install, Promoted
<1>10. ASSUME NEW j \in Jobs, EnsureChampion(j) PROVE GateInv'
  BY <1>10 DEF EnsureChampion
<1>11. ASSUME NEW j \in Jobs, ReadVersion(j) PROVE GateInv'
  BY <1>11 DEF ReadVersion, Preferred
<1>12. ASSUME NEW j \in Jobs, Download(j) PROVE GateInv'
  BY <1>12 DEF Download
<1>13. ASSUME NEW j \in Jobs, WriteScores(j) PROVE GateInv'
  BY <1>13 DEF WriteScores
<1>14. ASSUME NEW j \in Jobs, Crash(j) PROVE GateInv'
  BY <1>14 DEF Crash, Ended
<1>15. CASE NextCommand
  BY <1>15 DEF NextCommand, Following, Succeeded
<1>16. CASE Touch
  BY <1>16 DEF Touch
<1>17. CASE ComposeUp
  BY <1>17 DEF ComposeUp, Restarted
<1>18. CASE UNCHANGED vars
  BY <1>18 DEF vars
<1>19. QED
  BY <1>0, <1>1, <1>2, <1>3, <1>4, <1>5, <1>6, <1>7, <1>8, <1>9, <1>10, <1>11,
         <1>12, <1>13, <1>14, <1>15, <1>16, <1>17, <1>18 DEF Next, Work

(* Scores are replaced, never deleted.                                      *)
LEMMA ScoredStep == Inv /\ [Next]_vars /\ Scored => Scored'
<1> SUFFICES ASSUME Inv, [Next]_vars, Scored PROVE Scored'
  OBVIOUS
<1>1. CASE UNCHANGED scores
  BY <1>1 DEF Scored
<1>2. ASSUME NEW j \in Jobs, WriteScores(j) PROVE Scored'
  BY <1>2 DEF WriteScores, Scored, Inv, TypeOK, OrderInv, Versions
<1>3. QED
  BY <1>1, <1>2
     DEF Next, Work, vars, Connect, ExtractSignins, SkipTraining, Fit, Register, SetChallenger, Resolve, Judge,
         Reread, Install, EnsureChampion, ReadVersion, Download, Crash, NextCommand, Touch,
         ComposeUp

LEMMA OthersLeaveScript ==
  ASSUME Inv, NEW j \in Jobs, j # Boot, Work(j) \/ Crash(j), Boot \in Jobs
  PROVE  pc'[Boot] = pc[Boot] /\ stage' = stage
BY DEF Work, Inv, TypeOK, End, Goto, script, Connect, ExtractSignins, SkipTraining, Fit, Register, SetChallenger,
       Resolve, Judge, Reread, Install, EnsureChampion, ReadVersion, Download, WriteScores, Crash

(* The script's own commands end well only with what the next ones need.    *)
LEMMA BootStep == Inv /\ [Next]_vars => BootInv'
<1> SUFFICES ASSUME Inv, [Next]_vars, Boot \in Jobs PROVE BootInv'
  BY DEF BootInv
<1> USE AliasesRise, ScoredStep DEF Inv, BootInv, Rise, TypeOK, Goto, End, script
<1>1. ASSUME NEW j \in Jobs, j # Boot, Work(j) \/ Crash(j) PROVE BootInv'
  BY <1>1, OthersLeaveScript
<1>2. ASSUME Work(Boot) PROVE BootInv'
  <2>0. Does(Boot) = CASE stage = "extract" -> "extract" [] stage = "train" -> "trainSkip"
                       [] stage = "promote" -> "promoteForce" [] stage = "score" -> "cliScore"
                       [] stage = "touch" -> "touch"
    BY DEF Does, Command, Stages
  <2>1. CASE Connect(Boot) \/ ExtractSignins(Boot)
    BY <2>0, <2>1 DEF Connect, Startable, ExtractSignins
  <2>2. CASE SkipTraining(Boot)
    BY <2>0, <2>2 DEF SkipTraining, OrderInv
  <2>3. CASE Fit(Boot)
    BY <2>0, <2>3 DEF Fit
  <2>4. CASE Register(Boot)
    BY <2>4 DEF Register
  <2>5. CASE SetChallenger(Boot)
    BY <2>5 DEF SetChallenger, OrderInv
  <2>6. CASE Resolve(Boot) \/ (\E rows \in WindowRows : Judge(Boot, rows)) \/ EnsureChampion(Boot)
    BY <2>0, <2>6 DEF Resolve, Judge, EnsureChampion
  <2>7. CASE Reread(Boot)
    BY <2>0, <2>7 DEF Reread, IsNone
  <2>8. CASE Install(Boot)
    BY <2>8 DEF Install, Promoted, OrderInv
  <2>9. CASE ReadVersion(Boot)
    BY <2>0, <2>9 DEF ReadVersion, Preferred
  <2>10. CASE Download(Boot)
    BY <2>10 DEF Download
  <2>11. CASE WriteScores(Boot)
    <3>1. got[Boot] \in Versions /\ bundle[Boot] # 0
      BY <2>11 DEF WriteScores, OrderInv, Versions
    <3>2. Scored'
      BY <2>11, <3>1 DEF WriteScores, Scored
    <3>3. QED
      BY <2>11, <3>2 DEF WriteScores
  <2>12. QED
    BY <1>2, <2>1, <2>2, <2>3, <2>4, <2>5, <2>6, <2>7, <2>8, <2>9, <2>10, <2>11 DEF Work
<1>3. ASSUME Crash(Boot) PROVE BootInv'
  BY <1>3 DEF Crash, Stages
<1>4. CASE NextCommand
  BY <1>4 DEF NextCommand, Succeeded, Following, Stages
<1>5. CASE Touch
  BY <1>5 DEF Touch
<1>6. CASE ComposeUp
  BY <1>6 DEF ComposeUp, Restarted
<1>7. CASE UNCHANGED vars
  BY <1>7 DEF vars
<1>8. QED
  BY <1>1, <1>2, <1>3, <1>4, <1>5, <1>6, <1>7 DEF Next

LEMMA RequestStep == Inv /\ [Next]_vars => RequestInv'
<1> SUFFICES ASSUME Inv, [Next]_vars PROVE RequestInv'
  OBVIOUS
<1> USE DoesKind DEF Inv, RequestInv, CheckedRequestScores, Api, OrderInv, TypeOK, Goto,
          End, Close, registry, script, local, history
<1>1. ASSUME NEW j \in Jobs, Connect(j) PROVE RequestInv'
  BY <1>1 DEF Connect, Startable
<1>0. ASSUME NEW j \in Jobs, ExtractSignins(j) PROVE RequestInv'
  BY <1>0 DEF ExtractSignins
<1>2. ASSUME NEW j \in Jobs, SkipTraining(j) PROVE RequestInv'
  BY <1>2 DEF SkipTraining
<1>3. ASSUME NEW j \in Jobs, Fit(j) PROVE RequestInv'
  BY <1>3 DEF Fit
<1>4. ASSUME NEW j \in Jobs, Register(j) PROVE RequestInv'
  BY <1>4 DEF Register
<1>5. ASSUME NEW j \in Jobs, SetChallenger(j) PROVE RequestInv'
  BY <1>5 DEF SetChallenger
<1>6. ASSUME NEW j \in Jobs, Resolve(j) PROVE RequestInv'
  BY <1>6 DEF Resolve, IsNone
<1>7. ASSUME NEW j \in Jobs, NEW rows \in WindowRows, Judge(j, rows) PROVE RequestInv'
  BY <1>7 DEF Judge
<1>8. ASSUME NEW j \in Jobs, Reread(j) PROVE RequestInv'
  BY <1>8 DEF Reread, IsNone
<1>9. ASSUME NEW j \in Jobs, Install(j) PROVE RequestInv'
  BY <1>9 DEF Install, Promoted
<1>10. ASSUME NEW j \in Jobs, EnsureChampion(j) PROVE RequestInv'
  BY <1>10 DEF EnsureChampion
<1>11. ASSUME NEW j \in Jobs, ReadVersion(j) PROVE RequestInv'
  BY <1>11 DEF ReadVersion, Preferred
<1>12. ASSUME NEW j \in Jobs, Download(j) PROVE RequestInv'
  BY <1>12 DEF Download
<1>13. ASSUME NEW j \in Jobs, WriteScores(j) PROVE RequestInv'
  BY <1>13 DEF WriteScores
<1>14. ASSUME NEW j \in Jobs, Crash(j) PROVE RequestInv'
  BY <1>14 DEF Crash
<1>15. CASE NextCommand
  BY <1>15 DEF NextCommand, Following, Succeeded
<1>16. CASE Touch
  BY <1>16 DEF Touch
<1>17. CASE ComposeUp
  BY <1>17 DEF ComposeUp, Restarted
<1>18. CASE UNCHANGED vars
  BY <1>18 DEF vars
<1>19. QED
  BY <1>0, <1>1, <1>2, <1>3, <1>4, <1>5, <1>6, <1>7, <1>8, <1>9, <1>10, <1>11,
         <1>12, <1>13, <1>14, <1>15, <1>16, <1>17, <1>18 DEF Next, Work

LEMMA SentinelStep == Inv /\ [Next]_vars => SentinelMeansScored'
<1> SUFFICES ASSUME Inv, [Next]_vars PROVE SentinelMeansScored'
  OBVIOUS
<1> USE AliasesRise DEF Inv, SentinelMeansScored, OrderInv, Rise, TypeOK, Goto, End,
          Close, registry, script, local, history
<1>1. ASSUME NEW j \in Jobs, Connect(j) PROVE SentinelMeansScored'
  BY <1>1 DEF Connect, Startable
<1>0. ASSUME NEW j \in Jobs, ExtractSignins(j) PROVE SentinelMeansScored'
  BY <1>0 DEF ExtractSignins
<1>2. ASSUME NEW j \in Jobs, SkipTraining(j) PROVE SentinelMeansScored'
  BY <1>2 DEF SkipTraining
<1>3. ASSUME NEW j \in Jobs, Fit(j) PROVE SentinelMeansScored'
  BY <1>3 DEF Fit
<1>4. ASSUME NEW j \in Jobs, Register(j) PROVE SentinelMeansScored'
  BY <1>4 DEF Register
<1>5. ASSUME NEW j \in Jobs, SetChallenger(j) PROVE SentinelMeansScored'
  BY <1>5 DEF SetChallenger
<1>6. ASSUME NEW j \in Jobs, Resolve(j) PROVE SentinelMeansScored'
  BY <1>6 DEF Resolve, IsNone
<1>7. ASSUME NEW j \in Jobs, NEW rows \in WindowRows, Judge(j, rows) PROVE SentinelMeansScored'
  BY <1>7 DEF Judge
<1>8. ASSUME NEW j \in Jobs, Reread(j) PROVE SentinelMeansScored'
  BY <1>8 DEF Reread, IsNone
<1>9. ASSUME NEW j \in Jobs, Install(j) PROVE SentinelMeansScored'
  BY <1>9 DEF Install, Promoted
<1>10. ASSUME NEW j \in Jobs, EnsureChampion(j) PROVE SentinelMeansScored'
  BY <1>10 DEF EnsureChampion
<1>11. ASSUME NEW j \in Jobs, ReadVersion(j) PROVE SentinelMeansScored'
  BY <1>11 DEF ReadVersion, Preferred
<1>12. ASSUME NEW j \in Jobs, Download(j) PROVE SentinelMeansScored'
  BY <1>12 DEF Download
<1>13. ASSUME NEW j \in Jobs, WriteScores(j) PROVE SentinelMeansScored'
  BY <1>13 DEF WriteScores
<1>14. ASSUME NEW j \in Jobs, Crash(j) PROVE SentinelMeansScored'
  BY <1>14 DEF Crash
<1>15. CASE NextCommand
  BY <1>15 DEF NextCommand, Following, Succeeded
<1>16. CASE Touch
  BY <1>16 DEF Touch, BootInv, Scored
<1>17. CASE ComposeUp
  BY <1>17 DEF ComposeUp, Restarted
<1>18. CASE UNCHANGED vars
  BY <1>18 DEF vars
<1>19. QED
  BY <1>0, <1>1, <1>2, <1>3, <1>4, <1>5, <1>6, <1>7, <1>8, <1>9, <1>10, <1>11,
         <1>12, <1>13, <1>14, <1>15, <1>16, <1>17, <1>18 DEF Next, Work

-----------------------------------------------------------------------------
LEMMA InvStep == Inv /\ [Next]_vars => Inv'
BY TypeStep, LockStep, OrderStep, GateStep, BootStep, RequestStep, SentinelStep DEF Inv

LEMMA Invariance == Spec => []Inv
BY InitInv, InvStep, PTL DEF Spec

(* Every variable keeps its type: no alias, verdict or move is ever of an   *)
(* unset version.                                                           *)
THEOREM TypeCorrect == Spec => []TypeOK
BY Invariance, PTL DEF Inv

(* No step of any commands and requests, interleaved or killed anywhere,    *)
(* takes @challenger back to an older version.                              *)
THEOREM ChallengerRises == Spec => ChallengerNeverOlder
<1>1. Inv /\ [Next]_vars => [alias'.challenger >= alias.challenger]_vars
  BY AliasesRise DEF Rise
<1>2. QED
  BY <1>1, Invariance, PTL DEF Spec, ChallengerNeverOlder

(* @champion is never newer than @challenger.                               *)
THEOREM ChampionsWereChallengers == Spec => []ChampionWasChallenger
<1>1. Inv => ChampionWasChallenger
  BY DEF Inv, OrderInv, ChampionWasChallenger
<1>2. QED
  BY <1>1, Invariance, PTL

(* A gated promotion installs the version it judged or a later one.         *)
THEOREM GatedPromotions == Spec => []GatedNeverOlder
<1>1. Inv => GatedNeverOlder
  BY DEF Inv, GateInv, GatedNeverOlder
<1>2. QED
  BY <1>1, Invariance, PTL

(* A request that _ensure_champion let through finds a bundle.              *)
THEOREM CheckedRequests == Spec => []CheckedRequestScores
BY Invariance, PTL DEF Inv, RequestInv

(* The bootstrap leaves its sentinel only over a champion and scores.       *)
THEOREM SentinelOverScores == Spec => []SentinelMeansScored
BY Invariance, PTL DEF Inv
=============================================================================
