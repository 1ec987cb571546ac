----------------------- MODULE NarrativeGenerator_proofs -----------------------
(***************************************************************************)
(* Theorems about NarrativeGenerator, for any number of runs and findings, *)
(* any budgets, prices and semaphore sizes.                                *)
(***************************************************************************)
EXTENDS NarrativeGenerator, FiniteSetTheorems, TLAPS

Counters == {"hits", "generated", "skipped", "errored"}

-----------------------------------------------------------------------------
(* The helpers, typed. *)

LEMMA AnswerType ==
  ASSUME TypeOK, NEW t \in Tasks, NEW valid \in BOOLEAN, NEW cost \in Costs
  PROVE  AnswerTo(t, valid, cost) \in Answer
BY DEF AnswerTo, Answer

LEMMA CountedType ==
  ASSUME TypeOK, NEW r \in Runs, NEW field \in Counters
  PROVE  Counted(r, field) \in [Runs -> Tally]
<1>1. tally[r] \in Tally
  BY DEF TypeOK
<1>2. [tally[r] EXCEPT ![field] = @ + 1] \in Tally
  BY <1>1 DEF Tally, Counters
<1> QED
  BY <1>2 DEF Counted, TypeOK

LEMMA KeyType == ASSUME NEW t \in Tasks PROVE Key[t] \in Keys
BY DEF Key, Keys

-----------------------------------------------------------------------------
(* Type correctness *)

LEMMA TypeInit == Init => TypeOK
BY ClockAssumption DEF Init, TypeOK, Tally, Finished, InFlightStates

LEMMA TypeStep == ASSUME TypeOK, [Next]_vars PROVE TypeOK'
<1> USE TasksAssumption DEF TypeOK
<1>1. ASSUME NEW r \in Runs, Open(r) PROVE TypeOK'
  BY <1>1 DEF Open
<1>2. ASSUME NEW r \in Runs, Return(r) PROVE TypeOK'
  <2>1. Cardinality(TasksOf(r)) \in Nat
    BY FS_Subset, FS_CardinalityType DEF TasksOf
  <2>2. [tally[r] EXCEPT !.generated = Cardinality(TasksOf(r))] \in Tally
    BY <2>1 DEF Tally
  <2> QED BY <1>2, <2>2 DEF Return
<1>3. ASSUME NEW r \in Runs, Fail(r) PROVE TypeOK'
  BY <1>3 DEF Fail, Finished
<1>4. ASSUME NEW t \in Tasks, Hit(t) PROVE TypeOK'
  <2>1. RunOf[t] \in Runs /\ cache[Key[t]] \in Row
    BY <1>4, KeyType DEF Hit
  <2>2. Touched(Key[t]) \in [Keys -> Row \cup {None}]
    BY <2>1, KeyType DEF Touched, Row
  <2>3. [body |-> cache[Key[t]].body, at |-> now] \in Served
    BY <2>1 DEF Row, Served
  <2>4. Counted(RunOf[t], "hits") \in [Runs -> Tally]
    BY <2>1, CountedType DEF Counters
  <2> QED BY <1>4, <2>2, <2>3, <2>4 DEF Hit, Finished
<1>5. ASSUME NEW t \in Tasks, Skip(t) PROVE TypeOK'
  <2>1. Counted(RunOf[t], "skipped") \in [Runs -> Tally]
    BY CountedType DEF Counters
  <2> QED BY <1>5, <2>1 DEF Skip, Finished
<1>6. ASSUME NEW t \in Tasks, Call(t) PROVE TypeOK'
  BY <1>6 DEF Call, InFlightStates
<1>7. ASSUME NEW t \in Tasks, LookupOnClosed(t) PROVE TypeOK'
  BY <1>7 DEF LookupOnClosed, Finished
<1>8. ASSUME NEW t \in Tasks, NEW valid \in BOOLEAN, NEW cost \in Costs, Accept(t, valid, cost)
      PROVE TypeOK'
  <2> DEFINE r == RunOf[t]
             answer == AnswerTo(t, valid, cost)
  <2>1. r \in Runs /\ answer \in Answer /\ cost \in Nat
    BY AnswerType, CostsAssumption
  <2>2. lastResponse' \in [Runs -> Answer \cup {None}] /\ lastResponse'[r] = answer
    BY <1>8, <2>1 DEF Accept, Stashed
  <2>3. answer.cost = cost
    BY DEF AnswerTo
  <2>4. billed' \in [Runs -> Nat]
    BY <1>8, <2>1 DEF Accept
  <2>5. spent' \in [Runs -> Nat]
    BY <1>8, <2>1, <2>2, <2>3 DEF Accept, Recorded
  <2>6. UNCHANGED <<status, now>>
    BY <1>8 DEF Accept
  <2>7. CASE ConnOpen(r)
    <3>1. [body |-> answer, meta |-> answer, lastUsed |-> now] \in Row
      BY <2>1 DEF Row
    <3>2. cache' \in [Keys -> Row \cup {None}]
      BY <1>8, <2>2, <2>7, <3>1, KeyType DEF Accept, Stored
    <3>3. [body |-> answer, at |-> now] \in Served
      BY <2>1 DEF Served
    <3>4. served' \in [Tasks -> Served \cup {None}]
      BY <1>8, <2>7, <3>3 DEF Accept
    <3>5. Counted(r, "generated") \in [Runs -> Tally]
      BY <2>1, CountedType DEF Counters
    <3> QED BY <1>8, <2>2, <2>4, <2>5, <2>6, <2>7, <3>2, <3>4, <3>5 DEF Accept, Finished
  <2>8. CASE ~ConnOpen(r)
    BY <1>8, <2>2, <2>4, <2>5, <2>6, <2>8 DEF Accept, Finished
  <2> QED BY <2>7, <2>8
<1>9. ASSUME NEW t \in Tasks, NEW valid \in BOOLEAN, NEW cost \in Costs, Reject(t, valid, cost)
      PROVE TypeOK'
  <2>1. AnswerTo(t, valid, cost) \in Answer /\ cost \in Nat
    BY AnswerType, CostsAssumption
  <2>2. Counted(RunOf[t], "errored") \in [Runs -> Tally]
    BY CountedType DEF Counters
  <2> QED BY <1>9, <2>1, <2>2 DEF Reject, Stashed, Finished, InFlightStates
<1>10. ASSUME NEW t \in Tasks, NEW cost \in Costs \cup {0}, ProviderError(t, cost)
       PROVE TypeOK'
  <2>1. Counted(RunOf[t], "errored") \in [Runs -> Tally]
    BY CountedType DEF Counters
  <2> QED BY <1>10, <2>1, CostsAssumption DEF ProviderError, Finished
<1>11. ASSUME NEW t \in Tasks, Unmapped(t) PROVE TypeOK'
  BY <1>11 DEF Unmapped, Propagated, Finished
<1>12. ASSUME NEW days \in EvictDays, Evict(days) PROVE TypeOK'
  BY <1>12 DEF Evict
<1>13. CASE Tick
  BY <1>13, ClockAssumption DEF Tick
<1>14. CASE UNCHANGED vars
  BY <1>14 DEF vars
<1> QED
  BY <1>1, <1>2, <1>3, <1>4, <1>5, <1>6, <1>7, <1>8, <1>9, <1>10, <1>11, <1>12, <1>13, <1>14
     DEF Next, Begin, Respond

(* Every variable keeps its type: no counter goes negative, a row always    *)
(* holds a whole reply, and a task is always in one of the states above.    *)
THEOREM TypeCorrect == Spec => []TypeOK
BY TypeInit, TypeStep, PTL DEF Spec

-----------------------------------------------------------------------------
(* The budget. A call in flight may still cost MaxCost, so the invariant    *)
(* reserves that much for each of them; the guard of Call leaves room for   *)
(* one more because the semaphore had a free slot.                          *)

Within(r, dollars, calls) == dollars + calls * MaxCost <= Cap[r] + Concurrency(r) * MaxCost

Reserved ==
  \A r \in Runs :
    /\ Cardinality(InFlight(r)) <= Concurrency(r)
    /\ Kind[r] \notin Singles => Within(r, spent[r], Cardinality(InFlight(r)))

LEMMA InFlightFinite ==
  ASSUME NEW r \in Runs
  PROVE  /\ IsFiniteSet(TasksOf(r))
         /\ IsFiniteSet(InFlight(r))
         /\ Cardinality(InFlight(r)) \in Nat
BY TasksAssumption, FS_Subset, FS_CardinalityType DEF TasksOf, InFlight

LEMMA ConcurrencyType == ASSUME NEW r \in Runs PROVE Concurrency(r) \in Nat
BY RunsAssumption DEF Concurrency

(* A slot taken by a call that passed the budget check.                     *)
LEMMA RoomForOne ==
  ASSUME NEW r \in Runs, NEW s \in Nat, NEW n \in Nat, NEW e \in Nat,
         s + e <= Cap[r], n < Concurrency(r)
  PROVE  Within(r, s, n + 1)
<1> DEFINE C == Concurrency(r)
<1>1. C \in Nat /\ Cap[r] \in Nat /\ MaxCost \in Nat
  BY ConcurrencyType, RunsAssumption, CostsAssumption
<1> HIDE DEF C
<1>2. PICK d \in Nat : C = (n + 1) + d
  <2>1. C - (n + 1) \in Nat
    BY <1>1 DEF C
  <2> QED BY <1>1, <2>1
<1>3. C * MaxCost = (n + 1) * MaxCost + d * MaxCost /\ d * MaxCost >= 0 /\ (n + 1) * MaxCost \in Nat
  BY <1>1, <1>2
<1> QED
  BY <1>1, <1>3 DEF Within, C

(* A slot given back, its price paid.                                       *)
LEMMA PayOne ==
  ASSUME NEW r \in Runs, NEW s \in Nat, NEW n \in Nat, NEW c \in 0..MaxCost, Within(r, s, n + 1)
  PROVE  Within(r, s + c, n)
<1>1. (n + 1) * MaxCost = n * MaxCost + MaxCost /\ n * MaxCost \in Nat
  BY CostsAssumption
<1>2. Cap[r] + Concurrency(r) * MaxCost \in Nat
  BY ConcurrencyType, RunsAssumption, CostsAssumption
<1> QED BY <1>1, <1>2, CostsAssumption DEF Within

(* Slots given back for free.                                               *)
LEMMA FreeSome ==
  ASSUME NEW r \in Runs, NEW s \in Nat, NEW n \in Nat, NEW m \in Nat, m <= n, Within(r, s, n)
  PROVE  Within(r, s, m)
<1>1. PICK d \in Nat : n = m + d
  <2>1. n - m \in Nat
    OBVIOUS
  <2> QED BY <2>1
<1>2. n * MaxCost = m * MaxCost + d * MaxCost /\ d * MaxCost \in Nat /\ m * MaxCost \in Nat
  BY <1>1, CostsAssumption
<1>3. Cap[r] + Concurrency(r) * MaxCost \in Nat
  BY ConcurrencyType, RunsAssumption, CostsAssumption
<1> QED BY <1>2, <1>3, CostsAssumption DEF Within

(* A step that only takes calls out of flight and records nothing.          *)
LEMMA FewerInFlight ==
  ASSUME TypeOK, Reserved, spent' = spent, \A r \in Runs : InFlight(r)' \subseteq InFlight(r)
  PROVE  Reserved'
<1> SUFFICES ASSUME NEW r \in Runs
             PROVE  /\ Cardinality(InFlight(r)') <= Concurrency(r)
                    /\ Kind[r] \notin Singles => Within(r, spent[r], Cardinality(InFlight(r)'))
  BY DEF Reserved, Within, Concurrency
<1>1. /\ Cardinality(InFlight(r)') \in Nat
      /\ Cardinality(InFlight(r)') <= Cardinality(InFlight(r))
  BY InFlightFinite, FS_Subset, FS_CardinalityType
<1>2. Cardinality(InFlight(r)) \in Nat /\ Concurrency(r) \in Nat /\ spent[r] \in Nat
  BY InFlightFinite, ConcurrencyType DEF TypeOK
<1> QED BY <1>1, <1>2, FreeSome DEF Reserved

LEMMA ReservedInit == Init => Reserved
<1> SUFFICES ASSUME Init, NEW r \in Runs
             PROVE  /\ Cardinality(InFlight(r)) <= Concurrency(r)
                    /\ Within(r, spent[r], Cardinality(InFlight(r)))
  BY DEF Reserved
<1>1. InFlight(r) = {}
  BY DEF Init, InFlight, TasksOf, InFlightStates
<1>2. Cardinality(InFlight(r)) = 0 /\ spent[r] = 0
  BY <1>1, FS_EmptySet DEF Init
<1>3. Concurrency(r) * MaxCost \in Nat /\ Cap[r] \in Nat
  BY ConcurrencyType, RunsAssumption, CostsAssumption
<1> QED BY <1>2, <1>3, ConcurrencyType, CostsAssumption DEF Within

LEMMA ReservedStep == ASSUME TypeOK, Reserved, [Next]_vars PROVE Reserved'
<1>1. ASSUME NEW t \in Tasks, Call(t) PROVE Reserved'
  <2> DEFINE q == RunOf[t]
  <2>1. q \in Runs /\ EstimatedCost[t] \in Nat /\ spent' = spent /\ spent[q] \in Nat
    BY <1>1, TasksAssumption, CostsAssumption DEF Call, TypeOK
  <2>2. InFlight(q)' = InFlight(q) \cup {t} /\ t \notin InFlight(q)
    BY <1>1 DEF Call, Miss, Turn, InFlight, TasksOf, InFlightStates, TypeOK
  <2>3. Cardinality(InFlight(q)') = Cardinality(InFlight(q)) + 1
    BY <2>1, <2>2, InFlightFinite, FS_AddElement
  <2>4. Cardinality(InFlight(q)) < Concurrency(q) /\ Cardinality(InFlight(q)) \in Nat
    BY <1>1, <2>1, InFlightFinite DEF Call, Miss, Turn
  <2>5. Kind[q] \notin Singles => spent[q] + EstimatedCost[t] <= Cap[q]
    BY <1>1, <2>1, RunsAssumption DEF Call, WouldExceed
  <2>6. Kind[q] \notin Singles => Within(q, spent[q], Cardinality(InFlight(q)'))
    BY <2>1, <2>3, <2>4, <2>5, RoomForOne
  <2>7. ASSUME NEW r \in Runs, r # q PROVE InFlight(r)' = InFlight(r)
    BY <1>1, <2>7 DEF Call, InFlight, TasksOf, TypeOK
  <2> SUFFICES ASSUME NEW r \in Runs
               PROVE  /\ Cardinality(InFlight(r)') <= Concurrency(r)
                      /\ Kind[r] \notin Singles => Within(r, spent[r], Cardinality(InFlight(r)'))
    BY <2>1 DEF Reserved, Within, Concurrency
  <2> QED BY <2>1, <2>3, <2>4, <2>6, <2>7, ConcurrencyType DEF Reserved
<1>2. ASSUME NEW t \in Tasks, NEW valid \in BOOLEAN, NEW cost \in Costs, Accept(t, valid, cost)
      PROVE  Reserved'
  <2> DEFINE q == RunOf[t]
  <2>1. q \in Runs /\ spent[q] \in Nat /\ cost \in 0..MaxCost /\ cost \in Nat
    BY TasksAssumption, CostsAssumption DEF TypeOK
  <2>2. InFlight(q)' = InFlight(q) \ {t} /\ t \in InFlight(q)
    BY <1>2 DEF Accept, InFlight, TasksOf, InFlightStates, TypeOK
  <2>3. /\ Cardinality(InFlight(q)') = Cardinality(InFlight(q)) - 1
        /\ Cardinality(InFlight(q)) \in Nat /\ Cardinality(InFlight(q)') \in Nat
    BY <2>1, <2>2, InFlightFinite, FS_RemoveElement, FS_CardinalityType
  <2>4. lastResponse'[q].cost = cost
    BY <1>2, <2>1 DEF Accept, Stashed, AnswerTo, TypeOK
  <2>5. spent'[q] = spent[q] + cost /\ \A r \in Runs : r # q => spent'[r] = spent[r]
    BY <1>2, <2>1, <2>4 DEF Accept, Recorded, TypeOK
  <2>6. Kind[q] \notin Singles => Within(q, spent'[q], Cardinality(InFlight(q)'))
    BY <2>1, <2>3, <2>5, PayOne DEF Reserved
  <2>7. ASSUME NEW r \in Runs, r # q PROVE InFlight(r)' = InFlight(r)
    BY <1>2, <2>7 DEF Accept, InFlight, TasksOf, TypeOK
  <2> SUFFICES ASSUME NEW r \in Runs
               PROVE  /\ Cardinality(InFlight(r)') <= Concurrency(r)
                      /\ Kind[r] \notin Singles => Within(r, spent'[r], Cardinality(InFlight(r)'))
    BY DEF Reserved, Within, Concurrency
  <2> QED BY <2>1, <2>3, <2>5, <2>6, <2>7, ConcurrencyType DEF Reserved
<1>3. ASSUME NEW t \in Tasks, Hit(t) \/ Skip(t) \/ LookupOnClosed(t) PROVE Reserved'
  <2>1. spent' = spent
    BY <1>3 DEF Hit, Skip, LookupOnClosed
  <2>2. \A r \in Runs : InFlight(r)' \subseteq InFlight(r)
    BY <1>3 DEF Hit, Skip, LookupOnClosed, InFlight, TasksOf, InFlightStates, TypeOK
  <2> QED BY <2>1, <2>2, FewerInFlight
<1>4. ASSUME NEW t \in Tasks,
             \/ \E valid \in BOOLEAN, cost \in Costs : Reject(t, valid, cost)
             \/ \E cost \in Costs \cup {0} : ProviderError(t, cost)
             \/ Unmapped(t)
      PROVE  Reserved'
  <2>1. spent' = spent
    BY <1>4 DEF Reject, ProviderError, Unmapped
  <2>2. \A r \in Runs : InFlight(r)' \subseteq InFlight(r)
    BY <1>4 DEF Reject, ProviderError, Unmapped, InFlight, TasksOf, InFlightStates, TypeOK
  <2> QED BY <2>1, <2>2, FewerInFlight
<1>5. ASSUME NEW r \in Runs, Fail(r) PROVE Reserved'
  <2>1. \A q \in Runs : InFlight(q)' \subseteq InFlight(q)
    BY <1>5 DEF Fail, InFlight, TasksOf, InFlightStates, Finished, TypeOK
  <2> QED BY <1>5, <2>1, FewerInFlight DEF Fail
<1>6. ASSUME UNCHANGED <<state, spent>> PROVE Reserved'
  BY <1>6, FewerInFlight DEF InFlight, TasksOf
<1> QED
  BY <1>1, <1>2, <1>3, <1>4, <1>5, <1>6
     DEF Next, Begin, Respond, Open, Return, Evict, Tick, vars

LEMMA ReservedBounds == TypeOK /\ Reserved => OvershootBounded
<1> SUFFICES ASSUME TypeOK, Reserved, NEW r \in Runs, Kind[r] \notin Singles
             PROVE  spent[r] <= Cap[r] + Concurrency(r) * MaxCost
  BY DEF OvershootBounded
<1>1. Within(r, spent[r], 0)
  BY InFlightFinite, FreeSome DEF Reserved, TypeOK
<1> QED BY <1>1, CostsAssumption DEF Within, TypeOK

(* However many findings a run narrates at once and in whatever order the   *)
(* provider answers, the run records at most its cap plus one call per      *)
(* semaphore slot.                                                          *)
THEOREM BudgetOvershoot == Spec => []OvershootBounded
<1>1. Init => TypeOK /\ Reserved
  BY TypeInit, ReservedInit
<1>2. TypeOK /\ Reserved /\ [Next]_vars => (TypeOK /\ Reserved)'
  BY TypeStep, ReservedStep
<1> QED BY <1>1, <1>2, ReservedBounds, PTL DEF Spec

-----------------------------------------------------------------------------
(* A run that has not opened has not begun a task. *)

WaitingQueued ==
  \A r \in Runs : status[r] = "waiting" => \A t \in TasksOf(r) : state[t] = "queued"

LEMMA WaitingInit == Init => WaitingQueued
BY DEF Init, WaitingQueued, TasksOf

LEMMA WaitingStep == ASSUME TypeOK, WaitingQueued, [Next]_vars PROVE WaitingQueued'
<1> USE DEF WaitingQueued, TasksOf, TypeOK
<1>1. ASSUME NEW r \in Runs, Open(r) \/ Return(r) \/ Fail(r) PROVE WaitingQueued'
  BY <1>1 DEF Open, Return, Fail, ConnOpen
<1>2. ASSUME NEW t \in Tasks, Begin(t) PROVE WaitingQueued'
  BY <1>2, TasksAssumption
     DEF Begin, Hit, Skip, Call, LookupOnClosed, Miss, Turn, ConnOpen
<1>3. ASSUME NEW t \in Tasks, NEW valid \in BOOLEAN, NEW cost \in Costs,
             Accept(t, valid, cost) \/ Reject(t, valid, cost)
      PROVE  WaitingQueued'
  BY <1>3, TasksAssumption DEF Accept, Reject, InFlightStates
<1>4. ASSUME NEW t \in Tasks,
             (\E cost \in Costs \cup {0} : ProviderError(t, cost)) \/ Unmapped(t)
      PROVE  WaitingQueued'
  BY <1>4, TasksAssumption DEF ProviderError, Unmapped, Propagated, InFlightStates
<1>5. ASSUME UNCHANGED <<status, state>> PROVE WaitingQueued'
  BY <1>5
<1> QED
  BY <1>1, <1>2, <1>3, <1>4, <1>5 DEF Next, Respond, Evict, Tick, vars

-----------------------------------------------------------------------------
(* Duplicate calls. While no task of the batch has stored the narrative,    *)
(* every call made for its key is still in flight, so the semaphore bounds  *)
(* them; once one has, Miss is false for the others, because nothing is     *)
(* evicted while a connection is open.                                      *)

Paid(r, k) ==
  {t \in TasksOf(r) : Key[t] = k /\ state[t] \in InFlightStates \cup {"generated"}}

PaidOnce ==
  \A r \in Runs, k \in Keys : Kind[r] \in Batches =>
    /\ Cardinality(Paid(r, k)) <= MaxConcurrency
    /\ ConnOpen(r) => \A t \in TasksOf(r) : Key[t] = k /\ state[t] = "generated" => cache[k] # None

LEMMA PaidFinite ==
  ASSUME NEW r \in Runs, NEW k \in Keys
  PROVE  IsFiniteSet(Paid(r, k)) /\ Cardinality(Paid(r, k)) \in Nat
BY InFlightFinite, FS_Subset, FS_CardinalityType DEF Paid

LEMMA PaidInit == Init => PaidOnce
<1> SUFFICES ASSUME Init, NEW r \in Runs, NEW k \in Keys
             PROVE  /\ Cardinality(Paid(r, k)) <= MaxConcurrency
                    /\ \A t \in TasksOf(r) : state[t] # "generated"
  BY DEF PaidOnce
<1>1. Paid(r, k) = {}
  BY DEF Init, Paid, TasksOf, InFlightStates
<1> QED BY <1>1, FS_EmptySet, RunsAssumption DEF Init, TasksOf

(* A step that begins no call, unstores nothing under an open connection    *)
(* and opens no run.                                                        *)
LEMMA NoNewCall ==
  ASSUME TypeOK, PaidOnce,
         NEW r \in Runs, NEW k \in Keys, Kind[r] \in Batches,
         Paid(r, k)' \subseteq Paid(r, k)
  PROVE  Cardinality(Paid(r, k)') <= MaxConcurrency
<1>1. Cardinality(Paid(r, k)') \in Nat /\ Cardinality(Paid(r, k)') <= Cardinality(Paid(r, k))
  BY PaidFinite, FS_Subset, FS_CardinalityType
<1> QED BY <1>1, PaidFinite, RunsAssumption DEF PaidOnce

LEMMA PaidStep == ASSUME TypeOK, WaitingQueued, PaidOnce, [Next]_vars PROVE PaidOnce'
<1> SUFFICES ASSUME NEW r \in Runs, NEW k \in Keys, Kind[r] \in Batches
             PROVE  /\ Cardinality(Paid(r, k)') <= MaxConcurrency
                    /\ ConnOpen(r)' => \A t \in TasksOf(r) :
                         Key[t] = k /\ state'[t] = "generated" => cache'[k] # None
  BY DEF PaidOnce, TasksOf
<1> DEFINE Stores == ConnOpen(r)' => \A t \in TasksOf(r) :
                       Key[t] = k /\ state'[t] = "generated" => cache'[k] # None
<1> USE DEF Paid, TasksOf, ConnOpen, InFlightStates, TypeOK
<1>1. ASSUME NEW t \in Tasks, Call(t) PROVE Cardinality(Paid(r, k)') <= MaxConcurrency /\ Stores
  <2>1. Stores
    BY <1>1 DEF Call, PaidOnce
  <2>2. CASE RunOf[t] = r /\ Key[t] = k
    <3>1. cache[k] = None /\ ConnOpen(r)
      BY <1>1, <2>2 DEF Call, Miss, Forced, Batches
    <3>2. \A u \in TasksOf(r) : Key[u] = k => state[u] # "generated"
      BY <3>1 DEF PaidOnce
    <3>3. Paid(r, k)' \subseteq InFlight(r) \cup {t} /\ t \notin InFlight(r)
      BY <1>1, <2>2, <3>2 DEF Call, Miss, Turn, InFlight
    <3>4. Cardinality(InFlight(r) \cup {t}) = Cardinality(InFlight(r)) + 1
      BY <3>3, InFlightFinite, FS_AddElement
    <3>5. Cardinality(InFlight(r)) < MaxConcurrency /\ Cardinality(InFlight(r)) \in Nat
      BY <1>1, <2>2, InFlightFinite DEF Call, Miss, Turn, Concurrency
    <3>6. /\ Cardinality(Paid(r, k)') <= Cardinality(InFlight(r) \cup {t})
          /\ Cardinality(Paid(r, k)') \in Nat
      BY <3>3, InFlightFinite, FS_AddElement, FS_Subset, FS_CardinalityType
    <3> QED BY <2>1, <3>4, <3>5, <3>6, RunsAssumption
  <2>3. CASE ~(RunOf[t] = r /\ Key[t] = k)
    <3>1. Paid(r, k)' \subseteq Paid(r, k)
      BY <1>1, <2>3 DEF Call
    <3> QED BY <2>1, <3>1, NoNewCall
  <2> QED BY <2>2, <2>3
<1>2. ASSUME NEW t \in Tasks, Hit(t) \/ Skip(t) \/ LookupOnClosed(t)
      PROVE  Cardinality(Paid(r, k)') <= MaxConcurrency /\ Stores
  <2>1. Paid(r, k)' \subseteq Paid(r, k)
    BY <1>2 DEF Hit, Skip, LookupOnClosed
  <2>2. cache[k] # None => cache'[k] # None
    <3>1. ASSUME Hit(t) PROVE [cache[Key[t]] EXCEPT !.lastUsed = now] # None
      <4>1. cache[Key[t]] \in Row
        BY <3>1, KeyType DEF Hit
      <4>2. [cache[Key[t]] EXCEPT !.lastUsed = now] \in Row
        BY <4>1 DEF Row
      <4> QED BY <4>2, NoneAssumption
    <3> QED BY <1>2, <3>1 DEF Hit, Skip, LookupOnClosed, Touched
  <2>3. Stores
    BY <1>2, <2>2 DEF Hit, Skip, LookupOnClosed, PaidOnce
  <2> QED BY <2>1, <2>3, NoNewCall
<1>3. ASSUME NEW t \in Tasks, NEW valid \in BOOLEAN, NEW cost \in Costs, Accept(t, valid, cost)
      PROVE  Cardinality(Paid(r, k)') <= MaxConcurrency /\ Stores
  <2>1. Paid(r, k)' \subseteq Paid(r, k)
    BY <1>3 DEF Accept
  <2>2. status' = status
    BY <1>3 DEF Accept
  <2>3. CASE ConnOpen(RunOf[t])
    <3>1. lastResponse'[RunOf[t]] = AnswerTo(t, valid, cost)
      BY <1>3, TasksAssumption DEF Accept, Stashed
    <3>2. [body |-> AnswerTo(t, valid, cost), meta |-> AnswerTo(t, valid, cost), lastUsed |-> now] \in Row
      BY AnswerType DEF Row
    <3>3. cache'[Key[t]] # None /\ \A j \in Keys : j # Key[t] => cache'[j] = cache[j]
      BY <1>3, <2>3, <3>1, <3>2, NoneAssumption, KeyType DEF Accept, Stored
    <3>4. \A u \in Tasks : u # t => state'[u] = state[u]
      BY <1>3, <2>3 DEF Accept
    <3>5. ASSUME ConnOpen(r)', NEW u \in TasksOf(r), Key[u] = k, state'[u] = "generated"
          PROVE  cache'[k] # None
      <4>1. CASE u = t
        BY <3>3, <3>5, <4>1
      <4>2. CASE u # t
        <5>1. cache[k] # None
          BY <2>2, <3>4, <3>5, <4>2 DEF PaidOnce
        <5> QED BY <3>3, <5>1
      <4> QED BY <4>1, <4>2
    <3> QED BY <2>1, <3>5, NoNewCall
  <2>4. CASE ~ConnOpen(RunOf[t])
    <3>1. Stores
      BY <1>3, <2>2, <2>4 DEF Accept, PaidOnce
    <3> QED BY <2>1, <3>1, NoNewCall
  <2> QED BY <2>3, <2>4
<1>4. ASSUME NEW t \in Tasks,
             \/ \E valid \in BOOLEAN, cost \in Costs : Reject(t, valid, cost)
             \/ \E cost \in Costs \cup {0} : ProviderError(t, cost)
             \/ Unmapped(t)
      PROVE  Cardinality(Paid(r, k)') <= MaxConcurrency /\ Stores
  <2>1. Paid(r, k)' \subseteq Paid(r, k)
    BY <1>4 DEF Reject, ProviderError, Unmapped
  <2>2. ConnOpen(r)' => ConnOpen(r)
    BY <1>4, TasksAssumption DEF Reject, ProviderError, Unmapped, Propagated
  <2>3. cache' = cache /\ \A u \in Tasks : state'[u] = "generated" => state[u] = "generated"
    BY <1>4 DEF Reject, ProviderError, Unmapped
  <2>4. Stores
    BY <2>2, <2>3 DEF PaidOnce
  <2> QED BY <2>1, <2>4, NoNewCall
<1>5. ASSUME NEW q \in Runs, Open(q) \/ Return(q) \/ Fail(q)
      PROVE  Cardinality(Paid(r, k)') <= MaxConcurrency /\ Stores
  <2>1. Paid(r, k)' \subseteq Paid(r, k)
    BY <1>5 DEF Open, Return, Fail
  <2>2. ASSUME Open(q) PROVE Stores
    BY <2>2 DEF Open, PaidOnce, WaitingQueued
  <2>3. ASSUME Return(q) \/ Fail(q) PROVE Stores
    <3>1. ConnOpen(r)' => ConnOpen(r)
      BY <2>3 DEF Return, Fail
    <3>2. cache' = cache /\ \A u \in Tasks : state'[u] = "generated" => state[u] = "generated"
      BY <2>3 DEF Return, Fail
    <3> QED BY <3>1, <3>2 DEF PaidOnce
  <2> QED BY <1>5, <2>1, <2>2, <2>3, NoNewCall
<1>6. ASSUME NEW days \in EvictDays, Evict(days)
      PROVE  Cardinality(Paid(r, k)') <= MaxConcurrency /\ Stores
  BY <1>6, NoNewCall DEF Evict
<1>7. ASSUME UNCHANGED <<status, state, cache>>
      PROVE  Cardinality(Paid(r, k)') <= MaxConcurrency /\ Stores
  BY <1>7, NoNewCall DEF PaidOnce
<1> QED
  BY <1>1, <1>2, <1>3, <1>4, <1>5, <1>6, <1>7 DEF Next, Begin, Respond, Tick, vars

LEMMA PaidBounds == PaidOnce => DuplicateCallsBounded
<1> SUFFICES ASSUME PaidOnce, NEW r \in Runs, NEW k \in Keys, Kind[r] \in Batches
             PROVE  Cardinality({t \in TasksOf(r) : Key[t] = k /\ state[t] = "generated"}) <= MaxConcurrency
  BY DEF DuplicateCallsBounded
<1> DEFINE G == {t \in TasksOf(r) : Key[t] = k /\ state[t] = "generated"}
<1>1. G \subseteq Paid(r, k)
  BY DEF Paid
<1>2. Cardinality(G) <= Cardinality(Paid(r, k)) /\ Cardinality(G) \in Nat
  BY <1>1, PaidFinite, FS_Subset, FS_CardinalityType
<1> QED BY <1>2, PaidFinite, RunsAssumption DEF PaidOnce

(* A batch pays for the same content at most once per semaphore slot: the   *)
(* lookup is not atomic with the store, but a stored row stops every later  *)
(* call for the rest of the batch.                                          *)
THEOREM DuplicateCalls == Spec => []DuplicateCallsBounded
<1>1. Init => TypeOK /\ WaitingQueued /\ PaidOnce
  BY TypeInit, WaitingInit, PaidInit
<1>2. TypeOK /\ WaitingQueued /\ PaidOnce /\ [Next]_vars => (TypeOK /\ WaitingQueued /\ PaidOnce)'
  BY TypeStep, WaitingStep, PaidStep
<1> QED BY <1>1, <1>2, PaidBounds, PTL DEF Spec

-----------------------------------------------------------------------------
(* Money: record adds the price of a reply in the step that it is charged.  *)

LEMMA BilledStep == ASSUME TypeOK, SpentWasBilled, [Next]_vars PROVE SpentWasBilled'
<1> USE DEF SpentWasBilled, TypeOK
<1>1. ASSUME NEW t \in Tasks, NEW valid \in BOOLEAN, NEW cost \in Costs, Accept(t, valid, cost)
      PROVE  SpentWasBilled'
  <2>1. RunOf[t] \in Runs /\ cost \in Nat
    BY TasksAssumption, CostsAssumption
  <2>2. lastResponse'[RunOf[t]].cost = cost
    BY <1>1, <2>1 DEF Accept, Stashed, AnswerTo
  <2>3. /\ spent' = [spent EXCEPT ![RunOf[t]] = @ + cost]
        /\ billed' = [billed EXCEPT ![RunOf[t]] = @ + cost]
    BY <1>1, <2>2 DEF Accept, Recorded
  <2> QED BY <2>1, <2>3
<1>2. ASSUME NEW t \in Tasks, NEW valid \in BOOLEAN, NEW cost \in Costs, Reject(t, valid, cost)
      PROVE  SpentWasBilled'
  BY <1>2, TasksAssumption, CostsAssumption DEF Reject
<1>3. ASSUME NEW t \in Tasks, NEW cost \in Costs \cup {0}, ProviderError(t, cost)
      PROVE  SpentWasBilled'
  BY <1>3, TasksAssumption, CostsAssumption DEF ProviderError
<1>4. ASSUME UNCHANGED <<spent, billed>> PROVE SpentWasBilled'
  BY <1>4
<1> QED
  BY <1>1, <1>2, <1>3, <1>4
     DEF Next, Begin, Respond, Open, Return, Fail, Hit, Skip, Call, LookupOnClosed,
         Unmapped, Evict, Tick, vars

(* dollars_spent never exceeds what the provider charged the run, though    *)
(* it may fall short of it.                                                 *)
THEOREM SpentBilled == Spec => []SpentWasBilled
<1>1. Init => SpentWasBilled
  BY DEF Init, SpentWasBilled
<1>2. TypeOK /\ SpentWasBilled /\ [Next]_vars => SpentWasBilled'
  BY BilledStep
<1> QED BY <1>1, <1>2, TypeCorrect, PTL DEF Spec

-----------------------------------------------------------------------------
(* The counters of a batch. Each task that ends is counted in the step that *)
(* ends it, except one that raises; but that also takes the batch out of    *)
(* "open", and it can no longer return.                                     *)

Counted4 == {"hit", "generated", "skipped", "errored"}
Ended(r) == {t \in TasksOf(r) : state[t] \in Counted4}
Total(x) == x.hits + x.generated + x.skipped + x.errored

Accounted ==
  \A r \in Runs : Kind[r] \in Batches =>
    /\ Total(tally[r]) = Cardinality(Ended(r))
    /\ status[r] = "open" => \A t \in TasksOf(r) : state[t] \notin {"raised", "cancelled"}
    /\ status[r] = "returned" => Ended(r) = TasksOf(r)

LEMMA EndedFinite ==
  ASSUME NEW r \in Runs
  PROVE  IsFiniteSet(Ended(r)) /\ Cardinality(Ended(r)) \in Nat
BY InFlightFinite, FS_Subset, FS_CardinalityType DEF Ended

LEMMA TotalCounted ==
  ASSUME NEW x \in Tally, NEW field \in Counters
  PROVE  Total([x EXCEPT ![field] = @ + 1]) = Total(x) + 1
BY DEF Tally, Counters, Total

LEMMA AccountedInit == Init => Accounted
<1> SUFFICES ASSUME Init, NEW r \in Runs
             PROVE  Total(tally[r]) = Cardinality(Ended(r)) /\ status[r] = "waiting"
  BY DEF Accounted
<1>1. Ended(r) = {}
  BY DEF Init, Ended, TasksOf, Counted4
<1> QED BY <1>1, FS_EmptySet DEF Init, Total

(* A step that ends task t, counts it, and changes nothing else here.       *)
LEMMA OneEnds ==
  ASSUME TypeOK, Accounted, NEW t \in Tasks, NEW field \in Counters, NEW s \in Counted4,
         state[t] \in {"queued"} \cup InFlightStates,
         state' = [state EXCEPT ![t] = s],
         tally' = Counted(RunOf[t], field),
         status' = status
  PROVE  Accounted'
<1> SUFFICES ASSUME NEW r \in Runs, Kind[r] \in Batches
             PROVE  /\ Total(tally'[r]) = Cardinality(Ended(r)')
                    /\ status[r] = "open" =>
                         \A u \in TasksOf(r) : state'[u] \notin {"raised", "cancelled"}
                    /\ status[r] = "returned" => Ended(r)' = TasksOf(r)
  BY DEF Accounted, TasksOf, Total
<1>1. /\ status[r] = "open" => \A u \in TasksOf(r) : state'[u] \notin {"raised", "cancelled"}
      /\ status[r] = "returned" => Ended(r)' = TasksOf(r)
  BY DEF Accounted, TasksOf, Ended, Counted4, TypeOK
<1>2. CASE RunOf[t] = r
  <2>1. Ended(r)' = Ended(r) \cup {t} /\ t \notin Ended(r)
    BY <1>2 DEF Ended, TasksOf, Counted4, InFlightStates, TypeOK
  <2>2. Cardinality(Ended(r)') = Cardinality(Ended(r)) + 1
    BY <2>1, EndedFinite, FS_AddElement
  <2>3. tally'[r] = [tally[r] EXCEPT ![field] = @ + 1] /\ tally[r] \in Tally
    BY <1>2 DEF Counted, Batches, TypeOK
  <2>4. Total(tally'[r]) = Total(tally[r]) + 1
    BY <2>3, TotalCounted
  <2> QED BY <1>1, <2>2, <2>4 DEF Accounted
<1>3. CASE RunOf[t] # r
  <2>1. Ended(r)' = Ended(r)
    BY <1>3 DEF Ended, TasksOf, TypeOK
  <2>2. tally'[r] = tally[r]
    BY <1>3 DEF Counted, TypeOK
  <2> QED BY <1>1, <2>1, <2>2 DEF Accounted
<1> QED BY <1>2, <1>3

(* A step that ends no counted task.                                        *)
LEMMA NoneEnds ==
  ASSUME TypeOK, Accounted, tally' = tally, status' = status,
         \A t \in Tasks : /\ state'[t] \in Counted4 <=> state[t] \in Counted4
                          /\ state'[t] \in {"raised", "cancelled"} =>
                               state[t] \in {"raised", "cancelled"} \/ status[RunOf[t]] # "open"
  PROVE  Accounted'
<1>1. \A r \in Runs : Ended(r)' = Ended(r)
  BY DEF Ended, TasksOf
<1> QED BY <1>1 DEF Accounted, TasksOf, Total

LEMMA AccountedStep == ASSUME TypeOK, WaitingQueued, Accounted, [Next]_vars PROVE Accounted'
<1>1. ASSUME NEW r \in Runs, Open(r) PROVE Accounted'
  <2>1. \A q \in Runs : Ended(q)' = Ended(q)
    BY <1>1 DEF Open, Ended, TasksOf
  <2> QED BY <1>1, <2>1 DEF Open, Accounted, TasksOf, Total, WaitingQueued, TypeOK
<1>2. ASSUME NEW r \in Runs, Return(r) PROVE Accounted'
  <2>1. \A q \in Runs : Ended(q)' = Ended(q)
    BY <1>2 DEF Return, Ended, TasksOf
  <2>2. \A q \in Runs : Kind[q] \in Batches => tally'[q] = tally[q]
    BY <1>2 DEF Return, Batches, TypeOK
  <2>3. Kind[r] \in Batches => Ended(r) = TasksOf(r)
    BY <1>2 DEF Return, Accounted, Ended, Counted4, Finished
  <2> QED BY <1>2, <2>1, <2>2, <2>3 DEF Return, Accounted, TasksOf, Total, TypeOK
<1>3. ASSUME NEW r \in Runs, Fail(r) PROVE Accounted'
  <2>1. \A q \in Runs : Ended(q)' = Ended(q)
    BY <1>3 DEF Fail, Ended, TasksOf, Counted4, Finished, TypeOK
  <2>2. status' = [status EXCEPT ![r] = "failed"] /\ tally' = tally
    BY <1>3 DEF Fail
  <2>3. \A t \in Tasks : RunOf[t] # r => state'[t] = state[t]
    BY <1>3 DEF Fail, TasksOf, TypeOK
  <2> QED BY <2>1, <2>2, <2>3 DEF Accounted, TasksOf, Total, TypeOK
<1>4. ASSUME NEW t \in Tasks, Hit(t) PROVE Accounted'
  BY <1>4, OneEnds DEF Hit, Turn, Counters, Counted4
<1>5. ASSUME NEW t \in Tasks, Skip(t) PROVE Accounted'
  BY <1>5, OneEnds DEF Skip, Miss, Turn, Counters, Counted4
<1>6. ASSUME NEW t \in Tasks, Call(t) PROVE Accounted'
  BY <1>6, NoneEnds DEF Call, Miss, Turn, Counted4, TypeOK
<1>7. ASSUME NEW t \in Tasks, LookupOnClosed(t) PROVE Accounted'
  BY <1>7, NoneEnds DEF LookupOnClosed, Turn, Counted4, TypeOK
<1>8. ASSUME NEW t \in Tasks, NEW valid \in BOOLEAN, NEW cost \in Costs, Accept(t, valid, cost)
      PROVE  Accounted'
  <2>1. CASE ConnOpen(RunOf[t])
    BY <1>8, <2>1, OneEnds DEF Accept, Counters, Counted4
  <2>2. CASE ~ConnOpen(RunOf[t])
    BY <1>8, <2>2, NoneEnds DEF Accept, ConnOpen, InFlightStates, Counted4, TypeOK
  <2> QED BY <2>1, <2>2
<1>9. ASSUME NEW t \in Tasks, NEW valid \in BOOLEAN, NEW cost \in Costs, Reject(t, valid, cost)
      PROVE  Accounted'
  <2>1. CASE state[t] = "first"
    BY <1>9, <2>1, NoneEnds DEF Reject, Counted4, TypeOK
  <2>2. CASE state[t] # "first"
    BY <1>9, <2>2, OneEnds DEF Reject, Counters, Counted4
  <2> QED BY <2>1, <2>2
<1>10. ASSUME NEW t \in Tasks, NEW cost \in Costs \cup {0}, ProviderError(t, cost)
       PROVE  Accounted'
  BY <1>10, OneEnds DEF ProviderError, Counters, Counted4
<1>11. ASSUME NEW t \in Tasks, Unmapped(t) PROVE Accounted'
  <2>1. \A q \in Runs : Ended(q)' = Ended(q)
    BY <1>11 DEF Unmapped, Ended, TasksOf, Counted4, InFlightStates, TypeOK
  <2>2. /\ Kind[RunOf[t]] \in Batches => status'[RunOf[t]] # "open"
        /\ \A q \in Runs : q # RunOf[t] => status'[q] = status[q]
        /\ \A q \in Runs : status'[q] = "returned" => status[q] = "returned"
        /\ \A q \in Runs : status'[q] = "open" => status[q] = "open"
    BY <1>11, TasksAssumption DEF Unmapped, Propagated, Batches, TypeOK
  <2>3. tally' = tally /\ \A u \in Tasks : RunOf[u] # RunOf[t] => state'[u] = state[u]
    BY <1>11 DEF Unmapped, TypeOK
  <2> QED BY <2>1, <2>2, <2>3 DEF Accounted, TasksOf, Total
<1>12. ASSUME UNCHANGED <<state, tally, status>> PROVE Accounted'
  BY <1>12, NoneEnds
<1> QED
  BY <1>1, <1>2, <1>3, <1>4, <1>5, <1>6, <1>7, <1>8, <1>9, <1>10, <1>11, <1>12
     DEF Next, Begin, Respond, Evict, Tick, vars

LEMMA AccountedBatch == Accounted => BatchAccounted
BY DEF Accounted, BatchAccounted, Total

(* A batch that returns has counted every finding exactly once.             *)
THEOREM BatchCounts == Spec => []BatchAccounted
<1>1. Init => TypeOK /\ WaitingQueued /\ Accounted
  BY TypeInit, WaitingInit, AccountedInit
<1>2. TypeOK /\ WaitingQueued /\ Accounted /\ [Next]_vars => (TypeOK /\ WaitingQueued /\ Accounted)'
  BY TypeStep, WaitingStep, AccountedStep
<1> QED BY <1>1, <1>2, AccountedBatch, PTL DEF Spec
=============================================================================
