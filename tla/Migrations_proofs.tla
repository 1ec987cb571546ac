--------------------------- MODULE Migrations_proofs ---------------------------
(***************************************************************************)
(* What holds of run_migrations however many commands and requests there   *)
(* are and however often processes are killed. A run that has something to *)
(* apply is alone with the file (Alone, UpInv), so what it found missing is *)
(* what is missing still (PendingInv).                                     *)
(***************************************************************************)
EXTENDS Migrations, SequenceTheorems, TLAPS

Last == 11

(* The migrations as the proofs use them: eleven, of which the last alone   *)
(* brings a column.                                                         *)
LEMMA FiveOf ==
  ASSUME NEW D, NEW a \in D, NEW b \in D, NEW c \in D, NEW d \in D, NEW e \in D
  PROVE  <<a, b, c, d, e>> \in Seq(D)
OBVIOUS

LEMMA MigrationsAre ==
  /\ Len(Creates) = Last /\ Versions = 1..Last
  /\ Creates[Last] = Columns
  /\ \A v \in Versions : v # Last => Creates[v] \cap Columns = {}
<1> DEFINE D == {TenantTables[v] : v \in 1..5} \cup {ResultTables[v] : v \in 1..5} \cup {Columns}
<1>1. TenantTables \in Seq(D) /\ Len(TenantTables) = 5
  <2>1. TenantTables = <<TenantTables[1], TenantTables[2], TenantTables[3], TenantTables[4], TenantTables[5]>>
    BY DEF TenantTables
  <2>2. \A v \in {1, 2, 3, 4, 5} : TenantTables[v] \in D
    OBVIOUS
  <2>3. Len(TenantTables) = 5
    BY DEF TenantTables
  <2> HIDE DEF D
  <2>4. <<TenantTables[1], TenantTables[2], TenantTables[3], TenantTables[4], TenantTables[5]>> \in Seq(D)
    BY <2>2, FiveOf
  <2> QED
    BY <2>1, <2>3, <2>4, Zenon
<1>2. ResultTables \in Seq(D) /\ Len(ResultTables) = 5
  <2>1. ResultTables = <<ResultTables[1], ResultTables[2], ResultTables[3], ResultTables[4], ResultTables[5]>>
    BY DEF ResultTables
  <2>2. \A v \in {1, 2, 3, 4, 5} : ResultTables[v] \in D
    OBVIOUS
  <2>3. Len(ResultTables) = 5
    BY DEF ResultTables
  <2> HIDE DEF D
  <2>4. <<ResultTables[1], ResultTables[2], ResultTables[3], ResultTables[4], ResultTables[5]>> \in Seq(D)
    BY <2>2, FiveOf
  <2> QED
    BY <2>1, <2>3, <2>4, Zenon
<1> DEFINE column == <<Columns>>
           older  == TenantTables \o ResultTables
<1>3. column \in Seq(D) /\ Len(column) = 1 /\ column[1] = Columns
  OBVIOUS
<1>4. Creates = older \o column
  BY DEF Creates, Columns
<1>5. \A v \in 1..5 : TenantTables[v] \cap Columns = {}
  BY DEF TenantTables, Columns
<1>6. \A v \in 1..5 : ResultTables[v] \cap Columns = {}
  BY DEF ResultTables, Columns
<1> HIDE DEF D, column
<1>7. /\ older \in Seq(D) /\ Len(older) = 10
      /\ \A v \in 1..10 : older[v] = IF v <= 5 THEN TenantTables[v] ELSE ResultTables[v - 5]
  <2>1. /\ older \in Seq(D) /\ Len(older) = Len(TenantTables) + Len(ResultTables)
        /\ \A v \in 1..Len(TenantTables) + Len(ResultTables) :
             older[v] = IF v <= Len(TenantTables) THEN TenantTables[v]
                        ELSE ResultTables[v - Len(TenantTables)]
    BY <1>1, <1>2, ConcatProperties, Zenon
  <2> HIDE DEF older
  <2> QED
    BY <1>1, <1>2, <2>1
<1> HIDE DEF older
<1>8. ASSUME NEW v \in 1..10 PROVE older[v] \cap Columns = {}
  <2>1. CASE v <= 5
    BY <1>5, <1>7, <2>1
  <2>2. CASE v > 5
    <3>1. older[v] = ResultTables[v - 5] /\ v - 5 \in 1..5
      BY <1>7, <2>2
    <3> QED
      BY <3>1, <1>6
  <2> QED
    BY <2>1, <2>2
<1>9. /\ Creates \in Seq(D) /\ Len(Creates) = 11
      /\ \A v \in 1..11 : Creates[v] = IF v <= 10 THEN older[v] ELSE column[v - 10]
  <2>1. /\ Creates \in Seq(D) /\ Len(Creates) = Len(older) + Len(column)
        /\ \A v \in 1..Len(older) + Len(column) :
             Creates[v] = IF v <= Len(older) THEN older[v] ELSE column[v - Len(older)]
    BY <1>3, <1>4, <1>7, ConcatProperties, Zenon
  <2> QED
    BY <1>3, <1>7, <2>1
<1>10. Versions = 1..Last
  BY <1>9 DEF Versions, Last
<1> QED
  BY <1>3, <1>8, <1>9, <1>10 DEF Last

LEMMA LeastIs ==
  ASSUME NEW S \in SUBSET Versions, S # {}
  PROVE  Least(S) \in S /\ \A w \in S : Least(S) <= w
<1>1. S \subseteq 1..11
  BY MigrationsAre DEF Last
<1>2. \E v \in S : \A w \in S : v <= w
  <2> SUFFICES ASSUME \A v \in S : \E w \in S : ~(v <= w) PROVE FALSE
    OBVIOUS
  <2>1. \A v \in 1..4 : v \notin S
    BY <1>1
  <2>2. \A v \in 1..7 : v \notin S
    BY <1>1, <2>1
  <2>3. \A v \in 1..11 : v \notin S
    BY <1>1, <2>2
  <2> QED
    BY <1>1, <2>3
<1> QED
  BY <1>2 DEF Least
-----------------------------------------------------------------------------
(* The invariant *)

Alone == \A q, r \in Runs : Open(q) /\ Open(r) => q = r \/ (InApi(q) /\ InApi(r))

UpInv ==
  /\ Open(Lifespan) => ~up
  /\ \A r \in Requests : Open(r) => up
  /\ up => recorded = Versions

Listed == \A v \in recorded : Creates[v] \subseteq made

PendingAt(r) ==
  /\ pc[r] \in {"idle", "failed", "ready"} => pending[r] = {}
  /\ pc[r] = "ready" => recorded = Versions
  /\ pc[r] \in {"migrating", "applied"} => pending[r] = Versions \ recorded
  /\ pc[r] = "applied" => pending[r] # {} /\ Creates[Least(pending[r])] \subseteq made
  /\ pc[r] = "recorded" => pending[r] # {} /\ pending[r] \ {Least(pending[r])} = Versions \ recorded
PendingInv == RequestsApplyNothing /\ \A r \in Runs : PendingAt(r)

(* The column without its row: somebody is about to write it, or a process  *)
(* was killed.                                                              *)
AtColumn(r) == pc[r] = "applied" /\ Least(pending[r]) = Last
ColumnInv ==
  Columns \subseteq made /\ Last \notin recorded => kills > 0 \/ \E r \in Runs : AtColumn(r)

Quiet == \A r \in Runs : pc[r] \notin {"applied", "recorded"}
StuckInv ==
  \A r \in Runs : pc[r] = "failed" =>
    /\ Quiet /\ kills > 0
    /\ Columns \subseteq made /\ recorded = Versions \ {Last}

MigrationsInv ==
  TypeOK /\ Alone /\ UpInv /\ Listed /\ PendingInv /\ ColumnInv /\ StuckInv
LEMMA InvInit == Init => MigrationsInv
<1> SUFFICES ASSUME Init PROVE MigrationsInv
  OBVIOUS
<1>1. PICK k \in 0..Len(Creates) : recorded = 1..k
  BY DEF Init
<1>2. Versions = 1..11 /\ Len(Creates) = 11
  BY MigrationsAre DEF Last
<1>3. recorded \subseteq Versions
  BY <1>1, <1>2
<1>4. TypeOK
  <2>1. made \subseteq Schema(Versions)
    BY <1>3 DEF Init, Schema
  <2>2. pc \in [Runs -> Steps] /\ pending \in [Runs -> SUBSET Versions]
    BY DEF Init, Steps
  <2>3. up \in BOOLEAN
    BY Zenon DEF Init
  <2>4. kills \in 0..MaxKills
    BY KillsAssumption DEF Init
  <2> QED
    BY <1>3, <2>1, <2>2, <2>3, <2>4 DEF TypeOK
<1>5. Alone /\ UpInv /\ PendingInv /\ StuckInv
  BY DEF Init, Alone, UpInv, PendingInv, PendingAt, RequestsApplyNothing, StuckInv, Open, Runs
<1>6. Listed
  BY DEF Init, Listed, Schema
<1>7. ColumnInv
  <2> SUFFICES ASSUME Columns \subseteq made PROVE Last \in recorded
    BY DEF ColumnInv
  <2>1. PICK v \in recorded : Creates[v] \cap Columns # {}
    BY DEF Init, Schema, Columns
  <2> QED
    BY <1>3, <2>1, MigrationsAre
<1> QED
  BY <1>4, <1>5, <1>6, <1>7 DEF MigrationsInv

(* A run that has something to apply has the file for itself.               *)
LEMMA Exclusive ==
  ASSUME MigrationsInv, NEW r \in Runs, pending[r] # {}
  PROVE  /\ r \notin Requests /\ Open(r) /\ (r = Lifespan => ~up)
         /\ \A q \in Runs \ {r} : pc[q] \in {"idle", "failed"} /\ pending[q] = {}
<1>1. r \notin Requests
  BY DEF MigrationsInv, PendingInv, RequestsApplyNothing
<1>2. Open(r)
  BY DEF MigrationsInv, PendingInv, PendingAt, TypeOK, Steps, Open
<1>3. r = Lifespan => ~up
  BY <1>2 DEF MigrationsInv, UpInv
<1>4. ASSUME NEW q \in Runs \ {r}, Open(q) PROVE FALSE
  <2>1. InApi(q) /\ InApi(r)
    BY <1>2, <1>4 DEF MigrationsInv, Alone
  <2>2. r = Lifespan /\ q \in Requests
    BY <1>1, <2>1 DEF Runs, InApi
  <2> QED
    BY <1>3, <1>4, <2>2 DEF MigrationsInv, UpInv
<1>5. ASSUME NEW q \in Runs \ {r} PROVE pc[q] \in {"idle", "failed"} /\ pending[q] = {}
  BY <1>4, <1>5 DEF MigrationsInv, TypeOK, Steps, Open, PendingInv, PendingAt
<1> QED
  BY <1>1, <1>2, <1>3, <1>5

LEMMA BeginStep ==
  ASSUME MigrationsInv, NEW r \in Runs, Begin(r)
  PROVE  MigrationsInv'
<1> USE DEF MigrationsInv, NotApplied, Goto
<1>0. /\ pending' = [pending EXCEPT ![r] = Versions \ recorded]
      /\ pc' = [pc EXCEPT ![r] = "migrating"]
      /\ UNCHANGED <<made, recorded, up, kills>>
      /\ pc[r] \in {"idle", "failed"} /\ MayOpen(r)
      /\ r \in Requests => up
      /\ r = Lifespan => ~up
  BY RunsAssumption DEF Begin, Served
<1>1. TypeOK'
  BY <1>0 DEF TypeOK, Steps
<1>2. /\ pc'[r] = "migrating" /\ pending'[r] = Versions \ recorded
      /\ \A q \in Runs \ {r} : pc'[q] = pc[q] /\ pending'[q] = pending[q]
  BY <1>0 DEF TypeOK
<1>3. Alone'
  BY <1>0, <1>2 DEF Alone, MayOpen, Open
<1>4. UpInv'
  BY <1>0, <1>2, RunsAssumption DEF UpInv, Open, Runs
<1>5. PendingInv'
  <2>1. RequestsApplyNothing'
    BY <1>0, <1>2 DEF PendingInv, RequestsApplyNothing, UpInv, Runs
  <2>2. ASSUME NEW q \in Runs PROVE PendingAt(q)'
    BY <1>0, <1>2 DEF PendingInv, PendingAt
  <2> QED
    BY <2>1, <2>2 DEF PendingInv
<1>6. Listed'
  BY <1>0 DEF Listed
<1>7. ColumnInv'
  BY <1>0, <1>2 DEF ColumnInv, AtColumn
<1>8. StuckInv'
  BY <1>0, <1>2 DEF StuckInv, Quiet
<1> QED
  BY <1>1, <1>3, <1>4, <1>5, <1>6, <1>7, <1>8
(* Executing a migration adds what it creates, or fails: on the column of   *)
(* the last one, which a killed process left unrecorded.                    *)
LEMMA ExecuteStep ==
  ASSUME MigrationsInv, NEW r \in Runs, pending[r] # {}, pc[r] = "migrating", Execute(r, "applied")
  PROVE  MigrationsInv'
<1> DEFINE v == Least(pending[r])
<1> USE DEF MigrationsInv, Goto
<1>1. /\ r \notin Requests /\ (r = Lifespan => ~up)
      /\ \A q \in Runs \ {r} : pc[q] \in {"idle", "failed"} /\ pending[q] = {}
  BY Exclusive
<1>2. pending[r] = Versions \ recorded
  BY DEF PendingInv, PendingAt
<1>3. v \in Versions \ recorded /\ v \in pending[r] /\ \A w \in Versions \ recorded : v <= w
  BY <1>2, LeastIs
<1>4. ~up
  BY <1>3 DEF UpInv
<1> HIDE DEF v
<1>5. CASE Creates[v] \cap Columns \cap made # {}
  <2>1. /\ pc' = [pc EXCEPT ![r] = "failed"] /\ pending' = [pending EXCEPT ![r] = {}]
        /\ UNCHANGED <<made, recorded, up, kills>>
    BY <1>5 DEF Execute, Fail, v
  <2>2. /\ pc'[r] = "failed" /\ pending'[r] = {}
        /\ \A q \in Runs \ {r} : pc'[q] = pc[q] /\ pending'[q] = pending[q]
    BY <2>1 DEF TypeOK
  <2>3. v = Last /\ Columns \subseteq made
    BY <1>3, <1>5, MigrationsAre DEF Columns
  <2>4. recorded = Versions \ {Last}
    <3>1. \A w \in Versions \ recorded : w = Last
      BY <1>3, <2>3, MigrationsAre DEF Last
    <3> QED
      BY <1>3, <2>3, <3>1 DEF TypeOK
  <2>5. kills > 0
    <3>1. \A q \in Runs : pc[q] # "applied"
      BY <1>1
    <3> QED
      BY <1>3, <2>3, <3>1 DEF ColumnInv, AtColumn
  <2>6. TypeOK'
    BY <2>1 DEF TypeOK, Steps
  <2>7. Alone' /\ Listed'
    BY <2>1, <2>2 DEF Alone, Listed, Open
  <2>8. UpInv'
    BY <1>4, <2>1, <2>2, RunsAssumption DEF UpInv, Open, Runs
  <2>9. PendingInv'
    BY <1>1, <2>1, <2>2 DEF PendingInv, PendingAt, RequestsApplyNothing, Runs
  <2>10. ColumnInv' /\ StuckInv'
    BY <1>1, <2>1, <2>2, <2>3, <2>4, <2>5 DEF ColumnInv, StuckInv, Quiet
  <2> QED
    BY <2>6, <2>7, <2>8, <2>9, <2>10
<1>6. CASE Creates[v] \cap Columns \cap made = {}
  <2>1. /\ pc' = [pc EXCEPT ![r] = "applied"] /\ made' = made \cup Creates[v]
        /\ UNCHANGED <<recorded, pending, up, kills>>
    BY <1>6 DEF Execute, v
  <2>2. /\ pc'[r] = "applied" /\ \A q \in Runs \ {r} : pc'[q] = pc[q]
    BY <2>1 DEF TypeOK
  <2>3. TypeOK'
    <3>1. made' \subseteq Schema(Versions)
      BY <1>3, <2>1 DEF TypeOK, Schema
    <3>2. pc' \in [Runs -> Steps]
      BY <2>1 DEF TypeOK, Steps
    <3> QED
      BY <2>1, <3>1, <3>2 DEF TypeOK
  <2>4. Alone' /\ Listed'
    BY <1>1, <2>1, <2>2 DEF Alone, Listed, Open
  <2>5. UpInv'
    BY <1>1, <1>4, <2>1, <2>2, RunsAssumption DEF UpInv, Open, Runs
  <2>6. PendingInv'
    BY <1>1, <1>2, <1>3, <2>1, <2>2 DEF PendingInv, PendingAt, RequestsApplyNothing, Runs, v
  <2>7. ColumnInv'
    <3>1. CASE v = Last
      BY <2>1, <2>2, <3>1 DEF ColumnInv, AtColumn, v
    <3>2. CASE v # Last
      <4>1. Columns \subseteq made' => Columns \subseteq made
        BY <1>3, <2>1, <3>2, MigrationsAre DEF Columns
      <4>2. \A q \in Runs : ~AtColumn(q)
        BY <1>1 DEF AtColumn
      <4> QED
        BY <2>1, <4>1, <4>2 DEF ColumnInv
    <3> QED
      BY <3>1, <3>2
  <2>8. StuckInv'
    <3>1. ASSUME NEW q \in Runs, pc[q] = "failed" PROVE FALSE
      <4>1. Columns \subseteq made /\ recorded = Versions \ {Last}
        BY <3>1 DEF StuckInv
      <4>2. v = Last
        BY <1>3, <4>1
      <4> QED
        BY <1>6, <4>1, <4>2, MigrationsAre DEF Columns
    <3> QED
      BY <2>1, <2>2, <3>1 DEF StuckInv
  <2> QED
    BY <2>3, <2>4, <2>5, <2>6, <2>7, <2>8
<1> QED
  BY <1>5, <1>6
(* Recording what was executed: the row is never there already, and once    *)
(* the last is recorded nobody is stuck.                                    *)
LEMMA RecordStep ==
  ASSUME MigrationsInv, NEW r \in Runs, pending[r] # {}, pc[r] = "applied", Record(r, "recorded")
  PROVE  MigrationsInv'
<1> DEFINE v == Least(pending[r])
<1> USE DEF MigrationsInv, Goto
<1>1. /\ r \notin Requests /\ (r = Lifespan => ~up)
      /\ \A q \in Runs \ {r} : pc[q] \in {"idle", "failed"} /\ pending[q] = {}
  BY Exclusive
<1>2. pending[r] = Versions \ recorded /\ Creates[v] \subseteq made
  BY DEF PendingInv, PendingAt
<1>3. v \in Versions \ recorded /\ v \in pending[r]
  BY <1>2, LeastIs
<1>4. ~up
  BY <1>3 DEF UpInv
<1> HIDE DEF v
<1>5. /\ pc' = [pc EXCEPT ![r] = "recorded"] /\ recorded' = recorded \cup {v}
      /\ UNCHANGED <<made, pending, up, kills>>
  BY <1>3 DEF Record, v
<1>6. /\ pc'[r] = "recorded" /\ pending'[r] = pending[r] /\ v = Least(pending'[r])
      /\ \A q \in Runs \ {r} : pc'[q] = pc[q] /\ pending'[q] = pending[q]
  BY <1>5 DEF TypeOK, v
<1>7. TypeOK'
  BY <1>3, <1>5 DEF TypeOK, Steps
<1>8. Alone' /\ Listed'
  BY <1>1, <1>2, <1>5, <1>6 DEF Alone, Listed, Open
<1>9. UpInv'
  BY <1>1, <1>4, <1>5, <1>6, RunsAssumption DEF UpInv, Open, Runs
<1>10. PendingInv'
  <2>1. PendingAt(r)'
    BY <1>2, <1>3, <1>5, <1>6 DEF PendingAt
  <2>2. ASSUME NEW q \in Runs \ {r} PROVE PendingAt(q)'
    BY <1>1, <1>6 DEF PendingAt
  <2> QED
    BY <1>5, <2>1, <2>2 DEF PendingInv, RequestsApplyNothing
<1>11. ColumnInv'
  <2> SUFFICES ASSUME Columns \subseteq made', Last \notin recorded' PROVE kills' > 0
    BY DEF ColumnInv
  <2>1. v # Last
    BY <1>5
  <2>2. \A q \in Runs : ~AtColumn(q)
    BY <1>1, <2>1 DEF AtColumn, v
  <2> QED
    BY <1>5, <2>2 DEF ColumnInv
<1>12. StuckInv'
  BY <1>1, <1>5, <1>6 DEF StuckInv, Quiet
<1> QED
  BY <1>7, <1>8, <1>9, <1>10, <1>11, <1>12

(* Going on to the next.                                                    *)
LEMMA AdvanceStep ==
  ASSUME MigrationsInv, NEW r \in Runs, pending[r] # {}, pc[r] = "recorded",
         pending' = [pending EXCEPT ![r] = @ \ {Least(@)}], Goto(r, "migrating"),
         UNCHANGED <<made, recorded, up, kills>>
  PROVE  MigrationsInv'
<1> USE DEF MigrationsInv, Goto
<1>1. /\ r \notin Requests /\ (r = Lifespan => ~up)
      /\ \A q \in Runs \ {r} : pc[q] \in {"idle", "failed"} /\ pending[q] = {}
  BY Exclusive
<1>2. /\ pc'[r] = "migrating" /\ pending'[r] = Versions \ recorded
      /\ \A q \in Runs \ {r} : pc'[q] = pc[q] /\ pending'[q] = pending[q]
  BY DEF TypeOK, PendingInv, PendingAt
<1>3. TypeOK'
  BY DEF TypeOK, Steps
<1>4. Alone' /\ Listed'
  BY <1>1, <1>2 DEF Alone, Listed, Open
<1>5. UpInv'
  BY <1>1, <1>2, RunsAssumption DEF UpInv, Open, Runs
<1>6. PendingInv'
  BY <1>1, <1>2 DEF PendingInv, PendingAt, RequestsApplyNothing, Runs
<1>7. ColumnInv' /\ StuckInv'
  BY <1>1, <1>2 DEF ColumnInv, AtColumn, StuckInv, Quiet
<1> QED
  BY <1>3, <1>4, <1>5, <1>6, <1>7

(* Steps that leave schema and list alone, and apply nothing.               *)
LEMMA OtherSteps ==
  ASSUME MigrationsInv, UNCHANGED <<made, recorded>>, TypeOK', kills <= kills', Alone', UpInv',
         \A q \in Runs : PendingAt(q)' /\ pending'[q] \subseteq pending[q],
         \A q \in Runs : /\ pc'[q] \in {"applied", "failed"} => pc'[q] = pc[q]
                         /\ pc'[q] # "recorded" \/ pc[q] = "recorded",
         kills' > 0 \/ \A q \in Runs : AtColumn(q) => AtColumn(q)'
  PROVE  MigrationsInv'
<1> USE DEF MigrationsInv
<1>1. Listed'
  BY DEF Listed
<1>2. PendingInv'
  BY DEF PendingInv, RequestsApplyNothing, Runs
<1>3. ColumnInv' /\ StuckInv'
  BY DEF TypeOK, ColumnInv, StuckInv, Quiet
<1> QED
  BY <1>1, <1>2, <1>3

LEMMA ReturnStep ==
  ASSUME MigrationsInv, NEW r \in Runs, Return(r)
  PROVE  MigrationsInv'
<1> USE DEF MigrationsInv, Goto
<1>1. /\ pc' = [pc EXCEPT ![r] = "ready"] /\ UNCHANGED <<made, recorded, pending, up, kills>>
      /\ pc[r] = "migrating" /\ pending[r] = {}
  BY DEF Return
<1>2. pc'[r] = "ready" /\ \A q \in Runs \ {r} : pc'[q] = pc[q]
  BY <1>1 DEF TypeOK
<1>3. TypeOK'
  BY <1>1 DEF TypeOK, Steps
<1>4. Alone' /\ UpInv'
  BY <1>1, <1>2 DEF Alone, UpInv, Open, Runs
<1>5. ASSUME NEW q \in Runs PROVE PendingAt(q)'
  <2>1. recorded = Versions \/ q # r
    BY <1>1 DEF PendingInv, PendingAt, TypeOK
  <2> QED
    BY <1>1, <1>2, <2>1 DEF PendingInv, PendingAt
<1>6. \A q \in Runs : AtColumn(q) => AtColumn(q)'
  BY <1>1, <1>2 DEF AtColumn
<1> QED
  BY <1>1, <1>2, <1>3, <1>4, <1>5, <1>6, OtherSteps DEF TypeOK

LEMMA CloseStep ==
  ASSUME MigrationsInv, NEW r \in Runs, Close(r)
  PROVE  MigrationsInv'
<1> USE DEF MigrationsInv, Goto
<1>1. /\ pc' = [pc EXCEPT ![r] = "idle"] /\ UNCHANGED <<made, recorded, pending, kills>>
      /\ pc[r] = "ready" /\ up' = (up \/ r = Lifespan)
  BY DEF Close
<1>2. pc'[r] = "idle" /\ \A q \in Runs \ {r} : pc'[q] = pc[q]
  BY <1>1 DEF TypeOK
<1>3. TypeOK'
  BY <1>1 DEF TypeOK, Steps
<1>4. Alone'
  BY <1>1, <1>2 DEF Alone, Open
<1>5. UpInv'
  <2>1. recorded = Versions
    BY <1>1 DEF PendingInv, PendingAt
  <2>2. Open(r) /\ ~Open(r)'
    BY <1>1, <1>2 DEF Open
  <2>3. Open(Lifespan)' => ~up'
    BY <1>1, <1>2, <2>2 DEF UpInv, Open, Runs
  <2>4. \A q \in Requests : Open(q)' => up'
    BY <1>1, <1>2 DEF UpInv, Open, Runs
  <2> QED
    BY <1>1, <2>1, <2>3, <2>4 DEF UpInv
<1>6. \A q \in Runs : PendingAt(q)'
  BY <1>1, <1>2 DEF PendingInv, PendingAt
<1>7. \A q \in Runs : AtColumn(q) => AtColumn(q)'
  BY <1>1, <1>2 DEF AtColumn
<1> QED
  BY <1>1, <1>2, <1>3, <1>4, <1>5, <1>6, <1>7, OtherSteps DEF TypeOK

LEMMA KillStep ==
  ASSUME MigrationsInv, NEW r \in Runs, Kill(r)
  PROVE  MigrationsInv'
<1> USE DEF MigrationsInv
<1>1. /\ Open(r) /\ kills < MaxKills /\ kills' = kills + 1
      /\ pc' = [q \in Runs |-> IF q \in Killed(r) THEN "idle" ELSE pc[q]]
      /\ pending' = [q \in Runs |-> IF q \in Killed(r) THEN {} ELSE pending[q]]
      /\ up' = (up /\ ~InApi(r)) /\ UNCHANGED <<made, recorded>>
  BY DEF Kill
<1>2. /\ \A q \in Killed(r) : pc'[q] = "idle" /\ pending'[q] = {}
      /\ \A q \in Runs \ Killed(r) : pc'[q] = pc[q] /\ pending'[q] = pending[q]
  BY <1>1 DEF Killed
<1>3. TypeOK'
  <2>1. pc' \in [Runs -> Steps] /\ pending' \in [Runs -> SUBSET Versions]
    BY <1>1 DEF TypeOK, Steps
  <2>2. up' \in BOOLEAN
    BY <1>1
  <2>3. kills' \in 0..MaxKills
    BY <1>1, KillsAssumption DEF TypeOK
  <2> QED
    BY <1>1, <2>1, <2>2, <2>3 DEF TypeOK
<1>4. Alone'
  BY <1>2 DEF Alone, Open
<1>5. UpInv'
  <2>1. Open(Lifespan)' => ~up'
    BY <1>1, <1>2 DEF UpInv, Open, Runs
  <2>2. ASSUME NEW q \in Requests, Open(q)' PROVE up'
    <3>1. q \in Runs /\ q \notin Killed(r) /\ Open(q)
      BY <1>2, <2>2 DEF Open, Runs
    <3>2. ~InApi(r)
      BY <3>1, <2>2, RunsAssumption DEF Killed, InApi
    <3> QED
      BY <1>1, <2>2, <3>1, <3>2 DEF UpInv
  <2> QED
    BY <1>1, <2>1, <2>2 DEF UpInv
<1>6. ASSUME NEW q \in Runs PROVE PendingAt(q)' /\ pending'[q] \subseteq pending[q]
  BY <1>1, <1>2 DEF PendingInv, PendingAt
<1>7. ASSUME NEW q \in Runs
      PROVE  /\ pc'[q] \in {"applied", "failed"} => pc'[q] = pc[q]
             /\ pc'[q] # "recorded" \/ pc[q] = "recorded"
  BY <1>2
<1>8. kills' > 0 /\ kills <= kills'
  BY <1>1 DEF TypeOK
<1> QED
  BY <1>1, <1>3, <1>4, <1>5, <1>6, <1>7, <1>8, OtherSteps

LEMMA StopStep ==
  ASSUME MigrationsInv, Stop
  PROVE  MigrationsInv'
<1> USE DEF MigrationsInv
<1>1. UNCHANGED <<made, recorded, pc, pending, kills>> /\ ~up' /\ \A q \in Requests : ~Open(q)
  BY DEF Stop
<1>2. TypeOK'
  BY <1>1 DEF TypeOK, Stop
<1>3. Alone' /\ UpInv'
  BY <1>1 DEF Alone, UpInv, Open
<1>4. \A q \in Runs : PendingAt(q)'
  BY <1>1 DEF PendingInv, PendingAt
<1>5. \A q \in Runs : AtColumn(q) => AtColumn(q)'
  BY <1>1 DEF AtColumn
<1> QED
  BY <1>1, <1>2, <1>3, <1>4, <1>5, OtherSteps DEF TypeOK

LEMMA InvStep == MigrationsInv /\ [Next]_vars => MigrationsInv'
<1> SUFFICES ASSUME MigrationsInv, [Next]_vars PROVE MigrationsInv'
  OBVIOUS
<1>1. CASE UNCHANGED vars
  BY <1>1 DEF vars, MigrationsInv, TypeOK, Alone, UpInv, Listed, PendingInv, PendingAt, ColumnInv,
     AtColumn, StuckInv, Quiet, RequestsApplyNothing, Open
<1>2. ASSUME NEW r \in Runs, Begin(r) \/ Return(r) \/ Close(r) \/ Kill(r) PROVE MigrationsInv'
  BY <1>2, BeginStep, ReturnStep, CloseStep, KillStep
<1>3. ASSUME NEW r \in Runs, Migrate(r) PROVE MigrationsInv'
  BY <1>3, ExecuteStep, RecordStep, AdvanceStep DEF Migrate, InOrder
<1>4. CASE Stop
  BY <1>4, StopStep
<1> QED
  BY <1>1, <1>2, <1>3, <1>4 DEF Next

-----------------------------------------------------------------------------
(* Whatever runs and is killed, the variables keep their types: nobody      *)
(* executes or records a version there is not.                              *)
THEOREM TypeCorrect == Spec => []TypeOK
<1>1. MigrationsInv => TypeOK
  BY DEF MigrationsInv
<1> QED
  BY InvInit, InvStep, <1>1, PTL DEF Spec

(* Whoever gets past run_migrations finds the whole schema, however many    *)
(* ran it before and wherever they were killed.                             *)
THEOREM ReadyFinds == Spec => []ReadyFindsSchema
<1>1. MigrationsInv => ReadyFindsSchema
  <2> SUFFICES ASSUME MigrationsInv, NEW r \in Runs, pc[r] = "ready" PROVE made = Schema(Versions)
    BY DEF ReadyFindsSchema
  <2>1. recorded = Versions
    BY DEF MigrationsInv, PendingInv, PendingAt
  <2> QED
    BY <2>1 DEF MigrationsInv, Listed, TypeOK, Schema
<1> QED
  BY InvInit, InvStep, <1>1, PTL DEF Spec

(* No request of the API ever has a migration to apply: it is served after  *)
(* the start of the API applied them all, and none comes undone.            *)
THEOREM RequestsFindAll == Spec => []RequestsApplyNothing
<1>1. MigrationsInv => RequestsApplyNothing
  BY DEF MigrationsInv, PendingInv
<1> QED
  BY InvInit, InvStep, <1>1, PTL DEF Spec

(* A run fails only after a kill, on the column that was added and not      *)
(* recorded, with everything before it applied.                             *)
THEOREM FailsAtColumn == Spec => []FatalOnlyAtColumn
<1>1. \A v \in Versions : Creates[v] \cap Columns # {} <=> v = Last
  BY MigrationsAre DEF Columns
<1>2. MigrationsInv => FatalOnlyAtColumn
  BY <1>1 DEF MigrationsInv, StuckInv, FatalOnlyAtColumn
<1> QED
  BY InvInit, InvStep, <1>2, PTL DEF Spec
=============================================================================
