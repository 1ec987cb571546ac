------------------------ MODULE NarrativeService_proofs ------------------------
(***************************************************************************)
(* What the cache holds, and that NarrativeGenerator implements            *)
(* NarrativeService for every instance.                                    *)
(***************************************************************************)
EXTENDS NarrativeGenerator_proofs

-----------------------------------------------------------------------------
(* The contents of the cache. A row is one reply, well formed, stored under *)
(* the key of the task it was given to; it was last used no earlier than    *)
(* anybody was given it; and a task still queued or in flight has been      *)
(* given nothing.                                                           *)

RowsOK ==
  \A k \in Keys : cache[k] # None =>
    /\ cache[k].meta = cache[k].body
    /\ Key[cache[k].body.task] = k
    /\ cache[k].lastUsed <= now
ServedOK ==
  \A t \in Tasks :
    /\ state[t] \in {"queued"} \cup InFlightStates => served[t] = None
    /\ served[t] # None =>
         /\ served[t].at <= now
         /\ cache[Key[t]] # None => served[t].at <= cache[Key[t]].lastUsed
ContentInv == RowsOK /\ ServedOK

LEMMA ContentInit == Init => ContentInv
BY KeyType DEF Init, ContentInv, RowsOK, ServedOK

LEMMA SomeIsNotNone ==
  /\ \A row \in Row : row # None
  /\ \A x \in Served : x # None
  /\ \A a \in Answer : a # None
BY NoneAssumption

(* What an accepted reply writes.                                           *)
NewRow(answer)   == [body |-> answer, meta |-> answer, lastUsed |-> now]
NewReply(answer) == [body |-> answer, at |-> now]

LEMMA AcceptWrites ==
  ASSUME TypeOK, NEW t \in Tasks, NEW valid \in BOOLEAN, NEW cost \in Costs,
         Accept(t, valid, cost), ConnOpen(RunOf[t])
  PROVE  /\ AnswerTo(t, valid, cost) \in Answer
         /\ AnswerTo(t, valid, cost).valid
         /\ AnswerTo(t, valid, cost).task = t
         /\ NewRow(AnswerTo(t, valid, cost)) \in Row
         /\ NewReply(AnswerTo(t, valid, cost)) \in Served
         /\ cache' = [cache EXCEPT ![Key[t]] = NewRow(AnswerTo(t, valid, cost))]
         /\ served' = [served EXCEPT ![t] = NewReply(AnswerTo(t, valid, cost))]
<1> DEFINE answer == AnswerTo(t, valid, cost)
<1>1. answer \in Answer /\ answer.task = t /\ answer.valid = valid
  BY AnswerType DEF AnswerTo
<1>2. valid = TRUE
  BY DEF Accept, Passes
<1>3. lastResponse'[RunOf[t]] = answer
  BY TasksAssumption DEF Accept, Stashed, TypeOK
<1>4. NewRow(answer) \in Row
  BY <1>1 DEF NewRow, Row, TypeOK
<1>5. NewReply(answer) \in Served
  BY <1>1 DEF NewReply, Served, TypeOK
<1> HIDE DEF answer
<1>6. cache' = [cache EXCEPT ![Key[t]] = NewRow(answer)]
  BY <1>3 DEF Accept, Stored, NewRow, answer
<1>7. served' = [served EXCEPT ![t] = NewReply(answer)]
  BY DEF Accept, NewReply, answer
<1> QED BY <1>1, <1>2, <1>4, <1>5, <1>6, <1>7 DEF answer

(* What a hit writes: only the date of the row changes.                     *)
LEMMA HitWrites ==
  ASSUME TypeOK, NEW t \in Tasks, Hit(t)
  PROVE  /\ cache[Key[t]] \in Row /\ cache[Key[t]].body \in Answer
         /\ cache'[Key[t]] \in Row
         /\ cache'[Key[t]].body = cache[Key[t]].body
         /\ cache'[Key[t]].meta = cache[Key[t]].meta
         /\ cache'[Key[t]].lastUsed = now
         /\ \A k \in Keys : k # Key[t] => cache'[k] = cache[k]
         /\ served' = [served EXCEPT ![t] = [body |-> cache[Key[t]].body, at |-> now]]
         /\ [body |-> cache[Key[t]].body, at |-> now] \in Served
<1> DEFINE row == cache[Key[t]]
           new == [row EXCEPT !.lastUsed = now]
<1>1. row \in Row /\ row.body \in Answer
  BY KeyType DEF Hit, TypeOK, Row
<1>2. /\ new \in Row /\ new.body = row.body /\ new.meta = row.meta /\ new.lastUsed = now
  BY <1>1 DEF TypeOK, Row
<1>3. cache' = [cache EXCEPT ![Key[t]] = new]
  BY DEF Hit, Touched
<1>4. [body |-> row.body, at |-> now] \in Served
  BY <1>1 DEF Served, TypeOK
<1> HIDE DEF new
<1>5. cache'[Key[t]] = new /\ \A k \in Keys : k # Key[t] => cache'[k] = cache[k]
  BY <1>3, KeyType DEF TypeOK
<1> QED BY <1>1, <1>2, <1>4, <1>5 DEF Hit

LEMMA ContentStep == ASSUME TypeOK, ContentInv, [Next]_vars PROVE ContentInv'
<1> USE DEF ContentInv
<1>1. ASSUME NEW t \in Tasks, Hit(t) PROVE ContentInv'
  <2>1. now' = now /\ state' = [state EXCEPT ![t] = "hit"]
    BY <1>1 DEF Hit
  <2>2. cache[Key[t]] # None
    BY <1>1 DEF Hit
  <2>3. RowsOK'
    <3>1. now <= now
      BY ClockAssumption DEF TypeOK
    <3>2. /\ cache'[Key[t]].body = cache[Key[t]].body
          /\ cache'[Key[t]].meta = cache[Key[t]].meta
          /\ cache'[Key[t]].lastUsed = now
          /\ \A k \in Keys : k # Key[t] => cache'[k] = cache[k]
      BY <1>1, HitWrites
    <3>3. Key[t] \in Keys
      BY KeyType
    <3> QED BY <2>1, <2>2, <3>1, <3>2, <3>3 DEF RowsOK
  <2>4. ASSUME NEW u \in Tasks
        PROVE  /\ state'[u] \in {"queued"} \cup InFlightStates => served'[u] = None
               /\ served'[u] # None =>
                    /\ served'[u].at <= now
                    /\ cache'[Key[u]] # None => served'[u].at <= cache'[Key[u]].lastUsed
    <3>1. CASE u = t
      <4>1. state'[t] = "hit" /\ now <= now
        BY <2>1, ClockAssumption DEF TypeOK
      <4>2. served'[t] = [body |-> cache[Key[t]].body, at |-> now] /\ cache'[Key[t]].lastUsed = now
        BY <1>1, HitWrites DEF TypeOK
      <4>3. served'[t].at = now
        BY <4>2
      <4> QED BY <3>1, <4>1, <4>2, <4>3 DEF InFlightStates
    <3>2. CASE u # t
      <4>1. served'[u] = served[u] /\ state'[u] = state[u]
        BY <1>1, <2>1, <3>2, HitWrites DEF TypeOK
      <4>2. CASE Key[u] = Key[t]
        BY <1>1, <4>1, <4>2, HitWrites DEF ServedOK
      <4>3. CASE Key[u] # Key[t]
        BY <1>1, <4>1, <4>3, HitWrites, KeyType DEF ServedOK
      <4> QED BY <4>2, <4>3
    <3> QED BY <3>1, <3>2
  <2>5. ServedOK'
    BY <2>1, <2>4 DEF ServedOK
  <2> QED BY <2>3, <2>5
<1>2. ASSUME NEW t \in Tasks, NEW valid \in BOOLEAN, NEW cost \in Costs, Accept(t, valid, cost)
      PROVE  ContentInv'
  <2>1. CASE ConnOpen(RunOf[t])
    <3> DEFINE answer == AnswerTo(t, valid, cost)
               row == NewRow(answer)
    <3>1. now' = now /\ state' = [state EXCEPT ![t] = "generated"]
      BY <1>2, <2>1 DEF Accept
    <3>2. /\ cache' = [cache EXCEPT ![Key[t]] = row]
          /\ served' = [served EXCEPT ![t] = NewReply(answer)]
          /\ answer.task = t
      BY <1>2, <2>1, AcceptWrites
    <3>3. /\ row.meta = row.body /\ row.body = answer /\ row.lastUsed = now
          /\ NewReply(answer).at = now /\ now <= now
      BY ClockAssumption DEF NewRow, NewReply, TypeOK
    <3> HIDE DEF answer, row
    <3>4. RowsOK'
      BY <3>1, <3>2, <3>3, KeyType DEF RowsOK, TypeOK
    <3>5. ASSUME NEW u \in Tasks
          PROVE  /\ state'[u] \in {"queued"} \cup InFlightStates => served'[u] = None
                 /\ served'[u] # None =>
                      /\ served'[u].at <= now
                      /\ cache'[Key[u]] # None => served'[u].at <= cache'[Key[u]].lastUsed
      <4>1. CASE u = t
        BY <3>1, <3>2, <3>3, <4>1, KeyType DEF InFlightStates, TypeOK
      <4>2. CASE u # t
        <5>1. served'[u] = served[u] /\ state'[u] = state[u]
          BY <3>1, <3>2, <4>2 DEF TypeOK
        <5>2. CASE Key[u] = Key[t]
          BY <3>2, <3>3, <5>1, <5>2, KeyType DEF ServedOK, TypeOK
        <5>3. CASE Key[u] # Key[t]
          BY <3>2, <5>1, <5>3, KeyType DEF ServedOK, TypeOK
        <5> QED BY <5>2, <5>3
      <4> QED BY <4>1, <4>2
    <3>6. ServedOK'
      BY <3>1, <3>5 DEF ServedOK
    <3> QED BY <3>4, <3>6
  <2>2. CASE ~ConnOpen(RunOf[t])
    BY <1>2, <2>2 DEF Accept, RowsOK, ServedOK, InFlightStates, TypeOK
  <2> QED BY <2>1, <2>2
<1>3. ASSUME NEW t \in Tasks,
             \/ Skip(t) \/ Call(t) \/ LookupOnClosed(t)
             \/ \E valid \in BOOLEAN, cost \in Costs : Reject(t, valid, cost)
             \/ \E cost \in Costs \cup {0} : ProviderError(t, cost)
             \/ Unmapped(t)
      PROVE  ContentInv'
  <2>1. UNCHANGED <<cache, served, now>>
    BY <1>3 DEF Skip, Call, LookupOnClosed, Reject, ProviderError, Unmapped
  <2>2. \A u \in Tasks : state'[u] \in {"queued"} \cup InFlightStates =>
                         state[u] \in {"queued"} \cup InFlightStates
    BY <1>3 DEF Skip, Call, LookupOnClosed, Reject, ProviderError, Unmapped, Miss, Turn,
                InFlightStates, TypeOK
  <2> QED BY <2>1, <2>2 DEF RowsOK, ServedOK
<1>4. ASSUME NEW r \in Runs, Open(r) \/ Return(r) \/ Fail(r) PROVE ContentInv'
  <2>1. UNCHANGED <<cache, served, now>>
    BY <1>4 DEF Open, Return, Fail
  <2>2. \A u \in Tasks : state'[u] \in {"queued"} \cup InFlightStates =>
                         state[u] \in {"queued"} \cup InFlightStates
    BY <1>4 DEF Open, Return, Fail, InFlightStates, TypeOK
  <2> QED BY <2>1, <2>2 DEF RowsOK, ServedOK
<1>5. ASSUME NEW days \in EvictDays, Evict(days) PROVE ContentInv'
  <2>1. \A k \in Keys : cache'[k] = None \/ cache'[k] = cache[k]
    BY <1>5 DEF Evict
  <2>2. UNCHANGED <<served, state, now>>
    BY <1>5 DEF Evict
  <2> QED BY <2>1, <2>2, KeyType DEF RowsOK, ServedOK
<1>6. CASE Tick
  <2>1. UNCHANGED <<cache, served, state>> /\ now' = now + 1
    BY <1>6 DEF Tick
  <2>2. RowsOK'
    <3>1. \A k \in Keys : cache[k] # None => cache[k].lastUsed \in Nat
      BY ClockAssumption DEF TypeOK, Row
    <3> QED BY <2>1, <3>1, ClockAssumption DEF RowsOK, TypeOK
  <2>3. ServedOK'
    <3>1. \A t \in Tasks : served[t] # None => served[t].at \in Nat
      BY ClockAssumption DEF TypeOK, Served
    <3> QED BY <2>1, <3>1, ClockAssumption DEF ServedOK, TypeOK
  <2> QED BY <2>2, <2>3
<1>7. CASE UNCHANGED vars
  BY <1>7 DEF vars, RowsOK, ServedOK
<1> QED
  BY <1>1, <1>2, <1>3, <1>4, <1>5, <1>6, <1>7 DEF Next, Begin, Respond

LEMMA ContentCorrect == Spec => [](TypeOK /\ ContentInv)
<1>1. Init => TypeOK /\ ContentInv
  BY TypeInit, ContentInit
<1>2. TypeOK /\ ContentInv /\ [Next]_vars => (TypeOK /\ ContentInv)'
  BY TypeStep, ContentStep
<1> QED BY <1>1, <1>2, PTL DEF Spec

(* The metadata of a row is that of the reply its body was parsed from,     *)
(* although it travels through a field all tasks of the generator share.    *)
THEOREM RowMetadata == Spec => []MetadataOfBody
<1>1. ContentInv => MetadataOfBody
  BY DEF ContentInv, RowsOK, MetadataOfBody
<1> QED BY <1>1, ContentCorrect, PTL

-----------------------------------------------------------------------------
(* Action properties *)

(* No unforced task pays for a content that is stored, whichever tenant's   *)
(* finding it was written for.                                              *)
THEOREM NoCallWhenStored == Spec => NoCallForStoredContent
<1>1. ASSUME TypeOK, ContentInv, [Next]_vars, NEW t \in Tasks,
             state[t] = "queued", state'[t] = "first", ~Forced(RunOf[t]), NEW k \in Keys,
             cache[k] # None
      PROVE  ~SameContent(t, cache[k].body.task)
  <2>1. Call(t)
    BY <1>1 DEF Next, Begin, Respond, Open, Return, Fail, Hit, Skip, Call, LookupOnClosed, Accept,
                Reject, ProviderError, Unmapped, Evict, Tick, vars, InFlightStates, TypeOK
  <2>2. cache[Key[t]] = None
    BY <1>1, <2>1 DEF Call, Miss
  <2>3. cache[k].body.task \in Tasks
    BY <1>1 DEF TypeOK, Row, Answer
  <2>4. SameContent(t, cache[k].body.task) => Key[t] = k
    BY <1>1, <2>3 DEF SameContent, Key, CacheKey, ContentInv, RowsOK
  <2> QED BY <1>1, <2>2, <2>4
<1>2. TypeOK /\ ContentInv /\ [Next]_vars =>
        [\A t \in Tasks :
           /\ state[t] = "queued" /\ state'[t] = "first"
           /\ ~Forced(RunOf[t])
           => \A k \in Keys : cache[k] # None => ~SameContent(t, cache[k].body.task)]_vars
  BY <1>1
<1> QED BY <1>2, ContentCorrect, PTL DEF Spec, NoCallForStoredContent

(* cache-evict drops no narrative that anybody was given within the days it *)
(* was told to keep.                                                        *)
THEOREM EvictionKeepsUsed == Spec => EvictionSparesUsed
<1>1. ASSUME TypeOK, ContentInv, [Next]_vars, NEW k \in Keys, cache[k] # None, cache'[k] = None,
             NEW t \in Tasks, served[t] # None, Key[t] = k
      PROVE  \E days \in EvictDays : served[t].at < now - days
  <2>1. ASSUME NEW u \in Tasks, Hit(u) PROVE FALSE
    BY <1>1, <2>1, HitWrites, SomeIsNotNone
  <2>2. ASSUME NEW u \in Tasks, NEW valid \in BOOLEAN, NEW cost \in Costs, Accept(u, valid, cost)
        PROVE  FALSE
    <3>1. CASE ConnOpen(RunOf[u])
      <4> DEFINE row == NewRow(AnswerTo(u, valid, cost))
      <4>1. row # None /\ cache' = [cache EXCEPT ![Key[u]] = row]
        BY <1>1, <2>2, <3>1, AcceptWrites, SomeIsNotNone
      <4> HIDE DEF row
      <4> QED BY <1>1, <4>1 DEF TypeOK
    <3>2. CASE ~ConnOpen(RunOf[u])
      BY <1>1, <2>2, <3>2 DEF Accept
    <3> QED BY <3>1, <3>2
  <2>3. PICK days \in EvictDays : Evict(days)
    BY <1>1, <2>1, <2>2 DEF Next, Begin, Respond, Open, Return, Fail, Skip, Call, LookupOnClosed,
                Reject, ProviderError, Unmapped, Tick, vars
  <2>4. cache[k].lastUsed < now - days
    BY <1>1, <2>3 DEF Evict
  <2>5. served[t].at <= cache[k].lastUsed
    BY <1>1 DEF ContentInv, ServedOK
  <2>6. served[t].at \in Nat /\ cache[k].lastUsed \in Nat /\ now \in Nat /\ days \in Nat
    BY <1>1, ClockAssumption DEF TypeOK, Row, Served
  <2> QED BY <2>4, <2>5, <2>6
<1>2. TypeOK /\ ContentInv /\ [Next]_vars =>
        [\A k \in Keys : cache[k] # None /\ cache'[k] = None =>
           \A t \in Tasks : served[t] # None /\ Key[t] = k =>
             \E days \in EvictDays : served[t].at < now - days]_vars
  BY <1>1
<1> QED BY <1>2, ContentCorrect, PTL DEF Spec, EvictionSparesUsed

-----------------------------------------------------------------------------
(* The refinement: an accepted reply under an open connection is            *)
(* AnswerAfresh, a hit is AnswerFromTable, eviction is Forget, and every    *)
(* other step leaves table and reply alone.                                 *)

LEMMA ServiceInit == Init => Service!Init
BY KeyType DEF Init, Service!Init

LEMMA ServiceStep ==
  ASSUME TypeOK, ContentInv, [Next]_vars
  PROVE  [Service!Next]_(Service!vars)
<1> DEFINE table == [k \in Keys |-> IF cache[k] = None THEN None ELSE cache[k].body]
           reply == [t \in Tasks |-> IF served[t] = None THEN None ELSE served[t].body]
<1>1. ASSUME NEW t \in Tasks, Hit(t) PROVE Service!AnswerFromTable(t)
  <2>1. served[t] = None
    BY <1>1 DEF Hit, Turn, ContentInv, ServedOK
  <2>2. cache[Key[t]] # None /\ cache[Key[t]].body # None
    BY <1>1, HitWrites, SomeIsNotNone
  <2>3. cache'[Key[t]] # None
    BY <1>1, HitWrites, SomeIsNotNone
  <2>4. table' = table
    BY <1>1, <2>2, <2>3, HitWrites
  <2>5. served'[t] # None /\ served'[t].body = cache[Key[t]].body
    <3>1. served'[t] = [body |-> cache[Key[t]].body, at |-> now]
      BY <1>1, HitWrites DEF TypeOK
    <3>2. [body |-> cache[Key[t]].body, at |-> now] # None
      BY <1>1, HitWrites, SomeIsNotNone
    <3> QED BY <3>1, <3>2
  <2>6. \A u \in Tasks : u # t => served'[u] = served[u]
    BY <1>1, HitWrites DEF TypeOK
  <2>7. reply' = [reply EXCEPT ![t] = table[Key[t]]]
    BY <2>2, <2>5, <2>6, KeyType
  <2> QED BY <2>1, <2>2, <2>4, <2>7, KeyType DEF Service!AnswerFromTable
<1>2. ASSUME NEW t \in Tasks, NEW valid \in BOOLEAN, NEW cost \in Costs, Accept(t, valid, cost),
             ConnOpen(RunOf[t])
      PROVE  Service!AnswerAfresh(t)
  <2> DEFINE answer == AnswerTo(t, valid, cost)
  <2>1. served[t] = None
    BY <1>2 DEF Accept, ContentInv, ServedOK
  <2>2. /\ answer \in Answer /\ answer.valid /\ answer.task = t
        /\ NewRow(answer) \in Row /\ NewReply(answer) \in Served
        /\ cache' = [cache EXCEPT ![Key[t]] = NewRow(answer)]
        /\ served' = [served EXCEPT ![t] = NewReply(answer)]
    BY <1>2, AcceptWrites
  <2>3. NewRow(answer).body = answer /\ NewReply(answer).body = answer
    BY DEF NewRow, NewReply
  <2>4. NewRow(answer) # None /\ NewReply(answer) # None
    BY <2>2, SomeIsNotNone
  <2> HIDE DEF answer
  <2>5. table' = [table EXCEPT ![Key[t]] = answer]
    BY <2>2, <2>3, <2>4, KeyType DEF TypeOK
  <2>6. reply' = [reply EXCEPT ![t] = answer]
    BY <2>2, <2>3, <2>4 DEF TypeOK
  <2>7. answer \in {a \in Answer : a.valid /\ Key[a.task] = Key[t]}
    BY <2>2
  <2> QED BY <2>1, <2>5, <2>6, <2>7, KeyType DEF Service!AnswerAfresh
<1>3. ASSUME NEW days \in EvictDays, Evict(days) PROVE Service!Forget
  <2> DEFINE gone == {k \in Keys : cache[k] # None /\ cache[k].lastUsed < now - days}
  <2>1. gone \in SUBSET Keys
    OBVIOUS
  <2>2. table' = [k \in Keys |-> IF k \in gone THEN None ELSE table[k]]
    BY <1>3 DEF Evict
  <2>3. reply' = reply
    BY <1>3 DEF Evict
  <2> HIDE DEF gone
  <2> QED BY <2>1, <2>2, <2>3 DEF Service!Forget
<1>4. ASSUME UNCHANGED <<cache, served>> PROVE UNCHANGED Service!vars
  BY <1>4 DEF Service!vars
<1>5. ASSUME NEW t \in Tasks, NEW valid \in BOOLEAN, NEW cost \in Costs, Accept(t, valid, cost),
             ~ConnOpen(RunOf[t])
      PROVE  UNCHANGED <<cache, served>>
  BY <1>5 DEF Accept
<1> QED
  BY <1>1, <1>2, <1>3, <1>4, <1>5
     DEF Next, Begin, Respond, Open, Return, Fail, Skip, Call, LookupOnClosed, Reject,
         ProviderError, Unmapped, Tick, vars, Service!Next

(* The pipeline, with its concurrent misses, its retry, its closed          *)
(* connections and its eviction, is the service: a table of one narrative   *)
(* per content, and requests answered at most once, each with a well-formed *)
(* narrative written for the content asked about.                           *)
THEOREM ImplementsService == Spec => ServiceSpec
<1>1. Init => Service!Init
  BY ServiceInit
<1>2. TypeOK /\ ContentInv /\ [Next]_vars => [Service!Next]_(Service!vars)
  BY ServiceStep
<1> QED BY <1>1, <1>2, ContentCorrect, PTL DEF Spec, ServiceSpec, Service!Spec
=============================================================================
