-------------------------- MODULE NarrativeGenerator --------------------------
(***************************************************************************)
(* The finding-to-narrative pipeline: NarrativeGenerator.generate and      *)
(* generate_batch (packages/llm-narrative), the narrative_cache table      *)
(* (packages/storage), and the callers that open a connection and run      *)
(* them: the API's audit run, GET and regenerate routes and the CLI's      *)
(* batch and forced passes.                                                *)
(*                                                                         *)
(* A run is one caller's generator: its own budget, its own semaphore, its *)
(* own `_last_response`, over the shared cache table. A task is one        *)
(* finding of one run. All of it executes on one event loop, so the code   *)
(* between two awaits is one action; the only awaits are the semaphore and *)
(* `provider.complete`.                                                    *)
(***************************************************************************)
EXTENDS Integers, FiniteSets

CONSTANTS
  Runs,             \* the callers
  Kind,             \* Kind[r]: which entry point run r came through
  Cap,              \* Cap[r]: max_dollars of the run's NarrativeBudget
  Tasks,            \* findings to narrate, numbered in the order of `findings`
  RunOf,            \* RunOf[t]: the run task t belongs to
  Request,          \* Request[t]: tenant, rule, evidence, prompt and model
  EstimatedCost,    \* EstimatedCost[t]: prompt size + 500 output tokens, priced
  Costs,            \* what one answered provider call may really cost
  MaxCost,          \* an upper bound of Costs (max_tokens caps the reply)
  MaxConcurrency,   \* the generator's semaphore
  EvictDays,        \* the --days an operator may pass to cache-evict
  MaxNow,           \* bound on the clock, in days
  None              \* no row, no response, no narrative

Batches  == {"apiBatch", "cliBatch"}            \* generate_batch
Singles  == {"apiGet", "apiRegenerate"}         \* generate, unlimited budget
Api      == Singles \cup {"apiBatch"}
Kinds    == Batches \cup Singles \cup {"cliForce"}

Answer   == [task : Tasks, attempt : {1, 2}, valid : BOOLEAN, cost : Costs]
Row      == [body : Answer, meta : Answer, lastUsed : 0..MaxNow]
Served   == [body : Answer, at : 0..MaxNow]
Tally    == [hits : Nat, generated : Nat, skipped : Nat, errored : Nat]

ASSUME RunsAssumption ==
  /\ Kind \in [Runs -> Kinds]
  /\ Cap \in [Runs -> Nat]
  /\ MaxConcurrency \in Nat \ {0}
ASSUME TasksAssumption ==
  /\ Tasks \subseteq Nat
  /\ IsFiniteSet(Tasks)
  /\ RunOf \in [Tasks -> Runs]
ASSUME CostsAssumption ==
  /\ EstimatedCost \in [Tasks -> Nat]
  /\ MaxCost \in Nat
  /\ Costs \subseteq 0..MaxCost
ASSUME ClockAssumption == MaxNow \in Nat /\ EvictDays \subseteq Nat
ASSUME NoneAssumption == None \notin Answer \cup Row \cup Served

(* compute_cache_key: SHA-256 taken as injective, so the key is the four    *)
(* components hashed; the tenant is not one of them.                        *)
TenantInKey(req) == <<req.tenant, req.rule, req.evidence, req.prompt, req.model>>
CacheKey(req) == <<req.rule, req.evidence, req.prompt, req.model>>

Key  == [t \in Tasks |-> CacheKey(Request[t])]
Keys == {Key[t] : t \in Tasks}

VARIABLES
  status,        \* status[r]: waiting, open, raising, returned or failed
  state,         \* state[t]: where generate is for task t, or how it ended
  cache,         \* narrative_cache: a Row or None for each key
  spent,         \* spent[r]: NarrativeBudget.dollars_spent
  billed,        \* billed[r]: what the provider charged for r's calls (history)
  tally,         \* tally[r]: BatchResult; .skipped is also budget.skipped_count
  lastResponse,  \* lastResponse[r]: NarrativeGenerator._last_response
  served,        \* served[t]: the narrative generate returned, and when
  now            \* today

vars == <<status, state, cache, spent, billed, tally, lastResponse, served, now>>

InFlightStates == {"first", "retry"}     \* awaiting the provider
Finished == {"hit", "generated", "skipped", "errored", "raised", "cancelled"}

TasksOf(r)     == {t \in Tasks : RunOf[t] = r}
PermitsKept(r) == {t \in TasksOf(r) : state[t] \in InFlightStates \cup {"errored"}}
InFlight(r)    == {t \in TasksOf(r) : state[t] \in InFlightStates}
ConnOpen(r)    == status[r] \in {"open", "raising"}
Forced(r)      == Kind[r] \in {"apiRegenerate", "cliForce"}
Concurrency(r) == IF Kind[r] \in Batches THEN MaxConcurrency ELSE 1

(* NarrativeBudget.would_exceed; the Singles run with max_dollars = inf. *)
EstimateOnly(r, estimate) == Kind[r] \notin Singles /\ estimate > Cap[r]
WouldExceed(r, estimate) == Kind[r] \notin Singles /\ spent[r] + estimate > Cap[r]

(* `result.<field> += 1`; the forced pass keeps no BatchResult as it goes,  *)
(* only the budget's skipped_count.                                         *)
Counted(r, field) ==
  IF Kind[r] = "cliForce" /\ field # "skipped"
  THEN tally
  ELSE [tally EXCEPT ![r][field] = @ + 1]

Init ==
  /\ status = [r \in Runs |-> "waiting"]
  /\ state = [t \in Tasks |-> "queued"]
  /\ cache = [k \in Keys |-> None]
  /\ spent = [r \in Runs |-> 0]
  /\ billed = [r \in Runs |-> 0]
  /\ tally = [r \in Runs |-> [hits |-> 0, generated |-> 0, skipped |-> 0, errored |-> 0]]
  /\ lastResponse = [r \in Runs |-> None]
  /\ served = [t \in Tasks |-> None]
  /\ now = 0

-----------------------------------------------------------------------------
(* Callers. DuckDB lets one process at a time hold the file read-write, so  *)
(* a CLI run excludes every other run, while API requests share a process.  *)

SameProcess(r, q) == Kind[r] \in Api /\ Kind[q] \in Api

Open(r) ==
  /\ status[r] = "waiting"
  /\ \A q \in Runs : ConnOpen(q) => SameProcess(r, q)
  /\ status' = [status EXCEPT ![r] = "open"]
  /\ UNCHANGED <<state, cache, spent, billed, tally, lastResponse, served, now>>

(* gather has every result. The forced pass reports every finding as        *)
(* generated, whatever became of it.                                        *)
Return(r) ==
  /\ status[r] = "open"
  /\ \A t \in TasksOf(r) : state[t] \in Finished
  /\ status' = [status EXCEPT ![r] = "returned"]
  /\ tally' = IF Kind[r] = "cliForce"
              THEN [tally EXCEPT ![r].generated = Cardinality(TasksOf(r))]
              ELSE tally
  /\ UNCHANGED <<state, cache, spent, billed, lastResponse, served, now>>

(* An exception generate_batch does not catch has left gather: the request  *)
(* fails and its connection closes. In the API the sibling tasks live on;   *)
(* in the CLI asyncio.run cancels them first.                               *)
Fail(r) ==
  /\ status[r] = "raising"
  /\ status' = [status EXCEPT ![r] = "failed"]
  /\ state' = IF Kind[r] = "cliBatch"
              THEN [t \in Tasks |-> IF t \in TasksOf(r) /\ state[t] \notin Finished
                                    THEN "cancelled" ELSE state[t]]
              ELSE state
  /\ UNCHANGED <<cache, spent, billed, tally, lastResponse, served, now>>

-----------------------------------------------------------------------------
(* From the semaphore to the provider call, without an await between. *)

(* The semaphore wakes waiters in the order gather queued them. *)
Turn(t) ==
  LET r == RunOf[t] IN
  /\ state[t] = "queued"
  /\ \A u \in TasksOf(r) : state[u] = "queued" => t <= u
  /\ Cardinality(InFlight(r)) < Concurrency(r)

(* get_cached_narrative, on a hit, bumps last_used_at. *)
Untouched(k) == cache
Touched(k) == [cache EXCEPT ![k].lastUsed = now]

Hit(t) ==
  LET r == RunOf[t] IN
  /\ Turn(t) /\ ConnOpen(r)
  /\ ~Forced(r) /\ cache[Key[t]] # None
  /\ cache' = Touched(Key[t])
  /\ served' = [served EXCEPT ![t] = [body |-> cache[Key[t]].body, at |-> now]]
  /\ state' = [state EXCEPT ![t] = "hit"]
  /\ tally' = Counted(r, "hits")
  /\ UNCHANGED <<status, spent, billed, lastResponse, now>>

UncheckedMiss(t) == Turn(t) /\ ConnOpen(RunOf[t])
Miss(t) ==
  /\ Turn(t) /\ ConnOpen(RunOf[t])
  /\ Forced(RunOf[t]) \/ cache[Key[t]] = None

(* record_skip, then BudgetExceededError. *)
Skip(t) ==
  /\ Miss(t) /\ WouldExceed(RunOf[t], EstimatedCost[t])
  /\ state' = [state EXCEPT ![t] = "skipped"]
  /\ tally' = Counted(RunOf[t], "skipped")
  /\ UNCHANGED <<status, cache, spent, billed, lastResponse, served, now>>

(* The first provider.complete; the task awaits, the loop runs others. *)
Call(t) ==
  /\ Miss(t) /\ ~WouldExceed(RunOf[t], EstimatedCost[t])
  /\ state' = [state EXCEPT ![t] = "first"]
  /\ UNCHANGED <<status, cache, spent, billed, tally, lastResponse, served, now>>

(* A sibling of a failed request gets the semaphore: the lookup raises on   *)
(* the closed connection, and nobody awaits the task any more.              *)
LookupOnClosed(t) ==
  /\ Turn(t) /\ status[RunOf[t]] = "failed"
  /\ state' = [state EXCEPT ![t] = "raised"]
  /\ UNCHANGED <<status, cache, spent, billed, tally, lastResponse, served, now>>

-----------------------------------------------------------------------------
(* The provider answers. *)

AnswerTo(t, valid, cost) ==
  [task |-> t, attempt |-> IF state[t] = "first" THEN 1 ELSE 2, valid |-> valid, cost |-> cost]

(* _validate_structure decides whether a reply is used, on either attempt. *)
UnvalidatedRetry(t, valid) == valid \/ state[t] = "retry"
Passes(t, valid) == valid

(* `self._last_response = response`, after each await of the provider. *)
StashedOnFirst(t, answer) ==
  IF state[t] = "first" THEN [lastResponse EXCEPT ![RunOf[t]] = answer] ELSE lastResponse
Stashed(t, answer) == [lastResponse EXCEPT ![RunOf[t]] = answer]

(* What budget.record adds: the price of the last response's tokens only. *)
EstimateRecorded(t, last) == EstimatedCost[t]
Recorded(t, last) == last.cost

(* store_narrative: INSERT OR REPLACE. The body is the value returned by    *)
(* _call_with_validation, the metadata comes from _last_response.           *)
MetaReadEarly(t, body, meta) ==
  [cache EXCEPT ![Key[t]] = [body |-> body, meta |-> lastResponse[RunOf[t]], lastUsed |-> now]]
Stored(t, body, meta) ==
  [cache EXCEPT ![Key[t]] = [body |-> body, meta |-> meta, lastUsed |-> now]]

(* A reply that is used: recorded in the budget, then stored, which raises  *)
(* if the request has failed and closed its connection meanwhile.           *)
Accept(t, valid, cost) ==
  LET r == RunOf[t]
      answer == AnswerTo(t, valid, cost)
  IN
  /\ state[t] \in InFlightStates /\ Passes(t, valid)
  /\ lastResponse' = Stashed(t, answer)
  /\ billed' = [billed EXCEPT ![r] = @ + cost]
  /\ spent' = [spent EXCEPT ![r] = @ + Recorded(t, lastResponse'[r])]
  /\ IF ConnOpen(r)
     THEN /\ cache' = Stored(t, answer, lastResponse'[r])
          /\ served' = [served EXCEPT ![t] = [body |-> answer, at |-> now]]
          /\ state' = [state EXCEPT ![t] = "generated"]
          /\ tally' = Counted(r, "generated")
     ELSE /\ state' = [state EXCEPT ![t] = "raised"]
          /\ UNCHANGED <<cache, served, tally>>
  /\ UNCHANGED <<status, now>>

(* A reply that is not: one retry, then NarrativeValidationError. *)
Reject(t, valid, cost) ==
  LET r == RunOf[t] IN
  /\ state[t] \in InFlightStates /\ ~Passes(t, valid)
  /\ lastResponse' = Stashed(t, AnswerTo(t, valid, cost))
  /\ billed' = [billed EXCEPT ![r] = @ + cost]
  /\ IF state[t] = "first"
     THEN /\ state' = [state EXCEPT ![t] = "retry"]
          /\ UNCHANGED tally
     ELSE /\ state' = [state EXCEPT ![t] = "errored"]
          /\ tally' = Counted(r, "errored")
  /\ UNCHANGED <<status, cache, spent, served, now>>

(* LlmError: refused, unreachable, or a billed reply without text. *)
ProviderError(t, cost) ==
  LET r == RunOf[t] IN
  /\ state[t] \in InFlightStates
  /\ billed' = [billed EXCEPT ![r] = @ + cost]
  /\ state' = [state EXCEPT ![t] = "errored"]
  /\ tally' = Counted(r, "errored")
  /\ UNCHANGED <<status, cache, spent, lastResponse, served, now>>

(* An exception the adapter does not map to LlmError (a read timeout of the *)
(* Ollama client, a reply that is not JSON): gather re-raises the first one *)
(* in the caller. The forced pass suppresses it.                            *)
Swallowed(r) == status
Propagated(r) ==
  IF status[r] = "open" /\ Kind[r] # "cliForce"
  THEN [status EXCEPT ![r] = "raising"] ELSE status

Unmapped(t) ==
  /\ state[t] \in InFlightStates
  /\ state' = [state EXCEPT ![t] = "raised"]
  /\ status' = Propagated(RunOf[t])
  /\ UNCHANGED <<cache, spent, billed, tally, lastResponse, served, now>>

-----------------------------------------------------------------------------
(* `cstack narrative cache-evict --days`: a process of its own, so no run   *)
(* has a connection.                                                        *)
Evict(days) ==
  /\ \A r \in Runs : ~ConnOpen(r)
  /\ cache' = [k \in Keys |-> IF cache[k] # None /\ cache[k].lastUsed < now - days
                              THEN None ELSE cache[k]]
  /\ UNCHANGED <<status, state, spent, billed, tally, lastResponse, served, now>>

Tick ==
  /\ now < MaxNow
  /\ now' = now + 1
  /\ UNCHANGED <<status, state, cache, spent, billed, tally, lastResponse, served>>

Begin(t)   == Hit(t) \/ Skip(t) \/ Call(t) \/ LookupOnClosed(t)
Respond(t) ==
  \/ \E valid \in BOOLEAN, cost \in Costs : Accept(t, valid, cost) \/ Reject(t, valid, cost)
  \/ \E cost \in Costs \cup {0} : ProviderError(t, cost)
  \/ Unmapped(t)

Next ==
  \/ \E r \in Runs : Open(r) \/ Return(r) \/ Fail(r)
  \/ \E t \in Tasks : Begin(t) \/ Respond(t)
  \/ \E days \in EvictDays : Evict(days)
  \/ Tick

Spec == Init /\ [][Next]_vars

(* The event loop runs every ready task and handler; the SDKs' request      *)
(* timeouts make every provider call end. Requests, operators and midnight  *)
(* owe nothing.                                                             *)
Fairness ==
  /\ \A r \in Runs : WF_vars(Return(r)) /\ WF_vars(Fail(r))
  /\ \A t \in Tasks : WF_vars(Begin(t)) /\ WF_vars(Respond(t))

FairSpec == Spec /\ Fairness

-----------------------------------------------------------------------------
TypeOK ==
  /\ status \in [Runs -> {"waiting", "open", "raising", "returned", "failed"}]
  /\ state \in [Tasks -> {"queued"} \cup InFlightStates \cup Finished]
  /\ cache \in [Keys -> Row \cup {None}]
  /\ spent \in [Runs -> Nat]
  /\ billed \in [Runs -> Nat]
  /\ tally \in [Runs -> Tally]
  /\ lastResponse \in [Runs -> Answer \cup {None}]
  /\ served \in [Tasks -> Served \cup {None}]
  /\ now \in 0..MaxNow

(* The cap is soft, but not without limit: whatever the interleaving, a run *)
(* records at most its cap plus one provider call for each semaphore slot   *)
(* (would_exceed reads dollars_spent before the await, record adds to it    *)
(* after).                                                                  *)
OvershootBounded ==
  \A r \in Runs : Kind[r] \notin Singles => spent[r] <= Cap[r] + Concurrency(r) * MaxCost

(* Findings of one batch that share a cache key can all miss before the     *)
(* first of them is stored, but never more of them than the semaphore lets  *)
(* in: every later one finds the row.                                       *)
DuplicateCallsBounded ==
  \A r \in Runs, k \in Keys : Kind[r] \in Batches =>
    Cardinality({t \in TasksOf(r) : Key[t] = k /\ state[t] = "generated"}) <= MaxConcurrency

(* A batch that returns has put every finding in exactly one of the four    *)
(* counters of its BatchResult.                                             *)
BatchAccounted ==
  \A r \in Runs : status[r] = "returned" /\ Kind[r] \in Batches =>
    tally[r].hits + tally[r].generated + tally[r].skipped + tally[r].errored
      = Cardinality(TasksOf(r))

(* The tokens, model and provider stored with a narrative are those of the  *)
(* response it was taken from, though concurrent tasks and the retry all    *)
(* write the same _last_response.                                           *)
MetadataOfBody == \A k \in Keys : cache[k] # None => cache[k].meta = cache[k].body

(* The budget never claims money that was not charged. *)
SpentWasBilled == \A r \in Runs : spent[r] <= billed[r]

(* While some narrative for the same rule, evidence, prompt and model is    *)
(* stored, whichever tenant it was written for, no unforced task calls the  *)
(* provider.                                                                *)
SameContent(t, u) ==
  /\ Request[t].rule = Request[u].rule
  /\ Request[t].evidence = Request[u].evidence
  /\ Request[t].prompt = Request[u].prompt
  /\ Request[t].model = Request[u].model
NoCallForStoredContent ==
  [][\A t \in Tasks :
       /\ state[t] = "queued" /\ state'[t] = "first"
       /\ ~Forced(RunOf[t])
       => \A k \in Keys : cache[k] # None => ~SameContent(t, cache[k].body.task)]_vars

(* Eviction spares every narrative somebody was given within the shortest   *)
(* retention: a hit counts as a use, not only the store.                    *)
EvictionSparesUsed ==
  [][\A k \in Keys : cache[k] # None /\ cache'[k] = None =>
       \A t \in Tasks : served[t] # None /\ Key[t] = k =>
         \E days \in EvictDays : served[t].at < now - days]_vars

(* Every run that opens ends, and none of its tasks is left waiting for the *)
(* semaphore or the provider, whatever the other tasks run into.            *)
RunsEnd ==
  \A r \in Runs : status[r] = "open" ~>
    /\ status[r] \in {"returned", "failed"}
    /\ \A t \in TasksOf(r) : state[t] \in Finished

(* The pipeline implements NarrativeService: it answers, keeps and drops    *)
(* narratives as that module says, and only well-formed ones written for    *)
(* the content asked about.                                                 *)
Service == INSTANCE NarrativeService WITH
  Contents  <- Keys,
  ContentOf <- Key,
  GoodFor   <- [k \in Keys |-> {a \in Answer : a.valid /\ Key[a.task] = k}],
  table     <- [k \in Keys |-> IF cache[k] = None THEN None ELSE cache[k].body],
  reply     <- [t \in Tasks |-> IF served[t] = None THEN None ELSE served[t].body]
ServiceSpec == Service!Spec
=============================================================================
