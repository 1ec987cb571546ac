--------------------------- MODULE NarrativeService ---------------------------
(***************************************************************************)
(* What the narrative layer promises its callers, without saying how: a    *)
(* table that holds at most one narrative per content (rule, evidence,     *)
(* prompt version, model), and requests that are each answered at most     *)
(* once with a narrative written for exactly the content asked about.      *)
(*                                                                         *)
(* NarrativeGenerator implements this; see NarrativeGenerator!Service.     *)
(***************************************************************************)
CONSTANTS
  Tasks,        \* the requests for a narrative
  Contents,     \* the contents a narrative can be about
  ContentOf,    \* ContentOf[t]: what request t asks about
  GoodFor,      \* GoodFor[c]: the well-formed narratives about content c
  None          \* no narrative

VARIABLES
  table,        \* table[c]: the narrative kept for content c, or None
  reply         \* reply[t]: the narrative request t was answered with, or None

vars == <<table, reply>>

Init ==
  /\ table = [c \in Contents |-> None]
  /\ reply = [t \in Tasks |-> None]

(* The table already has the narrative. *)
AnswerFromTable(t) ==
  /\ reply[t] = None
  /\ table[ContentOf[t]] # None
  /\ reply' = [reply EXCEPT ![t] = table[ContentOf[t]]]
  /\ UNCHANGED table

(* A new narrative is written, kept, and is the answer, in one step. *)
AnswerAfresh(t) ==
  /\ reply[t] = None
  /\ \E n \in GoodFor[ContentOf[t]] :
       /\ table' = [table EXCEPT ![ContentOf[t]] = n]
       /\ reply' = [reply EXCEPT ![t] = n]

(* Old narratives are dropped; nothing is rewritten on the way. *)
Forget ==
  /\ \E gone \in SUBSET Contents :
       table' = [c \in Contents |-> IF c \in gone THEN None ELSE table[c]]
  /\ UNCHANGED reply

Next == Forget \/ \E t \in Tasks : AnswerFromTable(t) \/ AnswerAfresh(t)

Spec == Init /\ [][Next]_vars
=============================================================================
