------------------------------ MODULE FindingsLog ------------------------------
(***************************************************************************)
(* What the findings table promises: a finding, once recorded under its    *)
(* id, keeps its content and is never taken away, and whoever is answered  *)
(* finds everything it was told about recorded.                            *)
(***************************************************************************)
CONSTANT Findings     \* records with an id
VARIABLES
  recorded,           \* the findings in the log
  promised            \* ids somebody was told about

Ids(S) == {f.id : f \in S}

Init == recorded = {} /\ promised = {}

Record(f) ==
  /\ f.id \notin Ids(recorded)
  /\ recorded' = recorded \cup {f}
  /\ UNCHANGED promised

Answer ==
  /\ promised \subseteq promised'
  /\ promised' \subseteq Ids(recorded)
  /\ UNCHANGED recorded

Next == (\E f \in Findings : Record(f)) \/ Answer

Spec == Init /\ [][Next]_<<recorded, promised>>
=============================================================================
