---------------------------- MODULE MCModelRegistry ----------------------------
(* Instances of ModelRegistry for TLC. *)
EXTENDS ModelRegistry

(* The bootstrap of a fresh stack, with an operator who trains, promotes    *)
(* with and without the gate, and a scoring request. The second version     *)
(* passes the gate against the first, the third fails it against both.      *)
StackKind == [boot |-> "script", train |-> "train", promote |-> "promote",
              force |-> "promoteForce", request |-> "apiScore"]
StackKindOf == [boot |-> "script", train |-> "train", promote |-> "promote",
                request |-> "apiScore"]
StackAlerts == <<10, 12, 5>>
=============================================================================
