------------------------- MODULE MCNarrativeGenerator -------------------------
(* Instances of NarrativeGenerator for TLC. *)
EXTENDS NarrativeGenerator

(* Two findings of two tenants with the same rule and evidence, and one     *)
(* with other evidence.                                                     *)
Req(tenant, evidence) ==
  [tenant |-> tenant, rule |-> "stale-user", evidence |-> evidence,
   prompt |-> "v1", model |-> "opus"]

(* An audit run of tenant a with three findings, the first and the third    *)
(* alike (a user excluded through two groups), and a dashboard read of the  *)
(* same finding in tenant b, on the same event loop.                        *)
ApiKind    == [audit |-> "apiBatch", get |-> "apiGet"]
ApiCap     == [audit |-> 1, get |-> 0]
ApiRunOf   == <<"audit", "audit", "audit", "get">>
ApiRequest == <<Req("a", "e1"), Req("a", "e2"), Req("a", "e1"), Req("b", "e1")>>
ApiEstimate == [t \in 1..4 |-> 1]

(* The other kinds: the API's audit again with a regenerate beside it, an   *)
(* audit from the CLI and a forced pass. Calls are free here; the API       *)
(* audit's findings are alike, the CLI audit's second one is too long for   *)
(* its budget.                                                              *)
CliKind    == [audit |-> "apiBatch", cli |-> "cliBatch", force |-> "cliForce",
               regen |-> "apiRegenerate"]
CliCap     == [audit |-> 3, cli |-> 2, force |-> 1, regen |-> 0]
CliRunOf   == <<"audit", "audit", "cli", "cli", "force", "regen">>
CliRequest == [t \in 1..6 |-> Req("a", IF t = 4 THEN "e2" ELSE "e1")]
CliEstimate == <<1, 1, 1, 3, 1, 1>>
=============================================================================
