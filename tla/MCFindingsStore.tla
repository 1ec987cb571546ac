----------------------------- MODULE MCFindingsStore -----------------------------
(***************************************************************************)
(* A live tenant whose one policy asks too little and whose one user is    *)
(* disabled, and a fixture tenant.                                         *)
(***************************************************************************)
EXTENDS FindingsStore

CONSTANTS audit1, audit2, dry, score1, score2, cliAudit, cliScore, extract, remove,
          fixtureAudit, load,                \* operations
          live, fixture, p, u, s,
          cell, gap, weak, strict, active, disabled

AllOps == {audit1, audit2, dry, score1, score2, cliAudit, cliScore, extract, remove,
           fixtureAudit, load}
OpKind == [o \in AllOps |->
  CASE o \in {audit1, audit2} -> "audit"
    [] o = dry -> "dry"
    [] o \in {score1, score2} -> "score"
    [] o \in {cliAudit, fixtureAudit} -> "cliAudit"
    [] o = cliScore -> "cliScore"
    [] o = extract -> "extract"
    [] o = load -> "load"
    [] o = remove -> "remove"]
OpTarget == [o \in AllOps |-> IF o \in {fixtureAudit, load} THEN fixture ELSE live]
OpAsked == [o \in AllOps |->
  IF o = audit2 THEN <<"coverage">> ELSE <<"coverage", "rules", "exclusions">>]

FirstHeld == [t \in {live, fixture} |-> [policies |-> [x \in {p} |-> weak],
                                        users    |-> [x \in {u} |-> disabled]]]

ContentsOf(r) == IF r = "policies" THEN {weak, strict} ELSE {active, disabled}

(* A stand-in for the audits, which TenantAudit has whole: a cell whose     *)
(* severity depends on what is enforced, two rules about a weak policy, a   *)
(* disabled user a policy excludes.                                         *)
StandIn(category, context) ==
  LET policy == context.policies[p] IN
  CASE category = "coverage" /\ policy # strict ->
         {[key |-> cell, severity |-> IF policy = weak THEN "HIGH" ELSE "CRITICAL"]}
    [] category = "rules" /\ policy = weak -> {[key |-> k, severity |-> "HIGH"] : k \in {p, gap}}
    [] category = "exclusions" /\ policy # Absent /\ context.users[u] = disabled ->
         {[key |-> u, severity |-> "HIGH"]}
    [] OTHER -> {}

Scored(v, signin) == IF v = 1 THEN "HIGH" ELSE "CRITICAL"
=============================================================================
