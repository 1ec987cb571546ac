----------------------------- MODULE AuditExclusions -----------------------------
(***************************************************************************)
(* audit-exclusions: who is excluded from a policy, how, and what is       *)
(* doubtful about it.                                                      *)
(***************************************************************************)
EXTENDS CaPolicies

CONSTANT CreepThreshold
ASSUME CreepAssumption == CreepThreshold \in Nat

ExclusionStaleDays == 90

HasExclusions(p) ==
  LET who == policies[p].users IN
  who # None /\ who.excludeUsers \cup who.excludeGroups \cup who.excludeRoles # {}

(* One principal per user and per way it is excluded.                       *)
Principals(p) ==
  LET who == policies[p].users IN
  {[user |-> u, via |-> <<"direct">>] : u \in who.excludeUsers}
  \cup (UNION {{[user |-> u, via |-> <<"group", g>>] : u \in member[g]} : g \in who.excludeGroups})
  \cup (UNION {{[user |-> u, via |-> <<"role", r>>] : u \in holder[r]} : r \in who.excludeRoles})

RolesOf(u) == {r \in Roles : u \in holder[r]}

Stale(u) == signed[u] = Never \/ now - signed[u] >= ExclusionStaleDays

AnyOther(q, u, p) == q # p /\ EnforcesMfa(q) /\ TargetsAllUsers(q)

(* Another enabled policy for all users with MFA; that it may exclude the   *)
(* user through a group or a role is not looked at.                         *)
IsAlternate(q, u, p) ==
  /\ q # p /\ EnforcesMfa(q) /\ TargetsAllUsers(q)
  /\ u \notin policies[q].users.excludeUsers
HasAlternate(u, p) == \E q \in Present : IsAlternate(q, u, p)

Bypasses(u, p) ==
  /\ EnforcesMfa(p)
  /\ RolesOf(u) \cap PrivilegedRoles # {}
  /\ ~HasAlternate(u, p)

About(rule, objects, severity) ==
  [rule |-> <<"exclusion", rule>>, affected |-> objects, severity |-> severity]

PrincipalFindings(u, p) ==
  (IF Stale(u) THEN {About("stale-user", {u, p}, "MEDIUM")} ELSE {})
  \cup (IF u \in blocked THEN {About("orphan-user", {u, p}, "HIGH")} ELSE {})
  \cup (IF Bypasses(u, p) THEN {About("admin-mfa-bypass", {u, p}, "CRITICAL")} ELSE {})

Creeps(p) == Cardinality(policies[p].users.excludeUsers) > CreepThreshold

PolicyFindings(p) ==
  (UNION {PrincipalFindings(x.user, p) : x \in Principals(p)})
  \cup (IF Creeps(p) THEN {About("creep", {p}, "LOW")} ELSE {})
  \cup (IF ~policies[p].documented THEN {About("undocumented", {p}, "LOW")} ELSE {})

ExclusionFindings == UNION {PolicyFindings(p) : p \in {p \in Present : HasExclusions(p)}}
=============================================================================
