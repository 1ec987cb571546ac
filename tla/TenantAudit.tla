------------------------------- MODULE TenantAudit -------------------------------
(***************************************************************************)
(* An audit of a tenant: the coverage, the rules and the exclusions        *)
(* together, and what can be relied on when they say nothing.              *)
(***************************************************************************)
EXTENDS AuditCoverage, AuditRules, AuditExclusions

Categories == {"coverage", "rules", "exclusions"}

(* _category_findings, and `audit all` with every category.                 *)
CategoryFindings(category) ==
  CASE category = "coverage"   -> CoverageFindings
    [] category = "rules"      -> RuleFindings
    [] category = "exclusions" -> ExclusionFindings

-----------------------------------------------------------------------------
(* What the policy engine does at a sign-in, user by user and application   *)
(* by application: the reference the audits are held against.               *)

Meant(who, u) ==
  \/ Everyone \in who.includeUsers \/ u \in who.includeUsers
  \/ who.includeGuests /\ u \in GuestUsers
  \/ \E g \in who.includeGroups : u \in member[g]
  \/ \E r \in who.includeRoles : u \in holder[r]
Spared(who, u) ==
  \/ u \in who.excludeUsers
  \/ \E g \in who.excludeGroups : u \in member[g]
  \/ \E r \in who.excludeRoles : u \in holder[r]
Concerns(p, u) ==
  policies[p].users = None \/ (Meant(policies[p].users, u) /\ ~Spared(policies[p].users, u))

Opens(p, app) ==
  /\ policies[p].apps # None
  /\ Everyone \in policies[p].apps.include \/ app \in policies[p].apps.include
  /\ app \notin policies[p].apps.exclude
Reaches(p, segment) ==
  CASE segment = "legacy_auth" -> IncludesLegacy(p)
    [] segment = "all_apps"    -> \A app \in Apps : Opens(p, app)
    [] OTHER                   -> \E app \in SegmentApps[segment] : Opens(p, app)

Demands(p) == IsEnabled(p) /\ Grants(p) \cap (Controls \ {"passwordChange"}) # {}

Held(p, users, apps) ==
  Demands(p) /\ Reaches(p, apps) /\ \E u \in SegmentMembers(users) : Concerns(p, u)

Controlled(users, apps) == CellLevel(users, apps) >= Levels.device

-----------------------------------------------------------------------------
(* A cell counts as controlled exactly when it has a member whose sign-in   *)
(* to one of its applications some enabled policy really holds to a         *)
(* control; but for policies for guests, which the matrix takes to concern  *)
(* anybody.                                                                 *)
ForGuests(p, apps) ==
  Demands(p) /\ Reaches(p, apps) /\ policies[p].users # None /\ policies[p].users.includeGuests

CoverageAgrees ==
  \A users \in UserSegments, apps \in AppSegments :
    /\ (\E p \in Present : Held(p, users, apps)) => Controlled(users, apps)
    /\ Controlled(users, apps) => \E p \in Present : Held(p, users, apps) \/ ForGuests(p, apps)

(* A privileged user excluded from a policy that enforces MFA, and whom no  *)
(* other such policy for all users concerns, has a CRITICAL finding, unless *)
(* one of these excludes him through a group or a role only.                *)
BypassReported ==
  \A p \in Present, u \in HoldersOf(PrivilegedRoles) :
    /\ EnforcesMfa(p) /\ policies[p].users # None /\ Spared(policies[p].users, u)
    /\ \A q \in Present \ {p} :
         EnforcesMfa(q) /\ TargetsAllUsers(q) =>
           ~Concerns(q, u) /\ u \in policies[q].users.excludeUsers
    => About("admin-mfa-bypass", {u, p}, "CRITICAL") \in CategoryFindings("exclusions")

(* A step that only strengthens the policies: a new one, one more control   *)
(* to a policy, a report-only policy with a control enabled.                *)
Strengthens ==
  \E p \in PolicyIds :
    \/ \E t \in Templates : Create(p, t)
    \/ \E c \in Controls : AddControl(p, c)
    \/ /\ SetState(p, "enabled") /\ IsReportOnly(p)
       /\ LevelOf(Grants(p)) >= Levels.device

(* Such a step makes no cell of the matrix worse and breaks no rule.        *)
StrengtheningNeverWorsens ==
  [][Strengthens =>
       /\ \A users \in UserSegments, apps \in AppSegments :
            CellRank(users, apps)' <= CellRank(users, apps)
       /\ \A r \in TenantRules : Satisfied(r.rule) => Satisfied(r.rule)']_vars

(* Nothing is hidden by weakening a policy (excluding somebody, disabling   *)
(* or removing it): no cell looks better for it, and no rule but the one    *)
(* that asks for an exclusion is satisfied by it.                           *)
Weakens ==
  \E p \in PolicyIds : ExcludeOne(p) \/ Remove(p) \/ SetState(p, "disabled")

WeakeningNeverHides ==
  [][Weakens =>
       /\ \A users \in UserSegments, apps \in AppSegments :
            CellRank(users, apps)' >= CellRank(users, apps)
       /\ \A r \in TenantRules : Satisfied(r.rule)' /\ r.rule # "breakglass-configured"
                                   => Satisfied(r.rule)]_vars

(* Time alone settles nothing: as days pass over an unchanged tenant, the   *)
(* rules' and the exclusions' findings stay, and only the cells for service *)
(* accounts, whom silence makes, may change.                                *)
TimeSettlesNothing ==
  [][Pass =>
       /\ RuleFindings \subseteq RuleFindings'
       /\ ExclusionFindings \subseteq ExclusionFindings'
       /\ \A users \in UserSegments \ {"service_accounts"}, apps \in AppSegments :
            CellSeverity(users, apps)' = CellSeverity(users, apps)]_vars

-----------------------------------------------------------------------------
(* What the repository says and the code does not do. *)

(* _users_in_scope: "assume any guests in the candidate set are reachable". *)
(* So a segment without guests is not covered by a policy for guests.       *)
GuestPoliciesReachGuests ==
  \A users \in UserSegments, apps \in AppSegments :
    Controlled(users, apps) /\ SegmentMembers(users) \cap GuestUsers = {}
      => \E p \in Present : Held(p, users, apps)
=============================================================================
