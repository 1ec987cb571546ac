------------------------------- MODULE AuditRules -------------------------------
(***************************************************************************)
(* audit-rules: the fifteen rules. Thirteen say that some policy or        *)
(* location satisfies them, or report the tenant once; two report each     *)
(* policy that has lain untouched.                                         *)
(***************************************************************************)
EXTENDS CaPolicies

CONSTANT SensitiveApps
ASSUME SensitiveAssumption == SensitiveApps \subseteq Apps

StaleDays == 180

(* What each rule looks for in an enabled policy. *)
BlocksLegacyAuth(p)    == IncludesLegacy(p) /\ HasControl(p, "block")
MfaForAllUsers(p)      == TargetsAllUsers(p) /\ HasControl(p, "mfa")
MfaForAdmins(p)        == TargetsRoles(p, PrivilegedRoles) /\ HasControl(p, "mfa")
RiskBasedSignIn(p)     == policies[p].signInRisk \cap {"medium", "high"} # {}
RiskBasedUser(p)       == "high" \in policies[p].userRisk
DeviceForAdmins(p)     == /\ TargetsRoles(p, PrivilegedRoles)
                          /\ HasControl(p, "compliantDevice") \/ HasControl(p, "domainJoinedDevice")
DeviceForSensitive(p)  == TargetsApps(p, SensitiveApps) /\ HasControl(p, "compliantDevice")
SetsFrequency(p)       == "signInFrequency" \in policies[p].session
SetsPersistence(p)     == "persistentBrowser" \in policies[p].session
RestrictsGuests(p)     == /\ policies[p].users # None
                          /\ \/ policies[p].users.includeGuests
                             \/ policies[p].users.includeGroups \cap GuestGroups # {}
ScopesWorkloads(p)     == policies[p].workload

(* Any policy that excludes a break-glass group, in whatever state it is;   *)
(* or any that excludes a user, once a break-glass group exists.            *)
SparesBreakglass(p) ==
  /\ policies[p].users # None
  /\ \/ policies[p].users.excludeGroups \cap BreakglassGroups # {}
     \/ policies[p].users.excludeUsers # {} /\ BreakglassGroups # {}

Some(Holds(_)) == \E p \in Present : IsEnabled(p) /\ Holds(p)

TenantRules ==
  [rule : {"block-legacy-auth", "mfa-all-users", "risk-based-signin", "risk-based-user",
           "breakglass-configured"}, severity : {"HIGH"}]
  \cup [rule : {"mfa-admins"}, severity : {"CRITICAL"}]
  \cup [rule : {"compliant-device-admin-actions", "device-compliance-sensitive-apps",
                "guest-restrictions", "workload-identity-policies"}, severity : {"MEDIUM"}]
  \cup [rule : {"trusted-locations-defined", "signin-frequency-unmanaged",
                "persistent-browser-unmanaged"}, severity : {"LOW"}]

Satisfied(rule) ==
  CASE rule = "block-legacy-auth"                -> Some(BlocksLegacyAuth)
    [] rule = "mfa-all-users"                    -> Some(MfaForAllUsers)
    [] rule = "mfa-admins"                       -> Some(MfaForAdmins)
    [] rule = "risk-based-signin"                -> Some(RiskBasedSignIn)
    [] rule = "risk-based-user"                  -> Some(RiskBasedUser)
    [] rule = "compliant-device-admin-actions"   -> Some(DeviceForAdmins)
    [] rule = "device-compliance-sensitive-apps" -> Some(DeviceForSensitive)
    [] rule = "signin-frequency-unmanaged"       -> Some(SetsFrequency)
    [] rule = "persistent-browser-unmanaged"     -> Some(SetsPersistence)
    [] rule = "guest-restrictions"               -> Some(RestrictsGuests)
    [] rule = "workload-identity-policies"       -> Some(ScopesWorkloads)
    [] rule = "trusted-locations-defined"        -> trusted
    [] rule = "breakglass-configured"            -> \E p \in Present : SparesBreakglass(p)

Fresh(p) == policies[p].modified = None \/ policies[p].modified > now - StaleDays

(* Untouched for longer than the threshold, or never dated.                 *)
Dormant(p) == policies[p].modified = None \/ policies[p].modified < now - StaleDays

DisabledOld == {p \in Present : policies[p].state = "disabled" /\ Dormant(p)}
NeverGraduated == {p \in Present : IsReportOnly(p) /\ Dormant(p)}

(* No rule throws on a context that could be read, so run_all_rules skips   *)
(* none.                                                                    *)
RuleFindings ==
  {[rule |-> <<"rule", r.rule>>, affected |-> {}, severity |-> r.severity] :
     r \in {r \in TenantRules : ~Satisfied(r.rule)}}
  \cup {[rule |-> <<"rule", "disabled-policies-old">>, affected |-> {p}, severity |-> "INFO"] :
          p \in DisabledOld}
  \cup {[rule |-> <<"rule", "report-only-graduated">>, affected |-> {p}, severity |-> "LOW"] :
          p \in NeverGraduated}
=============================================================================
