------------------------------ MODULE AuditCoverage ------------------------------
(***************************************************************************)
(* audit-coverage: the matrix of user segments and application segments,   *)
(* the strongest control over each cell, and the findings for weak cells.  *)
(* Extraction never fills role_assignments, so the members of a role are   *)
(* those of the directory role.                                            *)
(***************************************************************************)
EXTENDS CaPolicies, FiniteSetsExt

CONSTANTS
  Tier0Roles,         \* the four most privileged of the roles
  ServiceNamed,       \* users whose name looks like a service account
  SegmentApps         \* the applications of m365_core, admin_portals, high_risk_apps

ASSUME SegmentAssumption ==
  /\ Tier0Roles \subseteq PrivilegedRoles /\ ServiceNamed \subseteq Users
  /\ DOMAIN SegmentApps = {"m365_core", "admin_portals", "high_risk_apps"}

UserSegments == {"all_users", "admins_any", "guests", "service_accounts", "privileged_roles"}
AppSegments  == (DOMAIN SegmentApps) \cup {"all_apps", "legacy_auth"}

(* ProtectionLevel: higher is stronger.                                     *)
Levels == [none |-> 0, reportOnly |-> 1, device |-> 2, mfa |-> 3, mfaAndDevice |-> 4]

ServiceStaleDays == 365

IsServiceAccount(u) ==
  \/ u \in ServiceNamed
  \/ signed[u] = Never
  \/ now - signed[u] >= ServiceStaleDays

HoldersOf(roles) == UNION {holder[r] : r \in roles}
MembersOf(groups) == UNION {member[g] : g \in groups}

SegmentMembers(segment) ==
  CASE segment = "all_users"        -> Users
    [] segment = "guests"           -> GuestUsers
    [] segment = "service_accounts" -> {u \in Users : IsServiceAccount(u)}
    [] segment = "admins_any"       -> HoldersOf(PrivilegedRoles)
    [] segment = "privileged_roles" -> HoldersOf(Tier0Roles)

(* Guests that are included are taken to be all the candidates; guests that *)
(* are excluded are not looked at.                                          *)
Included(who, candidates) ==
  IF who.includeUsers = {Everyone} \/ who.includeGuests THEN candidates
  ELSE candidates \cap (who.includeUsers \cup MembersOf(who.includeGroups)
                                         \cup HoldersOf(who.includeRoles))
DirectlyExcluded(who) == who.excludeUsers
Excluded(who) ==
  who.excludeUsers \cup MembersOf(who.excludeGroups) \cup HoldersOf(who.excludeRoles)

InScopeUnlessBoth(p, candidates) ==
  LET who == policies[p].users IN
  /\ candidates # {}
  /\ \/ who = None
     \/ Included(who, candidates) \ Excluded(who) # {}
     \/ Excluded(who) \ Included(who, candidates) # {}

(* One member in scope is enough.                                           *)
UsersInScope(p, candidates) ==
  LET who == policies[p].users IN
  /\ candidates # {}
  /\ who = None \/ Included(who, candidates) \ Excluded(who) # {}

AppsInScope(p, segment) ==
  LET apps == policies[p].apps IN
  IF segment = "legacy_auth" THEN IncludesLegacy(p)
  ELSE /\ apps # None
       /\ IF segment = "all_apps"
          THEN Everyone \in apps.include /\ apps.exclude = {}
          ELSE LET target == SegmentApps[segment] IN
               (IF Everyone \in apps.include THEN target ELSE apps.include \cap target)
                 \ apps.exclude # {}

(* Of what is granted, "block" counts as MFA.                               *)
LevelOf(controls) ==
  LET strong == controls \cap {"block", "mfa"} # {}
      device == controls \cap {"compliantDevice", "domainJoinedDevice"} # {}
  IN IF strong /\ device THEN Levels.mfaAndDevice
     ELSE IF strong THEN Levels.mfa
     ELSE IF device THEN Levels.device ELSE Levels.none

PolicyLevel(p) ==
  CASE IsReportOnly(p) -> Levels.reportOnly
    [] IsEnabled(p)    -> LevelOf(Grants(p))
    [] OTHER           -> Levels.none

Applicable(users, apps) ==
  {p \in Present : /\ policies[p].state # "disabled"
                   /\ UsersInScope(p, SegmentMembers(users))
                   /\ AppsInScope(p, apps)}

WeakestLevel(users, apps) ==
  LET found == Applicable(users, apps) IN
  IF found = {} THEN Levels.none ELSE Min({PolicyLevel(p) : p \in found})
CellLevel(users, apps) ==
  Max({Levels.none} \cup {PolicyLevel(p) : p \in Applicable(users, apps)})

-----------------------------------------------------------------------------
(* findings_from_coverage *)

(* How bad a cell is with no control at all ...                             *)
Unprotected(users, apps) ==
  CASE users = "privileged_roles" -> "CRITICAL"
    [] users = "admins_any" -> IF apps \in {"m365_core", "admin_portals"} THEN "CRITICAL" ELSE "HIGH"
    [] users = "all_users"  -> IF apps \in {"m365_core", "legacy_auth"} THEN "HIGH" ELSE "MEDIUM"
    [] users = "guests"     -> IF apps \in DOMAIN SegmentApps THEN "HIGH" ELSE "MEDIUM"
    [] OTHER                -> "MEDIUM"

(* ... and, one rank less, with policies that only report.                  *)
Softened(severity) == Severities[Rank(severity) - 1]

CellSeverity(users, apps) ==
  LET level == CellLevel(users, apps) IN
  IF \/ level >= Levels.device
     \/ SegmentMembers(users) = {} /\ users # "all_users"
  THEN None
  ELSE IF level = Levels.reportOnly THEN Softened(Unprotected(users, apps))
  ELSE Unprotected(users, apps)

CellRank(users, apps) == Rank(CellSeverity(users, apps))

(* The id of a finding is its rule and the objects affected: not the level. *)
CellFinding(users, apps) ==
  [rule |-> <<"coverage", users, apps>>,
   affected |-> Applicable(users, apps),       \* empty stands for the tenant
   severity |-> CellSeverity(users, apps)]

CoverageFindings ==
  {f \in {CellFinding(u, a) : u \in UserSegments, a \in AppSegments} : f.severity # None}
=============================================================================
