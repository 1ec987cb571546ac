------------------------------- MODULE CaPolicies -------------------------------
(***************************************************************************)
(* The Conditional Access policies and the directory of one tenant, as an  *)
(* audit reads them, with what its administrators may do to them between   *)
(* two audits, and the predicates on a policy that every audit shares.     *)
(* Dates are day numbers.                                                  *)
(***************************************************************************)
EXTENDS Integers, FiniteSets, Functions

CONSTANTS
  PolicyIds, Users, Groups, Roles, Apps,
  Templates,          \* the policies an administrator may create
  PrivilegedRoles,    \* roles whose template id is on the list of fourteen
  BreakglassGroups,   \* groups a break-glass keyword is in the name of
  GuestGroups,        \* groups with `guest' in the name
  GuestUsers,         \* users of type guest
  Unseen,             \* users that have not signed in to begin with
  Days,               \* the days on which something may happen
  MaxEdits,           \* bound on the administrators' changes
  Everyone,           \* "All", in a list of users or of applications
  Never,              \* no sign-in recorded
  None                \* no such condition

States       == {"enabled", "reportOnly", "disabled"}
Controls     == {"mfa", "compliantDevice", "domainJoinedDevice", "block", "passwordChange"}
ClientTypes  == {"browser", "other", "exchangeActiveSync"}
RiskLevels   == {"low", "medium", "high"}
SessionKinds == {"signInFrequency", "persistentBrowser"}

(* Conditions.users, .applications and the rest of a policy.                *)
UserConditions ==
  [includeUsers : SUBSET (Users \cup {Everyone}), includeGroups : SUBSET Groups,
   includeRoles : SUBSET Roles, includeGuests : BOOLEAN,
   excludeUsers : SUBSET Users, excludeGroups : SUBSET Groups, excludeRoles : SUBSET Roles]
AppConditions ==
  [include : SUBSET (Apps \cup {Everyone}), exclude : SUBSET Apps]

Policy ==
  [state : States,
   users : UserConditions \cup {None}, apps : AppConditions \cup {None},
   clientTypes : (SUBSET ClientTypes) \cup {None}, grant : (SUBSET Controls) \cup {None},
   userRisk : SUBSET RiskLevels, signInRisk : SUBSET RiskLevels, session : SUBSET SessionKinds,
   workload : BOOLEAN,       \* a clientApplications condition
   documented : BOOLEAN,     \* a keyword such as `exclude' in the name
   modified : Days \cup {None}]

ASSUME TenantAssumption ==
  /\ PrivilegedRoles \subseteq Roles
  /\ BreakglassGroups \subseteq Groups /\ GuestGroups \subseteq Groups
  /\ GuestUsers \subseteq Users /\ Unseen \subseteq Users
  /\ Templates \subseteq Policy /\ Apps # {}
ASSUME DaysAssumption == Days \subseteq Nat /\ 0 \in Days /\ MaxEdits \in Nat
ASSUME NamesAssumption ==
  /\ None \notin UserConditions /\ None \notin AppConditions
  /\ \A S \in (SUBSET Controls) \cup SUBSET ClientTypes : S # None
  /\ None \notin Days /\ Never \notin Days
  /\ None \notin {"INFO", "LOW", "MEDIUM", "HIGH", "CRITICAL"}

(* "All" stands alone in a list of users, and no policy names every         *)
(* application there is.                                                    *)
ASSUME ListsAssumption ==
  \A t \in Templates :
    /\ t.users # None /\ Everyone \in t.users.includeUsers => t.users.includeUsers = {Everyone}
    /\ t.apps # None => Everyone \in t.apps.include \/ Apps \ t.apps.include # {}

VARIABLES
  policies,    \* the policies there are, by id
  member,      \* member[g]: the members of group g
  holder,      \* holder[r]: the members of directory role r
  blocked,     \* users whose account is disabled
  signed,      \* signed[u]: the day of the last recorded sign-in
  trusted,     \* the tenant has a trusted IP named location
  now,         \* the day
  edits

vars == <<policies, member, holder, blocked, signed, trusted, now, edits>>
directory == <<member, holder, blocked, signed, trusted>>

Present == DOMAIN policies

Init ==
  /\ policies \in UNION {[ids -> Templates] : ids \in SUBSET PolicyIds}
  /\ member = [g \in Groups |-> {}] /\ holder = [r \in Roles |-> {}]
  /\ blocked = {} /\ signed = [u \in Users |-> IF u \in Unseen THEN Never ELSE 0]
  /\ trusted = FALSE /\ now = 0 /\ edits = 0

-----------------------------------------------------------------------------
(* Administrators and users. *)

Edit == edits < MaxEdits /\ edits' = edits + 1

Put(p, new) == policies' = [policies EXCEPT ![p] = [new EXCEPT !.modified = now]]

Create(p, t) ==
  /\ Edit /\ p \in PolicyIds \ Present
  /\ policies' = [q \in Present \cup {p} |-> IF q = p THEN [t EXCEPT !.modified = now]
                                                      ELSE policies[q]]
  /\ UNCHANGED <<directory, now>>

Remove(p) ==
  /\ Edit /\ p \in Present
  /\ policies' = Restrict(policies, Present \ {p})
  /\ UNCHANGED <<directory, now>>

SetState(p, s) ==
  /\ Edit /\ p \in Present /\ policies[p].state # s
  /\ Put(p, [policies[p] EXCEPT !.state = s])
  /\ UNCHANGED <<directory, now>>

AddControl(p, c) ==
  /\ Edit /\ p \in Present
  /\ policies[p].grant # None => c \notin policies[p].grant
  /\ Put(p, [policies[p] EXCEPT !.grant = IF @ = None THEN {c} ELSE @ \cup {c}])
  /\ UNCHANGED <<directory, now>>

ExcludeAsUsers(p, users, groups, roles) ==
  /\ Edit /\ p \in Present /\ policies[p].users # None
  /\ Put(p, [policies[p] EXCEPT !.users.excludeUsers = @ \cup users \cup groups \cup roles])
  /\ UNCHANGED <<directory, now>>

Exclude(p, users, groups, roles) ==
  /\ Edit /\ p \in Present /\ policies[p].users # None
  /\ Put(p, [policies[p] EXCEPT !.users.excludeUsers = @ \cup users,
                                !.users.excludeGroups = @ \cup groups,
                                !.users.excludeRoles = @ \cup roles])
  /\ UNCHANGED <<directory, now>>

ExcludeOne(p) ==
  \/ \E u \in Users : Exclude(p, {u}, {}, {})
  \/ \E g \in Groups : Exclude(p, {}, {g}, {})
  \/ \E r \in Roles : Exclude(p, {}, {}, {r})

Join(g, u) ==
  /\ Edit /\ u \notin member[g]
  /\ member' = [member EXCEPT ![g] = @ \cup {u}]
  /\ UNCHANGED <<policies, holder, blocked, signed, trusted, now>>

Assign(r, u) ==
  /\ Edit /\ u \notin holder[r]
  /\ holder' = [holder EXCEPT ![r] = @ \cup {u}]
  /\ UNCHANGED <<policies, member, blocked, signed, trusted, now>>

Disable(u) ==
  /\ Edit /\ u \notin blocked
  /\ blocked' = blocked \cup {u}
  /\ UNCHANGED <<policies, member, holder, signed, trusted, now>>

SignIn(u) ==
  /\ Edit /\ u \notin blocked /\ signed[u] # now
  /\ signed' = [signed EXCEPT ![u] = now]
  /\ UNCHANGED <<policies, member, holder, blocked, trusted, now>>

TrustLocation ==
  /\ Edit /\ ~trusted /\ trusted' = TRUE
  /\ UNCHANGED <<policies, member, holder, blocked, signed, now>>

Pass ==
  /\ \E day \in Days : day > now /\ now' = day
  /\ UNCHANGED <<policies, directory, edits>>

Next ==
  \/ \E p \in PolicyIds :
       \/ \E t \in Templates : Create(p, t)
       \/ Remove(p)
       \/ \E s \in States : SetState(p, s)
       \/ \E c \in Controls : AddControl(p, c)
       \/ ExcludeOne(p)
  \/ \E u \in Users :
       \/ \E g \in Groups : Join(g, u)
       \/ \E r \in Roles : Assign(r, u)
       \/ Disable(u) \/ SignIn(u)
  \/ TrustLocation
  \/ Pass

Spec == Init /\ [][Next]_vars

TypeOK ==
  /\ Present \subseteq PolicyIds /\ policies \in [Present -> Policy]
  /\ member \in [Groups -> SUBSET Users] /\ holder \in [Roles -> SUBSET Users]
  /\ blocked \subseteq Users /\ signed \in [Users -> Days \cup {Never}]
  /\ trusted \in BOOLEAN /\ now \in Days /\ edits \in 0..MaxEdits

-----------------------------------------------------------------------------
(* What every audit asks of a policy. *)

IsEnabled(p) == policies[p].state = "enabled"
IsReportOnly(p) == policies[p].state = "reportOnly"
Grants(p) == IF policies[p].grant = None THEN {} ELSE policies[p].grant
HasControl(p, c) == c \in Grants(p)
EnforcesMfa(p) == IsEnabled(p) /\ HasControl(p, "mfa")

(* The list must be exactly ["All"].                                        *)
TargetsAllUsers(p) ==
  policies[p].users # None /\ policies[p].users.includeUsers = {Everyone}
TargetsRoles(p, roles) ==
  policies[p].users # None /\ policies[p].users.includeRoles \cap roles # {}
TargetsApps(p, apps) ==
  policies[p].apps # None /\ policies[p].apps.include \cap apps # {}
LegacyTypes == {"other", "exchangeActiveSync"}
IncludesLegacy(p) ==
  policies[p].clientTypes # None /\ policies[p].clientTypes \cap LegacyTypes # {}

Severities == <<"INFO", "LOW", "MEDIUM", "HIGH", "CRITICAL">>
Rank(severity) == IF severity = None THEN 0
                  ELSE CHOOSE i \in DOMAIN Severities : Severities[i] = severity
=============================================================================
