--------------------------- MODULE TenantAudit_proofs ---------------------------
(***************************************************************************)
(* What holds of an audit for every tenant, whatever its policies, groups  *)
(* and roles. The state needs no more than its types (TypeOK, and that the *)
(* lists of a policy are as Graph has them, ListsInv). What a step does to a *)
(* policy is compared field by field: one that strengthens the tenant leaves *)
(* no policy weaker than it was (NoStronger, Outdoes), one that weakens it *)
(* none stronger, and cells and rules follow their policies.               *)
(***************************************************************************)
EXTENDS TenantAudit, TLAPS

-----------------------------------------------------------------------------
(* Types, and what administrators leave as it was. *)

WithExclusions(r, users, groups, roles) ==
  [r EXCEPT !.users.excludeUsers = @ \cup users,
            !.users.excludeGroups = @ \cup groups,
            !.users.excludeRoles = @ \cup roles]

(* Between two policies, what an exclusion changes.                         *)
OnlyExcludes(r, new, users, groups, roles) ==
  /\ new.users # None
  /\ new.users.excludeUsers = r.users.excludeUsers \cup users
  /\ new.users.excludeGroups = r.users.excludeGroups \cup groups
  /\ new.users.excludeRoles = r.users.excludeRoles \cup roles
  /\ \A field \in {"includeUsers", "includeGroups", "includeRoles", "includeGuests"} :
       new.users[field] = r.users[field]
  /\ \A field \in (DOMAIN r) \ {"users"} : new[field] = r[field]

LEMMA ExcludingType ==
  ASSUME NEW r \in Policy, r.users # None,
         NEW users \in SUBSET Users, NEW groups \in SUBSET Groups, NEW roles \in SUBSET Roles,
         NEW new, new = WithExclusions(r, users, groups, roles)
  PROVE  new \in Policy /\ OnlyExcludes(r, new, users, groups, roles)
<1> DEFINE w == [r.users EXCEPT !.excludeUsers = @ \cup users,
                                !.excludeGroups = @ \cup groups,
                                !.excludeRoles = @ \cup roles]
<1>1. r.users \in UserConditions
  BY DEF Policy
<1>2. /\ w \in UserConditions
      /\ w.excludeUsers = r.users.excludeUsers \cup users
      /\ w.excludeGroups = r.users.excludeGroups \cup groups
      /\ w.excludeRoles = r.users.excludeRoles \cup roles
      /\ \A field \in {"includeUsers", "includeGroups", "includeRoles", "includeGuests"} :
           w[field] = r.users[field]
  BY <1>1 DEF UserConditions
<1>3. WithExclusions(r, users, groups, roles) = [r EXCEPT !.users = w]
  BY <1>1 DEF WithExclusions, Policy, UserConditions
<1> HIDE DEF w
<1>4. w # None
  BY <1>2, NamesAssumption
<1>5. [r EXCEPT !.users = w] \in Policy
  BY <1>2 DEF Policy
<1>6. [r EXCEPT !.users = w].users = w
      /\ \A field \in (DOMAIN r) \ {"users"} : [r EXCEPT !.users = w][field] = r[field]
  BY DEF Policy
<1>7. QED
  BY <1>2, <1>3, <1>4, <1>5, <1>6 DEF OnlyExcludes

ListsOf(r) ==
  /\ r.users # None /\ Everyone \in r.users.includeUsers => r.users.includeUsers = {Everyone}
  /\ r.apps # None => Everyone \in r.apps.include \/ Apps \ r.apps.include # {}

ListsInv == \A p \in Present : ListsOf(policies[p])

TypeInv == TypeOK /\ ListsInv

LEMMA TypeInit == Init => TypeInv
<1> SUFFICES ASSUME Init PROVE TypeInv
  OBVIOUS
<1>1. PICK ids \in SUBSET PolicyIds : policies \in [ids -> Templates]
  BY DEF Init
<1>2. Present = ids /\ policies \in [Present -> Policy]
  BY <1>1, TenantAssumption DEF Present
<1>3. ListsInv
  BY <1>1, <1>2, ListsAssumption DEF ListsInv, ListsOf
<1>4. /\ member \in [Groups -> SUBSET Users] /\ holder \in [Roles -> SUBSET Users]
      /\ blocked \subseteq Users /\ signed \in [Users -> Days \cup {Never}]
      /\ trusted \in BOOLEAN /\ now \in Days /\ edits \in 0..MaxEdits
  <2>1. edits \in 0..MaxEdits /\ now \in Days
    BY DaysAssumption DEF Init
  <2>2. signed \in [Users -> Days \cup {Never}]
    BY DaysAssumption DEF Init
  <2>3. QED
    BY <2>1, <2>2 DEF Init
<1>5. QED
  BY <1>1, <1>2, <1>3, <1>4 DEF TypeInv, TypeOK

LEMMA EditType ==
  ASSUME TypeOK, Edit
  PROVE  edits' \in 0..MaxEdits
BY DaysAssumption DEF TypeOK, Edit

(* The policy a step puts in another's place, dated today.                  *)
LEMMA PutPolicy ==
  ASSUME TypeInv, NEW p \in Present, NEW new \in Policy, Put(p, new)
  PROVE  /\ Present' = Present /\ policies' \in [Present -> Policy]
         /\ policies'[p] = [new EXCEPT !.modified = now]
         /\ \A field \in (DOMAIN new) \ {"modified"} : policies'[p][field] = new[field]
         /\ \A q \in Present \ {p} : policies'[q] = policies[q]
<1>1. [new EXCEPT !.modified = now] \in Policy
  BY DEF TypeInv, TypeOK, Policy
<1>2. \A field \in (DOMAIN new) \ {"modified"} :
        [new EXCEPT !.modified = now][field] = new[field]
  BY DEF Policy
<1>3. policies \in [Present -> Policy]
  BY DEF TypeInv, TypeOK
<1>4. policies' = [policies EXCEPT ![p] = [new EXCEPT !.modified = now]]
  BY DEF Put
<1> DEFINE dated == [new EXCEPT !.modified = now]
<1> HIDE DEF dated
<1>5. policies' = [policies EXCEPT ![p] = dated] /\ dated \in Policy
  BY <1>1, <1>4 DEF dated
<1>6. Present' = Present /\ policies' \in [Present -> Policy] /\ policies'[p] = dated
      /\ \A q \in Present \ {p} : policies'[q] = policies[q]
  BY <1>3, <1>5 DEF Present
<1>7. QED
  BY <1>2, <1>6 DEF dated

LEMMA PutStep ==
  ASSUME TypeInv, NEW p \in Present, NEW new \in Policy, ListsOf(new), Put(p, new),
         Edit, UNCHANGED <<directory, now>>
  PROVE  TypeInv'
<1>1. /\ Present' = Present /\ policies' \in [Present -> Policy]
      /\ \A field \in (DOMAIN new) \ {"modified"} : policies'[p][field] = new[field]
      /\ \A q \in Present \ {p} : policies'[q] = policies[q]
  BY PutPolicy
<1>2. policies'[p].users = new.users /\ policies'[p].apps = new.apps
  BY <1>1 DEF Policy
<1>3. ListsOf(policies'[p])
  BY <1>2 DEF ListsOf
<1>4. ListsInv'
  BY <1>1, <1>3 DEF TypeInv, ListsInv
<1>5. QED
  BY <1>1, <1>4, EditType DEF TypeInv, TypeOK, directory

LEMMA TypeStep == TypeInv /\ [Next]_vars => TypeInv'
<1> SUFFICES ASSUME TypeInv, [Next]_vars PROVE TypeInv'
  OBVIOUS
<1> USE DEF TypeInv
<1>0. CASE UNCHANGED vars
  BY <1>0 DEF vars, TypeOK, ListsInv, Present, ListsOf
<1>1. ASSUME NEW p \in PolicyIds, NEW t \in Templates, Create(p, t) PROVE TypeInv'
  <2> DEFINE new == [t EXCEPT !.modified = now]
  <2>1. t \in Policy /\ now \in Days /\ ListsOf(t)
    BY TenantAssumption, ListsAssumption DEF TypeOK, ListsOf
  <2>2. new \in Policy /\ new.users = t.users /\ new.apps = t.apps
    BY <2>1 DEF Policy
  <2>3. ListsOf(new)
    BY <2>1, <2>2 DEF ListsOf
  <2> HIDE DEF new
  <2>4. policies' = [q \in Present \cup {p} |-> IF q = p THEN new ELSE policies[q]]
    BY <1>1 DEF Create, new
  <2>5. Present' = Present \cup {p} /\ policies' \in [Present' -> Policy]
    BY <2>2, <2>4 DEF Present, TypeOK
  <2>6. ListsInv'
    BY <2>3, <2>4, <2>5 DEF ListsInv
  <2>7. QED
    BY <1>1, <2>5, <2>6, EditType DEF Create, TypeOK, directory
<1>2. ASSUME NEW p \in PolicyIds, Remove(p) PROVE TypeInv'
  <2>1. Present' = Present \ {p} /\ \A q \in Present' : policies'[q] = policies[q]
    BY <1>2 DEF Remove, Restrict, Present, TypeOK
  <2>2. policies' \in [Present' -> Policy]
    BY <1>2 DEF Remove, Restrict, Present, TypeOK
  <2>3. ListsInv'
    BY <2>1 DEF ListsInv
  <2>4. Present' \subseteq PolicyIds /\ edits' \in 0..MaxEdits
    BY <1>2, <2>1, EditType DEF Remove, TypeOK
  <2>5. UNCHANGED <<member, holder, blocked, signed, trusted, now>>
    BY <1>2 DEF Remove, directory
  <2>6. QED
    BY <2>2, <2>3, <2>4, <2>5 DEF TypeOK
<1>3. ASSUME NEW p \in PolicyIds, NEW s \in States, SetState(p, s) PROVE TypeInv'
  <2> DEFINE new == [policies[p] EXCEPT !.state = s]
  <2>1. p \in Present /\ policies[p] \in Policy /\ ListsOf(policies[p])
    BY <1>3 DEF SetState, TypeOK, ListsInv
  <2>2. new \in Policy /\ new.users = policies[p].users /\ new.apps = policies[p].apps
    BY <2>1 DEF Policy
  <2>3. ListsOf(new)
    BY <2>1, <2>2 DEF ListsOf
  <2> HIDE DEF new
  <2>4. Put(p, new) /\ Edit /\ UNCHANGED <<directory, now>>
    BY <1>3 DEF SetState, new
  <2>5. QED
    BY <2>1, <2>2, <2>3, <2>4, PutStep
<1>4. ASSUME NEW p \in PolicyIds, NEW c \in Controls, AddControl(p, c) PROVE TypeInv'
  <2> DEFINE new == [policies[p] EXCEPT !.grant = IF @ = None THEN {c} ELSE @ \cup {c}]
  <2>1. p \in Present /\ policies[p] \in Policy /\ ListsOf(policies[p])
    BY <1>4 DEF AddControl, TypeOK, ListsInv
  <2>2. new \in Policy /\ new.users = policies[p].users /\ new.apps = policies[p].apps
    BY <2>1 DEF Policy
  <2>3. ListsOf(new)
    BY <2>1, <2>2 DEF ListsOf
  <2> HIDE DEF new
  <2>4. Put(p, new) /\ Edit /\ UNCHANGED <<directory, now>>
    BY <1>4 DEF AddControl, new
  <2>5. QED
    BY <2>1, <2>2, <2>3, <2>4, PutStep
<1>5. ASSUME NEW p \in PolicyIds, NEW users \in SUBSET Users, NEW groups \in SUBSET Groups,
             NEW roles \in SUBSET Roles, Exclude(p, users, groups, roles)
      PROVE  TypeInv'
  <2> DEFINE new == WithExclusions(policies[p], users, groups, roles)
  <2>1. /\ p \in Present /\ policies[p] \in Policy /\ ListsOf(policies[p])
        /\ policies[p].users # None
    BY <1>5 DEF Exclude, TypeOK, ListsInv
  <2>2. new \in Policy /\ OnlyExcludes(policies[p], new, users, groups, roles)
    BY <2>1, ExcludingType
  <2>3. /\ new.users.includeUsers = policies[p].users.includeUsers
        /\ new.apps = policies[p].apps
    BY <2>1, <2>2 DEF OnlyExcludes, Policy
  <2>4. ListsOf(new)
    BY <2>1, <2>2, <2>3 DEF ListsOf
  <2>5. Put(p, new) /\ Edit /\ UNCHANGED <<directory, now>>
    BY <1>5 DEF Exclude, WithExclusions
  <2> HIDE DEF new
  <2>6. QED
    BY <2>1, <2>2, <2>4, <2>5, PutStep
<1>6. ASSUME NEW p \in PolicyIds, ExcludeOne(p) PROVE TypeInv'
  <2>1. CASE \E u \in Users : Exclude(p, {u}, {}, {})
    BY <1>5, <2>1
  <2>2. CASE \E g \in Groups : Exclude(p, {}, {g}, {})
    BY <1>5, <2>2
  <2>3. CASE \E r \in Roles : Exclude(p, {}, {}, {r})
    BY <1>5, <2>3
  <2>4. QED
    BY <1>6, <2>1, <2>2, <2>3 DEF ExcludeOne
<1>7. ASSUME NEW u \in Users, \/ \E g \in Groups : Join(g, u)
                              \/ \E r \in Roles : Assign(r, u)
                              \/ Disable(u) \/ SignIn(u)
      PROVE  TypeInv'
  <2>1. UNCHANGED <<policies, trusted, now>> /\ Edit
    BY <1>7 DEF Join, Assign, Disable, SignIn
  <2>2. /\ member' \in [Groups -> SUBSET Users] /\ holder' \in [Roles -> SUBSET Users]
        /\ blocked' \subseteq Users /\ signed' \in [Users -> Days \cup {Never}]
    BY <1>7 DEF Join, Assign, Disable, SignIn, TypeOK
  <2>3. QED
    BY <2>1, <2>2, EditType DEF TypeOK, ListsInv, Present, ListsOf
<1>8. CASE TrustLocation
  BY <1>8, EditType DEF TrustLocation, TypeOK, ListsInv, Present, ListsOf
<1>9. CASE Pass
  BY <1>9 DEF Pass, directory, TypeOK, ListsInv, Present, ListsOf
<1>10. QED
  BY <1>0, <1>1, <1>2, <1>3, <1>4, <1>6, <1>7, <1>8, <1>9 DEF Next

LEMMA TypeAlways == Spec => []TypeInv
BY TypeInit, TypeStep, PTL DEF Spec

(* Type correctness.                                                        *)
THEOREM TypeCorrect == Spec => []TypeOK
<1>1. TypeInv => TypeOK
  BY DEF TypeInv
<1>2. QED
  BY TypeAlways, <1>1, PTL

-----------------------------------------------------------------------------
(* Levels of protection. *)

LEMMA PolicyIn ==
  ASSUME TypeInv, NEW p \in Present
  PROVE  policies[p] \in Policy /\ ListsOf(policies[p])
BY DEF TypeInv, TypeOK, ListsInv

LEMMA LevelIs ==
  ASSUME NEW c
  PROVE  /\ LevelOf(c) \in 0..4
         /\ LevelOf(c) >= 2 <=> c \cap (Controls \ {"passwordChange"}) # {}
<1> DEFINE strong == c \cap {"block", "mfa"} # {}
           device == c \cap {"compliantDevice", "domainJoinedDevice"} # {}
<1>1. LevelOf(c) = IF strong /\ device THEN 4 ELSE IF strong THEN 3 ELSE IF device THEN 2 ELSE 0
  BY DEF LevelOf, Levels
<1>2. strong \/ device <=> c \cap (Controls \ {"passwordChange"}) # {}
  BY DEF Controls
<1> HIDE DEF strong, device
<1>3. QED
  BY <1>1, <1>2

LEMMA LevelGrows ==
  ASSUME NEW c, NEW d, c \subseteq d
  PROVE  LevelOf(c) <= LevelOf(d)
<1> DEFINE strong(x) == x \cap {"block", "mfa"} # {}
           device(x) == x \cap {"compliantDevice", "domainJoinedDevice"} # {}
<1>1. \A x : LevelOf(x) = IF strong(x) /\ device(x) THEN 4 ELSE IF strong(x) THEN 3
                          ELSE IF device(x) THEN 2 ELSE 0
  BY DEF LevelOf, Levels
<1>2. (strong(c) => strong(d)) /\ (device(c) => device(d))
  OBVIOUS
<1> HIDE DEF strong, device
<1>3. /\ LevelOf(c) = IF strong(c) /\ device(c) THEN 4 ELSE IF strong(c) THEN 3
                      ELSE IF device(c) THEN 2 ELSE 0
      /\ LevelOf(d) = IF strong(d) /\ device(d) THEN 4 ELSE IF strong(d) THEN 3
                      ELSE IF device(d) THEN 2 ELSE 0
  BY <1>1
<1>4. QED
  BY <1>2, <1>3

LEMMA GreatestLevel ==
  ASSUME NEW S \in SUBSET (0..4), 0 \in S
  PROVE  Max(S) \in S /\ \A x \in S : x <= Max(S)
<1>1. \E m \in S : \A x \in S : x <= m
  <2>1. CASE 4 \in S
    BY <2>1
  <2>2. CASE 4 \notin S /\ 3 \in S
    BY <2>2
  <2>3. CASE 4 \notin S /\ 3 \notin S /\ 2 \in S
    BY <2>3
  <2>4. CASE 4 \notin S /\ 3 \notin S /\ 2 \notin S /\ 1 \in S
    BY <2>4
  <2>5. CASE 4 \notin S /\ 3 \notin S /\ 2 \notin S /\ 1 \notin S
    BY <2>5
  <2>6. QED
    BY <2>1, <2>2, <2>3, <2>4, <2>5
<1>2. \E m \in S : \A x \in S : m >= x
  BY <1>1
<1>3. QED
  BY <1>2 DEF Max

(* The level of a policy's record, of which that of the policy is a case.   *)
Granted(r) == IF r.grant = None THEN {} ELSE r.grant
RecordLevel(r) ==
  CASE r.state = "reportOnly" -> 1
    [] r.state = "enabled"    -> LevelOf(Granted(r))
    [] OTHER                  -> 0

LEMMA PolicyLevelIs ==
  ASSUME NEW p
  PROVE  PolicyLevel(p) = RecordLevel(policies[p]) /\ RecordLevel(policies[p]) \in 0..4
<1>1. PolicyLevel(p) = RecordLevel(policies[p])
  BY DEF PolicyLevel, RecordLevel, IsReportOnly, IsEnabled, Grants, Granted, Levels
<1>2. QED
  BY <1>1, LevelIs DEF RecordLevel

LEMMA CellLevelIs ==
  ASSUME NEW users, NEW apps
  PROVE  /\ CellLevel(users, apps) \in 0..4
         /\ \A p \in Applicable(users, apps) : RecordLevel(policies[p]) <= CellLevel(users, apps)
         /\ \/ CellLevel(users, apps) = 0
            \/ \E p \in Applicable(users, apps) :
                 CellLevel(users, apps) = RecordLevel(policies[p])
<1> DEFINE S == {0} \cup {PolicyLevel(p) : p \in Applicable(users, apps)}
<1>1. S \in SUBSET (0..4) /\ 0 \in S
  BY PolicyLevelIs
<1>2. CellLevel(users, apps) = Max(S)
  BY DEF CellLevel, Levels
<1>3. Max(S) \in S /\ \A x \in S : x <= Max(S)
  BY <1>1, GreatestLevel
<1>4. QED
  BY <1>1, <1>2, <1>3, PolicyLevelIs

LEMMA DemandsIs ==
  ASSUME NEW p
  PROVE  RecordLevel(policies[p]) >= 2 <=> Demands(p)
<1>1. Grants(p) = Granted(policies[p])
  BY DEF Grants, Granted
<1>2. CASE policies[p].state = "enabled"
  BY <1>1, <1>2, LevelIs DEF RecordLevel, Demands, IsEnabled
<1>3. CASE policies[p].state # "enabled"
  BY <1>3 DEF RecordLevel, Demands, IsEnabled
<1>4. QED
  BY <1>2, <1>3

-----------------------------------------------------------------------------
(* Who and what a policy concerns, to the matrix and to the policy engine.  *)

LEMMA ReachesIs ==
  ASSUME TypeInv, NEW p \in Present, NEW apps \in AppSegments
  PROVE  AppsInScope(p, apps) <=> Reaches(p, apps)
<1>1. /\ policies[p].apps # None => policies[p].apps \in AppConditions
      /\ ListsOf(policies[p])
  BY PolicyIn DEF Policy
<1>2. CASE apps = "legacy_auth"
  BY <1>2 DEF AppsInScope, Reaches
<1>3. CASE apps = "all_apps"
  <2>1. CASE policies[p].apps = None
    <3>1. ~AppsInScope(p, apps)
      BY <1>3, <2>1 DEF AppsInScope
    <3>2. Reaches(p, apps) => Apps = {}
      BY <1>3, <2>1 DEF Reaches, Opens
    <3>3. QED
      BY <3>1, <3>2, TenantAssumption
  <2>2. CASE policies[p].apps # None
    <3>1. policies[p].apps.exclude \subseteq Apps
      BY <1>1, <2>2 DEF AppConditions
    <3>2. Everyone \in policies[p].apps.include \/ Apps \ policies[p].apps.include # {}
      BY <1>1, <2>2 DEF ListsOf
    <3>3. AppsInScope(p, apps)
            <=> Everyone \in policies[p].apps.include /\ policies[p].apps.exclude = {}
      BY <1>3, <2>2 DEF AppsInScope
    <3>4. Reaches(p, apps) <=> \A app \in Apps : Opens(p, app)
      BY <1>3 DEF Reaches
    <3>5. QED
      BY <2>2, <3>1, <3>2, <3>3, <3>4 DEF Opens
  <2>3. QED
    BY <2>1, <2>2
<1>4. CASE apps \notin {"legacy_auth", "all_apps"}
  <2>1. Reaches(p, apps) <=> \E app \in SegmentApps[apps] : Opens(p, app)
    BY <1>4 DEF Reaches
  <2>2. CASE policies[p].apps = None
    BY <1>4, <2>1, <2>2 DEF AppsInScope, Opens
  <2>3. CASE policies[p].apps # None /\ Everyone \in policies[p].apps.include
    BY <1>4, <2>1, <2>3 DEF AppsInScope, Opens
  <2>4. CASE policies[p].apps # None /\ Everyone \notin policies[p].apps.include
    BY <1>4, <2>1, <2>4 DEF AppsInScope, Opens
  <2>5. QED
    BY <2>2, <2>3, <2>4
<1>5. QED
  BY <1>2, <1>3, <1>4

LEMMA ScopeIs ==
  ASSUME TypeInv, NEW p \in Present, NEW candidates
  PROVE  /\ (\E u \in candidates : Concerns(p, u)) => UsersInScope(p, candidates)
         /\ UsersInScope(p, candidates) =>
              \/ \E u \in candidates : Concerns(p, u)
              \/ policies[p].users # None /\ policies[p].users.includeGuests
<1> DEFINE who == policies[p].users
<1>1. CASE who = None
  BY <1>1 DEF UsersInScope, Concerns
<1>2. CASE who # None
  <2>1. who \in UserConditions /\ ListsOf(policies[p])
    BY <1>2, PolicyIn DEF Policy
  <2>2. Everyone \in who.includeUsers => who.includeUsers = {Everyone}
    BY <1>2, <2>1 DEF ListsOf
  <2>3. \A u : Concerns(p, u) <=> Meant(who, u) /\ ~Spared(who, u)
    BY <1>2 DEF Concerns
  <2>4. UsersInScope(p, candidates) <=> Included(who, candidates) \ Excluded(who) # {}
    BY <1>2 DEF UsersInScope, Included
  <2>5. \A u : u \in Excluded(who) <=> Spared(who, u)
    BY DEF Excluded, Spared, MembersOf, HoldersOf
  <2>6. \A u \in candidates : Meant(who, u) => u \in Included(who, candidates)
    BY <2>2 DEF Meant, Included, MembersOf, HoldersOf
  <2>7. ~who.includeGuests =>
          \A u \in Included(who, candidates) : u \in candidates /\ Meant(who, u)
    BY DEF Meant, Included, MembersOf, HoldersOf
  <2>8. QED
    BY <1>2, <2>3, <2>4, <2>5, <2>6, <2>7
<1>3. QED
  BY <1>1, <1>2

(* A cell counts as controlled exactly when it has a member whose sign-in   *)
(* to one of its applications some enabled policy really holds to a         *)
(* control; but for policies for guests.                                    *)
THEOREM MatrixAgrees == Spec => []CoverageAgrees
<1>1. TypeInv => CoverageAgrees
  <2> SUFFICES ASSUME TypeInv, NEW users \in UserSegments, NEW apps \in AppSegments
               PROVE  /\ (\E p \in Present : Held(p, users, apps)) => Controlled(users, apps)
                      /\ Controlled(users, apps) =>
                           \E p \in Present : Held(p, users, apps) \/ ForGuests(p, apps)
    BY DEF CoverageAgrees
  <2>1. Controlled(users, apps) <=> CellLevel(users, apps) >= 2
    BY DEF Controlled, Levels
  <2>2. ASSUME NEW p \in Present, Held(p, users, apps) PROVE Controlled(users, apps)
    <3>1. RecordLevel(policies[p]) >= 2
      BY <2>2, DemandsIs DEF Held
    <3>2. p \in Applicable(users, apps)
      <4>1. UsersInScope(p, SegmentMembers(users)) /\ AppsInScope(p, apps)
        BY <2>2, ScopeIs, ReachesIs DEF Held
      <4>2. QED
        BY <2>2, <4>1 DEF Applicable, Held, Demands, IsEnabled
    <3>3. QED
      BY <2>1, <3>1, <3>2, CellLevelIs, PolicyLevelIs
  <2>3. ASSUME Controlled(users, apps)
        PROVE  \E p \in Present : Held(p, users, apps) \/ ForGuests(p, apps)
    <3>1. PICK p \in Applicable(users, apps) : RecordLevel(policies[p]) >= 2
      BY <2>1, <2>3, CellLevelIs
    <3>2. /\ p \in Present /\ Demands(p) /\ AppsInScope(p, apps)
          /\ UsersInScope(p, SegmentMembers(users))
      BY <3>1, DemandsIs DEF Applicable
    <3>3. Reaches(p, apps)
      BY <3>2, ReachesIs
    <3>4. \/ \E u \in SegmentMembers(users) : Concerns(p, u)
          \/ policies[p].users # None /\ policies[p].users.includeGuests
      BY <3>2, ScopeIs
    <3>5. QED
      BY <3>2, <3>3, <3>4 DEF Held, ForGuests
  <2>4. QED
    BY <2>2, <2>3
<1>2. QED
  BY TypeAlways, <1>1, PTL

-----------------------------------------------------------------------------
(* Exclusions. *)

Directly(p) == {[user |-> u, via |-> <<"direct">>] : u \in policies[p].users.excludeUsers}
ByGroup(p) == UNION {{[user |-> u, via |-> <<"group", g>>] : u \in member[g]} :
                     g \in policies[p].users.excludeGroups}
ByRole(p) == UNION {{[user |-> u, via |-> <<"role", r>>] : u \in holder[r]} :
                    r \in policies[p].users.excludeRoles}

LEMMA PrincipalsAre ==
  ASSUME NEW p
  PROVE  Principals(p) = Directly(p) \cup ByGroup(p) \cup ByRole(p)
BY DEF Principals, Directly, ByGroup, ByRole

LEMMA SparedIsPrincipal ==
  ASSUME TypeInv, NEW p \in Present, policies[p].users # None,
         NEW u, Spared(policies[p].users, u)
  PROVE  HasExclusions(p) /\ \E x \in Principals(p) : x.user = u
<1> DEFINE who == policies[p].users
<1>1. CASE u \in who.excludeUsers
  <2>1. [user |-> u, via |-> <<"direct">>] \in Principals(p)
    BY <1>1, PrincipalsAre DEF Directly
  <2>2. QED
    BY <1>1, <2>1 DEF HasExclusions
<1>2. CASE \E g \in who.excludeGroups : u \in member[g]
  <2>1. PICK g \in who.excludeGroups : u \in member[g]
    BY <1>2
  <2>2. [user |-> u, via |-> <<"group", g>>] \in Principals(p)
    BY <2>1, PrincipalsAre DEF ByGroup
  <2>3. QED
    BY <2>1, <2>2 DEF HasExclusions
<1>3. CASE \E r \in who.excludeRoles : u \in holder[r]
  <2>1. PICK r \in who.excludeRoles : u \in holder[r]
    BY <1>3
  <2>2. [user |-> u, via |-> <<"role", r>>] \in Principals(p)
    BY <2>1, PrincipalsAre DEF ByRole
  <2>3. QED
    BY <2>1, <2>2 DEF HasExclusions
<1>4. QED
  BY <1>1, <1>2, <1>3 DEF Spared

LEMMA BypassFound ==
  ASSUME NEW p \in Present, HasExclusions(p), NEW x \in Principals(p), Bypasses(x.user, p)
  PROVE  About("admin-mfa-bypass", {x.user, p}, "CRITICAL") \in ExclusionFindings
<1>1. About("admin-mfa-bypass", {x.user, p}, "CRITICAL") \in PrincipalFindings(x.user, p)
  BY DEF PrincipalFindings
<1>2. About("admin-mfa-bypass", {x.user, p}, "CRITICAL") \in PolicyFindings(p)
  BY <1>1 DEF PolicyFindings
<1>3. QED
  BY <1>2 DEF ExclusionFindings

(* A privileged user excluded from a policy that enforces MFA, and whom no  *)
(* other such policy for all users concerns, has a CRITICAL finding, unless *)
(* one of these excludes him through a group or a role only.                *)
THEOREM BypassesFound == Spec => []BypassReported
<1>1. TypeInv => BypassReported
  <2> SUFFICES ASSUME TypeInv, NEW p \in Present, NEW u \in HoldersOf(PrivilegedRoles),
                      EnforcesMfa(p), policies[p].users # None, Spared(policies[p].users, u),
                      \A q \in Present \ {p} :
                        EnforcesMfa(q) /\ TargetsAllUsers(q) =>
                          ~Concerns(q, u) /\ u \in policies[q].users.excludeUsers
               PROVE  About("admin-mfa-bypass", {u, p}, "CRITICAL")
                        \in CategoryFindings("exclusions")
    BY DEF BypassReported
  <2>1. PICK x \in Principals(p) : x.user = u
    BY SparedIsPrincipal
  <2>2. HasExclusions(p)
    BY SparedIsPrincipal
  <2>3. RolesOf(u) \cap PrivilegedRoles # {}
    BY TenantAssumption DEF RolesOf, HoldersOf
  <2>4. ~HasAlternate(u, p)
    BY DEF HasAlternate, IsAlternate
  <2>5. Bypasses(u, p)
    BY <2>3, <2>4 DEF Bypasses
  <2>6. About("admin-mfa-bypass", {u, p}, "CRITICAL") \in ExclusionFindings
    BY <2>1, <2>2, <2>5, BypassFound
  <2>7. QED
    BY <2>6 DEF CategoryFindings
<1>2. QED
  BY TypeAlways, <1>1, PTL

-----------------------------------------------------------------------------
(* Days pass. *)

LEMMA PassRules ==
  ASSUME TypeInv, Pass
  PROVE  /\ \A r \in TenantRules : Satisfied(r.rule)' <=> Satisfied(r.rule)
         /\ DisabledOld \subseteq DisabledOld' /\ NeverGraduated \subseteq NeverGraduated'
<1>1. policies' = policies /\ trusted' = trusted /\ now' > now /\ now \in Nat /\ now' \in Nat
  BY DaysAssumption DEF Pass, directory, TypeInv, TypeOK
<1>2. Present' = Present
  BY <1>1 DEF Present
<1>3. ASSUME NEW p \in Present, Dormant(p) PROVE Dormant(p)'
  <2>1. policies[p].modified \in Nat \cup {None}
    BY PolicyIn, DaysAssumption DEF Policy
  <2>2. QED
    BY <1>1, <1>3, <2>1 DEF Dormant, StaleDays
<1>4. DisabledOld \subseteq DisabledOld' /\ NeverGraduated \subseteq NeverGraduated'
  BY <1>1, <1>2, <1>3 DEF DisabledOld, NeverGraduated, IsReportOnly
<1>5. ASSUME NEW rule PROVE Satisfied(rule)' <=> Satisfied(rule)
  BY <1>1, <1>2, Zenon DEF Satisfied, Some, IsEnabled,
     BlocksLegacyAuth, MfaForAllUsers, MfaForAdmins, RiskBasedSignIn, RiskBasedUser,
     DeviceForAdmins, DeviceForSensitive, SetsFrequency, SetsPersistence, RestrictsGuests,
     ScopesWorkloads, SparesBreakglass, IncludesLegacy, HasControl, Grants, TargetsAllUsers,
     TargetsRoles, TargetsApps
<1>6. QED
  BY <1>4, <1>5

LEMMA PassExclusions ==
  ASSUME TypeInv, Pass
  PROVE  ExclusionFindings \subseteq ExclusionFindings'
<1>1. /\ UNCHANGED <<policies, member, holder, blocked, signed>>
      /\ now' > now /\ now \in Nat /\ now' \in Nat
  BY DaysAssumption DEF Pass, directory, TypeInv, TypeOK
<1>2. Present' = Present
  BY <1>1 DEF Present
<1>3. ASSUME NEW p \in Present, HasExclusions(p), NEW x \in Principals(p)
      PROVE  x.user \in Users
  <2>1. policies[p].users \in UserConditions
    BY <1>3, PolicyIn DEF HasExclusions, Policy
  <2>2. CASE x \in Directly(p)
    BY <2>1, <2>2 DEF Directly, UserConditions
  <2>3. CASE x \in ByGroup(p)
    <3>1. PICK g \in policies[p].users.excludeGroups :
            x \in {[user |-> u, via |-> <<"group", g>>] : u \in member[g]}
      BY <2>3 DEF ByGroup
    <3>2. g \in Groups
      BY <2>1 DEF UserConditions
    <3>3. QED
      BY <3>1, <3>2 DEF TypeInv, TypeOK
  <2>4. CASE x \in ByRole(p)
    <3>1. PICK r \in policies[p].users.excludeRoles :
            x \in {[user |-> u, via |-> <<"role", r>>] : u \in holder[r]}
      BY <2>4 DEF ByRole
    <3>2. r \in Roles
      BY <2>1 DEF UserConditions
    <3>3. QED
      BY <3>1, <3>2 DEF TypeInv, TypeOK
  <2>5. QED
    BY <2>2, <2>3, <2>4, PrincipalsAre
<1>4. ASSUME NEW u \in Users, Stale(u) PROVE Stale(u)'
  <2>1. signed[u] \in Days \cup {Never}
    BY DEF TypeInv, TypeOK
  <2>2. signed'[u] = signed[u] /\ (signed[u] = Never \/ signed[u] \in Nat)
    BY <1>1, <2>1, DaysAssumption
  <2>3. CASE signed[u] = Never
    BY <2>2, <2>3 DEF Stale
  <2>4. CASE signed[u] # Never
    BY <1>1, <1>4, <2>2, <2>4 DEF Stale, ExclusionStaleDays
  <2>5. QED
    BY <2>3, <2>4
<1>5. ASSUME NEW p \in Present
      PROVE  /\ HasExclusions(p)' <=> HasExclusions(p)
             /\ Principals(p)' = Principals(p)
             /\ Creeps(p)' <=> Creeps(p)
             /\ \A u : Bypasses(u, p)' <=> Bypasses(u, p)
  <2>1. /\ HasExclusions(p)' <=> HasExclusions(p)
        /\ Principals(p)' = Principals(p)
        /\ Creeps(p)' <=> Creeps(p)
    <3>1. HasExclusions(p)' <=> HasExclusions(p)
      BY <1>1 DEF HasExclusions
    <3>2. Principals(p)' = Principals(p)
      BY <1>1 DEF Principals
    <3>3. Creeps(p)' <=> Creeps(p)
      BY <1>1 DEF Creeps
    <3>4. QED
      BY <3>1, <3>2, <3>3
  <2>2. \A u : Bypasses(u, p)' <=> Bypasses(u, p)
    BY <1>1, <1>2, Zenon DEF Bypasses, EnforcesMfa, IsEnabled, HasControl, Grants, RolesOf,
       HasAlternate, IsAlternate, TargetsAllUsers
  <2>3. QED
    BY <2>1, <2>2
<1>6. ASSUME NEW p \in Present, HasExclusions(p), NEW x \in Principals(p)
      PROVE  PrincipalFindings(x.user, p) \subseteq PrincipalFindings(x.user, p)'
  <2>1. Stale(x.user) => Stale(x.user)'
    BY <1>3, <1>4, <1>6
  <2>2. Bypasses(x.user, p)' <=> Bypasses(x.user, p)
    BY <1>5
  <2>3. x.user \in blocked' <=> x.user \in blocked
    BY <1>1
  <2>4. \A rule, objects, severity : About(rule, objects, severity)' = About(rule, objects, severity)
    BY DEF About
  <2>5. QED
    BY <2>1, <2>2, <2>3 DEF PrincipalFindings
<1>7. ASSUME NEW p \in Present, HasExclusions(p)
      PROVE  PolicyFindings(p) \subseteq PolicyFindings(p)'
  <2>1. (UNION {PrincipalFindings(x.user, p) : x \in Principals(p)})
          \subseteq (UNION {PrincipalFindings(x.user, p)' : x \in Principals(p)'})
    <3>1. Principals(p)' = Principals(p)
      BY <1>5
    <3>2. \A x \in Principals(p) : PrincipalFindings(x.user, p) \subseteq PrincipalFindings(x.user, p)'
      BY <1>6, <1>7
    <3>3. QED
      BY <3>1, <3>2
  <2>2. (Creeps(p)' <=> Creeps(p)) /\ policies[p].documented' = policies[p].documented
    BY <1>1, <1>5
  <2>3. QED
    BY <1>1, <2>1, <2>2 DEF PolicyFindings
<1>8. QED
  BY <1>2, <1>5, <1>7 DEF ExclusionFindings

LEMMA PassCells ==
  ASSUME TypeInv, Pass, NEW users \in UserSegments \ {"service_accounts"}, NEW apps
  PROVE  CellSeverity(users, apps)' = CellSeverity(users, apps)
<1>1. UNCHANGED <<policies, member, holder, signed>>
  BY DEF Pass, directory
<1>2. SegmentMembers(users)' = SegmentMembers(users)
  BY <1>1 DEF SegmentMembers, HoldersOf, UserSegments
<1>3. Applicable(users, apps)' = Applicable(users, apps)
  BY <1>1, <1>2 DEF Applicable, Present, UsersInScope, Included, Excluded, AppsInScope,
     IncludesLegacy, MembersOf, HoldersOf
<1>4. \A p : PolicyLevel(p)' = PolicyLevel(p)
  BY <1>1 DEF PolicyLevel, IsReportOnly, IsEnabled, Grants
<1>5. CellLevel(users, apps)' = CellLevel(users, apps)
  BY <1>3, <1>4 DEF CellLevel
<1>6. QED
  BY <1>2, <1>5 DEF CellSeverity

(* Time alone settles nothing: as days pass over an unchanged tenant, the   *)
(* rules' and the exclusions' findings stay, and only the cells for service *)
(* accounts, whom silence makes, may change.                                *)
THEOREM TimeOnlyAdds == Spec => TimeSettlesNothing
<1>1. ASSUME TypeInv, Pass
      PROVE  /\ RuleFindings \subseteq RuleFindings'
             /\ ExclusionFindings \subseteq ExclusionFindings'
             /\ \A users \in UserSegments \ {"service_accounts"}, apps \in AppSegments :
                  CellSeverity(users, apps)' = CellSeverity(users, apps)
  <2>1. {r \in TenantRules : ~Satisfied(r.rule)} = {r \in TenantRules : ~Satisfied(r.rule)'}
    BY <1>1, PassRules
  <2>2. RuleFindings \subseteq RuleFindings'
    BY <1>1, <2>1, PassRules DEF RuleFindings
  <2>3. QED
    BY <1>1, <2>2, PassExclusions, PassCells
<1>2. TypeInv /\ [Next]_vars =>
        [Pass => /\ RuleFindings \subseteq RuleFindings'
                 /\ ExclusionFindings \subseteq ExclusionFindings'
                 /\ \A users \in UserSegments \ {"service_accounts"}, apps \in AppSegments :
                      CellSeverity(users, apps)' = CellSeverity(users, apps)]_vars
  BY <1>1
<1>3. QED
  BY TypeAlways, <1>2, PTL DEF Spec, TimeSettlesNothing

-----------------------------------------------------------------------------
(* What a cell owes to each policy, and a policy that is no stronger than   *)
(* another.                                                                 *)

RecordScope(r, candidates) ==
  candidates # {} /\ (r.users = None \/ Included(r.users, candidates) \ Excluded(r.users) # {})
RecordLegacy(r) == r.clientTypes # None /\ r.clientTypes \cap LegacyTypes # {}
RecordApps(r, segment) ==
  IF segment = "legacy_auth" THEN RecordLegacy(r)
  ELSE /\ r.apps # None
       /\ IF segment = "all_apps"
          THEN Everyone \in r.apps.include /\ r.apps.exclude = {}
          ELSE (IF Everyone \in r.apps.include THEN SegmentApps[segment]
                ELSE r.apps.include \cap SegmentApps[segment]) \ r.apps.exclude # {}
RecordApplies(r, users, apps) ==
  r.state # "disabled" /\ RecordScope(r, SegmentMembers(users)) /\ RecordApps(r, apps)

LevelsIn(P, users, apps) ==
  {0} \cup {RecordLevel(P[p]) : p \in {p \in DOMAIN P : RecordApplies(P[p], users, apps)}}

NoStronger(a, b) ==
  /\ a.state = "enabled" => b.state = "enabled"
  /\ a.state # "disabled" => b.state # "disabled"
  /\ RecordLevel(a) <= RecordLevel(b) /\ Granted(a) \subseteq Granted(b)
  /\ \A field \in {"apps", "clientTypes", "userRisk", "signInRisk", "session", "workload"} :
       b[field] = a[field]
  /\ a.users = None <=> b.users = None
  /\ a.users # None =>
       /\ \A field \in {"includeUsers", "includeGroups", "includeRoles", "includeGuests"} :
            b.users[field] = a.users[field]
       /\ \A field \in {"excludeUsers", "excludeGroups", "excludeRoles"} :
            b.users[field] \subseteq a.users[field]

Outdoes(Q, P) == \A p \in DOMAIN P : p \in DOMAIN Q /\ NoStronger(P[p], Q[p])

LEMMA RecordLevelIn == ASSUME NEW r PROVE RecordLevel(r) \in 0..4
BY LevelIs DEF RecordLevel

LEMMA AppliesGrows ==
  ASSUME NEW a, NEW b, NoStronger(a, b), NEW users, NEW apps, RecordApplies(a, users, apps)
  PROVE  RecordApplies(b, users, apps)
<1>1. a.state # "disabled" => b.state # "disabled"
  BY DEF NoStronger
<1>2. b.apps = a.apps /\ b.clientTypes = a.clientTypes
  BY DEF NoStronger
<1>3. RecordApps(a, apps) => RecordApps(b, apps)
  BY <1>2 DEF RecordApps, RecordLegacy
<1>4. ASSUME NEW candidates, RecordScope(a, candidates) PROVE RecordScope(b, candidates)
  <2>1. CASE a.users = None
    BY <1>4, <2>1 DEF NoStronger, RecordScope
  <2>2. CASE a.users # None
    <3>1. /\ b.users.includeUsers = a.users.includeUsers
          /\ b.users.includeGroups = a.users.includeGroups
          /\ b.users.includeRoles = a.users.includeRoles
          /\ b.users.includeGuests = a.users.includeGuests
          /\ b.users.excludeUsers \subseteq a.users.excludeUsers
          /\ b.users.excludeGroups \subseteq a.users.excludeGroups
          /\ b.users.excludeRoles \subseteq a.users.excludeRoles
      BY <2>2 DEF NoStronger
    <3>2. Included(b.users, candidates) = Included(a.users, candidates)
      BY <3>1 DEF Included
    <3>3. Excluded(b.users) \subseteq Excluded(a.users)
      BY <3>1 DEF Excluded, MembersOf, HoldersOf
    <3>4. QED
      BY <1>4, <2>2, <3>2, <3>3 DEF RecordScope, NoStronger
  <2>3. QED
    BY <2>1, <2>2
<1>5. QED
  BY <1>1, <1>3, <1>4 DEF RecordApplies

LEMMA LevelsGrow ==
  ASSUME NEW P, NEW Q, Outdoes(Q, P), NEW users, NEW apps
  PROVE  /\ Max(LevelsIn(P, users, apps)) \in 0..4 /\ Max(LevelsIn(Q, users, apps)) \in 0..4
         /\ Max(LevelsIn(P, users, apps)) <= Max(LevelsIn(Q, users, apps))
<1> DEFINE A == LevelsIn(P, users, apps)
           B == LevelsIn(Q, users, apps)
<1>1. A \in SUBSET (0..4) /\ 0 \in A /\ B \in SUBSET (0..4) /\ 0 \in B
  BY RecordLevelIn DEF LevelsIn
<1>2. ASSUME NEW x \in A PROVE \E y \in B : x <= y
  <2>1. CASE x = 0
    BY <1>1, <2>1
  <2>2. CASE x # 0
    <3>1. PICK p \in DOMAIN P : RecordApplies(P[p], users, apps) /\ x = RecordLevel(P[p])
      BY <1>2, <2>2 DEF LevelsIn
    <3>2. p \in DOMAIN Q /\ NoStronger(P[p], Q[p])
      BY DEF Outdoes
    <3>3. RecordLevel(Q[p]) \in B
      BY <3>1, <3>2, AppliesGrows DEF LevelsIn
    <3>4. QED
      BY <3>1, <3>2, <3>3 DEF NoStronger
  <2>3. QED
    BY <2>1, <2>2
<1> HIDE DEF A, B
<1>3. /\ Max(A) \in A /\ \A x \in A : x <= Max(A)
      /\ Max(B) \in B /\ \A x \in B : x <= Max(B)
  BY <1>1, GreatestLevel
<1>4. Max(A) <= Max(B)
  <2>1. PICK y \in B : Max(A) <= y
    BY <1>2, <1>3
  <2>2. y <= Max(B) /\ y \in 0..4 /\ Max(A) \in 0..4 /\ Max(B) \in 0..4
    BY <1>1, <1>3
  <2>3. QED
    BY <2>1, <2>2
<1>5. QED
  BY <1>1, <1>3, <1>4 DEF A, B

LEMMA CellLevelsAre ==
  ASSUME UNCHANGED <<directory, now>>, NEW users \in UserSegments, NEW apps
  PROVE  /\ SegmentMembers(users)' = SegmentMembers(users)
         /\ CellLevel(users, apps) = Max(LevelsIn(policies, users, apps))
         /\ CellLevel(users, apps)' = Max(LevelsIn(policies', users, apps))
<1>1. member' = member /\ holder' = holder /\ signed' = signed /\ now' = now
  BY DEF directory
<1>2. SegmentMembers(users)' = SegmentMembers(users)
  BY <1>1 DEF SegmentMembers, HoldersOf, IsServiceAccount
<1>3. \A p : PolicyLevel(p) = RecordLevel(policies[p])
             /\ PolicyLevel(p)' = RecordLevel(policies'[p])
  BY DEF PolicyLevel, RecordLevel, IsReportOnly, IsEnabled, Grants, Granted, Levels
<1>4. \A p, c : /\ UsersInScope(p, c) <=> RecordScope(policies[p], c)
                /\ UsersInScope(p, c)' <=> RecordScope(policies'[p], c)
  BY <1>1 DEF UsersInScope, RecordScope, Included, Excluded, MembersOf, HoldersOf
<1>5. \A p : /\ AppsInScope(p, apps) <=> RecordApps(policies[p], apps)
             /\ AppsInScope(p, apps)' <=> RecordApps(policies'[p], apps)
  BY DEF AppsInScope, RecordApps, RecordLegacy, IncludesLegacy
<1>6. Applicable(users, apps) = {p \in DOMAIN policies : RecordApplies(policies[p], users, apps)}
  BY <1>4, <1>5 DEF Applicable, RecordApplies, Present
<1>7. Applicable(users, apps)' = {p \in DOMAIN policies' : RecordApplies(policies'[p], users, apps)}
  BY <1>2, <1>4, <1>5 DEF Applicable, RecordApplies, Present
<1>8. QED
  BY <1>2, <1>3, <1>6, <1>7 DEF CellLevel, LevelsIn, Levels

-----------------------------------------------------------------------------
(* Severities. *)

LEMMA RankIs ==
  /\ Rank(None) = 0
  /\ \A i \in 1..5 : Rank(Severities[i]) = i
<1>1. DOMAIN Severities = 1..5
  BY DEF Severities
<1>2. \A i, j \in 1..5 : Severities[i] = Severities[j] => i = j
  BY DEF Severities
<1>3. \A i \in 1..5 : Severities[i] # None
  BY NamesAssumption DEF Severities
<1>4. ASSUME NEW i \in 1..5 PROVE Rank(Severities[i]) = i
  <2>1. (CHOOSE j \in DOMAIN Severities : Severities[j] = Severities[i]) = i
    BY <1>1, <1>2
  <2>2. QED
    BY <1>3, <2>1 DEF Rank
<1>5. QED
  BY <1>4 DEF Rank

SeverityAt(level, users, apps) ==
  IF level >= 2 \/ (SegmentMembers(users) = {} /\ users # "all_users") THEN None
  ELSE IF level = 1 THEN Softened(Unprotected(users, apps)) ELSE Unprotected(users, apps)

LEMMA BetterLevel ==
  ASSUME NEW i \in 0..4, NEW j \in 0..4, i <= j, NEW users \in UserSegments, NEW apps
  PROVE  /\ Rank(SeverityAt(i, users, apps)) \in 0..5 /\ Rank(SeverityAt(j, users, apps)) \in 0..5
         /\ Rank(SeverityAt(j, users, apps)) <= Rank(SeverityAt(i, users, apps))
<1>1. PICK n \in 3..5 : Unprotected(users, apps) = Severities[n]
  <2>1. Severities[3] = "MEDIUM" /\ Severities[4] = "HIGH" /\ Severities[5] = "CRITICAL"
    BY DEF Severities
  <2>2. Unprotected(users, apps) \in {"MEDIUM", "HIGH", "CRITICAL"}
    BY DEF Unprotected, UserSegments
  <2>3. QED
    BY <2>1, <2>2
<1>2. Rank(Unprotected(users, apps)) = n
  BY <1>1, RankIs
<1>3. Rank(Softened(Unprotected(users, apps))) = n - 1
  BY <1>2, RankIs DEF Softened
<1>4. Rank(None) = 0
  BY RankIs
<1>5. QED
  BY <1>2, <1>3, <1>4 DEF SeverityAt

LEMMA CellRanks ==
  ASSUME UNCHANGED <<directory, now>>, NEW users \in UserSegments, NEW apps
  PROVE  /\ Outdoes(policies', policies) => CellRank(users, apps)' <= CellRank(users, apps)
         /\ Outdoes(policies, policies') => CellRank(users, apps)' >= CellRank(users, apps)
<1> DEFINE before == Max(LevelsIn(policies, users, apps))
           after == Max(LevelsIn(policies', users, apps))
<1>1. CellRank(users, apps) = Rank(SeverityAt(before, users, apps))
  BY CellLevelsAre DEF CellRank, CellSeverity, SeverityAt, Levels
<1>2. CellRank(users, apps)' = Rank(SeverityAt(after, users, apps))
  <2>1. SegmentMembers(users)' = SegmentMembers(users) /\ CellLevel(users, apps)' = after
    BY CellLevelsAre
  <2>2. CellSeverity(users, apps)' = SeverityAt(after, users, apps)
    BY <2>1 DEF CellSeverity, SeverityAt, Levels, Softened, Unprotected, Rank
  <2>3. QED
    BY <2>2 DEF CellRank, Rank
<1>3. ASSUME Outdoes(policies', policies)
      PROVE  CellRank(users, apps)' <= CellRank(users, apps)
  <2>1. before \in 0..4 /\ after \in 0..4 /\ before <= after
    BY <1>3, LevelsGrow
  <2> HIDE DEF before, after
  <2>2. QED
    BY <1>1, <1>2, <2>1, BetterLevel
<1>4. ASSUME Outdoes(policies, policies')
      PROVE  CellRank(users, apps)' >= CellRank(users, apps)
  <2>1. before \in 0..4 /\ after \in 0..4 /\ after <= before
    BY <1>4, LevelsGrow
  <2> HIDE DEF before, after
  <2>2. QED
    BY <1>1, <1>2, <2>1, BetterLevel
<1>5. QED
  BY <1>3, <1>4

-----------------------------------------------------------------------------
(* Rules. *)

(* What a rule looks for in an enabled policy.                              *)
RecordFits(rule, r) ==
  CASE rule = "block-legacy-auth"  -> RecordLegacy(r) /\ "block" \in Granted(r)
    [] rule = "mfa-all-users"      -> /\ r.users # None /\ r.users.includeUsers = {Everyone}
                                      /\ "mfa" \in Granted(r)
    [] rule = "mfa-admins"         -> /\ r.users # None
                                      /\ r.users.includeRoles \cap PrivilegedRoles # {}
                                      /\ "mfa" \in Granted(r)
    [] rule = "risk-based-signin"  -> r.signInRisk \cap {"medium", "high"} # {}
    [] rule = "risk-based-user"    -> "high" \in r.userRisk
    [] rule = "compliant-device-admin-actions" ->
         /\ r.users # None /\ r.users.includeRoles \cap PrivilegedRoles # {}
         /\ "compliantDevice" \in Granted(r) \/ "domainJoinedDevice" \in Granted(r)
    [] rule = "device-compliance-sensitive-apps" ->
         r.apps # None /\ r.apps.include \cap SensitiveApps # {} /\ "compliantDevice" \in Granted(r)
    [] rule = "signin-frequency-unmanaged"   -> "signInFrequency" \in r.session
    [] rule = "persistent-browser-unmanaged" -> "persistentBrowser" \in r.session
    [] rule = "guest-restrictions" ->
         /\ r.users # None
         /\ r.users.includeGuests \/ r.users.includeGroups \cap GuestGroups # {}
    [] rule = "workload-identity-policies" -> r.workload

PolicyRules ==
  {"block-legacy-auth", "mfa-all-users", "mfa-admins", "risk-based-signin",
   "risk-based-user", "compliant-device-admin-actions",
   "device-compliance-sensitive-apps", "signin-frequency-unmanaged",
   "persistent-browser-unmanaged", "guest-restrictions", "workload-identity-policies"}

LEMMA SatisfiedIs ==
  ASSUME NEW rule \in PolicyRules
  PROVE  /\ Satisfied(rule) <=>
              \E p \in DOMAIN policies : policies[p].state = "enabled" /\ RecordFits(rule, policies[p])
         /\ Satisfied(rule)' <=>
              \E p \in DOMAIN policies' : policies'[p].state = "enabled" /\ RecordFits(rule, policies'[p])
<1> USE DEF Satisfied, Some, IsEnabled, RecordFits, Present, HasControl, Grants, Granted
<1>1. CASE rule = "block-legacy-auth"
  BY <1>1 DEF BlocksLegacyAuth, IncludesLegacy, RecordLegacy
<1>2. CASE rule = "mfa-all-users"
  BY <1>2 DEF MfaForAllUsers, TargetsAllUsers
<1>3. CASE rule = "mfa-admins"
  BY <1>3 DEF MfaForAdmins, TargetsRoles
<1>4. CASE rule = "risk-based-signin"
  BY <1>4 DEF RiskBasedSignIn
<1>5. CASE rule = "risk-based-user"
  BY <1>5 DEF RiskBasedUser
<1>6. CASE rule = "compliant-device-admin-actions"
  BY <1>6 DEF DeviceForAdmins, TargetsRoles
<1>7. CASE rule = "device-compliance-sensitive-apps"
  BY <1>7 DEF DeviceForSensitive, TargetsApps
<1>8. CASE rule = "signin-frequency-unmanaged"
  BY <1>8 DEF SetsFrequency
<1>9. CASE rule = "persistent-browser-unmanaged"
  BY <1>9 DEF SetsPersistence
<1>10. CASE rule = "guest-restrictions"
  BY <1>10 DEF RestrictsGuests
<1>11. CASE rule = "workload-identity-policies"
  BY <1>11 DEF ScopesWorkloads
<1>12. QED
  BY <1>1, <1>2, <1>3, <1>4, <1>5, <1>6, <1>7, <1>8, <1>9, <1>10, <1>11 DEF PolicyRules

LEMMA FitsGrows ==
  ASSUME NEW a, NEW b, NoStronger(a, b), NEW rule \in PolicyRules, RecordFits(rule, a)
  PROVE  RecordFits(rule, b)
<1>1. /\ b.apps = a.apps /\ b.clientTypes = a.clientTypes /\ b.userRisk = a.userRisk
      /\ b.signInRisk = a.signInRisk /\ b.session = a.session /\ b.workload = a.workload
      /\ Granted(a) \subseteq Granted(b)
      /\ a.users = None <=> b.users = None
  BY DEF NoStronger
<1>2. a.users # None => /\ b.users.includeUsers = a.users.includeUsers
                        /\ b.users.includeGroups = a.users.includeGroups
                        /\ b.users.includeRoles = a.users.includeRoles
                        /\ b.users.includeGuests = a.users.includeGuests
  BY DEF NoStronger
<1>3. RecordLegacy(a) <=> RecordLegacy(b)
  BY <1>1 DEF RecordLegacy
<1>4. CASE rule = "block-legacy-auth"
  BY <1>1, <1>2, <1>3, <1>4 DEF RecordFits
<1>5. CASE rule = "mfa-all-users"
  BY <1>1, <1>2, <1>3, <1>5 DEF RecordFits
<1>6. CASE rule = "mfa-admins"
  BY <1>1, <1>2, <1>3, <1>6 DEF RecordFits
<1>7. CASE rule = "risk-based-signin"
  BY <1>1, <1>2, <1>3, <1>7 DEF RecordFits
<1>8. CASE rule = "risk-based-user"
  BY <1>1, <1>2, <1>3, <1>8 DEF RecordFits
<1>9. CASE rule = "compliant-device-admin-actions"
  BY <1>1, <1>2, <1>3, <1>9 DEF RecordFits
<1>10. CASE rule = "device-compliance-sensitive-apps"
  BY <1>1, <1>2, <1>3, <1>10 DEF RecordFits
<1>11. CASE rule = "signin-frequency-unmanaged"
  BY <1>1, <1>2, <1>3, <1>11 DEF RecordFits
<1>12. CASE rule = "persistent-browser-unmanaged"
  BY <1>1, <1>2, <1>3, <1>12 DEF RecordFits
<1>13. CASE rule = "guest-restrictions"
  BY <1>1, <1>2, <1>3, <1>13 DEF RecordFits
<1>14. CASE rule = "workload-identity-policies"
  BY <1>1, <1>2, <1>3, <1>14 DEF RecordFits
<1>15. QED
  BY <1>4, <1>5, <1>6, <1>7, <1>8, <1>9, <1>10, <1>11, <1>12, <1>13, <1>14 DEF PolicyRules

LEMMA RulesGrow ==
  ASSUME NEW rule \in PolicyRules
  PROVE  /\ Outdoes(policies', policies) /\ Satisfied(rule) => Satisfied(rule)'
         /\ Outdoes(policies, policies') /\ Satisfied(rule)' => Satisfied(rule)
BY SatisfiedIs, FitsGrows DEF Outdoes, NoStronger

-----------------------------------------------------------------------------
(* The steps. *)

LEMMA SameIsNoStronger == ASSUME NEW r PROVE NoStronger(r, r)
BY RecordLevelIn DEF NoStronger

LEMMA CreateOutdoes ==
  ASSUME NEW p, NEW t, Create(p, t)
  PROVE  /\ Outdoes(policies', policies) /\ UNCHANGED <<directory, now>>
         /\ \A q \in Present : q \in Present' /\ policies'[q].users = policies[q].users
<1>1. \A q \in Present : q \in Present' /\ policies'[q] = policies[q]
  BY DEF Create, Present
<1>2. QED
  BY <1>1, SameIsNoStronger DEF Outdoes, Create, Present

LEMMA ControlOutdoes ==
  ASSUME TypeInv, NEW p, NEW c \in Controls, AddControl(p, c)
  PROVE  /\ Outdoes(policies', policies) /\ UNCHANGED <<directory, now>>
         /\ \A q \in Present : q \in Present' /\ policies'[q].users = policies[q].users
<1> DEFINE old == policies[p]
           grant == IF old.grant = None THEN {c} ELSE old.grant \cup {c}
           new == [old EXCEPT !.grant = grant]
<1>1. p \in Present /\ old \in Policy
  BY PolicyIn DEF AddControl
<1>2. new \in Policy /\ new.grant = grant /\ grant \in SUBSET Controls
  BY <1>1 DEF Policy
<1>3. \A field \in (DOMAIN old) \ {"grant"} : new[field] = old[field]
  BY <1>1 DEF Policy
<1>4. Put(p, new)
  BY DEF AddControl
<1> HIDE DEF new
<1>5. /\ Present' = Present
      /\ \A field \in (DOMAIN new) \ {"modified"} : policies'[p][field] = new[field]
      /\ \A q \in Present \ {p} : policies'[q] = policies[q]
  BY <1>1, <1>2, <1>4, PutPolicy
<1>6. /\ policies'[p].grant = grant
      /\ \A field \in {"state", "users", "apps", "clientTypes", "userRisk", "signInRisk",
                       "session", "workload"} : policies'[p][field] = old[field]
  BY <1>1, <1>2, <1>3, <1>5 DEF Policy
<1>7. Granted(old) \subseteq Granted(policies'[p])
  BY <1>2, <1>6, NamesAssumption DEF Granted
<1>8. RecordLevel(old) <= RecordLevel(policies'[p])
  BY <1>6, <1>7, LevelGrows DEF RecordLevel
<1>9. NoStronger(old, policies'[p])
  BY <1>6, <1>7, <1>8 DEF NoStronger
<1>10. QED
  BY <1>1, <1>5, <1>6, <1>9, SameIsNoStronger DEF Outdoes, AddControl, Present

LEMMA StateSet ==
  ASSUME TypeInv, NEW p, NEW s \in States, SetState(p, s)
  PROVE  /\ p \in Present /\ UNCHANGED <<directory, now>>
         /\ Present' = Present /\ policies'[p].state = s
         /\ \A field \in {"users", "apps", "clientTypes", "grant", "userRisk", "signInRisk",
                          "session", "workload"} : policies'[p][field] = policies[p][field]
         /\ \A q \in Present \ {p} : policies'[q] = policies[q]
<1> DEFINE old == policies[p]
           new == [old EXCEPT !.state = s]
<1>1. p \in Present /\ old \in Policy
  BY PolicyIn DEF SetState
<1>2. new \in Policy /\ new.state = s /\ \A field \in (DOMAIN old) \ {"state"} : new[field] = old[field]
  BY <1>1 DEF Policy
<1>3. Put(p, new)
  BY DEF SetState
<1> HIDE DEF new
<1>4. /\ Present' = Present
      /\ \A field \in (DOMAIN new) \ {"modified"} : policies'[p][field] = new[field]
      /\ \A q \in Present \ {p} : policies'[q] = policies[q]
  BY <1>1, <1>2, <1>3, PutPolicy
<1>5. QED
  BY <1>1, <1>2, <1>4 DEF Policy, SetState

LEMMA EnablingOutdoes ==
  ASSUME TypeInv, NEW p, SetState(p, "enabled"), IsReportOnly(p), LevelOf(Grants(p)) >= 2
  PROVE  /\ Outdoes(policies', policies) /\ UNCHANGED <<directory, now>>
         /\ \A q \in Present : q \in Present' /\ policies'[q].users = policies[q].users
<1>1. /\ p \in Present /\ UNCHANGED <<directory, now>>
      /\ Present' = Present /\ policies'[p].state = "enabled"
      /\ \A field \in {"users", "apps", "clientTypes", "grant", "userRisk", "signInRisk",
                       "session", "workload"} : policies'[p][field] = policies[p][field]
      /\ \A q \in Present \ {p} : policies'[q] = policies[q]
  BY StateSet DEF States
<1>2. Granted(policies'[p]) = Granted(policies[p]) /\ Granted(policies[p]) = Grants(p)
  BY <1>1 DEF Granted, Grants
<1>3. RecordLevel(policies[p]) = 1 /\ RecordLevel(policies'[p]) >= 2
  BY <1>1, <1>2 DEF RecordLevel, IsReportOnly
<1>4. RecordLevel(policies[p]) <= RecordLevel(policies'[p])
  BY <1>3, RecordLevelIn
<1>5. NoStronger(policies[p], policies'[p])
  BY <1>1, <1>2, <1>4 DEF NoStronger
<1>6. QED
  BY <1>1, <1>5, SameIsNoStronger DEF Outdoes, Present

LEMMA DisablingIsOutdone ==
  ASSUME TypeInv, NEW p, SetState(p, "disabled")
  PROVE  Outdoes(policies, policies') /\ UNCHANGED <<directory, now>>
<1>1. /\ p \in Present /\ UNCHANGED <<directory, now>>
      /\ Present' = Present /\ policies'[p].state = "disabled"
      /\ \A field \in {"users", "apps", "clientTypes", "grant", "userRisk", "signInRisk",
                       "session", "workload"} : policies'[p][field] = policies[p][field]
      /\ \A q \in Present \ {p} : policies'[q] = policies[q]
  BY StateSet DEF States
<1>2. Granted(policies'[p]) = Granted(policies[p])
  BY <1>1 DEF Granted
<1>3. RecordLevel(policies'[p]) <= RecordLevel(policies[p])
  <2>1. RecordLevel(policies'[p]) = 0
    BY <1>1 DEF RecordLevel
  <2>2. QED
    BY <2>1, RecordLevelIn
<1>4. NoStronger(policies'[p], policies[p])
  BY <1>1, <1>2, <1>3 DEF NoStronger
<1>5. QED
  BY <1>1, <1>4, SameIsNoStronger DEF Outdoes, Present

LEMMA ExcludingIsOutdone ==
  ASSUME TypeInv, NEW p, NEW users \in SUBSET Users, NEW groups \in SUBSET Groups,
         NEW roles \in SUBSET Roles, Exclude(p, users, groups, roles)
  PROVE  Outdoes(policies, policies') /\ UNCHANGED <<directory, now>>
<1> DEFINE old == policies[p]
           new == WithExclusions(old, users, groups, roles)
<1>1. p \in Present /\ old \in Policy /\ old.users # None
  BY PolicyIn DEF Exclude
<1>2. new \in Policy /\ OnlyExcludes(old, new, users, groups, roles)
  BY <1>1, ExcludingType
<1>3. Put(p, new)
  BY DEF Exclude, WithExclusions
<1> HIDE DEF new
<1>4. /\ Present' = Present
      /\ \A field \in (DOMAIN new) \ {"modified"} : policies'[p][field] = new[field]
      /\ \A q \in Present \ {p} : policies'[q] = policies[q]
  BY <1>1, <1>2, <1>3, PutPolicy
<1>5. /\ policies'[p].users = new.users
      /\ \A field \in {"state", "apps", "clientTypes", "grant", "userRisk", "signInRisk",
                       "session", "workload"} : policies'[p][field] = old[field]
  BY <1>1, <1>2, <1>4 DEF OnlyExcludes, Policy
<1>6. Granted(policies'[p]) = Granted(old) /\ RecordLevel(policies'[p]) = RecordLevel(old)
  BY <1>5 DEF Granted, RecordLevel
<1>7. /\ policies'[p].users # None
      /\ \A field \in {"includeUsers", "includeGroups", "includeRoles", "includeGuests"} :
           policies'[p].users[field] = old.users[field]
      /\ \A field \in {"excludeUsers", "excludeGroups", "excludeRoles"} :
           old.users[field] \subseteq policies'[p].users[field]
  BY <1>2, <1>5 DEF OnlyExcludes
<1>8. NoStronger(policies'[p], old)
  BY <1>1, <1>5, <1>6, <1>7, RecordLevelIn DEF NoStronger
<1>9. QED
  BY <1>1, <1>4, <1>8, SameIsNoStronger DEF Outdoes, Present, Exclude

LEMMA RemovingIsOutdone ==
  ASSUME TypeInv, NEW p, Remove(p)
  PROVE  Outdoes(policies, policies') /\ UNCHANGED <<directory, now>>
<1>1. Present' = Present \ {p} /\ \A q \in Present' : policies'[q] = policies[q]
  BY DEF Remove, Restrict, Present, TypeInv, TypeOK
<1>2. QED
  BY <1>1, SameIsNoStronger DEF Outdoes, Present, Remove

-----------------------------------------------------------------------------
(* Strengthening and weakening. *)

(* A step that only strengthens the policies makes no cell of the matrix    *)
(* worse and breaks no rule.                                                *)
THEOREM StrongerIsNoWorse == Spec => StrengtheningNeverWorsens
<1>1. ASSUME TypeInv, Strengthens
      PROVE  /\ \A users \in UserSegments, apps \in AppSegments :
                  CellRank(users, apps)' <= CellRank(users, apps)
             /\ \A r \in TenantRules : Satisfied(r.rule) => Satisfied(r.rule)'
  <2>1. /\ Outdoes(policies', policies) /\ UNCHANGED <<directory, now>>
        /\ \A q \in Present : q \in Present' /\ policies'[q].users = policies[q].users
    BY <1>1, CreateOutdoes, ControlOutdoes, EnablingOutdoes DEF Strengthens, Levels
  <2>2. \A users \in UserSegments, apps \in AppSegments :
          CellRank(users, apps)' <= CellRank(users, apps)
    BY <2>1, CellRanks
  <2>3. ASSUME NEW r \in TenantRules, Satisfied(r.rule) PROVE Satisfied(r.rule)'
    <3>1. CASE r.rule \in PolicyRules
      BY <2>1, <2>3, <3>1, RulesGrow
    <3>2. CASE r.rule = "trusted-locations-defined"
      BY <2>1, <2>3, <3>2 DEF Satisfied, directory
    <3>3. CASE r.rule = "breakglass-configured"
      <4>1. PICK p \in Present : SparesBreakglass(p)
        BY <2>3, <3>3 DEF Satisfied
      <4>2. p \in Present' /\ SparesBreakglass(p)'
        BY <2>1, <4>1 DEF SparesBreakglass
      <4>3. QED
        BY <3>3, <4>2 DEF Satisfied
    <3>4. QED
      BY <3>1, <3>2, <3>3 DEF PolicyRules, TenantRules
  <2>4. QED
    BY <2>2, <2>3
<1>2. TypeInv /\ [Next]_vars =>
        [Strengthens =>
           /\ \A users \in UserSegments, apps \in AppSegments :
                CellRank(users, apps)' <= CellRank(users, apps)
           /\ \A r \in TenantRules : Satisfied(r.rule) => Satisfied(r.rule)']_vars
  BY <1>1
<1>3. QED
  BY TypeAlways, <1>2, PTL DEF Spec, StrengtheningNeverWorsens

(* Nothing is hidden by weakening a policy: no cell looks better for it,    *)
(* and no rule but the one that asks for an exclusion is satisfied by it.   *)
THEOREM WeakerHidesNothing == Spec => WeakeningNeverHides
<1>1. ASSUME TypeInv, Weakens
      PROVE  /\ \A users \in UserSegments, apps \in AppSegments :
                  CellRank(users, apps)' >= CellRank(users, apps)
             /\ \A r \in TenantRules : Satisfied(r.rule)' /\ r.rule # "breakglass-configured"
                                         => Satisfied(r.rule)
  <2>1. Outdoes(policies, policies') /\ UNCHANGED <<directory, now>>
    <3>1. ASSUME NEW p \in PolicyIds, ExcludeOne(p)
          PROVE  Outdoes(policies, policies') /\ UNCHANGED <<directory, now>>
      <4>1. CASE \E u \in Users : Exclude(p, {u}, {}, {})
        BY <1>1, <4>1, ExcludingIsOutdone
      <4>2. CASE \E g \in Groups : Exclude(p, {}, {g}, {})
        BY <1>1, <4>2, ExcludingIsOutdone
      <4>3. CASE \E r \in Roles : Exclude(p, {}, {}, {r})
        BY <1>1, <4>3, ExcludingIsOutdone
      <4>4. QED
        BY <3>1, <4>1, <4>2, <4>3 DEF ExcludeOne
    <3>2. QED
      BY <1>1, <3>1, DisablingIsOutdone, RemovingIsOutdone DEF Weakens
  <2>2. \A users \in UserSegments, apps \in AppSegments :
          CellRank(users, apps)' >= CellRank(users, apps)
    BY <2>1, CellRanks
  <2>3. ASSUME NEW r \in TenantRules, Satisfied(r.rule)', r.rule # "breakglass-configured"
        PROVE  Satisfied(r.rule)
    <3>1. CASE r.rule \in PolicyRules
      BY <2>1, <2>3, <3>1, RulesGrow
    <3>2. CASE r.rule = "trusted-locations-defined"
      BY <2>1, <2>3, <3>2 DEF Satisfied, directory
    <3>3. QED
      BY <2>3, <3>1, <3>2 DEF PolicyRules, TenantRules
  <2>4. QED
    BY <2>2, <2>3
<1>2. TypeInv /\ [Next]_vars =>
        [Weakens =>
           /\ \A users \in UserSegments, apps \in AppSegments :
                CellRank(users, apps)' >= CellRank(users, apps)
           /\ \A r \in TenantRules : Satisfied(r.rule)' /\ r.rule # "breakglass-configured"
                                       => Satisfied(r.rule)]_vars
  BY <1>1
<1>3. QED
  BY TypeAlways, <1>2, PTL DEF Spec, WeakeningNeverHides
====
