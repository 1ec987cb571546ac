------------------------------ MODULE MCTenantAudit ------------------------------
(* Instances of TenantAudit for TLC. *)
EXTENDS TenantAudit, TLC

CONSTANTS admin, guest, emergency, globalAdmin, portal, mail

Nobody == [includeUsers |-> {}, includeGroups |-> {}, includeRoles |-> {}, includeGuests |-> FALSE,
           excludeUsers |-> {}, excludeGroups |-> {}, excludeRoles |-> {}]
Blank == [state |-> "enabled", users |-> Nobody,
          apps |-> [include |-> {Everyone}, exclude |-> {}], clientTypes |-> None,
          grant |-> None, userRisk |-> {}, signInRisk |-> {}, session |-> {},
          workload |-> FALSE, documented |-> FALSE, modified |-> None]

MfaForMost == [Blank EXCEPT !.users.includeUsers = {Everyone}, !.users.excludeUsers = {admin},
                            !.grant = {"mfa"}]
AdminsReportOnly == [Blank EXCEPT !.state = "reportOnly", !.users.includeRoles = {globalAdmin},
                                  !.apps = [include |-> {portal}, exclude |-> {}],
                                  !.signInRisk = {"high"}, !.userRisk = {"high"}]
GuestsMfa == [Blank EXCEPT !.users.includeGuests = TRUE, !.grant = {"mfa"}, !.documented = TRUE,
                           !.session = SessionKinds]
LegacyBlocked == [Blank EXCEPT !.users = None, !.apps = None, !.workload = TRUE,
                               !.clientTypes = {"other"}, !.grant = {"block"}]
MailOnDevices == [Blank EXCEPT !.users.includeGroups = {emergency}, !.grant = {"compliantDevice"},
                               !.apps = [include |-> {Everyone}, exclude |-> {portal}]]

PolicyTemplates == {MfaForMost, AdminsReportOnly, GuestsMfa, LegacyBlocked, MailOnDevices}
Segments == [m365_core |-> {mail}, admin_portals |-> {portal}, high_risk_apps |-> {portal}]
Symmetry == Permutations(PolicyIds)
=============================================================================
