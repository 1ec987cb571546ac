CONSTANTS
  admin = admin
  guest = guest
  emergency = emergency
  globalAdmin = globalAdmin
  portal = portal
  mail = mail
  PolicyIds = {p1, p2}
  Users = {admin, guest}
  Groups = {emergency}
  Roles = {globalAdmin}
  Apps = {portal, mail}
  Templates <- PolicyTemplates
  PrivilegedRoles = {globalAdmin}
  Tier0Roles = {globalAdmin}
  BreakglassGroups = {emergency}
  GuestGroups = {emergency}
  GuestUsers = {guest}
  Unseen = {guest}
  ServiceNamed = {}
  SegmentApps <- Segments
  SensitiveApps = {portal}
  CreepThreshold = 1
  Days = {0, 90, 365}
  MaxEdits = 2
  Everyone = Everyone
  Never = Never
  None = None
SPECIFICATION Spec
SYMMETRY Symmetry
INVARIANT TypeOK
 
INVARIANT BypassReported
PROPERTY StrengtheningNeverWorsens
PROPERTY WeakeningNeverHides
PROPERTY TimeSettlesNothing
CHECK_DEADLOCK FALSE
