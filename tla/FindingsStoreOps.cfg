CONSTANTS
  audit1 = audit1
  audit2 = audit2
  dry = dry
  score1 = score1
  score2 = score2
  cliAudit = cliAudit
  cliScore = cliScore
  extract = extract
  remove = remove
  fixtureAudit = fixtureAudit
  load = load
  live = live
  fixture = fixture
  p = p
  u = u
  s = s
  cell = cell
  gap = gap
  weak = weak
  strict = strict
  active = active
  disabled = disabled
  Ops <- AllOps
  Kind <- OpKind
  Target <- OpTarget
  Asked <- OpAsked
  Fixtures = {fixture}
  Policies = {p}
  Users = {u}
  Signins = {s}
  Held <- FirstHeld
  Contents <- ContentsOf
  Extracted = {live}
  Keys = {cell, gap, p, u, s}
  Severities = {"HIGH", "CRITICAL"}
  Raised <- StandIn
  Score <- Scored
  MaxVersion = 2
  MaxStarted = 2
  MaxEdits = 1
  MaxCrashes = 1
  Absent = Absent
  None = None
SPECIFICATION Spec
INVARIANTS TypeOK NewCountedOnce AuditsSeeTables CommandsNeverClash
PROPERTIES  ExtractKeepsAll
CHECK_DEADLOCK FALSE
