CONSTANTS
  Ids = {i1, i2, i3, i4}
  akl = akl
  syd = syd
  ana = ana
  bo = bo
  laptop = laptop
  Samples <- SomeSamples
  Places = {akl, syd}
  Asns = {akl, syd}
  Devices = {laptop}
  Km <- Apart2200
  Dedicated = {ana}
  Pooled = FALSE
  Model <- Forest
  AdminRule = TRUE
  Privileged = {bo}
  Unusual <- Late
  Furthest = 20015
  None = None
SPECIFICATION Spec
INVARIANT ThirtyDaysSuffice
INVARIANT OnlyOwnPastMatters
SYMMETRY IdsAlike
