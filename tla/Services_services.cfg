SPECIFICATION ServicesSpec
CONSTANTS
  n1 = n1  n2 = n2  v1 = v1  v2 = v2  v3 = v3  a1 = a1  a2 = a2  h1 = h1  h2 = h2  r1 = r1  r2 = r2  c1 = c1  c2 = c2
  Watched = {n1, n2}
  Calls = {c1, c2}
  Loads <- SomeLoads
  Silence = 2  WarnCount = 2  CritCount = 2  Calm = 2
  Interval = 8
  WriteSpacing = 4  EditSpacing = 2  SlowestEdit = 12  Margin = 1  Retries = {1, 4}  LongestCall = 5
  Updates <- FourUpdates
  Permanent = {3}
  MaxStops = 2
  Viewers = {v1, v2, v3}
  Slots = 2
  History = 2
  MaxFrames = 5
  Addresses = {a1, a2}
  None = None
  Handlers = {h1, h2}
  Unknown = Unknown
  Override = Override
  Releases = {r1, r2}
  Contents <- TwoReleases
  Missing = Missing
CHECK_DEADLOCK FALSE
INVARIANTS ServicesTypeOK NonePassedOver NoLostWakeup PlaceOfAddress OneRelease
PROPERTIES AlertsSettle SlotsKept CooldownKept
