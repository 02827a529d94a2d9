SPECIFICATION MainSpec
CONSTANTS
  c1 = c1
  c2 = c2
  c3 = c3
  q1 = q1
  Amd = {c1, c2, c3}
  Wide = {c2}
  Odd = {c3}
  Targets = {q1}
  NoCounter = NoCounter
  s1 = s1
  s2 = s2
  Sensors = {s1, s2}
  TempSlots = 2
  DefaultOf <- MCDefaultOf
  NoSensor = NoSensor
  LogLimits = {0, 1}
  DefaultLimit = 2
  MaxLog = 3
  OutSize = 3
  ConfigSize = 7
  EntrySize = 3
  MaxPages = 1
  Pids <- MCPids
  Permanent <- MCPermanent
  TopProc = 0
  MaxForks = 3
  MayFail = TRUE
  lo = lo
  eth0 = eth0
  eth1 = eth1
  wide = wide
  allNames = allNames
  oneName = oneName
  anyName = anyName
  NetOrder <- MCNetOrder
  Unaligned = {wide}
  NetTexts = {allNames, oneName, anyName}
  NamedBy <- MCNamedBy
  NoText = anyName
  MaxBytes = 1
  MaxPlugs = 1
  core = core
  Cores = {core}
  Core0 = core
  fine = fine
  coarse = coarse
  StepsOf <- MCStepsOf
  Current = Current
  Absent = Absent
  Brands <- MCBrands
  MaxClock = 3
  MaxTicks = 2
  G15Devices <- MCG15Devices
  MaxClaimRetry = 1
  MaxHandles = 2
INVARIANTS
  MainTypeOK
  SelectionFollows
  MeasuredSoon
  QueryRecovers
  ListShowsSelection
  EntryFound
  TextOfSelected
  RowsAreSubtree
  RootGone
  RateOfChosen
  ClaimedIsUsed
PROPERTIES
  SavedIsLoaded
  OnlyAbsentLost
  ClockOfUsedSteps
CHECK_DEADLOCK FALSE
