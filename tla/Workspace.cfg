CONSTANTS
  Tuples <- WorkspaceTuples
  Durations = {1}
  TokenTtl = 1
  Slots = {1, 2}
  MaxSecond = 2
  MaxCalls = 3
  Clicks = {1, 2}
  Refreshes = {1, 2}
  MaxClicks = 3
  MaxLoad = 5
  PollingClicks = 2
  PollingLoad = 4
  BufferSize <- WorkspaceBuffers
  BeaconKeep <- WorkspaceBeacon
  MaxLogSize = 2
  TrimTarget = 2
  LongEntries = {1}
  Reports = {1, 2}
  MaxEvents = 2
  MaxFailures = 1
  ResetTicks = 2
  JustEndedTicks = 3
  KeyLag = 1
  MaxCompositions = 3
  Permissions = {"READ", "WRITE"}
  MaxInFlight = 2
  MaxFetches = 3
  MaxProjected = 1
  Accounts = {"a", "b"}
  AssetIds = {"asset"}
  NoAccount = "nobody"
  MaxBlocks = 4
  Logs = {"log"}
  MaxHeight = 3
  MaxHash = 3
  ReorgDepth = 1
  Depths = {0, 1}
  MaxScanFailures = 2
  Callers = {"k1", "k2"}
  MaxRequests = 2
  Window = 5000
  MaxKeys = 1
  Second = 2000
  Rounding = 1998
  Instants = {5001, 5999, 7999, 9999, 10000, 10001, 12001, 15000}
SPECIFICATION WorkspaceSpec
INVARIANTS
  AccessIsEarned
  LogIdsClashOnlyInOverlap
  DataStandsForTheToken
  EntriesAreDelivered
  ConfirmingKeysAreHeld
  AnswersFitThePage
  EvidenceStands
  CheckpointsAreSound
PROPERTIES
  RevocationsStick
  NoEventIsForgotten
  LimiterKeepsItsWord
  DashboardCatchesUp
  EntriesAreReported
  KeysWorkAgain
CHECK_DEADLOCK FALSE
