SPECIFICATION FairSpec
CONSTANTS
  platform = platform
  legacy = legacy
  l1 = l1
  l2 = l2
  Contracts = {platform}
  ContractOf <- OneContract
  Logs = {l1, l2}
  ReorgDepth = 2
  Confirmations = 2
  ReplayPolicy = "recorded"
  MaxFaults = 1
  MaxHeight = 4
  MaxHash = 6
  StartBlocks <- AnyStart
INVARIANT IndexerInv
INVARIANT ScansAreNeverRefused
INVARIANT CheckpointsCoverLogs
PROPERTY ScansAreSnapshots
PROPERTY ConfirmedLogsAreRecorded
