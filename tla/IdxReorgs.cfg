SPECIFICATION Spec
CONSTANTS
  platform = platform
  legacy = legacy
  l1 = l1
  l2 = l2
  Contracts = {platform}
  ContractOf <- OneContract
  Logs = {l1, l2}
  ReorgDepth = 2
  Confirmations = 0
  ReplayPolicy = "any"
  MaxFaults = 1
  MaxHeight = 2
  MaxHash = 4
  StartBlocks <- AnyStart
SYMMETRY LogSymmetry
PROPERTY HistoryIsKept
PROPERTY OnlyReplaysClearUncertainty
