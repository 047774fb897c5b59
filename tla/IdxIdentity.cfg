SPECIFICATION Spec
CONSTANTS
  platform = platform
  legacy = legacy
  l1 = l1
  l2 = l2
  Contracts = {platform}
  ContractOf <- OneContract
  Logs = {l1, l2}
  ReorgDepth = 2
  Confirmations = 0
  ReplayPolicy = "none"
  MaxFaults = 0
  MaxHeight = 2
  MaxHash = 3
  StartBlocks <- AnyStart
INVARIANT IdentityIncludesTheBlock
