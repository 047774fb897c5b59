SPECIFICATION Spec
CONSTANTS
  NoAccount = NoAccount
  NoDid = NoDid
  NoAsset = NoAsset
  RootAdmin = admin
  Accounts = {admin, alice}
  Contracts = {admin, alice}
  Dids = {d1}
  AssetIds = {laptop}
  AccessActions = {read}
  OtherRoles = {}
  MaxTokens = 1
  MaxTime = 2
  MaxNesting = 1
PROPERTY GrantsFollowPolicy
PROPERTY PauseFreezesState
CONSTRAINT UserRoleFollowsIdentity
