SPECIFICATION Spec
SYMMETRY HashSymmetry
CONSTANTS
  NoAccount = NoAccount
  NoDid = NoDid
  NoAsset = NoAsset
  RootAdmin = admin
  Accounts = {admin, alice, vault}
  Contracts = {vault}
  Dids = {d1, d2}
  AssetIds = {laptop, radar}
  AccessActions = {}
  OtherRoles = {}
  MaxTokens = 2
  MaxTime = 1
  MaxNesting = 2
INVARIANT InductiveInvariant
INVARIANT AssetIdentity
INVARIANT StrandedAssetsCanBeReleased
PROPERTY WithdrawalIsFinal
PROPERTY LedgerRefinement
CONSTRAINT OnlyManagerRoleVaries
