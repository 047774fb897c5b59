SPECIFICATION Spec
SYMMETRY HashSymmetry
CONSTANTS
  NoAccount = NoAccount
  NoDid = NoDid
  NoAsset = NoAsset
  RootAdmin = admin
  Accounts = {admin, alice, bob, carol}
  Contracts = {carol}
  Dids = {d1, d2, d3}
  AssetIds = {}
  AccessActions = {}
  OtherRoles = {}
  MaxTokens = 0
  MaxTime = 1
  MaxNesting = 0
INVARIANT DidBijection
INVARIANT CapabilityNeedsActiveIdentity
INVARIANT RootAdminStays
PROPERTY DidBindingsArePermanent
