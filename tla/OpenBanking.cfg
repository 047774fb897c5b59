SPECIFICATION Spec
CONSTANTS
  alice = alice
  wallet = wallet
  bank = bank
  provider = provider
  d1 = d1
  d2 = d2
  Wallets = {alice, wallet}
  Dids = {d1, d2}
  Orgs = {bank, provider}
  Users = {alice, wallet}
  Banks = {bank}
  Providers = {provider}
  DataTypes = {"accounts"}
  Durations = {1}
  MaxTime = 3
  MaxConsents = 2
INVARIANTS
  OpenBankingInv
  AccessIsPerDid
PROPERTIES
  RevocationIsFinal
  CheckFollowsDecisions
SYMMETRY Symmetry
CHECK_DEADLOCK FALSE
