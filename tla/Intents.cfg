SPECIFICATION FairSpec
CONSTANTS
  k1 = k1
  k2 = k2
  k3 = k3
  Keys = {k1, k2}
  RequestHashes = {h1, h2}
  TxHashes = {t1, t2}
  NoTx = NoTx
  IntentId <- AmbiguousIds
  Sessions = {u1, c1}
  Updaters = {u1}
  Initial <- Requested
INVARIANTS
  AnswersMatchTheTable
  IntentInv
PROPERTIES
  ReferenceStore
  CallsEnd
