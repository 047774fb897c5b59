SPECIFICATION Spec
CONSTANTS
  k1 = k1
  k2 = k2
  k3 = k3
  Keys = {k1}
  RequestHashes = {h1}
  TxHashes = {t1}
  NoTx = NoTx
  IntentId <- AmbiguousIds
  Sessions = {u1, u2}
  Updaters = {u1, u2}
  Initial <- Requested
PROPERTY TransitionsAreLegal
