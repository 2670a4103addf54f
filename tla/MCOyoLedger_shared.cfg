SPECIFICATION Spec
CONSTANTS
  a1 = a1  a2 = a2  seeded = seeded  watcher = watcher
  k1 = k1  k2 = k2  fund = fund  child = child  rival = rival
  Nobody = Nobody
  Key = {k1, k2}
  Tx = {fund, child}
  Outs <- ChainOuts
  Ins <- ChainIns
  Addr = {a1, a2}
  Owner <- TwoOwners
  Wallet = {seeded, watcher}
  Watching = {watcher}
  Book <- SharedBook
  Later <- SharedLater
  Opaque = {}
  RollbackWindow = 1
  BatchTarget = 2
  MaxHeight = 2
  Env = {"reorg", "close", "send"}
INVARIANT WalletBalance
