SPECIFICATION FairSpec
CONSTANTS
  a1 = a1  a2 = a2  seeded = seeded  watcher = watcher
  k1 = k1  k2 = k2  fund = fund  child = child  rival = rival
  Nobody = Nobody
  Key = {k1, k2}
  Tx = {fund, child}
  Outs <- ChainOuts
  Ins <- ChainIns
  Addr = {a1}
  Owner <- OneOwner
  Wallet = {seeded}
  Watching = {}
  Book <- SeededBook
  Later <- NoLater
  Opaque = {}
  RollbackWindow = 2
  BatchTarget = 1
  MaxHeight = 2
  Env = {"reorg", "chained", "crash", "evict"}
PROPERTIES
  CatchesUp
  PendingMatchesPool
