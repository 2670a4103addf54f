SPECIFICATION Spec
CONSTANTS
  a1 = a1  a2 = a2  seeded = seeded  watcher = watcher
  k1 = k1  k2 = k2  fund = fund  child = child  rival = rival
  Nobody = Nobody
  Key = {k1, k2}
  Tx = {fund, child, rival}
  Outs <- RivalOuts
  Ins <- RivalIns
  Addr = {a1}
  Owner <- OneOwner
  Wallet = {seeded}
  Watching = {}
  Book <- SeededBook
  Later <- NoLater
  Opaque = {}
  RollbackWindow = 1
  BatchTarget = 1
  MaxHeight = 3
  Env = {"reorg", "chained", "crash", "close", "evict"}
INVARIANTS
  TypeOK
  WalletBalance
  TotalsExact
  PendingInExact
  TrackedConsistent
  
