SPECIFICATION Spec
CONSTANTS
  a1 = a1  a2 = a2  first = first  second = second
  c1 = c1  c2 = c2  fund = fund  child = child  rival = rival
  Coin = {c1, c2}
  Tx = {fund, child}
  Outs <- Outputs
  Ins <- Inputs
  Addr = {a1, a2}
  Owner <- Change
  Wallet = {first, second}
  Book <- Twins
  Universal = {second}
  RollbackWindow = 1
  MaxHeight = 2
  MaxDrift = 1
  Env = {"evict", "close", "send", "restart"}
INVARIANTS
  WalletBalance
PROPERTIES
  PendingFollowsPool
