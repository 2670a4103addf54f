SPECIFICATION Spec
CONSTANTS
  a1 = a1  a2 = a2  first = first  second = second
  c1 = c1  c2 = c2  fund = fund  child = child  rival = rival
  Coin = {c1, c2}
  Tx = {fund, child}
  Outs <- Outputs
  Ins <- Inputs
  Addr = {a1}
  Owner <- Owners
  Wallet = {first}
  Book <- Single
  Universal = {}
  RollbackWindow = 1
  MaxHeight = 3
  MaxDrift = 1
  Env = {"reorg", "close", "send"}
INVARIANTS
  TypeOK TotalsConserved MarksCounted 
