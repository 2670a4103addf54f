SPECIFICATION Spec
CONSTANTS
  w1 = w1  r1 = r1  r2 = r2  t1 = t1  t2 = t2
  NoOne = NoOne
  Wallet = {w1}
  Request = {r1}
  Tailer = {t1}
  Preallocated = 1
  MaxAddress = 2
  MaxStarting = 2
PROPERTY AddressesRestored
