SPECIFICATION FairSpec
CONSTANTS
  t1 = t1  t2 = t2  r1 = r1  r2 = r2  savings = savings
  Task = {t1, t2}
  Name = {savings}
  NodeWallet = {savings}
  Request = {r1}
  Ticker = Ticker
  Manual = Manual
  MaxNow = 1
  MaxLife = 1
INVARIANTS
  TypeOK AtMostOnce DoneMeansSent
PROPERTIES
  DoneStands KeepsPromise EveryTaskSettles
CHECK_DEADLOCK FALSE
