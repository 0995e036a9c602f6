CONSTANTS
  k1 = k1  k2 = k2  k3 = k3
  acme = acme  corp = corp
  x = x  y = y
  author = author  stranger = stranger
  t1 = t1  t2 = t2  t3 = t3
  Garbage = Garbage  NoRecord = NoRecord  NoRequest = NoRequest
  NoReply = NoReply  NoEntry = NoEntry  NoThread = NoThread
  Keys <- MCKeys
  Tenants <- MCTenants
  TenantOf <- MCTenantOf
  Tokens = {x, y}
  Signers = {author, stranger}
  AllowedSigners = {author}
  Records <- MCRecords
  Requests <- MCRequests
  Threads = {t1, t2, t3}
  MaxRequests = 3
SPECIFICATION FairSpec
CHECK_DEADLOCK FALSE

INVARIANTS OnlyAdmitted IndexMirrorsRecords
PROPERTIES WritesAdvance ImplementsAtomicStore EveryCallReturns
