SPECIFICATION FairSpec
CONSTANTS
  Threads = {t1, t2, t3}
  Connections = {c1, c2, c3}
  DB_POOL_MIN = 1
  DB_POOL_MAX = 2
  Retries = 2
  None = None
INVARIANT
  TypeOK
  ConnectionsAccounted
  TransactionsScoped
  SessionsBounded
PROPERTY
  HealthRecovers
