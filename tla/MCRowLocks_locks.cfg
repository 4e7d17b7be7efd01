CONSTANTS
  Reqs = {r1, r2, r3}
  Accounts = {1, 2}
  Ids = {1, 2}
  Calls <- MCCalls
  PoolSize = 2
SPECIFICATION FairSpec
INVARIANT OrderedNeverDeadlock
PROPERTY EveryRequestEnds
