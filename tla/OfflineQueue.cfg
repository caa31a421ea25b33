SPECIFICATION FairSpec
CONSTANTS
  Requests = {r1, r2, r3}
  MaxOffline = 2
CHECK_DEADLOCK FALSE
INVARIANTS TypeOK HeadIsCurrent AtMostOnce
PROPERTIES RefinesOutbox StoredIsSent
