SPECIFICATION FairSpec
CONSTANTS
  Tokens = {t1, t2, t3}
  Sockets = {s1, s2}
  Admins = {alice}
  MaxSessions = 2
  MaxFaults = 1
  NoToken = NoToken
  Nobody = Nobody
INVARIANTS KeysBelongToSessions OneSocketPerSession EverySessionHasKeeper NoReaderOnClosedMaster
PROPERTIES ImplementsOneTime DrainEmptiesRegistry EndedConsoleIsCleared
