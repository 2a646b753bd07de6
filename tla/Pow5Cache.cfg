\* With capacity 3 the second product of anchor 2 does not fit and every attempt to build fails
\* half way; with capacity 4 all anchors fit, but 5^5 does not.
CONSTANTS
  Threads = {t1, t2, t3}
  Exponents <- AskedFor
  MaxExp = 5
  Stride = 2
  Chunk = 1
  Capacities = {3, 4}
SPECIFICATION FairSpec
INVARIANTS
  IInv
  NoDataRace
PROPERTIES
  PublishedIsFrozen
  ActsAlone
  EveryCallReturns
