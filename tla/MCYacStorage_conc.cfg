CONSTANTS
  k1 = k1
  k2 = k2
  w1 = w1
  w2 = w2
  a1 = a1
  a2 = a2
  NULL = NULL
  Keys <- MCKeys
  Hash1 <- MCSameSlotHash
  Hash2 <- MCOddStride
  KeyLen <- MCKeyLen
  SlotsSize = 2
  Window = 2
  Workers <- MCWorkers
  Values <- MCLong
  Byte <- MCBit
  BlockLen = 3
  Flags <- MCFlags
  Addrs <- MCAddrs
  Ttls = {0}
  TornCopies = FALSE
  Flushes = FALSE
  MaxTime = 2
  MaxFinds = 2
  MaxWrites = 2
SPECIFICATION Spec
SYMMETRY Symmetry
INVARIANTS HitsAreStored HitsAreWhole StatsNeverOvercount 
PROPERTIES ImplementsCache
