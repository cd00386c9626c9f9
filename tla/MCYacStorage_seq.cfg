CONSTANTS
  k1 = k1
  k2 = k2
  w1 = w1
  w2 = w2
  a1 = a1
  a2 = a2
  NULL = NULL
  Keys <- MCKeys
  Hash1 <- MCSameSlotHash
  Hash2 <- MCOddStride
  KeyLen <- MCKeyLen
  SlotsSize = 2
  Window = 2
  Workers = {w1}
  Values <- MCMixed
  Byte <- MCBit
  BlockLen = 2
  Flags <- MCFlags
  Addrs <- MCAddrs
  Ttls <- MCTtls
  TornCopies = FALSE
  Flushes = FALSE
  MaxTime = 3
  MaxFinds = 1
  MaxWrites = 3
SPECIFICATION Spec
SYMMETRY Symmetry
INVARIANTS TypeOK SlotsAreStored PrimaryNotMissed
 
