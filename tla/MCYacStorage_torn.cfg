CONSTANTS
  k1 = k1
  k2 = k2
  w1 = w1
  w2 = w2
  a1 = a1
  a2 = a2
  NULL = NULL
  Keys <- MCKeys
  Hash1 <- MCOtherSlotHash
  Hash2 <- MCOddStride
  KeyLen <- MCKeyLen
  SlotsSize = 1
  Window = 2
  Workers <- MCWorkers
  Values <- MCShort
  Byte <- MCBit
  BlockLen = 2
  Flags = {0}
  Addrs <- MCAddrs
  Ttls = {0}
  TornCopies = TRUE
  Flushes = FALSE
  MaxTime = 2
  MaxFinds = 1
  MaxWrites = 2
SPECIFICATION Spec
SYMMETRY Symmetry
INVARIANTS TornHitIntegrity
