CONSTANTS
  w1 = w1
  w2 = w2
  NONE = NONE
  Procs <- MCOne
  Prefixes <- MCPrefix
  Keys <- MCFullKeys
  Values <- MCTwoBlobs
  MaxKey = 3
  Ttls = {0}
  DeleteTtls = {0}
  MaxBatch = 0
  MaxTime = 2
  MaxCalls = 2
  TypeSpan <- MCTypeSpan
  OrigSpan <- MCOrigSpan
  KlenSpan <- MCKlenSpan
  VlenSpan <- MCVlenSpan
  Threshold <- MCThreshold
  MaxEntry <- MCMaxEntry
SPECIFICATION Spec
SYMMETRY Symmetry
INVARIANTS GotWasAsked
