CONSTANTS
  w1 = w1
  w2 = w2
  NONE = NONE
  Procs <- MCProcs
  Prefixes <- MCNoPrefix
  Keys <- MCKeys
  Values <- MCTwoBlobs
  MaxKey = 4
  Ttls = {0, 1}
  DeleteTtls = {0}
  MaxBatch = 2
  MaxTime = 3
  MaxCalls = 2
  TypeSpan <- MCTypeSpan
  OrigSpan <- MCOrigSpan
  KlenSpan <- MCKlenSpan
  VlenSpan <- MCVlenSpan
  Threshold <- MCThreshold
  MaxEntry <- MCMaxEntry
SPECIFICATION Spec
SYMMETRY Symmetry
INVARIANTS TypeOK GotWasAsked EntriesAsAsked AddReportsAll
PROPERTIES AddNeverOverwrites
