CONSTANTS
  w1 = w1
  w2 = w2
  NONE = NONE
  Procs <- MCOne
  Prefixes <- MCPrefixes
  Keys <- MCMixedKeys
  Values <- MCCorners
  MaxKey = 4
  Ttls = {0}
  DeleteTtls = {0, 1}
  MaxBatch = 0
  MaxTime = 2
  MaxCalls = 3
  TypeSpan <- MCTypeSpan
  OrigSpan <- MCOrigSpan
  KlenSpan <- MCKlenSpan
  VlenSpan <- MCVlenSpan
  Threshold <- MCThreshold
  MaxEntry <- MCMaxEntry
SPECIFICATION Spec
INVARIANTS  EntriesDecode
