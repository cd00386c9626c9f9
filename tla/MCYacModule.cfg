\* Two workers of a master that may be started again with other settings.
SPECIFICATION Spec
CONSTANTS
  w1 = w1
  w2 = w2
  Master = Master
  NONE = NONE
  Workers <- MCWorkers
  HeaderBytes = 24
  SlotBytes = 8
  IntSpan = 16
  LongSpan = 4096
  MinCompressThreshold = 10
  Configs <- MCConfigs
  Overrides <- MCOverrides
  UserValues <- MCUserValues
  Segments <- MCSegments
  Prefixes = {0, 1}
SYMMETRY Symmetry
INVARIANTS  ShutdownPaired SettingsRestored PrefixHonoured  SlotsFit
