SPECIFICATION FairSpec
CONSTANTS
  f1 = f1
  f2 = f2
  first = first
  second = second
  text = text
  plain = plain
  clickstat = clickstat
  clickstatbbb = clickstatbbb
  NONE = NONE
  Fingers = {f1, f2}
  Elements <- MCElements
  Actors <- MCActors
  ClassOf <- MCClassOf
  IsAndroid = TRUE
  MaxTimers = 3
INVARIANT OneHighlight
PROPERTY HighlightEnds
