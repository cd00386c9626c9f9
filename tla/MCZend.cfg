\* Three names, two values of one type and one of each other, memory for
\* every zval that can be alive.
SPECIFICATION TaintSpec
CONSTANTS
  x = x
  y = y
  p = p
  NULL = NULL
  Names <- MCNames
  Ids = {1, 2, 3, 4, 5, 6}
  Bufs = {1, 2, 3, 4, 5, 6}
  Longs = {1}
  Texts = {1, 2}
  Tracked <- MCTracked
VIEW AddressFree
INVARIANTS RefcountsExact BuffersOwned
PROPERTIES ImplementsVariables
