CONSTANTS
  Documents = {d1, d2}
  Entities = {x1}
  Types = {imprint, privacy}
  Visitors = {v1, v2}
  Editors = {e1}
  TTLs = {0, 1}
  Patience = 1
  MaxTime = 2
  MaxWrites = 1
  NoRow = NoRow
  NoEntry = NoEntry
SPECIFICATION MCSpec
SYMMETRY Symmetry
INVARIANTS
  TypeOK
  StaleExpires
  PublishedAtOnce
  NeverOtherType
CHECK_DEADLOCK FALSE
