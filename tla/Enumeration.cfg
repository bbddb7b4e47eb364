CONSTANTS
  i1 = i1
  i2 = i2
  Ids <- MCIds
  None = None
  MaxPages = 3
  MaxLength = 1
SPECIFICATION Spec
INVARIANT TypeOK
INVARIANT Enumerated
INVARIANT Synced
