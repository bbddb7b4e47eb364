CONSTANTS
  FileSize = 3
  MaxRead = 2
  MaxOffset = 4
  ErrorLength = 0
  None = None
SPECIFICATION Spec
INVARIANT SeekEndAtEnd
