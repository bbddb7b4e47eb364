CONSTANTS
  FileSize = 4
  MaxRead = 2
  MaxOffset = 5
  ErrorLength = 1
  None = None
SPECIFICATION Spec
INVARIANT TypeOK
INVARIANT ReadsAtTell
INVARIANT EndOfFile
INVARIANT RequestInForce
INVARIANT PendingIsTask
INVARIANT TokenStaysHome
PROPERTY FailureKeepsPosition
PROPERTY FileImplemented
