SPECIFICATION Spec
CONSTANTS
  NULL = NULL
  Garbage = Garbage
  Texts = {t}
  Docs <- MCDocs
  Settable = {"id", "subject", "body", "receiver", "delta_link"}
  Lent = {"id", "subject", "sender"}
  SelfSet = {"subject"}
  NBlocks = 12
  Names <- MCNames
  MaxWrites = 2
INVARIANTS
  TypeOK
  SentKnown
  OneItem
  NameAsGiven
  UploadKept
PROPERTY RecordImplemented
