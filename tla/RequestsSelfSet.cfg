SPECIFICATION Spec
CONSTANTS
  NULL = NULL
  Garbage = Garbage
  Texts = {t}
  Docs <- MCDocs
  Settable = {"id", "subject", "body", "receiver", "delta_link"}
  Lent = {"id", "subject", "sender"}
  SelfSet = {"id", "subject"}
  NBlocks = 12
  Names <- MCNames
  MaxWrites = 2
INVARIANT CopiesLive
