CONSTANTS
  headset = headset
  mouse = mouse
  Processes = {merchant, mcp}
  Texts <- MCTexts
  Batches <- MCBatches
  Models = {titan, cohere}
  Batching = {cohere}
  MaxAttempts = 2
  Off = off
  None = none
  Unreadable = unreadable
  Truncated = truncated
SPECIFICATION LiveEmbeddingSpec
CHECK_DEADLOCK FALSE
INVARIANTS
  EmbeddingTypeOK
  OwnVectors
  NeverPaidTwice
PROPERTIES
  SearchEnds
