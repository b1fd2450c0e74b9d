INIT MCInit
NEXT MCNext
CONSTANTS
  Documents <- SomeDocuments
  MaxElements = 1
  Target = 8
  Maximum = 12
  Overlap = 3
  MinSlice = 1
  Chunks <- SomeChunks
  MaxChunk = 4
  K = 2
  MinFetch = 1
  Growth = 1
  Stride = 1
  MaxRounds = 2
  MaxFetch = 4
  MaxWrites = 1
  Retrieved <- SomeRetrieved
  MaxRetrieved = 4
  ContextTokens = 14
  SystemTokens = 3
  OutputTokens = 3
  MaxChunks = 2
  Conversations <- SomeConversations
  ListLimit = 4
  Window = 2
  MaxHistory = 4
  QueryTokens = {1, 2}
  SystemPrompt = 2
  PerToken = 1
INVARIANT HistorySlides
CHECK_DEADLOCK FALSE
