SPECIFICATION Spec
CONSTANTS
  InputTokensLimit = 25
  TokensPerImage = 2
  MaxObservations = 2
  Window = 2
  PinnedTokens = 4
  RequestTokens = 1
  ResponseTokens <- MCResponseTokens
  Alone = FALSE
  Defuser = TRUE
  EnableNobf = TRUE
  MaxTurns = 4
CHECK_DEADLOCK FALSE
INVARIANTS PromptFits RecordedAsSent FramesInWindow SkipIsExplained
