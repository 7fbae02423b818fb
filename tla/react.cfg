SPECIFICATION ParserSpec
CONSTANT MaxTokens = 7
CHECK_DEADLOCK FALSE
INVARIANTS NothingLostOrDoubled CleanHidesNothing AsAskedIsClean
