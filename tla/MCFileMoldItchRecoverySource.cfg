SPECIFICATION SourceSpec
CONSTANTS
  Body = {"a", "b", "huge"}
  TooLarge = {"huge"}
  Files <- MCFiles
  Garbage <- MCGarbage
  Intervals = {0, 1, 2}
  Requests <- MCRequests
  NoFile = NoFile
  NoHeader = NoHeader
INVARIANTS IInv StartIsReady AnswerIsTheFile RangeIsAnswered
