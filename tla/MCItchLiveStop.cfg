CONSTANTS
  MaxSequence = 5
  Body = {"a", "b", "c", "huge", "bad"}
  Decodable = {"a", "b", "c"}
  Unlimited = Unlimited
  Quotas = {}
  MaxPackets = 3
  EventLimit = 1
  Packets <- MCPackets
  Answers = {}
  Recording <- MCRecording
  TooLarge = {"huge"}
  RecordSize = 2
  CheckpointInterval = 2
  FileSizes = {0, 5, 9}
  OldIndexes <- MCOldIndexes
  NoIndex = NoIndex
SPECIFICATION LiveFairSpec
PROPERTY StopIsObserved
