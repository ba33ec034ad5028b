CONSTANTS
  ByteBase = 8
  EventLimit = 1
  MaxDatagramSize = 80
  Session <- Session0
  RequestedMessages = {1, 2, 12}
  Files <- MCFiles
  GapFiles <- MCGapFiles
  MaxPayloadSize = 60
  Scripts <- MCScripts
  SocketLimit = 3
  MaxSequence = 20
  Body <- MCBody
  Decodable <- MCDecodable
  Packets = {}
  Answers = {}
  Quotas = {}
  Unlimited = Unlimited
  MaxPackets = 10
SPECIFICATION SessionFairSpec
INVARIANTS ReplayInv DatagramsCarryTheFile InjectedGapsAreFilled
PROPERTY ReplayEnds
