CONSTANTS
  MaxSequence = 7
  Unlimited = Unlimited
  Quotas = {}
  MaxAccepted = 0
  Datagrams <- MCDatagrams
  Answers <- MCAnswers
  QueueLimit = 2
  MaxReceived = 3
  EventLimit = 1
SPECIFICATION LiveFairSpec
INVARIANTS LiveInv EventsAreDrained EarlierDatagramsAreProcessed
PROPERTIES ShutdownCompletes
