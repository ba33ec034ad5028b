CONSTANTS
  MaxSequence = 4
  Messages <- MCMessages
  Answers <- MCAnswers
  Quotas = {2}
  Unlimited = Unlimited
  EventLimit = 1
  MaxReceived = 4
  IntentLimit = 1
  WidestSpread = 10
SPECIFICATION EngineFairSpec
INVARIANTS EngineInv IntentsAreDrained
PROPERTIES ImplementsFeed ShutdownCompletes
