CONSTANTS
  MaxSequence = 5
  Unlimited = Unlimited
  Quotas = {1}
  MaxAccepted = 3
  MaxFrames = 2
  Datagrams <- MCDatagrams
  Answers <- MCAnswers
SPECIFICATION FairSpec
INVARIANTS IInv
PROPERTIES ImplementsFeed AcceptedIsCovered BrokenFramingChangesNothing StopEndsRun
