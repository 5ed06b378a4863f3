SPECIFICATION FairSpec
CONSTANTS
  Workers = {w1, w2}
  NoWorker = none
  MaxWorkers = 1
  MaxServices = 2
  MaxFailures = 2
CHECK_DEADLOCK FALSE
INVARIANT TypeOK
INVARIANT ReceivesOnlyIfAccepted
INVARIANT EveryAskIsReachable
INVARIANT OneListener
INVARIANT PoolBound
PROPERTY AnswersAreFinal
PROPERTY StopTakesEffect
PROPERTY AnswerTakesEffect
PROPERTY OfferIsSeen
