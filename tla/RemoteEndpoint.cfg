CONSTANTS
  Threads = {t1, t2}
  MaxRequests = 2
  EfdMax = 2
SPECIFICATION FairEndpointSpec
INVARIANTS NoLostRequest AnswerIsOwn
PROPERTIES CallReturns EveryRequestRuns
