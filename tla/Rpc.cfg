SPECIFICATION FairSpec
CONSTANTS
  MaxMessages = 2
  Tokens = {t1, t2}
  NoToken = NoToken
  CommitMayFail = TRUE
INVARIANTS
  TypeOK
  RequestInOnePlace
  AnswerFindsRequest
  EntriesAreOfOpenRequests
  CancelIsForItsRequest
PROPERTIES
  ImplementsRequestService
  OnlyTheHandlerDelays
  CancellationArrives
CHECK_DEADLOCK FALSE
