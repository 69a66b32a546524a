CONSTANTS
  MaxMessages = 3
  Kinds = {"request", "failing", "ignored", "broken", "compile", "shutdown", "named", "namedShutdown"}
  Capacity = 3
  Atomic = 1
  LogSizes = {1}
  ResponseSizes = {1}
  PublishSizes = {1, 2}
SPECIFICATION FairSpec
INVARIANTS TypeOK NoRequestIsForgotten
PROPERTIES AnswersRequests EndsWhenAsked
CHECK_DEADLOCK FALSE
