CONSTANTS
  candle = candle
  indicator = indicator
  N = 3
  Topics <- MCTopics
  Silent = silent
  Topic <- MCTopic
  Emits <- MCEmits
  MaxQueue <- MCMaxQueue
  DlqSize = 1
  MaxEvents = 2
  Healthy <- MCHealthy
SPECIFICATION FairSpec
INVARIANTS OnceEach InOrder JoinDrains
PROPERTIES Isolation
