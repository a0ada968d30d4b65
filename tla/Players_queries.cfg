SPECIFICATION FairSpec
CONSTANTS
  Names <- MCNames
  Calls <- MCCalls
  Of <- MCOf
  Kinds = {"pos", "raw"}
  RconCap = 1
  QueueCap = 1
  MaxDrops = 1
  MaxMoves = 3
INVARIANTS NoAnswerLost OnlineIsThere RconFailsForCause
PROPERTY CallsReturn
CHECK_DEADLOCK FALSE
