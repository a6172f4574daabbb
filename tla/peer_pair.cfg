CONSTANTS
  a = a
  b = b
  c = c
  Replica = {a, b}
  Link <- MCPair
  MaxSeq <- MCTwoEvents
  MaxLoss = 2
  Announces = {a, b}
SPECIFICATION FairSpec
INVARIANTS TypeOK SentIsHeld AuthoredAndKept
PROPERTIES ImplementsLog VectorsConverge ConvergeWithoutLoss
CHECK_DEADLOCK FALSE
