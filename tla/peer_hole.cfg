CONSTANTS
  a = a
  b = b
  c = c
  Replica = {a, b}
  Link <- MCPair
  MaxSeq <- MCTwoEvents
  MaxLoss = 1
  Announces = {a, b}
SPECIFICATION FairSpec
PROPERTY EventualConvergence
CHECK_DEADLOCK FALSE
