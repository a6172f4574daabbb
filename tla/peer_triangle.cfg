CONSTANTS
  a = a
  b = b
  c = c
  Replica = {a, b, c}
  Link <- MCTriangle
  MaxSeq <- MCOneEvent
  MaxLoss = 0
  Announces = {b, c}
SPECIFICATION FairSpec
PROPERTIES Quiescence VectorsConverge
CHECK_DEADLOCK FALSE
