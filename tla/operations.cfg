CONSTANTS
  c1 = c1
  r1 = r1
  e1 = e1
  w1 = w1
  w2 = w2
  Coll = {c1}
  Run = {r1}
  CollTick = {e1}
  WaitTick = {w1, w2}
  StepOf <- MCStepOf
  PhaseOf <- MCPhaseOf
  FireAt <- MCFireAt
  ExpiresAt <- MCExpiresAt
  CollectStep = {"ask"}
  Batch = 1
  MaxTime = 1
  MaxAborts = 1
SPECIFICATION FairSpec
INVARIANTS TypeOK AlarmCovers WaitTimed
PROPERTIES SettledForGood TicksSettle
CHECK_DEADLOCK FALSE
