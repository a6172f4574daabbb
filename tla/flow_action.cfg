CONSTANTS
  r1 = r1
  r2 = r2
  DagRun = {r1}
  CollectRun = {}
  Flow = {"onboarding"}
  Form = {"i9"}
  Answer = {"alien"}
  Attr = {"alien", "verified"}
  StepId = {"", "done", "i9", "alien?", "everify", "again?", "pause", "note", "mark", "ping", "pong"}
  Definition <- MCFlows
  MaxSteps = 2
  MaxCalls = 2
  MaxMarkers = 2
SPECIFICATION FairSpec
PROPERTIES ActionResultRecorded
CHECK_DEADLOCK FALSE
