CONSTANTS
  r1 = r1
  r2 = r2
  DagRun = {r1}
  CollectRun = {r1, r2}
  Flow = {"onboarding"}
  Form = {"i9"}
  Answer = {"alien"}
  Attr = {"alien", "verified"}
  StepId = {"", "done", "i9", "alien?", "everify", "again?", "pause", "note", "mark", "ping", "pong"}
  Definition <- MCFlows
  MaxSteps = 2
  MaxCalls = 2
  MaxMarkers = 1
SPECIFICATION FairSpec
INVARIANTS TypeOK RunningIsScheduled MirrorIsStatus OneLiveCollect
PROPERTIES EndedStaysEnded Settles SubmissionResumes ExpiryEnds
CHECK_DEADLOCK FALSE
