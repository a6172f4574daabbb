--------------------------- MODULE OperationsProofs ---------------------------
(* Operations, for every set of collections, runs and ticks, every batch size  *)
(* and any number of drains that end early.                                    *)
EXTENDS Operations, TLAPS

Orders == INSTANCE Orders

\* Of any ticks one comes first.
LEMMA Earliest ==
  ASSUME NEW T \in SUBSET Tick, T # {}
  PROVE  \E t \in T : \A u \in T : Before(t, u)
<1> DEFINE U == {FireAt[t] : t \in T}
<1>1. \A t \in T : FireAt[t] \in Nat
  BY OperationsAssumption DEF Tick
<1>2. U \in SUBSET Nat /\ U # {}
  BY <1>1
<1>3. PICK k \in U : \A j \in U : k <= j
  <2> HIDE DEF U
  <2> QED BY <1>2, Orders!LeastNatural
<1>4. \A u \in T : k <= FireAt[u]
  BY <1>3
<1>5. CASE \E t \in T \cap CollTick : FireAt[t] = k
  <2>1. PICK t \in T \cap CollTick : FireAt[t] = k
    BY <1>5
  <2>2. \A u \in T : Before(t, u)
    BY <2>1, <1>1, <1>4 DEF Before
  <2> QED BY <2>2
<1>6. CASE \A t \in T \cap CollTick : FireAt[t] # k
  <2>1. PICK t \in T : FireAt[t] = k
    BY <1>3
  <2>2. ASSUME NEW u \in T PROVE Before(t, u)
    <3>1. u \in CollTick \/ u \in WaitTick
      BY DEF Tick
    <3>2. u \in CollTick => FireAt[u] # k
      BY <1>6
    <3> QED BY <2>1, <3>1, <3>2, <1>1, <1>4 DEF Before
  <2> QED BY <2>2
<1> QED BY <1>5, <1>6

\* The time armed is no later than any of the ticks it is armed for.
LEMMA FirstCovers ==
  ASSUME NEW T \in SUBSET Tick
  PROVE  /\ FirstOf(T) \in Time \cup {Never}
         /\ \A u \in T : FirstOf(T) <= FireAt[u]
<1>0. \A t \in Tick : FireAt[t] \in Time
  BY OperationsAssumption DEF Tick, Time
<1>1. CASE T = {}
  BY <1>1 DEF FirstOf
<1>2. CASE T # {}
  <2> DEFINE first == CHOOSE t \in T : \A u \in T : Before(t, u)
  <2>1. first \in T /\ \A u \in T : Before(first, u)
    BY <1>2, Earliest
  <2>2. FirstOf(T) = FireAt[first]
    BY <1>2 DEF FirstOf
  <2> HIDE DEF first
  <2>3. \A u \in T : FireAt[first] <= FireAt[u]
    BY <2>1, <1>0, OperationsAssumption DEF Before, Time
  <2> QED BY <1>0, <2>1, <2>2, <2>3
<1> QED BY <1>1, <1>2

\* What a firing changes: a pending tick is settled; a collection that is issued may
\* expire; a run that waits may run at the tick's step.
LEMMA FireEffect ==
  ASSUME TypeOK, NEW t \in Tick, FireCollectionTick(t) \/ FireFlowWaitTick(t)
  PROVE  /\ \/ UNCHANGED <<tick, coll, run>>
            \/ /\ tick[t].status = "pending"
               /\ \E s \in {"fired", "skipped"} : tick' = [tick EXCEPT ![t].status = s]
         /\ \/ coll' = coll
            \/ \E c \in Coll : /\ coll[c] = "issued"
                               /\ \E s \in {"issued", "expired"} : coll' = [coll EXCEPT ![c] = s]
         /\ \/ /\ run' = run
               /\ t \in WaitTick /\ tick' # tick => run[tick[t].of].status # "waiting"
            \/ /\ t \in WaitTick /\ tick[t].of \in Run
               /\ run' = [run EXCEPT ![tick[t].of] = [status |-> "running", at |-> StepOf[t]]]
<1>1. CASE FireCollectionTick(t)
  <2>1. t \in CollTick /\ t \notin WaitTick
    BY <1>1, OperationsAssumption DEF FireCollectionTick
  <2>2. tick[t].status = "pending" => tick[t].of \in Coll
    BY <2>1 DEF TypeOK
  <2> QED BY <1>1, <2>1, <2>2 DEF FireCollectionTick, Mark
<1>2. CASE FireFlowWaitTick(t)
  <2>1. t \in WaitTick /\ t \notin CollTick
    BY <1>2, OperationsAssumption DEF FireFlowWaitTick
  <2>2. tick[t].status = "pending" => tick[t].of \in Run
    BY <2>1 DEF TypeOK
  <2> QED BY <1>2, <2>1, <2>2 DEF FireFlowWaitTick, Mark
<1> QED BY <1>1, <1>2

\* Every step keeps every variable in its range, and the target of a tick in place.
LEMMA TypeStep == TypeOK /\ [Next]_vars => TypeOK'
<1> SUFFICES ASSUME TypeOK, [Next]_vars PROVE TypeOK'
  OBVIOUS
<1>0. Pending \in SUBSET Tick /\ WaitTick \subseteq Tick /\ CollTick \subseteq Tick
  BY DEF Pending, Tick
<1>1. ASSUME NEW c \in Coll, Issue(c) \/ Submit(c) PROVE TypeOK'
  <2>1. coll \in [Coll -> {"none", "issued", "submitted", "expired"}]
    BY DEF TypeOK
  <2>2. \E s \in {"issued", "submitted", "expired"} : coll' = [coll EXCEPT ![c] = s]
    BY <1>1 DEF Issue, Issued, Submit
  <2>3. /\ coll' \in [Coll -> {"none", "issued", "submitted", "expired"}]
        /\ \A q \in Coll : coll[q] # "none" => coll'[q] # "none"
    BY <2>1, <2>2
  <2>4. UNCHANGED <<clock, tick, run, entered, alarm, drain, owed, untimed, aborts>>
    BY <1>1 DEF Issue, Submit
  <2> QED BY <2>3, <2>4 DEF TypeOK
<1>2. ASSUME NEW t \in CollTick, NEW c \in Coll, ScheduleCollectionTick(t, c) PROVE TypeOK'
  BY <1>2, <1>0 DEF ScheduleCollectionTick, Scheduled, TypeOK
<1>3. ASSUME NEW t \in WaitTick, NEW r \in Run, ScheduleFlowWaitTick(t, r) PROVE TypeOK'
  <2>1. t \notin CollTick
    BY OperationsAssumption
  <2>2. untimed' \subseteq Run
    BY <1>3 DEF ScheduleFlowWaitTick, TypeOK
  <2> QED BY <1>3, <1>0, <2>1, <2>2 DEF ScheduleFlowWaitTick, Scheduled, TypeOK
<1>4. ASSUME NEW t \in WaitTick, NEW r \in Run, ExecuteWaitStep(r, t) PROVE TypeOK'
  <2>1. t \notin CollTick /\ StepOf[t] \in Step
    BY OperationsAssumption DEF Step, WaitStep
  <2>2. /\ run' \in [Run -> [status : RunStatus \cup {"none"}, at : Step \cup {""}]]
        /\ \A q \in Run : run[q].status # "none" => run'[q].status # "none"
        /\ run'[r].status # "none"
    BY <1>4, <2>1 DEF ExecuteWaitStep, Parked, TypeOK, RunStatus
  <2>a. entered' \subseteq Run \X WaitTick
    <3>1. entered \subseteq Run \X WaitTick /\ <<r, t>> \in Run \X WaitTick
      BY DEF TypeOK
    <3>2. entered' = entered \cup {<<r, t>>}
      BY <1>4 DEF ExecuteWaitStep
    <3> QED BY <3>1, <3>2
  <2>b. untimed' \subseteq Run
    <3>1. untimed \subseteq Run
      BY DEF TypeOK
    <3>2. untimed' = untimed \ {r} \/ untimed' = untimed \cup {r}
      BY <1>4, Zenon DEF ExecuteWaitStep
    <3> QED BY <3>1, <3>2
  <2>c. owed' \in BOOLEAN
    <3>1. owed \in BOOLEAN
      BY DEF TypeOK
    <3>2. owed' = owed \/ owed' = TRUE
      BY <1>4, Zenon DEF ExecuteWaitStep
    <3> QED BY <3>1, <3>2, Zenon
  <2>3. entered' \subseteq Run \X WaitTick /\ untimed' \subseteq Run /\ owed' \in BOOLEAN
    BY <2>a, <2>b, <2>c
  <2>4. CASE tick' = tick
    <3>1. UNCHANGED <<clock, coll, alarm, drain, aborts>>
      BY <1>4 DEF ExecuteWaitStep
    <3>2. run' \in [Run -> [status : RunStatus \cup {"none"}, at : Step \cup {""}]]
      BY <2>2
    <3>3. \A x \in Run : run[x].status # "none" => run'[x].status # "none"
      BY <2>2
    <3>4. \A x \in Tick : tick'[x].status # "none" =>
            tick'[x].of \in IF x \in CollTick THEN {c \in Coll : coll'[c] # "none"}
                           ELSE {q \in Run : run'[q].status # "none"}
      BY <2>4, <3>1, <3>3 DEF TypeOK
    <3> QED BY <2>3, <2>4, <3>1, <3>2, <3>4 DEF TypeOK
  <2>5. CASE Scheduled(t, r)
    <3>1. UNCHANGED <<clock, coll, alarm, drain, aborts>>
      BY <1>4 DEF ExecuteWaitStep
    <3>2. tick' \in [Tick -> [status : {"none", "pending", "fired", "skipped"},
                             of : Coll \cup Run \cup {""}]]
      BY <1>0, <2>5 DEF Scheduled, TypeOK
    <3>3. \A x \in Tick : tick'[x].status # "none" =>
            tick'[x].of \in IF x \in CollTick THEN {c \in Coll : coll'[c] # "none"}
                           ELSE {q \in Run : run'[q].status # "none"}
      <4>1. tick'[t].of = r /\ \A x \in Tick \ {t} : tick'[x] = tick[x]
        BY <1>0, <2>5 DEF Scheduled, TypeOK
      <4>2. \A x \in Tick \ {t} : tick[x].status # "none" =>
              tick[x].of \in IF x \in CollTick THEN {c \in Coll : coll'[c] # "none"}
                            ELSE {q \in Run : run'[q].status # "none"}
        BY <2>2, <3>1 DEF TypeOK
      <4> QED BY <2>1, <2>2, <4>1, <4>2
    <3> QED BY <2>2, <2>3, <3>1, <3>2, <3>3 DEF TypeOK
  <2> QED BY <1>4, <2>4, <2>5 DEF ExecuteWaitStep
<1>5. ASSUME NEW r \in Run, NEW s \in CollectStep, NEW c \in Coll, ExecuteCollectStep(r, s, c)
      PROVE  TypeOK'
  <2>1. s \in Step
    BY DEF Step
  <2> QED BY <1>5, <2>1 DEF ExecuteCollectStep, Issued, Parked, TypeOK, RunStatus
<1>6. ASSUME NEW r \in Run, NEW status \in RunStatus, NEW s \in Step \cup {""},
             RecordDagRun(r, status, s) \/ ResumeDagRun(r, status, s)
      PROVE  TypeOK'
  <2>1. RecordDagRun(r, status, s)
    BY <1>6 DEF ResumeDagRun
  <2>2. run' = [run EXCEPT ![r] = [status |-> status, at |-> s]]
    BY <2>1 DEF RecordDagRun
  <2>3. run \in [Run -> [status : RunStatus \cup {"none"}, at : Step \cup {""}]] /\ status # "none"
    BY DEF TypeOK, RunStatus, EndStatus
  <2>4. run' \in [Run -> [status : RunStatus \cup {"none"}, at : Step \cup {""}]]
    BY <2>2, <2>3
  <2>5. \A q \in Run : run[q].status # "none" => run'[q].status # "none"
    BY <2>2, <2>3
  <2>6. untimed' \subseteq Run
    BY <2>1 DEF RecordDagRun, TypeOK
  <2> QED BY <2>1, <2>4, <2>5, <2>6 DEF RecordDagRun, TypeOK
<1>7. ASSUME NEW t \in Tick, Fire(t), alarm' = alarm, drain' \in [on : BOOLEAN, left : SUBSET Tick]
      PROVE  TypeOK'
  <2>1. FireCollectionTick(t) \/ FireFlowWaitTick(t)
    BY <1>7 DEF Fire
  <2>2. /\ \/ tick' = tick
           \/ \E s \in {"fired", "skipped"} : tick[t].status = "pending" /\ tick' = [tick EXCEPT ![t].status = s]
        /\ \/ coll' = coll
           \/ \E c \in Coll : \E s \in {"issued", "expired"} : coll' = [coll EXCEPT ![c] = s]
        /\ \/ run' = run
           \/ /\ t \in WaitTick /\ tick[t].of \in Run
              /\ run' = [run EXCEPT ![tick[t].of] = [status |-> "running", at |-> StepOf[t]]]
    BY <2>1, FireEffect
  <2>3. /\ coll' \in [Coll -> {"none", "issued", "submitted", "expired"}]
        /\ \A c \in Coll : coll[c] # "none" => coll'[c] # "none"
    <3>1. coll \in [Coll -> {"none", "issued", "submitted", "expired"}]
      BY DEF TypeOK
    <3> QED BY <2>2, <3>1
  <2>4. (t \in WaitTick => StepOf[t] \in Step) /\ "running" \in RunStatus
    BY DEF Step, WaitStep, RunStatus
  <2>5. /\ run' \in [Run -> [status : RunStatus \cup {"none"}, at : Step \cup {""}]]
        /\ \A q \in Run : run[q].status # "none" => run'[q].status # "none"
    <3>1. run \in [Run -> [status : RunStatus \cup {"none"}, at : Step \cup {""}]]
      BY DEF TypeOK
    <3>2. CASE run' = run
      BY <3>1, <3>2
    <3>3. CASE t \in WaitTick /\ tick[t].of \in Run
               /\ run' = [run EXCEPT ![tick[t].of] = [status |-> "running", at |-> StepOf[t]]]
      BY <3>1, <3>3, <2>4
    <3> QED BY <2>2, <3>2, <3>3
  <2>6. /\ tick' \in [Tick -> [status : {"none", "pending", "fired", "skipped"}, of : Coll \cup Run \cup {""}]]
        /\ \A u \in Tick : /\ tick'[u].of = tick[u].of
                           /\ tick'[u].status # "none" => tick[u].status # "none"
    <3>1. tick \in [Tick -> [status : {"none", "pending", "fired", "skipped"}, of : Coll \cup Run \cup {""}]]
      BY DEF TypeOK
    <3>2. CASE tick' = tick
      BY <3>1, <3>2
    <3>3. ASSUME NEW s \in {"fired", "skipped"}, tick[t].status = "pending",
                 tick' = [tick EXCEPT ![t].status = s]
          PROVE  /\ tick' \in [Tick -> [status : {"none", "pending", "fired", "skipped"}, of : Coll \cup Run \cup {""}]]
                 /\ \A u \in Tick : /\ tick'[u].of = tick[u].of
                                    /\ tick'[u].status # "none" => tick[u].status # "none"
      BY <3>1, <3>3
    <3> QED BY <2>2, <3>2, <3>3
  <2>7. UNCHANGED <<clock, entered, owed, untimed, aborts>>
    BY <1>7 DEF Fire
  <2> QED BY <1>7, <2>3, <2>5, <2>6, <2>7 DEF TypeOK
<1>8. ASSUME NEW t \in Tick, FireTick(t) PROVE TypeOK'
  BY <1>7, <1>8 DEF FireTick, TypeOK
<1>9. CASE Arm
  BY <1>9, <1>0, FirstCovers DEF Arm, TypeOK
<1>10. CASE StartDrain
  <2>1. {t \in Pending : FireAt[t] <= clock} \subseteq Tick
    BY <1>0
  <2>2. drain' \in [on : BOOLEAN, left : SUBSET Tick]
    BY <1>10, <2>1 DEF StartDrain
  <2> QED BY <1>10, <2>2 DEF StartDrain, TypeOK
<1>11. CASE DrainNext
  <2>1. PICK t \in drain.left : Fire(t) /\ drain' = [drain EXCEPT !.left = @ \ {t}] /\ alarm' = alarm
    BY <1>11 DEF DrainNext
  <2>2. t \in Tick /\ drain' \in [on : BOOLEAN, left : SUBSET Tick]
    BY <2>1 DEF TypeOK
  <2> QED BY <1>7, <2>1, <2>2
<1>12. CASE EndDrain
  <2>1. alarm' \in Time \cup {Never}
    BY <1>12, <1>0, FirstCovers DEF EndDrain
  <2>2. drain' \in [on : BOOLEAN, left : SUBSET Tick]
    BY <1>12 DEF EndDrain, TypeOK
  <2> QED BY <1>12, <2>1, <2>2 DEF EndDrain, TypeOK
<1>13. CASE AbortDrain
  <2>1. clock \in Time /\ alarm \in Time \cup {Never} /\ aborts \in 0..MaxAborts
    BY DEF TypeOK
  <2>2. alarm' \in Time \cup {Never}
    BY <1>13, <2>1 DEF AbortDrain
  <2>3. aborts' \in 0..MaxAborts
    BY <1>13, <2>1, OperationsAssumption DEF AbortDrain
  <2>4. drain' \in [on : BOOLEAN, left : SUBSET Tick]
    BY <1>13 DEF AbortDrain
  <2> QED BY <1>13, <2>2, <2>3, <2>4 DEF AbortDrain, TypeOK
<1>14. CASE Pass
  <2>1. clock \in Time
    BY DEF TypeOK
  <2>2. clock' \in Time
    BY <1>14, <2>1, OperationsAssumption DEF Pass, Time
  <2> QED BY <1>14, <2>2 DEF Pass, TypeOK
<1>15. CASE UNCHANGED vars
  BY <1>15 DEF vars, TypeOK
<1> QED BY <1>1, <1>2, <1>3, <1>4, <1>5, <1>6, <1>8, <1>9, <1>10, <1>11, <1>12, <1>13, <1>14, <1>15
        DEF Next, Called

\* The variables keep their ranges, and a tick's collection or run exists.
THEOREM TypeCorrect == Spec => []TypeOK
<1>1. Init => TypeOK
  <2> SUFFICES ASSUME Init PROVE TypeOK
    OBVIOUS
  <2>1. 0 \in Time /\ 0 \in 0..MaxAborts
    BY OperationsAssumption DEF Time
  <2>2. tick \in [Tick -> [status : {"none", "pending", "fired", "skipped"}, of : Coll \cup Run \cup {""}]]
    BY DEF Init
  <2>3. \A t \in Tick : tick[t].status = "none"
    BY DEF Init
  <2>4. run \in [Run -> [status : RunStatus \cup {"none"}, at : Step \cup {""}]]
    BY DEF Init
  <2> QED BY <2>1, <2>2, <2>3, <2>4 DEF Init, TypeOK
<1> QED BY <1>1, TypeStep, PTL DEF Spec

------------------------------------------------------------------------------
(* Waiting runs *)

\* A run that a step neither moves nor robs of its pending ticks still has one.
LEMMA WaitKept ==
  ASSUME WaitTimed, NEW r \in Run \ untimed, run'[r] = run[r],
         \A t \in WaitTick : tick[t].status = "pending" /\ tick[t].of = r => tick'[t] = tick[t],
         run'[r].status = "waiting", run'[r].at \in WaitStep
  PROVE  \E t \in Pending' \cap WaitTick : tick'[t].of = r /\ StepOf[t] = run'[r].at
<1>1. PICK t \in Pending \cap WaitTick : tick[t].of = r /\ StepOf[t] = run[r].at
  BY DEF WaitTimed
<1>2. t \in Pending' /\ tick'[t].of = r
  BY <1>1 DEF Pending
<1> QED BY <1>1, <1>2

\* Every step keeps a tick of its own pending for every run parked at a wait step.
LEMMA WaitStepKept == TypeOK /\ WaitTimed /\ [Next]_vars => WaitTimed'
<1> SUFFICES ASSUME TypeOK, WaitTimed, [Next]_vars, NEW r \in Run \ untimed',
                    run'[r].status = "waiting", run'[r].at \in WaitStep
             PROVE  \E t \in Pending' \cap WaitTick : tick'[t].of = r /\ StepOf[t] = run'[r].at
  BY DEF WaitTimed
<1> DEFINE Goal == \E t \in Pending' \cap WaitTick : tick'[t].of = r /\ StepOf[t] = run'[r].at
<1>0. /\ tick \in [Tick -> [status : {"none", "pending", "fired", "skipped"}, of : Coll \cup Run \cup {""}]]
      /\ run \in [Run -> [status : RunStatus \cup {"none"}, at : Step \cup {""}]]
      /\ WaitTick \subseteq Tick /\ r \notin untimed'
  BY DEF TypeOK, Tick
<1>1. CASE UNCHANGED <<tick, run, untimed>>
  BY <1>0, <1>1, WaitKept
<1>2. ASSUME NEW t \in Tick, NEW of, tick[t].status = "none", Scheduled(t, of), UNCHANGED run,
             r \notin untimed
      PROVE  Goal
  <2>1. \A u \in Tick : u # t => tick'[u] = tick[u]
    BY <1>0, <1>2 DEF Scheduled
  <2>2. \A u \in WaitTick : tick[u].status = "pending" /\ tick[u].of = r => tick'[u] = tick[u]
    BY <1>0, <1>2, <2>1
  <2> QED BY <1>2, <2>2, WaitKept
<1>3. ASSUME NEW t \in WaitTick, NEW q \in Run, ExecuteWaitStep(q, t) PROVE Goal
  <2>1. run' = [run EXCEPT ![q] = [status |-> "waiting", at |-> StepOf[t]]]
    BY <1>3 DEF ExecuteWaitStep, Parked
  <2>2. CASE <<q, t>> \in entered \/ tick[t].status # "none"
    <3>1. tick' = tick /\ untimed' = untimed \cup {q}
      BY <1>3, <2>2 DEF ExecuteWaitStep
    <3>2. r # q /\ r \notin untimed /\ run'[r] = run[r]
      BY <1>0, <2>1, <3>1
    <3> QED BY <3>1, <3>2, WaitKept
  <2>3. CASE ~(<<q, t>> \in entered \/ tick[t].status # "none")
    <3>1. tick' = [tick EXCEPT ![t] = [status |-> "pending", of |-> q]]
          /\ untimed' = untimed \ {q}
      BY <1>3, <2>3 DEF ExecuteWaitStep, Scheduled
    <3>2. CASE r = q
      <4>1. t \in Pending' /\ tick'[t].of = r
        BY <1>0, <3>1, <3>2 DEF Pending
      <4>2. StepOf[t] = run'[r].at
        BY <1>0, <2>1, <3>2
      <4> QED BY <4>1, <4>2
    <3>3. CASE r # q
      <4>1. run'[r] = run[r] /\ r \notin untimed
        BY <1>0, <2>1, <3>1, <3>3
      <4>2. \A u \in WaitTick : tick[u].status = "pending" /\ tick[u].of = r => tick'[u] = tick[u]
        BY <1>0, <2>3, <3>1
      <4> QED BY <3>1, <4>1, <4>2, WaitKept
    <3> QED BY <3>2, <3>3
  <2> QED BY <2>2, <2>3
<1>4. ASSUME NEW q \in Run, NEW s \in CollectStep, NEW c \in Coll, ExecuteCollectStep(q, s, c)
      PROVE  Goal
  <2>1. /\ run' = [run EXCEPT ![q] = [status |-> "waiting", at |-> s]]
        /\ tick' = tick /\ untimed' = untimed \ {q}
    BY <1>4 DEF ExecuteCollectStep, Parked
  <2>2. s \notin WaitStep
    BY OperationsAssumption DEF WaitStep
  <2>3. r # q /\ run'[r] = run[r] /\ r \notin untimed
    BY <1>0, <2>1, <2>2
  <2> QED BY <2>1, <2>3, WaitKept
<1>5. ASSUME NEW q \in Run, NEW status \in RunStatus, NEW s \in Step \cup {""},
             RecordDagRun(q, status, s) \/ ResumeDagRun(q, status, s)
      PROVE  Goal
  <2>1. RecordDagRun(q, status, s)
    BY <1>5 DEF ResumeDagRun
  <2>2. /\ run' = [run EXCEPT ![q] = [status |-> status, at |-> s]] /\ tick' = tick
        /\ untimed' = IF status = "waiting" /\ s \in WaitStep THEN untimed \cup {q} ELSE untimed \ {q}
    BY <2>1 DEF RecordDagRun
  <2>3. r # q
    <3>1. r = q => run'[r].status = status /\ run'[r].at = s
      BY <1>0, <2>2
    <3> QED BY <1>0, <2>2, <3>1
  <2>4. run'[r] = run[r] /\ r \notin untimed
    BY <1>0, <2>2, <2>3
  <2> QED BY <2>2, <2>4, WaitKept
<1>6. ASSUME NEW t \in Tick, Fire(t) PROVE Goal
  <2>0. untimed' = untimed /\ (FireCollectionTick(t) \/ FireFlowWaitTick(t))
    BY <1>6 DEF Fire
  <2>1. CASE UNCHANGED <<tick, run>>
    BY <1>1, <2>0, <2>1
  <2>2. ASSUME NEW s \in {"fired", "skipped"}, tick[t].status = "pending",
               tick' = [tick EXCEPT ![t].status = s]
        PROVE  Goal
    <3>1. \A u \in Tick : u # t => tick'[u] = tick[u]
      BY <1>0, <2>2
    <3>2. CASE t \in CollTick
      <4>1. t \notin WaitTick
        BY <3>2, OperationsAssumption
      <4>2. run' = run
        BY <2>0, <4>1 DEF FireCollectionTick, FireFlowWaitTick
      <4> QED BY <1>0, <2>0, <3>1, <4>1, <4>2, WaitKept
    <3>3. CASE t \in WaitTick
      <4>1. t \notin CollTick /\ tick[t].of \in Run
        BY <2>2, <3>3, OperationsAssumption DEF TypeOK
      <4>2. FireFlowWaitTick(t)
        BY <2>0, <4>1 DEF FireCollectionTick
      <4>3. r # tick[t].of /\ run'[r] = run[r]
        <5> DEFINE q == tick[t].of
        <5>1. \/ run' = run /\ run[q].status # "waiting"
              \/ run' = [run EXCEPT ![q] = [status |-> "running", at |-> StepOf[t]]]
          BY <2>2, <4>2 DEF FireFlowWaitTick
        <5>2. q \in Run
          BY <4>1
        <5> HIDE DEF q
        <5>3. CASE run' = run /\ run[q].status # "waiting"
          BY <5>3 DEF q
        <5>4. CASE run' = [run EXCEPT ![q] = [status |-> "running", at |-> StepOf[t]]]
          <6>1. run'[q].status = "running"
            BY <1>0, <5>2, <5>4
          <6>2. r # q
            BY <6>1
          <6> QED BY <1>0, <5>4, <6>2 DEF q
        <5> QED BY <5>1, <5>3, <5>4
      <4> QED BY <1>0, <2>0, <3>1, <4>3, WaitKept
    <3> QED BY <3>2, <3>3 DEF Tick
  <2>3. \/ UNCHANGED <<tick, run>>
        \/ tick[t].status = "pending" /\ \E s \in {"fired", "skipped"} : tick' = [tick EXCEPT ![t].status = s]
    BY <2>0, FireEffect
  <2> QED BY <2>1, <2>2, <2>3
<1>7. ASSUME NEW t \in Tick, FireTick(t) PROVE Goal
  BY <1>6, <1>7 DEF FireTick
<1>8. CASE DrainNext
  <2>1. PICK t \in drain.left : Fire(t)
    BY <1>8 DEF DrainNext
  <2>2. t \in Tick
    BY <2>1 DEF TypeOK
  <2> QED BY <1>6, <2>1, <2>2
<1>9. ASSUME NEW t \in CollTick, NEW c \in Coll, ScheduleCollectionTick(t, c) PROVE Goal
  BY <1>0, <1>2, <1>9 DEF ScheduleCollectionTick, Tick
<1>10. ASSUME NEW t \in WaitTick, NEW q \in Run, ScheduleFlowWaitTick(t, q) PROVE Goal
  <2>1. /\ tick[t].status = "none" /\ Scheduled(t, q) /\ run' = run
        /\ untimed' = IF run[q].at = StepOf[t] THEN untimed \ {q} ELSE untimed
    BY <1>10 DEF ScheduleFlowWaitTick
  <2>2. CASE r \notin untimed
    BY <1>0, <1>2, <2>1, <2>2
  <2>3. CASE r \in untimed
    <3>1. q = r /\ run[q].at = StepOf[t]
      BY <1>0, <2>1, <2>3
    <3>2. t \in Pending' /\ tick'[t].of = r
      BY <1>0, <2>1, <3>1 DEF Pending, Scheduled
    <3>3. StepOf[t] = run'[r].at
      BY <2>1, <3>1
    <3> QED BY <3>2, <3>3
  <2> QED BY <2>2, <2>3
<1>11. ASSUME NEW c \in Coll, Issue(c) \/ Submit(c) PROVE Goal
  BY <1>1, <1>11 DEF Issue, Submit
<1>12. CASE Arm \/ StartDrain \/ EndDrain \/ AbortDrain \/ Pass
  BY <1>1, <1>12 DEF Arm, StartDrain, EndDrain, AbortDrain, Pass
<1>13. CASE UNCHANGED vars
  BY <1>1, <1>13 DEF vars
<1> QED BY <1>3, <1>4, <1>5, <1>7, <1>8, <1>9, <1>10, <1>11, <1>12, <1>13 DEF Next, Called

\* A run that was parked at a wait step with its tick, or got the tick since, has a
\* pending tick of its own while it waits there, whichever ticks are fired late, twice or
\* directly and however the run is recorded (executeDagStep, scheduleFlowWaitTick,
\* fireFlowWaitTick, recordDagRun, resumeDagRun).
THEOREM WaitsTimed == Spec => []WaitTimed
<1>1. Init => WaitTimed
  <2>1. ASSUME Init, NEW r \in Run PROVE run[r].status # "waiting"
    <3>1. run = [q \in Run |-> [status |-> "none", at |-> ""]]
      BY <2>1 DEF Init
    <3> QED BY <3>1
  <2> QED BY <2>1 DEF WaitTimed
<1> QED BY <1>1, TypeCorrect, WaitStepKept, PTL DEF Spec

------------------------------------------------------------------------------
(* The alarm *)

\* A step that makes no tick pending and leaves the alarm, the drain and the clock alone
\* leaves the alarm covering the pending ticks.
LEMMA CoveredStill ==
  ASSUME AlarmCovers, owed' = owed, drain'.on = drain.on, alarm' = alarm,
         Pending' \subseteq Pending, clock' = clock
  PROVE  AlarmCovers'
BY DEF AlarmCovers

\* Every step keeps the alarm no later than the ticks it is for.
LEMMA AlarmStep == TypeOK /\ AlarmCovers /\ [Next]_vars => AlarmCovers'
<1> SUFFICES ASSUME TypeOK, AlarmCovers, [Next]_vars PROVE AlarmCovers'
  OBVIOUS
<1>0. /\ tick \in [Tick -> [status : {"none", "pending", "fired", "skipped"}, of : Coll \cup Run \cup {""}]]
      /\ Pending \in SUBSET Tick
      /\ drain \in [on : BOOLEAN, left : SUBSET Tick]
  BY DEF TypeOK, Pending
<1>1. CASE UNCHANGED <<tick, alarm, drain, owed, clock>>
  BY <1>1, CoveredStill DEF Pending
<1>2. CASE owed' = TRUE
  BY <1>2 DEF AlarmCovers
<1>3. ASSUME NEW t \in WaitTick, NEW r \in Run, ExecuteWaitStep(r, t) PROVE AlarmCovers'
  BY <1>1, <1>2, <1>3 DEF ExecuteWaitStep
<1>4. ASSUME NEW t \in Tick, Fire(t), alarm' = alarm, drain'.on = drain.on PROVE AlarmCovers'
  <2>1. /\ FireCollectionTick(t) \/ FireFlowWaitTick(t)
        /\ UNCHANGED <<clock, owed>>
    BY <1>4 DEF Fire
  <2>2. \/ tick' = tick
        \/ \E s \in {"fired", "skipped"} : tick' = [tick EXCEPT ![t].status = s]
    BY <2>1, FireEffect
  <2>3. Pending' \subseteq Pending
    <3>1. ASSUME NEW s \in {"fired", "skipped"}, tick' = [tick EXCEPT ![t].status = s],
                 NEW u \in Tick, tick'[u].status = "pending"
          PROVE  tick[u].status = "pending"
      BY <1>0, <3>1
    <3>2. Pending' = {u \in Tick : tick'[u].status = "pending"}
      BY DEF Pending
    <3> QED BY <2>2, <3>1, <3>2 DEF Pending
  <2> QED BY <1>4, <2>1, <2>3, CoveredStill
<1>5. CASE Arm \/ EndDrain
  <2>1. alarm' = FirstOf(Pending) /\ Pending' = Pending
    BY <1>5 DEF Arm, EndDrain, Pending
  <2> QED BY <1>0, <2>1, FirstCovers DEF AlarmCovers
<1>6. CASE StartDrain
  BY <1>6 DEF StartDrain, AlarmCovers
<1>7. CASE DrainNext
  <2>1. PICK t \in drain.left : Fire(t) /\ drain' = [drain EXCEPT !.left = @ \ {t}] /\ alarm' = alarm
    BY <1>7 DEF DrainNext
  <2>2. t \in Tick /\ drain'.on = drain.on
    BY <1>0, <2>1
  <2> QED BY <1>4, <2>1, <2>2
<1>8. CASE AbortDrain
  <2>1. clock \in Time /\ alarm \in Time \cup {Never}
    BY DEF TypeOK
  <2>2. clock' = clock /\ alarm' <= clock
    BY <1>8, <2>1, OperationsAssumption DEF AbortDrain, Time, Never
  <2> QED BY <2>2 DEF AlarmCovers
<1>9. CASE Pass
  <2>1. clock \in Nat /\ clock' = clock + 1 /\ alarm \in Nat
    <3>1. clock \in Time /\ alarm \in Time \cup {Never}
      BY DEF TypeOK
    <3>2. clock' = clock + 1
      BY <1>9 DEF Pass
    <3> QED BY <3>1, <3>2, OperationsAssumption DEF Time, Never
  <2>2. UNCHANGED <<tick, alarm, drain, owed>>
    BY <1>9 DEF Pass
  <2>3. Pending' = Pending
    BY <2>2 DEF Pending
  <2> QED BY <2>1, <2>2, <2>3 DEF AlarmCovers
<1>10. ASSUME NEW c \in Coll, Issue(c) \/ Submit(c) PROVE AlarmCovers'
  BY <1>1, <1>10 DEF Issue, Submit
<1>11. ASSUME NEW t \in CollTick, NEW c \in Coll, ScheduleCollectionTick(t, c) PROVE AlarmCovers'
  BY <1>2, <1>11 DEF ScheduleCollectionTick
<1>12. ASSUME NEW t \in WaitTick, NEW r \in Run, ScheduleFlowWaitTick(t, r) PROVE AlarmCovers'
  BY <1>2, <1>12 DEF ScheduleFlowWaitTick
<1>13. ASSUME NEW r \in Run, NEW s \in CollectStep, NEW c \in Coll, ExecuteCollectStep(r, s, c)
       PROVE  AlarmCovers'
  BY <1>1, <1>13 DEF ExecuteCollectStep
<1>14. ASSUME NEW r \in Run, NEW status, NEW s,
              RecordDagRun(r, status, s) \/ ResumeDagRun(r, status, s)
       PROVE  AlarmCovers'
  BY <1>1, <1>14 DEF ResumeDagRun, RecordDagRun
<1>15. ASSUME NEW t \in Tick, FireTick(t) PROVE AlarmCovers'
  BY <1>4, <1>15 DEF FireTick
<1>16. CASE UNCHANGED vars
  BY <1>1, <1>16 DEF vars
<1> QED BY <1>3, <1>5, <1>6, <1>7, <1>8, <1>9, <1>10, <1>11, <1>12, <1>13, <1>14, <1>15, <1>16
        DEF Next, Called

\* Unless the host owes a call of arm or a drain runs, the alarm is no later than a tick
\* that is pending: neither the batch limit, nor a drain that ends early, nor scheduling
\* and firing between the steps of a drain leaves a tick behind the alarm.
THEOREM AlarmNeverLate == Spec => []AlarmCovers
<1>1. Init => AlarmCovers
  <2>1. ASSUME Init PROVE Pending = {}
    <3>1. tick = [t \in Tick |-> [status |-> "none", of |-> ""]]
      BY <2>1 DEF Init
    <3> QED BY <3>1 DEF Pending
  <2> QED BY <2>1 DEF AlarmCovers
<1> QED BY <1>1, TypeCorrect, AlarmStep, PTL DEF Spec

------------------------------------------------------------------------------
(* What is settled *)

\* A submitted collection is never expired and a settled tick never touched again, in
\* whatever order answers, ticks and drains come.
THEOREM NothingUnsettled == Spec => SettledForGood
<1> DEFINE Keeps == /\ \A c \in Coll : coll[c] = "submitted" => coll'[c] = "submitted"
                    /\ \A t \in Tick : tick[t].status \in {"fired", "skipped"} => tick'[t] = tick[t]
<1>1. TypeOK /\ [Next]_vars => [Keeps]_vars
  <2> SUFFICES ASSUME TypeOK, [Next]_vars PROVE Keeps
    OBVIOUS
  <2>0. /\ coll \in [Coll -> {"none", "issued", "submitted", "expired"}]
        /\ tick \in [Tick -> [status : {"none", "pending", "fired", "skipped"}, of : Coll \cup Run \cup {""}]]
        /\ CollTick \subseteq Tick /\ WaitTick \subseteq Tick
    BY DEF TypeOK, Tick
  <2>1. CASE UNCHANGED <<coll, tick>>
    BY <2>1
  <2>2. ASSUME NEW t \in Tick, NEW of, tick[t].status = "none", Scheduled(t, of), coll' = coll
        PROVE  Keeps
    BY <2>0, <2>2 DEF Scheduled
  <2>3. ASSUME NEW c \in Coll, coll[c] # "submitted", tick' = tick,
               NEW s, coll' = [coll EXCEPT ![c] = s]
        PROVE  Keeps
    BY <2>0, <2>3
  <2>4. ASSUME NEW c \in Coll, Issue(c) \/ Submit(c) PROVE Keeps
    BY <2>3, <2>4 DEF Issue, Issued, Submit
  <2>5. ASSUME NEW t \in CollTick, NEW c \in Coll, ScheduleCollectionTick(t, c) PROVE Keeps
    BY <2>0, <2>2, <2>5 DEF ScheduleCollectionTick
  <2>6. ASSUME NEW t \in WaitTick, NEW r \in Run, ScheduleFlowWaitTick(t, r) PROVE Keeps
    BY <2>0, <2>2, <2>6 DEF ScheduleFlowWaitTick
  <2>7. ASSUME NEW t \in WaitTick, NEW r \in Run, ExecuteWaitStep(r, t) PROVE Keeps
    <3>1. coll' = coll /\ (tick' = tick \/ (tick[t].status = "none" /\ Scheduled(t, r)))
      <4>1. CASE <<r, t>> \in entered \/ tick[t].status # "none"
        BY <2>7, <4>1 DEF ExecuteWaitStep
      <4>2. CASE ~(<<r, t>> \in entered \/ tick[t].status # "none")
        BY <2>7, <4>2 DEF ExecuteWaitStep
      <4> QED BY <4>1, <4>2
    <3> QED BY <2>0, <2>1, <2>2, <3>1
  <2>8. ASSUME NEW r \in Run, NEW s \in CollectStep, NEW c \in Coll, ExecuteCollectStep(r, s, c)
        PROVE  Keeps
    BY <2>3, <2>8 DEF ExecuteCollectStep, Issued
  <2>9. ASSUME NEW r \in Run, NEW status, NEW s,
               RecordDagRun(r, status, s) \/ ResumeDagRun(r, status, s)
        PROVE  Keeps
    BY <2>1, <2>9 DEF ResumeDagRun, RecordDagRun
  <2>10. ASSUME NEW t \in Tick, Fire(t) PROVE Keeps
    <3>1. FireCollectionTick(t) \/ FireFlowWaitTick(t)
      BY <2>10 DEF Fire
    <3>2. \A c \in Coll : coll[c] = "submitted" => coll'[c] = "submitted"
      <4>1. \/ coll' = coll
            \/ \E c \in Coll : /\ coll[c] = "issued"
                               /\ \E s \in {"issued", "expired"} : coll' = [coll EXCEPT ![c] = s]
        <5>1. CASE FireCollectionTick(t)
          <6>1. t \in CollTick
            BY <5>1 DEF FireCollectionTick
          <6>2. tick[t].status = "pending" => tick[t].of \in Coll
            BY <6>1 DEF TypeOK
          <6> QED BY <5>1, <6>2 DEF FireCollectionTick
        <5>2. CASE FireFlowWaitTick(t)
          BY <5>2 DEF FireFlowWaitTick
        <5> QED BY <3>1, <5>1, <5>2
      <4> QED BY <2>0, <4>1
    <3>3. \A u \in Tick : tick[u].status \in {"fired", "skipped"} => tick'[u] = tick[u]
      <4>1. \/ tick' = tick
            \/ /\ tick[t].status = "pending"
               /\ \E s \in {"fired", "skipped"} : tick' = [tick EXCEPT ![t].status = s]
        BY <3>1, FireEffect
      <4> QED BY <2>0, <4>1
    <3> QED BY <3>2, <3>3
  <2>11. ASSUME NEW t \in Tick, FireTick(t) PROVE Keeps
    BY <2>10, <2>11 DEF FireTick
  <2>12. CASE DrainNext
    <3>1. PICK t \in drain.left : Fire(t)
      BY <2>12 DEF DrainNext
    <3>2. t \in Tick
      BY <3>1 DEF TypeOK
    <3> QED BY <2>10, <3>1, <3>2
  <2>13. CASE Arm \/ StartDrain \/ EndDrain \/ AbortDrain \/ Pass \/ UNCHANGED vars
    BY <2>1, <2>13 DEF Arm, StartDrain, EndDrain, AbortDrain, Pass, vars
  <2> QED BY <2>4, <2>5, <2>6, <2>7, <2>8, <2>9, <2>11, <2>12, <2>13 DEF Next, Called
<1> QED BY <1>1, TypeCorrect, PTL DEF Spec, SettledForGood

==============================================================================
