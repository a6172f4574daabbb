------------------------------ MODULE Operations ------------------------------
(****************************************************************************)
(* The operational tables of a Durable Object and its one alarm               *)
(* (packages/cloudflare/src: durableObjectSqlite.ts, sqliteCurrent.ts,        *)
(* sqliteAlarm.ts): collections, runs of flows, and the ticks that wake them. *)
(*                                                                           *)
(* SQL calls are synchronous, so a call of the surface is one step.  There    *)
(* are no transactions: a call that throws keeps what it did before.  A drain *)
(* awaits between the ticks it fires, and other calls come in between.  The   *)
(* host names the timeline event of a step by the token or tick it creates,   *)
(* so executing a step again repeats an event_id.  Answers, contexts and the  *)
(* timestamps of reminders are left out.                                      *)
(****************************************************************************)
EXTENDS Integers, FiniteSets

CONSTANTS
  Coll,           \* collection tokens
  Run,            \* ids of flow runs
  CollTick,       \* ids of ticks of collections
  WaitTick,       \* ids of ticks of waiting runs
  StepOf,         \* StepOf[t]: the step that a tick of a waiting run is named after
  PhaseOf,        \* PhaseOf[t]: the phase of a tick of a collection
  CollectStep,    \* steps of kind collect (strings)
  Batch,          \* batchSize
  FireAt,         \* FireAt[t]: the fireAt of a tick, in the past if it is scheduled later
  ExpiresAt,      \* ExpiresAt[c]: when a collection expires
  MaxTime,        \* bound on the clock
  MaxAborts       \* bound on drains that end early

ASSUME OperationsAssumption ==
  /\ CollTick \cap WaitTick = {} /\ Batch \in Nat \ {0} /\ MaxTime \in Nat /\ MaxAborts \in Nat
  /\ PhaseOf \in [CollTick -> {"remind", "expire"}] /\ ExpiresAt \in [Coll -> Nat]
  /\ DOMAIN StepOf = WaitTick /\ (\A t \in WaitTick : StepOf[t] \notin CollectStep)
  /\ FireAt \in [CollTick \cup WaitTick -> 0..MaxTime]

VARIABLES
  clock,          \* Date.now()
  coll,           \* table collections
  tick,           \* tables timers and flow_wait_timers
  run,            \* table flow_dag_runs
  entered,        \* the events of wait steps in flow_dag_events: <<run, tick>>
  alarm,          \* the alarm of the object, Never if none is set
  drain,          \* the drain that runs: whether one does, and the ticks left to fire
  owed,           \* the host has scheduled a tick and not called arm since
  untimed,        \* history: runs that a call has parked without scheduling a tick
  aborts          \* drains that ended early

vars == <<clock, coll, tick, run, entered, alarm, drain, owed, untimed, aborts>>

Time == 0..MaxTime
Never == MaxTime + 1
Tick == CollTick \cup WaitTick
WaitStep == {StepOf[t] : t \in WaitTick}
Step == WaitStep \cup CollectStep
EndStatus == {"completed", "unsupported"}
RunStatus == {"running", "waiting"} \cup EndStatus

\* The values the variables range over: a tick's target exists.
TypeOK ==
  /\ clock \in Time
  /\ coll \in [Coll -> {"none", "issued", "submitted", "expired"}]
  /\ tick \in [Tick -> [status : {"none", "pending", "fired", "skipped"}, of : Coll \cup Run \cup {""}]]
  /\ \A t \in Tick : tick[t].status # "none" =>
       tick[t].of \in IF t \in CollTick THEN {c \in Coll : coll[c] # "none"}
                      ELSE {r \in Run : run[r].status # "none"}
  /\ run \in [Run -> [status : RunStatus \cup {"none"}, at : Step \cup {""}]]
  /\ entered \subseteq Run \X WaitTick
  /\ alarm \in Time \cup {Never}
  /\ drain \in [on : BOOLEAN, left : SUBSET Tick]
  /\ owed \in BOOLEAN /\ untimed \subseteq Run /\ aborts \in 0..MaxAborts

Init ==
  /\ clock = 0
  /\ coll = [c \in Coll |-> "none"]
  /\ tick = [t \in Tick |-> [status |-> "none", of |-> ""]]
  /\ run = [r \in Run |-> [status |-> "none", at |-> ""]]
  /\ entered = {} /\ alarm = Never /\ drain = [on |-> FALSE, left |-> {}]
  /\ owed = FALSE /\ untimed = {} /\ aborts = 0

------------------------------------------------------------------------------
(* Collections *)

\* issueCollection: a token is issued once.
Issued(c) == coll[c] = "none" /\ coll' = [coll EXCEPT ![c] = "issued"]

Issue(c) == Issued(c) /\ UNCHANGED <<clock, tick, run, entered, alarm, drain, owed, untimed, aborts>>

\* submitCollection: late, it expires the collection and throws.
Submit(c) ==
  /\ coll[c] \in {"issued", "expired"}
  /\ coll' = [coll EXCEPT ![c] =
                IF @ = "expired" \/ clock >= ExpiresAt[c] THEN "expired" ELSE "submitted"]
  /\ UNCHANGED <<clock, tick, run, entered, alarm, drain, owed, untimed, aborts>>

------------------------------------------------------------------------------
(* Ticks *)

Scheduled(t, of) == tick' = [tick EXCEPT ![t] = [status |-> "pending", of |-> of]]

\* Mutant of ScheduleCollectionTick: it does not ask for the collection.
TokenUnchecked(t, c) ==
  /\ tick[t].status = "none"
  /\ Scheduled(t, c)
  /\ owed' = TRUE
  /\ UNCHANGED <<clock, coll, run, entered, alarm, drain, untimed, aborts>>

ScheduleCollectionTick(t, c) ==
  /\ coll[c] # "none" /\ tick[t].status = "none"
  /\ Scheduled(t, c)
  /\ owed' = TRUE
  /\ UNCHANGED <<clock, coll, run, entered, alarm, drain, untimed, aborts>>

ScheduleFlowWaitTick(t, r) ==
  /\ run[r].status # "none" /\ tick[t].status = "none"
  /\ Scheduled(t, r)
  /\ owed' = TRUE
  /\ untimed' = IF run[r].at = StepOf[t] THEN untimed \ {r} ELSE untimed
  /\ UNCHANGED <<clock, coll, run, entered, alarm, drain, aborts>>

Mark(t, status) == tick' = [tick EXCEPT ![t].status = status]

\* Mutant of FireCollectionTick: it does not ask whether the collection is issued.
FireAlways(t) ==
  LET c == tick[t].of
  IN  /\ t \in CollTick
      /\ IF tick[t].status # "pending" THEN UNCHANGED <<tick, coll>>
         ELSE /\ coll' = [coll EXCEPT ![c] = IF PhaseOf[t] = "expire" THEN "expired" ELSE @]
              /\ Mark(t, "fired")
      /\ UNCHANGED run

\* fireCollectionTick.  It does not ask whether the tick is due.
FireCollectionTick(t) ==
  LET c == tick[t].of
  IN  /\ t \in CollTick
      /\ \/ /\ tick[t].status # "pending"
            /\ UNCHANGED <<tick, coll>>
         \/ /\ tick[t].status = "pending" /\ coll[c] # "issued"
            /\ Mark(t, "skipped") /\ UNCHANGED coll
         \/ /\ tick[t].status = "pending" /\ coll[c] = "issued"
            /\ coll' = [coll EXCEPT ![c] = IF PhaseOf[t] = "expire" THEN "expired" ELSE @]
            /\ Mark(t, "fired")
      /\ UNCHANGED run

\* Mutant of FireFlowWaitTick: the run stays where it is.
NotResumed(t) ==
  /\ t \in WaitTick
  /\ IF tick[t].status # "pending" THEN UNCHANGED tick ELSE Mark(t, "fired")
  /\ UNCHANGED <<coll, run>>

\* fireFlowWaitTick.  It does not ask whether the run waits at the tick's step.
FireFlowWaitTick(t) ==
  LET r == tick[t].of
  IN  /\ t \in WaitTick
      /\ \/ /\ tick[t].status # "pending"
            /\ UNCHANGED <<tick, run>>
         \/ /\ tick[t].status = "pending" /\ run[r].status # "waiting"
            /\ Mark(t, "skipped") /\ UNCHANGED run
         \/ /\ tick[t].status = "pending" /\ run[r].status = "waiting"
            /\ Mark(t, "fired")
            /\ run' = [run EXCEPT ![r] = [status |-> "running", at |-> StepOf[t]]]
      /\ UNCHANGED coll

Fire(t) ==
  /\ FireCollectionTick(t) \/ FireFlowWaitTick(t)
  /\ UNCHANGED <<clock, entered, owed, untimed, aborts>>

\* A call of the surface; an unknown tick is refused.
FireTick(t) == tick[t].status # "none" /\ Fire(t) /\ UNCHANGED <<alarm, drain>>

------------------------------------------------------------------------------
(* Runs *)

\* recordDagRun: whatever status and step the caller names, "" for no step, and no
\* tick.  (So does executeDagStep of other kinds: its run goes on, ends or is unsupported.)
\* Nothing reads the step of a run that has ended, which is left out.
RecordDagRun(r, status, s) ==
  /\ status \in EndStatus => s = ""
  /\ run' = [run EXCEPT ![r] = [status |-> status, at |-> s]]
  /\ untimed' = IF status = "waiting" /\ s \in WaitStep THEN untimed \cup {r} ELSE untimed \ {r}
  /\ UNCHANGED <<clock, coll, tick, entered, alarm, drain, owed, aborts>>

\* resumeDagRun: only of a run that is running.  It stays at its step if none is named.
ResumeDagRun(r, status, s) ==
  /\ run[r].status = "running"
  /\ s \in Step \cup {run[r].at} \/ status \in EndStatus
  /\ RecordDagRun(r, status, s)

\* dag.record of a step that parks: the row is written before the timeline event, whose
\* event_id may be taken.
Parked(r, s) == run' = [run EXCEPT ![r] = [status |-> "waiting", at |-> s]]

\* executeDagStep of kind collect; a token that exists is refused first.
ExecuteCollectStep(r, s, c) ==
  /\ Issued(c)
  /\ Parked(r, s)
  /\ untimed' = untimed \ {r}
  /\ UNCHANGED <<clock, tick, entered, alarm, drain, owed, aborts>>

\* executeDagStep of kind wait: a taken event_id or tick id is found too late.
ExecuteWaitStep(r, t) ==
  LET fails == <<r, t>> \in entered \/ tick[t].status # "none"
  IN  /\ Parked(r, StepOf[t])
      /\ entered' = entered \cup {<<r, t>>}
      /\ IF fails THEN UNCHANGED <<tick, owed>> ELSE Scheduled(t, r) /\ owed' = TRUE
      /\ untimed' = IF fails THEN untimed \cup {r} ELSE untimed \ {r}
      /\ UNCHANGED <<clock, coll, alarm, drain, aborts>>

------------------------------------------------------------------------------
(* The alarm *)

Pending == {t \in Tick : tick[t].status = "pending"}

\* orderCandidates; ticks that are equal in time and kind are ordered by their ids.
Before(t, u) ==
  \/ FireAt[t] < FireAt[u]
  \/ FireAt[t] = FireAt[u] /\ (t \in CollTick \/ u \in WaitTick)

\* Mutant of FirstOf: one of the tables is not asked.
OnlyCollections(T) ==
  LET C == T \cap CollTick
  IN  IF C = {} THEN Never ELSE FireAt[CHOOSE t \in C : \A u \in C : Before(t, u)]

\* The time armed for the pending ticks T: the first one's, or none.
FirstOf(T) == IF T = {} THEN Never ELSE FireAt[CHOOSE t \in T : \A u \in T : Before(t, u)]

\* arm, called by the host.
Arm ==
  /\ owed
  /\ owed' = FALSE
  /\ alarm' = FirstOf(Pending)
  /\ UNCHANGED <<clock, coll, tick, run, entered, drain, untimed, aborts>>

\* The alarm goes off and the drain lists the first Batch ticks that are due.
StartDrain ==
  LET due == {t \in Pending : FireAt[t] <= clock}
  IN  /\ alarm <= clock /\ ~drain.on
      /\ \E S \in SUBSET due :
           /\ Cardinality(S) = IF Cardinality(due) < Batch THEN Cardinality(due) ELSE Batch
           /\ \A t \in S, u \in due \ S : Before(t, u)
           /\ drain' = [on |-> TRUE, left |-> S]
      /\ alarm' = Never
      /\ UNCHANGED <<clock, coll, tick, run, entered, owed, untimed, aborts>>

DrainNext ==
  \E t \in drain.left :
    /\ \A u \in drain.left : Before(t, u)
    /\ Fire(t)
    /\ drain' = [drain EXCEPT !.left = @ \ {t}]
    /\ UNCHANGED alarm

\* Mutant of EndDrain: the alarm is not armed again.
EndUnarmed ==
  /\ drain.on /\ drain.left = {}
  /\ drain' = [drain EXCEPT !.on = FALSE]
  /\ UNCHANGED <<clock, coll, tick, run, entered, alarm, owed, untimed, aborts>>

EndDrain ==
  /\ drain.on /\ drain.left = {}
  /\ drain' = [drain EXCEPT !.on = FALSE]
  /\ alarm' = FirstOf(Pending)
  /\ UNCHANGED <<clock, coll, tick, run, entered, owed, untimed, aborts>>

\* A storage call fails or the object is evicted: the drain ends before it arms, and
\* the platform delivers the alarm again.
AbortDrain ==
  /\ drain.on /\ aborts < MaxAborts
  /\ aborts' = aborts + 1
  /\ drain' = [on |-> FALSE, left |-> {}]
  /\ alarm' = IF alarm < clock THEN alarm ELSE clock
  /\ UNCHANGED <<clock, coll, tick, run, entered, owed, untimed>>

Pass == clock < MaxTime /\ clock' = clock + 1
          /\ UNCHANGED <<coll, tick, run, entered, alarm, drain, owed, untimed, aborts>>

------------------------------------------------------------------------------

Called ==
  \/ \E c \in Coll : Issue(c) \/ Submit(c)
  \/ \E t \in CollTick, c \in Coll : ScheduleCollectionTick(t, c)
  \/ \E t \in WaitTick, r \in Run : ScheduleFlowWaitTick(t, r) \/ ExecuteWaitStep(r, t)
  \/ \E r \in Run, s \in CollectStep, c \in Coll : ExecuteCollectStep(r, s, c)
  \/ \E r \in Run, status \in RunStatus, s \in Step \cup {""} :
       RecordDagRun(r, status, s) \/ ResumeDagRun(r, status, s)
  \/ \E t \in Tick : FireTick(t)

Next == Called \/ Arm \/ StartDrain \/ DrainNext \/ EndDrain \/ AbortDrain \/ Pass

Spec == Init /\ [][Next]_vars

\* Time passes, the host arms, alarms are delivered and drains run.
FairSpec == Spec /\ WF_vars(Pass) /\ WF_vars(Arm) /\ WF_vars(StartDrain) /\ WF_vars(DrainNext)
              /\ WF_vars(EndDrain)

------------------------------------------------------------------------------

\* The alarm is never later than a tick that is pending, except while the host owes an
\* arm or a drain, which will arm, runs: whatever was scheduled, fired or armed meanwhile.
AlarmCovers ==
  ~owed /\ ~drain.on => \A t \in Pending : alarm <= FireAt[t] \/ alarm <= clock

\* A run that was parked at a wait step together with its tick, or whose tick was
\* scheduled since, has a tick of its own pending as long as it waits there, whatever
\* ticks of earlier steps fire late and however the run is recorded.  Not so while a run
\* is only recorded as waiting, or the call that parked it failed halfway.
WaitTimed ==
  \A r \in Run \ untimed : run[r].status = "waiting" /\ run[r].at \in WaitStep =>
    \E t \in Pending \cap WaitTick : tick[t].of = r /\ StepOf[t] = run[r].at

\* A submitted collection stays submitted and a settled tick settled, in every race of
\* answers, drains and direct firing (expire is an UPDATE without a condition).
SettledForGood ==
  [][/\ \A c \in Coll : coll[c] = "submitted" => coll'[c] = "submitted"
     /\ \A t \in Tick : tick[t].status \in {"fired", "skipped"} => tick'[t] = tick[t]]_vars

\* Every tick settles: no batch limit, aborted drain or race with arm loses one.
TicksSettle == \A t \in Tick : (t \in Pending) ~> (t \notin Pending)

==============================================================================
