------------------------------- MODULE FlowRuns -------------------------------
(****************************************************************************)
(* The durable workflow runner of the Convex application (flows.ts, forms.ts, *)
(* lib/collectRuns.ts in apps/convex-demo/convex, the event path of           *)
(* materialize.ts) over the step reducer of packages/workflow.                *)
(*                                                                           *)
(* A Convex mutation is a serializable transaction, and what it schedules is  *)
(* scheduled when it commits: every action below is one mutation.  Scheduled  *)
(* functions wait in queue and run in any order, each once; only a scheduled  *)
(* action (runActionStep) may be lost.  All runs are of one subject: runs of  *)
(* different subjects share nothing.  Reminder and escalation ticks, which    *)
(* change a label and the timeline only, are left out.                        *)
(****************************************************************************)
EXTENDS Integers, FiniteSets

CONSTANTS
  DagRun,         \* rows of flowRuns that startFlow creates
  CollectRun,     \* rows of flowRuns that are created by issuing a collection
  Flow,           \* names of flow definitions
  Form,           \* names of forms (strings)
  Attr,           \* attributes asserted by steps or answered in forms
  Answer,         \* those of Attr that forms ask for
  StepId,         \* identifiers of steps
  Definition,     \* what defineFlow may be called with
  MaxSteps,       \* the bound on steps that stepFlow executes in one call
  MaxCalls,       \* the bound on the calls of stepFlow in one advanceFlow
  MaxMarkers      \* bound on submission facts asserted without a token

\* A definition's steps are a function from the step identifiers it uses; a step has
\* what the interpreter reads of a step of its type.  "" stands for no step.
ASSUME DefinitionAssumption ==
  \A d \in Definition :
    /\ DOMAIN d = {"start", "steps"} /\ d.start \in StepId
    /\ IsFiniteSet(DOMAIN d.steps) /\ "" \notin DOMAIN d.steps
    /\ \A s \in DOMAIN d.steps : LET step == d.steps[s] IN
         /\ step.next \in StepId
         /\ step.type = "branch" => step.ifTrue \in StepId /\ step.ifFalse \in StepId
         /\ step.type \in {"assert", "action"} => step.attr \in Attr
         /\ step.type = "assert" => step.value \in {"given", "context"}
         /\ step.type = "collect" => step.form \in Form
ASSUME StepIdAssumption == {"", "done"} \subseteq StepId
ASSUME AnswerAssumption == Answer \subseteq Attr
ASSUME StepBoundAssumption ==
  MaxSteps \in Nat \ {0} /\ MaxCalls \in Nat \ {0} /\ MaxMarkers \in Nat

VARIABLES
  defs,           \* defs[n]: the definition stored under name n
  runs,           \* runs[r]: the row of run r
  facts,          \* the subject's attributes that have been asserted
  mirror,         \* mirror[r]: the current values of r's fact flow.run.status
  queue,          \* queue[j]: how often the scheduled function j is due
  markers         \* submission facts asserted without a token so far

vars == <<defs, runs, facts, mirror, queue, markers>>

Run == DagRun \cup CollectRun
Status == {"absent", "running", "waiting", "completed", "expired", "cancelled"}
Ended == {"completed", "expired", "cancelled"}
Job == {"advance", "wake", "action", "expire"} \X Run \cup {"change", "resume"} \X Form

NoFlow == "standalone"       \* flowDefName of a standalone collect is undefined
ASSUME FlowAssumption == NoFlow \notin Flow
NoDef == [start |-> "", steps |-> <<>>]
Missing == "missing"         \* the type of a step that the definition lacks

\* Where the answers of a collection go: the facts of the application, or the log of
\* the component.
Target == {"host", "component"}

\* form and scope stay on a run after its collect step; token is the current
\* collection token, "lapsed" from its expiry on; target is collectionTarget, whose
\* absence means "host"; context is what startFlow was given, until a submission
\* replaces it by the answers, which lack what definitions read from it.  stranded
\* is history: the interpreter has left the run running without parking it.
Row == [status : Status, flow : Flow \cup {NoFlow}, at : StepId, form : Form \cup {""},
        scope : {"", "given"}, token : {"none", "live", "lapsed"}, consumed : BOOLEAN,
        target : Target, context : {"given", "answers"}, expires : BOOLEAN,
        stranded : BOOLEAN]

\* The values the variables range over.
TypeOK ==
  /\ defs \in [Flow -> Definition \cup {NoDef}]
  /\ runs \in [Run -> Row]
  /\ facts \subseteq Attr
  /\ mirror \in [Run -> SUBSET Status]
  /\ queue \in [Job -> Nat]
  /\ markers \in Nat

NoRow == [status |-> "absent", flow |-> NoFlow, at |-> "", form |-> "", scope |-> "",
          token |-> "none", consumed |-> FALSE, target |-> "host", context |-> "given",
          expires |-> FALSE, stranded |-> FALSE]

Init ==
  /\ defs = [n \in Flow |-> NoDef]
  /\ runs = [r \in Run |-> NoRow]
  /\ facts = {}
  /\ mirror = [r \in Run |-> {}]
  /\ queue = [j \in Job |-> 0]
  /\ markers = 0

------------------------------------------------------------------------------
(* packages/workflow/src/index.ts *)

TypeOf(d, s) == IF s \in DOMAIN d.steps THEN d.steps[s].type ELSE Missing

Targets(d, s) ==
  LET step == d.steps[s]
  IN  (IF step.type = "branch" THEN {step.ifTrue, step.ifFalse, step.next} ELSE {step.next}) \ {""}

\* The steps on some path from the start, by rounds of the search.
Reachable(d) ==
  LET reach[n \in 0..Cardinality(DOMAIN d.steps)] ==
        IF n = 0 THEN {d.start}
        ELSE reach[n - 1] \cup UNION {Targets(d, s) : s \in reach[n - 1] \cap DOMAIN d.steps}
  IN  reach[Cardinality(DOMAIN d.steps)]

\* A definition is without cycles when every set of steps has one that leads to no other of it.
Acyclic(d) ==
  \A S \in (SUBSET DOMAIN d.steps) \ {{}} : \E s \in S : Targets(d, s) \cap S = {}

ValidDefinition == {d \in Definition : Reachable(d) = DOMAIN d.steps /\ Acyclic(d)}

Inline(type) == type \in {"assert", "notify", "branch"}
Parks(type) == type \in {"collect", "wait", "action"}

\* What the interpreter is at: the step, the facts with those it has asserted, the
\* steps executed by the current call of stepFlow, and its calls.
Place == [at : StepId, facts : SUBSET Attr, steps : 0..MaxSteps, calls : 1..MaxCalls]

\* requireValue: a value read from a context that lacks it is refused.
Refused(step, context) ==
  step.type = "assert" /\ step.value = "context" /\ context = "answers"

\* Does the interpreter execute step w.at and go on?  Not when stepFlow has executed
\* its steps, the value is refused, or advanceFlow has made its calls at a branch.
GoesOn(d, context, w) ==
  /\ Inline(TypeOf(d, w.at)) /\ w.steps < MaxSteps
  /\ ~Refused(d.steps[w.at], context)
  /\ d.steps[w.at].type = "branch" => w.calls < MaxCalls

\* One step that does not park.  A branch ends the call of stepFlow, and is the first
\* step of the next call, which has the result.
Pass(d, w) ==
  LET step == d.steps[w.at]
      taken == step.attr \in w.facts
  IN  IF step.type = "branch"
      THEN [at |-> IF taken THEN step.ifTrue ELSE step.ifFalse,
            facts |-> w.facts, steps |-> 1, calls |-> w.calls + 1]
      ELSE [at |-> step.next, steps |-> w.steps + 1, calls |-> w.calls,
            facts |-> IF step.type = "assert" THEN w.facts \cup {step.attr} ELSE w.facts]

\* Where the interpreter gets from step s.
Walk(d, context, s, fs) ==
  LET next == [w \in Place |-> IF GoesOn(d, context, w) THEN Pass(d, w) ELSE w]
      walk[n \in 0..(MaxSteps * MaxCalls)] ==
        IF n = 0 THEN [at |-> s, facts |-> fs, steps |-> 0, calls |-> 1]
        ELSE next[walk[n - 1]]
  IN  walk[MaxSteps * MaxCalls]

\* stepFlow throws: on a refused value, or after its last step unless that had no next.
Throws(d, context, w) ==
  \/ w.at # "" /\ w.steps = MaxSteps
  \/ TypeOf(d, w.at) = "assert" /\ Refused(d.steps[w.at], context)

------------------------------------------------------------------------------
(* packages/collect/src/index.ts *)

\* tokenInvalidReason, in the order of its tests; "" stands for null.
TokenInvalidReason(run) ==
  CASE run.consumed -> "used"
    [] ~run.consumed /\ run.token = "lapsed" -> "expired"
    [] ~run.consumed /\ run.token # "lapsed" /\ run.status # "waiting" -> "not waiting"
    [] OTHER -> ""

\* isLiveToken for the targets in T: all of them when the caller names none.
IsLiveToken(run, T) ==
  TokenInvalidReason(run) = "" /\ run.token # "none" /\ run.target \in T

------------------------------------------------------------------------------
(* apps/convex-demo/convex/flows.ts *)

Add(q, j) == [q EXCEPT ![j] = @ + 1]
Take(q, j) == [q EXCEPT ![j] = @ - 1]
AddEach(q, J) == [j \in Job |-> IF j \in J THEN q[j] + 1 ELSE q[j]]

\* recordFlowRunStatus for the runs in R, whose rows are now those of rows.
\* Mutant of RecordStatus: the earlier status is not retracted.
StatusPiledUp(R, rows) ==
  [r \in Run |-> IF r \in R THEN mirror[r] \cup {rows[r].status} ELSE mirror[r]]

RecordStatus(R, rows) ==
  [r \in Run |-> IF r \in R THEN {rows[r].status} ELSE mirror[r]]

\* The live collection runs for a form (the reuse of by_target).
\* Mutant of LiveFor: every run is reissued.
NoneLive(f, T) == {}

LiveFor(f, T) ==
  {r \in Run : runs[r].form = f /\ runs[r].scope = "given" /\ IsLiveToken(runs[r], T)}

CollectRow(f, target, expires) ==
  [NoRow EXCEPT !.status = "waiting", !.form = f, !.scope = "given", !.token = "live",
                !.target = target, !.expires = expires]

\* Mutant of StartCollect: the expiry is not scheduled.
ExpiryForgotten(r, f, expires) ==
  /\ runs[r].status = "absent"
  /\ LiveFor(f, Target) = {}
  /\ runs' = [runs EXCEPT ![r] = CollectRow(f, "host", expires)]
  /\ mirror' = RecordStatus({r}, runs')
  /\ UNCHANGED <<defs, facts, queue, markers>>

\* startCollect, and startCollectInternal for issueAllOpen (without an expiry).  A
\* live run is reused, whatever its target, which changes nothing.
StartCollect(r, f, expires) ==
  /\ runs[r].status = "absent"
  /\ LiveFor(f, Target) = {}
  /\ runs' = [runs EXCEPT ![r] = CollectRow(f, "host", expires)]
  /\ mirror' = RecordStatus({r}, runs')
  /\ queue' = IF expires THEN Add(queue, <<"expire", r>>) ELSE queue
  /\ UNCHANGED <<defs, facts, markers>>

\* issueActionCollectRun: no status fact, no timers; a live run of the same target is
\* reused.
IssueActionCollect(r, f, target) ==
  /\ runs[r].status = "absent"
  /\ LiveFor(f, {target}) = {}
  /\ runs' = [runs EXCEPT ![r] = CollectRow(f, target, FALSE)]
  /\ UNCHANGED <<defs, facts, mirror, queue, markers>>

DefineFlow(n, d) ==
  /\ d \in ValidDefinition
  /\ defs' = [defs EXCEPT ![n] = d]
  /\ UNCHANGED <<runs, facts, mirror, queue, markers>>

StartFlow(r, n) ==
  /\ runs[r].status = "absent"
  /\ defs[n] # NoDef
  /\ runs' = [runs EXCEPT ![r] = [NoRow EXCEPT !.status = "running", !.flow = n,
                                               !.at = defs[n].start]]
  /\ mirror' = RecordStatus({r}, runs')
  /\ queue' = Add(queue, <<"advance", r>>)
  /\ UNCHANGED <<defs, facts, markers>>

\* resumeToNext: the row of a run of a definition that leaves its step.
ResumedRow(r) ==
  LET d == defs[runs[r].flow]
      next == IF runs[r].at \in DOMAIN d.steps THEN d.steps[runs[r].at].next ELSE ""
  IN  [runs[r] EXCEPT !.status = "running", !.at = next]

\* The row of a run parked at step s: a collect step sets form, scope and a new token.
\* Mutant of ParkedRow: the scope is stored as it is written in the definition.
ScopeUnresolved(r, s) ==
  LET step == defs[runs[r].flow].steps[s]
      parked == [runs[r] EXCEPT !.status = "waiting", !.at = s]
  IN  IF step.type # "collect" THEN parked
      ELSE [parked EXCEPT !.form = step.form, !.scope = step.scope, !.token = "live"]

ParkedRow(r, s) ==
  LET step == defs[runs[r].flow].steps[s]
      parked == [runs[r] EXCEPT !.status = "waiting", !.at = s]
  IN  IF step.type # "collect" THEN parked
      ELSE [parked EXCEPT
              !.form = step.form,
              !.scope = IF step.scope = "context" /\ runs[r].context = "answers" THEN "" ELSE "given",
              !.token = "live"]

\* Mutant of TimersOf: a wait is parked without its wake.
WakeForgotten(r, step) ==
  CASE step.type = "action" -> {<<"action", r>>}
    [] step.type = "collect" /\ step.expires -> {<<"expire", r>>}
    [] OTHER -> {}

\* What a parking step schedules.
TimersOf(r, step) ==
  CASE step.type = "wait" -> {<<"wake", r>>}
    [] step.type = "action" -> {<<"action", r>>}
    [] step.type = "collect" /\ step.expires -> {<<"expire", r>>}
    [] OTHER -> {}

\* advanceFlow.  When stepFlow throws, the transaction is undone and the call is
\* spent; at its last call it keeps what was asserted and returns.  The run is then
\* running and nothing is due for it.
AdvanceFlow(r) ==
  LET d == defs[runs[r].flow]
      w == Walk(d, runs[r].context, runs[r].at, facts)
      type == TypeOf(d, w.at)
      throws == Throws(d, runs[r].context, w)
      spent == Take(queue, <<"advance", r>>)
  IN  /\ queue[<<"advance", r>>] > 0
      /\ \/ /\ runs[r].status # "running"
            /\ queue' = spent
            /\ UNCHANGED <<runs, facts, mirror>>
         \/ /\ runs[r].status = "running" /\ throws
            /\ runs' = [runs EXCEPT ![r].stranded = TRUE]
            /\ queue' = spent
            /\ UNCHANGED <<facts, mirror>>
         \/ /\ runs[r].status = "running" /\ ~throws /\ type = "branch"
            /\ runs' = [runs EXCEPT ![r].at = w.at, ![r].stranded = TRUE]
            /\ queue' = spent
            /\ facts' = w.facts
            /\ UNCHANGED mirror
         \/ /\ runs[r].status = "running" /\ ~throws /\ Parks(type)
            /\ runs' = [runs EXCEPT ![r] = ParkedRow(r, w.at)]
            /\ queue' = AddEach(spent, TimersOf(r, d.steps[w.at]))
            /\ facts' = w.facts
            /\ mirror' = RecordStatus({r}, runs')
         \/ /\ runs[r].status = "running" /\ ~throws /\ type \in {"done", Missing}
            /\ runs' = [runs EXCEPT ![r].status = "completed",
                                    ![r].at = IF w.at = "" THEN "done" ELSE w.at]
            /\ queue' = spent
            /\ facts' = w.facts
            /\ mirror' = RecordStatus({r}, runs')
      /\ UNCHANGED <<defs, markers>>

\* tick with the phase "expire".  A standalone collect and its token expire together.
ExpireTick(r) ==
  /\ queue[<<"expire", r>>] > 0
  /\ runs[r].flow = NoFlow => runs[r].token = "lapsed"
  /\ queue' = Take(queue, <<"expire", r>>)
  /\ IF runs[r].status # "waiting" THEN UNCHANGED <<runs, mirror>>
     ELSE /\ runs' = [runs EXCEPT ![r].status = "expired"]
          /\ mirror' = RecordStatus({r}, runs')
  /\ UNCHANGED <<defs, facts, markers>>

\* Mutant of Awaiting: runs in any state.
AnyOfTarget(f) == {r \in Run : runs[r].form = f /\ runs[r].scope = "given"}

Awaiting(f) ==
  {r \in Run : runs[r].form = f /\ runs[r].scope = "given" /\ runs[r].status = "waiting"}

\* Mutant of ResumeOnSubmission: runs of a definition are not resumed.
OnlyStandalone(f) ==
  LET R == {r \in Awaiting(f) : runs[r].flow = NoFlow}
  IN  /\ queue[<<"resume", f>>] > 0
      /\ runs' = [r \in Run |-> IF r \in R THEN [runs[r] EXCEPT !.status = "completed"] ELSE runs[r]]
      /\ mirror' = RecordStatus(R, runs')
      /\ queue' = Take(queue, <<"resume", f>>)
      /\ UNCHANGED <<defs, facts, markers>>

ResumeOnSubmission(f) ==
  LET R == Awaiting(f)
      dag == {r \in R : runs[r].flow # NoFlow}
  IN  /\ queue[<<"resume", f>>] > 0
      /\ runs' = [r \in Run |->
                    CASE r \in dag -> ResumedRow(r)
                      [] r \in R \ dag -> [runs[r] EXCEPT !.status = "completed"]
                      [] OTHER -> runs[r]]
      /\ mirror' = RecordStatus(R, runs')
      /\ queue' = AddEach(Take(queue, <<"resume", f>>), {<<"advance", r>> : r \in dag})
      /\ UNCHANGED <<defs, facts, markers>>

CancelFlow(r) ==
  /\ runs[r].status = "waiting"
  /\ runs' = [runs EXCEPT ![r].status = "cancelled"]
  /\ mirror' = RecordStatus({r}, runs')
  /\ UNCHANGED <<defs, facts, queue, markers>>

\* Mutant of Wake: it does not ask whether the run is still waiting.
WakeAlways(r) ==
  /\ queue[<<"wake", r>>] > 0
  /\ runs' = [runs EXCEPT ![r] = ResumedRow(r)]
  /\ mirror' = RecordStatus({r}, runs')
  /\ queue' = AddEach(Take(queue, <<"wake", r>>), {<<"advance", r>>})
  /\ UNCHANGED <<defs, facts, markers>>

Wake(r) ==
  /\ queue[<<"wake", r>>] > 0
  /\ IF runs[r].status # "waiting"
     THEN /\ queue' = Take(queue, <<"wake", r>>)
          /\ UNCHANGED <<runs, mirror>>
     ELSE /\ runs' = [runs EXCEPT ![r] = ResumedRow(r)]
          /\ mirror' = RecordStatus({r}, runs')
          /\ queue' = Add(Take(queue, <<"wake", r>>), <<"advance", r>>)
  /\ UNCHANGED <<defs, facts, markers>>

\* runActionStep and the mutation resumeAction it calls: the result fact of the
\* step the run is at, if that step has one, then the next step.
ResumeAction(r) ==
  LET d == defs[runs[r].flow]
      result == IF TypeOf(d, runs[r].at) = "action" THEN {d.steps[runs[r].at].attr} ELSE {}
  IN  /\ queue[<<"action", r>>] > 0
      /\ IF runs[r].status # "waiting"
         THEN /\ queue' = Take(queue, <<"action", r>>)
              /\ UNCHANGED <<runs, facts, mirror>>
         ELSE /\ runs' = [runs EXCEPT ![r] = ResumedRow(r)]
              /\ facts' = facts \cup result
              /\ mirror' = RecordStatus({r}, runs')
              /\ queue' = Add(Take(queue, <<"action", r>>), <<"advance", r>>)
      /\ UNCHANGED <<defs, markers>>

\* The scheduler runs an action at most once: one that failed is not run again.
LoseAction(r) ==
  /\ queue[<<"action", r>>] > 0
  /\ queue' = Take(queue, <<"action", r>>)
  /\ UNCHANGED <<defs, runs, facts, mirror, markers>>

------------------------------------------------------------------------------
(* materialize.ts, forms.ts and facts.ts of apps/convex-demo/convex *)

\* The part of processFactChange for a fact submitted.<form>.
ProcessSubmission(f) ==
  /\ queue[<<"change", f>>] > 0
  /\ queue' = Add(Take(queue, <<"change", f>>), <<"resume", f>>)
  /\ UNCHANGED <<defs, runs, facts, mirror, markers>>

\* submitCollection with the current token of run r: the answers and the marker are
\* asserted, by the application or in the log of the component, which the application's
\* runs do not hear of; the answers replace the context; a lapsed token expires the run.
Submit(r, answers) ==
  LET reason == TokenInvalidReason(runs[r])
  IN  /\ runs[r].token # "none"
      /\ runs[r].form # "" /\ runs[r].scope # ""
      /\ \/ /\ reason = "expired"
            /\ runs' = [runs EXCEPT ![r].status = "expired"]
            /\ UNCHANGED <<facts, queue>>
         \/ /\ reason = ""
            /\ runs' = [runs EXCEPT ![r].context = "answers", ![r].consumed = TRUE]
            /\ IF runs[r].target = "component" THEN UNCHANGED <<facts, queue>>
               ELSE /\ facts' = facts \cup answers
                    /\ queue' = Add(queue, <<"change", runs[r].form>>)
      /\ UNCHANGED <<defs, mirror, markers>>

\* assertFact of a marker submitted.<form>, without a token.
AssertMarker(f) ==
  /\ markers < MaxMarkers
  /\ markers' = markers + 1
  /\ queue' = Add(queue, <<"change", f>>)
  /\ UNCHANGED <<defs, runs, facts, mirror>>

\* The time of a token's expiry passes.
TokenLapses(r) ==
  /\ runs[r].token = "live"
  /\ runs' = [runs EXCEPT ![r].token = "lapsed"]
  /\ UNCHANGED <<defs, facts, mirror, queue, markers>>

------------------------------------------------------------------------------

Scheduled ==
  \/ \E r \in Run : AdvanceFlow(r) \/ ExpireTick(r) \/ Wake(r) \/ ResumeAction(r)
  \/ \E f \in Form : ResumeOnSubmission(f) \/ ProcessSubmission(f)

Called ==
  \/ \E r \in CollectRun, f \in Form : \/ \E x \in BOOLEAN : StartCollect(r, f, x)
                                       \/ \E t \in Target : IssueActionCollect(r, f, t)
  \/ \E n \in Flow, d \in Definition : DefineFlow(n, d)
  \/ \E r \in DagRun, n \in Flow : StartFlow(r, n)
  \/ \E r \in Run : CancelFlow(r) \/ \E answers \in SUBSET Answer : Submit(r, answers)
  \/ \E f \in Form : AssertMarker(f)

Next == Scheduled \/ Called \/ \E r \in Run : LoseAction(r) \/ TokenLapses(r)

Spec == Init /\ [][Next]_vars

\* Scheduled mutations are run, and time passes.
FairSpec ==
  /\ Spec
  /\ \A r \in Run : /\ WF_vars(AdvanceFlow(r)) /\ WF_vars(ExpireTick(r))
                    /\ WF_vars(Wake(r)) /\ WF_vars(TokenLapses(r))
  /\ \A f \in Form : WF_vars(ResumeOnSubmission(f)) /\ WF_vars(ProcessSubmission(f))

------------------------------------------------------------------------------
(* Safety *)

\* The interpreter is due exactly once for a run that is running, and never twice for
\* any: no order of resumptions (event path, timers, action callbacks, each of which
\* schedules advanceFlow) executes a step twice or strands a run between steps.  What
\* does strand one is the interpreter itself, when it throws or runs out of calls.
RunningIsScheduled ==
  \A r \in Run : /\ queue[<<"advance", r>>] <= 1
                 /\ runs[r].status = "running" /\ ~runs[r].stranded
                      => queue[<<"advance", r>>] = 1

At(r, type) ==
  /\ runs[r].status = "waiting" /\ runs[r].flow # NoFlow
  /\ TypeOf(defs[runs[r].flow], runs[r].at) = type

\* The fact flow.run.status, which the system page counts, has one value, the status
\* of the row, through every sequence of handlers; the exceptions are runs expired
\* over their link (submitCollection) and collections issued by an action.
MirrorIsStatus ==
  \A r \in Run : runs[r].status # "expired" =>
    \/ mirror[r] = {runs[r].status}
    \/ mirror[r] = {} /\ runs[r].flow = NoFlow /\ runs[r].status \in {"absent", "waiting", "cancelled"}

\* startCollect and issueActionCollectRun do not issue a second live link for a
\* form and a target of its answers, however earlier ones were submitted, cancelled or
\* have expired.  (One of each target may be live.)
OneLiveCollect ==
  \A p, q \in Run : \A t \in Target :
    /\ IsLiveToken(runs[p], {t}) /\ runs[p].flow = NoFlow
    /\ IsLiveToken(runs[q], {t}) /\ runs[q].flow = NoFlow /\ runs[p].form = runs[q].form
    => p = q

\* A run that has ended is never resumed: timers, callbacks and submissions that come
\* late leave it ended.  (It may still become "expired": see submitCollection.)
EndedStaysEnded ==
  [][\A r \in Run : runs[r].status \in Ended => runs'[r].status \in Ended]_vars

\* Finding.  A run goes on from an action step only with the step's result recorded.
ActionResultRecorded ==
  [][\A r \in Run : At(r, "action") /\ runs'[r].status = "running" =>
       defs[runs[r].flow].steps[runs[r].at].attr \in facts']_vars

------------------------------------------------------------------------------
(* Liveness *)

\* The interpreter and the timers carry a run on, through steps, waits and stale
\* timers, until it needs an answer from outside, has ended, or is one the
\* interpreter has stranded.
Settles ==
  \A r \in Run :
    (runs[r].status = "running" \/ At(r, "wait"))
      ~> \/ runs[r].status \in Ended \/ At(r, "collect") \/ At(r, "action")
         \/ runs[r].status = "running" /\ runs[r].stranded

\* A submission made while a run is parked for it resumes the run, over the two hops
\* of the event path.
SubmissionResumes ==
  \A r \in Run, f \in Form :
    (queue[<<"change", f>>] > 0 /\ r \in Awaiting(f)) ~> r \notin Awaiting(f)

\* A collection with an expiry does not wait forever.
ExpiryEnds ==
  \A r \in Run : (runs[r].expires /\ runs[r].status = "waiting") ~> runs[r].status # "waiting"

==============================================================================
