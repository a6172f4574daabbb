---------------------------- MODULE FlowRunsProofs ----------------------------
(* The workflow runner, for every set of runs, flows and forms, every order of *)
(* the scheduled functions and any number of submissions.                      *)
EXTENDS FlowRuns, FiniteSetTheorems, TLAPS

Orders == INSTANCE Orders

\* What holds of one run.  The interpreter is due at most once, for a run that is
\* running, and may still be due for one that expired over its link meanwhile; so a
\* run that waits may be resumed.  A row that does not exist has nothing, and a run
\* without a definition has nothing that the interpreter schedules.
Due(r) ==
  /\ queue[<<"advance", r>>] <= 1
  /\ queue[<<"advance", r>>] > 0 => runs[r].status \in {"running", "expired"}

Standing(r) ==
  runs[r].status = "running" /\ ~runs[r].stranded => queue[<<"advance", r>>] = 1

Standalone(r) ==
  /\ runs[r].status # "running"
  /\ \A kind \in {"advance", "wake", "action"} : queue[<<kind, r>>] = 0
  /\ runs[r].token # "none" => runs[r].scope = "given"

Owned(r) ==
  /\ runs[r].status = "absent" => runs[r] = NoRow /\ mirror[r] = {}
  /\ runs[r].flow = NoFlow => Standalone(r)

Mirrored(r) ==
  runs[r].status # "expired" =>
    \/ mirror[r] = {runs[r].status}
    \/ mirror[r] = {} /\ runs[r].flow = NoFlow /\ runs[r].status \in {"absent", "waiting", "cancelled"}

\* The interpreter throws, or runs out of calls, in long definitions only, and on values
\* that a submission has taken from the context.
ShortDefinitions ==
  \A d \in ValidDefinition :
    /\ Cardinality(DOMAIN d.steps) < MaxSteps /\ Cardinality(DOMAIN d.steps) < MaxCalls
    /\ \A s \in DOMAIN d.steps : ~(d.steps[s].type = "assert" /\ d.steps[s].value = "context")

Unstranded(r) == ShortDefinitions => ~runs[r].stranded

RunInv(r) == Due(r) /\ Owned(r) /\ Mirrored(r) /\ Standing(r) /\ Unstranded(r)

\* Only definitions that were validated are stored.
StoredValid == \A n \in Flow : defs[n] \in ValidDefinition \cup {NoDef}

FlowInv == TypeOK /\ StoredValid /\ (\A r \in Run : RunInv(r)) /\ OneLiveCollect

------------------------------------------------------------------------------
(* Types *)

\* The placeholder for a missing definition has no steps.
LEMMA NoSteps == DOMAIN NoDef.steps = {}
<1>1. NoDef.steps = <<>>
  BY DEF NoDef
<1>2. DOMAIN <<>> = {}
  OBVIOUS
<1> QED BY <1>1, <1>2

\* What is known of a step of a definition, and of the definition that has none.
LEMMA StepFields ==
  ASSUME NEW d \in Definition \cup {NoDef}, NEW s \in DOMAIN d.steps
  PROVE  /\ d.steps[s].next \in StepId
         /\ d.steps[s].type = "branch" =>
              d.steps[s].ifTrue \in StepId /\ d.steps[s].ifFalse \in StepId
         /\ d.steps[s].type \in {"assert", "action"} => d.steps[s].attr \in Attr
         /\ d.steps[s].type = "collect" => d.steps[s].form \in Form
<1>1. CASE d \in Definition
  BY <1>1, DefinitionAssumption
<1>2. CASE d = NoDef
  BY <1>2, NoSteps
<1> QED BY <1>1, <1>2

\* The rounds of the interpreter: at least one, and one for each step of a call.
Rounds == MaxSteps * MaxCalls

LEMMA RoundsType == Rounds \in Nat /\ MaxSteps <= Rounds
<1>1. MaxSteps \in Nat /\ MaxCalls \in Nat /\ MaxCalls - 1 \in Nat
  BY StepBoundAssumption
<1>2. ASSUME NEW a \in Nat, NEW b \in Nat PROVE a * b \in Nat
  BY <1>2
<1>3. MaxSteps * (MaxCalls - 1) \in Nat
  BY <1>1, <1>2
<1>4. MaxSteps * MaxCalls = MaxSteps + MaxSteps * (MaxCalls - 1)
  BY <1>1
<1> QED BY <1>1, <1>3, <1>4 DEF Rounds

\* A step that does not park leads to a place.
LEMMA PassType ==
  ASSUME NEW d \in Definition \cup {NoDef}, NEW context, NEW w \in Place, GoesOn(d, context, w)
  PROVE  /\ Pass(d, w) \in Place
         /\ Pass(d, w).steps <= w.steps + 1 /\ Pass(d, w).calls <= w.calls + 1
<1> DEFINE step == d.steps[w.at]
<1>1. w.at \in DOMAIN d.steps /\ TypeOf(d, w.at) = step.type
  BY DEF GoesOn, Inline, TypeOf, Missing
<1>2. /\ step.next \in StepId
      /\ step.type = "branch" => step.ifTrue \in StepId /\ step.ifFalse \in StepId
      /\ step.type = "assert" => step.attr \in Attr
  BY <1>1, StepFields
<1>3. /\ w.at \in StepId /\ w.facts \in SUBSET Attr /\ w.steps \in 0..MaxSteps
      /\ w.calls \in 1..MaxCalls
  BY DEF Place
<1>4. MaxSteps \in Nat \ {0} /\ MaxCalls \in Nat \ {0}
  BY StepBoundAssumption
<1>5. w.steps < MaxSteps /\ (step.type = "branch" => w.calls < MaxCalls)
  BY DEF GoesOn
<1>6. CASE step.type = "branch"
  <2> DEFINE at == IF step.attr \in w.facts THEN step.ifTrue ELSE step.ifFalse
  <2>1. Pass(d, w) = [at |-> at, facts |-> w.facts, steps |-> 1, calls |-> w.calls + 1]
    BY <1>6 DEF Pass
  <2>2. at \in StepId /\ 1 \in 0..MaxSteps /\ w.calls + 1 \in 1..MaxCalls
    BY <1>2, <1>3, <1>4, <1>5, <1>6
  <2> HIDE DEF at
  <2> QED BY <1>3, <2>1, <2>2 DEF Place
<1>7. CASE step.type # "branch"
  <2> DEFINE fs == IF step.type = "assert" THEN w.facts \cup {step.attr} ELSE w.facts
  <2>1. Pass(d, w) = [at |-> step.next, steps |-> w.steps + 1, calls |-> w.calls, facts |-> fs]
    BY <1>7 DEF Pass
  <2>2. fs \in SUBSET Attr /\ w.steps + 1 \in 0..MaxSteps
    BY <1>2, <1>3, <1>4, <1>5
  <2> HIDE DEF fs
  <2> QED BY <1>2, <1>3, <2>1, <2>2 DEF Place
<1> QED BY <1>6, <1>7

\* The interpreter's steps one by one: places, each got from the one before.
IsWalk(walk, d, context, s, fs) ==
  /\ walk \in [0..Rounds -> Place]
  /\ walk[0] = [at |-> s, facts |-> fs, steps |-> 0, calls |-> 1]
  /\ Walk(d, context, s, fs) = walk[Rounds]
  /\ \A n \in 0..(Rounds - 1) :
       walk[n + 1] = IF GoesOn(d, context, walk[n]) THEN Pass(d, walk[n]) ELSE walk[n]

LEMMA WalkIs ==
  ASSUME NEW d \in Definition \cup {NoDef}, NEW context, NEW s \in StepId,
         NEW fs \in SUBSET Attr
  PROVE  \E walk : IsWalk(walk, d, context, s, fs)
<1> DEFINE next == [w \in Place |-> IF GoesOn(d, context, w) THEN Pass(d, w) ELSE w]
           base == [at |-> s, facts |-> fs, steps |-> 0, calls |-> 1]
           walk == CHOOSE g : g = [n \in 0..Rounds |->
                                     IF n = 0 THEN base ELSE next[g[n - 1]]]
<1>1. next \in [Place -> Place]
  BY PassType
<1>2. base \in Place
  <2>1. 0 \in 0..MaxSteps /\ 1 \in 1..MaxCalls
    BY StepBoundAssumption
  <2> QED BY <2>1 DEF Place
<1>3. Rounds \in Nat
  BY RoundsType
<1>4. walk = [n \in 0..Rounds |-> IF n = 0 THEN base ELSE next[walk[n - 1]]]
  <2> HIDE DEF next, base
  <2>1. \E g : g = [n \in 0..Rounds |-> IF n = 0 THEN base ELSE next[g[n - 1]]]
    BY <1>1, <1>2, <1>3, Orders!IteratesExist
  <2> QED BY <2>1
<1>5. Walk(d, context, s, fs) = walk[Rounds]
  BY DEF Walk, Rounds
<1> HIDE DEF walk
<1>6. walk \in [0..Rounds -> Place]
  <2> HIDE DEF next, base
  <2> QED BY <1>1, <1>2, <1>3, <1>4, Orders!IteratesType
<1>7. ASSUME NEW n \in 0..(Rounds - 1)
      PROVE  walk[n + 1] = IF GoesOn(d, context, walk[n]) THEN Pass(d, walk[n]) ELSE walk[n]
  <2>1. n \in 0..Rounds /\ n + 1 \in 0..Rounds /\ n + 1 # 0 /\ (n + 1) - 1 = n
    BY <1>3
  <2>2. walk[n + 1] = next[walk[n]] /\ walk[n] \in Place
    <3> HIDE DEF next, base
    <3> QED BY <1>4, <1>6, <2>1
  <2> QED BY <2>2
<1>8. walk[0] = base
  <2> HIDE DEF next, base
  <2>1. 0 \in 0..Rounds
    BY <1>3
  <2> QED BY <1>4, <2>1
<1> QED BY <1>5, <1>6, <1>7, <1>8 DEF IsWalk

\* The interpreter stays at step identifiers and asserts attributes of the system.
LEMMA WalkType ==
  ASSUME NEW d \in Definition \cup {NoDef}, NEW context, NEW s \in StepId,
         NEW fs \in SUBSET Attr
  PROVE  Walk(d, context, s, fs) \in Place
<1>1. PICK walk : IsWalk(walk, d, context, s, fs)
  BY WalkIs
<1>2. Rounds \in 0..Rounds
  BY RoundsType
<1> QED BY <1>1, <1>2 DEF IsWalk

\* After n rounds at most n steps and n + 1 calls have been made.
LEMMA WalkBounds ==
  ASSUME NEW d \in Definition \cup {NoDef}, NEW context, NEW s, NEW fs,
         NEW walk, IsWalk(walk, d, context, s, fs), NEW n \in 0..Rounds
  PROVE  walk[n].steps <= n /\ walk[n].calls <= n + 1
<1> DEFINE Bounded(m) == walk[m].steps <= m /\ walk[m].calls <= m + 1
           T == {m \in Nat : m \in 0..Rounds => Bounded(m)}
<1>1. Rounds \in Nat
  BY RoundsType
<1>2. 0 \in T
  <2>1. walk[0].steps = 0 /\ walk[0].calls = 1
    BY DEF IsWalk
  <2> QED BY <2>1
<1>3. ASSUME NEW m \in Nat, m \in T PROVE m + 1 \in T
  <2> SUFFICES ASSUME m + 1 \in 0..Rounds PROVE Bounded(m + 1)
    OBVIOUS
  <2>1. m \in 0..Rounds /\ m \in 0..(Rounds - 1)
    BY <1>1
  <2>2. walk[m] \in Place /\ Bounded(m)
    BY <1>3, <2>1 DEF IsWalk
  <2>3. walk[m].steps \in Int /\ walk[m].calls \in Int
    BY <2>2 DEF Place
  <2>4. walk[m + 1] = IF GoesOn(d, context, walk[m]) THEN Pass(d, walk[m]) ELSE walk[m]
    BY <2>1 DEF IsWalk
  <2>5. CASE GoesOn(d, context, walk[m])
    <3>1. /\ Pass(d, walk[m]) \in Place
          /\ Pass(d, walk[m]).steps <= walk[m].steps + 1
          /\ Pass(d, walk[m]).calls <= walk[m].calls + 1
      BY <2>2, <2>5, PassType
    <3>2. Pass(d, walk[m]).steps \in Int /\ Pass(d, walk[m]).calls \in Int
      BY <3>1 DEF Place
    <3> QED BY <2>2, <2>3, <2>4, <2>5, <3>1, <3>2
  <2>6. CASE ~GoesOn(d, context, walk[m])
    BY <2>2, <2>3, <2>4, <2>6
  <2> QED BY <2>5, <2>6
<1>4. n \in Nat /\ n \in T
  <2> HIDE DEF T
  <2> QED BY <1>2, <1>3, Orders!NatSetInduction
<1> QED BY <1>4

\* A short definition without cycles is walked to a step that parks or ends the run: as
\* long as it is not, the interpreter goes on, and one place more than the definition
\* has steps would repeat a step, and those between lead to each other.
LEMMA WalkEnds ==
  ASSUME ShortDefinitions,
         NEW d \in ValidDefinition \cup {NoDef}, NEW context, NEW s \in StepId,
         NEW fs \in SUBSET Attr
  PROVE  LET w == Walk(d, context, s, fs)
         IN  ~Inline(TypeOf(d, w.at)) /\ ~Throws(d, context, w)
<1>1. d \in Definition \cup {NoDef}
  BY DEF ValidDefinition
<1>2. PICK walk : IsWalk(walk, d, context, s, fs)
  BY <1>1, WalkIs
<1>3. Rounds \in Nat /\ MaxSteps <= Rounds /\ MaxSteps \in Nat \ {0} /\ MaxCalls \in Nat \ {0}
  BY RoundsType, StepBoundAssumption
<1> DEFINE Going(n) == Inline(TypeOf(d, walk[n].at))
           Halted == {n \in 0..Rounds : ~Going(n) /\ walk[n].steps < MaxSteps}
<1>4. ASSUME Halted # {}
      PROVE  ~Going(Rounds) /\ walk[Rounds].steps < MaxSteps
  <2>1. PICK m \in Halted : \A k \in Halted : k <= m
    <3>1. Halted \in SUBSET (0..Rounds)
      OBVIOUS
    <3> HIDE DEF Halted
    <3> QED BY <1>3, <1>4, <3>1, Orders!LargestNatural
  <2>2. CASE m = Rounds
    BY <2>2
  <2>3. CASE m # Rounds
    <3>1. m \in 0..(Rounds - 1) /\ m + 1 \in 0..Rounds /\ ~(m + 1 <= m)
      BY <1>3, <2>3
    <3>2. walk[m + 1] = walk[m]
      <4>1. ~GoesOn(d, context, walk[m])
        BY DEF GoesOn
      <4> QED BY <1>2, <3>1, <4>1 DEF IsWalk
    <3>3. m + 1 \in Halted
      BY <3>1, <3>2
    <3> QED BY <2>1, <3>1, <3>3
  <2> QED BY <2>2, <2>3
<1>5. Halted # {}
  <2>1. SUFFICES ASSUME Halted = {} PROVE FALSE
    OBVIOUS
  <2> DEFINE K == Cardinality(DOMAIN d.steps)
  <2>2. ASSUME NEW n \in 0..Rounds, n < MaxSteps
        PROVE  Going(n) /\ walk[n].at \in DOMAIN d.steps /\ walk[n].at # ""
    <3>1. walk[n].steps <= n /\ walk[n].steps \in Int
      <4>1. walk[n].steps \in Int
        BY <1>2 DEF IsWalk, Place
      <4> QED BY <1>1, <1>2, <4>1, WalkBounds
    <3>2. walk[n].steps < MaxSteps
      BY <1>3, <2>2, <3>1
    <3>3. Going(n)
      BY <2>1, <3>2
    <3>4. walk[n].at \in DOMAIN d.steps
      BY <3>3 DEF Inline, TypeOf, Missing
    <3>5. d \in Definition
      BY <1>1, <3>4, NoSteps
    <3> QED BY <3>3, <3>4, <3>5, DefinitionAssumption
  <2>3. d \in ValidDefinition
    <3>1. 0 \in 0..Rounds /\ 0 < MaxSteps
      BY <1>3
    <3>2. walk[0].at \in DOMAIN d.steps
      BY <2>2, <3>1
    <3> QED BY <3>2, NoSteps
  <2>4. /\ IsFiniteSet(DOMAIN d.steps) /\ K \in Nat /\ K < MaxSteps /\ K < MaxCalls
        /\ \A x \in DOMAIN d.steps : ~(d.steps[x].type = "assert" /\ d.steps[x].value = "context")
    <3>1. IsFiniteSet(DOMAIN d.steps)
      BY <2>3, DefinitionAssumption DEF ValidDefinition
    <3> QED BY <2>3, <3>1, FS_CardinalityType DEF ShortDefinitions
  <2> HIDE DEF K
  <2>5. ASSUME NEW n \in 0..K
        PROVE  /\ n \in 0..Rounds /\ walk[n].at \in DOMAIN d.steps /\ walk[n].at # ""
               /\ n < K => /\ n \in 0..(Rounds - 1) /\ n + 1 \in 0..K
                           /\ walk[n + 1] = Pass(d, walk[n])
    <3>1. n \in 0..Rounds /\ n < MaxSteps
      BY <1>3, <2>4
    <3>2. Going(n) /\ walk[n].at \in DOMAIN d.steps /\ walk[n].at # ""
      BY <2>2, <3>1
    <3>3. ASSUME n < K PROVE walk[n + 1] = Pass(d, walk[n])
      <4>1. walk[n].steps <= n /\ walk[n].calls <= n + 1
        BY <1>1, <1>2, <3>1, WalkBounds
      <4>2. walk[n].steps \in Int /\ walk[n].calls \in Int
        BY <1>2, <3>1 DEF IsWalk, Place
      <4>3. walk[n].steps < MaxSteps /\ walk[n].calls < MaxCalls
        BY <1>3, <2>4, <3>3, <4>1, <4>2
      <4>4. ~Refused(d.steps[walk[n].at], context)
        BY <2>4, <3>2 DEF Refused
      <4>5. GoesOn(d, context, walk[n])
        BY <3>2, <4>3, <4>4 DEF GoesOn
      <4>6. n \in 0..(Rounds - 1)
        BY <1>3, <2>4, <3>3
      <4> QED BY <1>2, <4>5, <4>6 DEF IsWalk
    <3>4. n < K => n \in 0..(Rounds - 1) /\ n + 1 \in 0..K
      BY <1>3, <2>4
    <3> QED BY <3>1, <3>2, <3>3, <3>4
  <2>6. ASSUME NEW n \in 0..K, n < K PROVE walk[n + 1].at \in Targets(d, walk[n].at)
    <3>1. walk[n + 1] = Pass(d, walk[n]) /\ walk[n + 1].at # ""
      BY <2>5, <2>6
    <3> DEFINE step == d.steps[walk[n].at]
    <3>2. walk[n + 1].at = IF step.type # "branch" THEN step.next
                           ELSE IF step.attr \in walk[n].facts THEN step.ifTrue ELSE step.ifFalse
      <4> DEFINE w == walk[n]
      <4> HIDE DEF w
      <4>1. Pass(d, w).at = IF d.steps[w.at].type # "branch" THEN d.steps[w.at].next
                            ELSE IF d.steps[w.at].attr \in w.facts
                                 THEN d.steps[w.at].ifTrue ELSE d.steps[w.at].ifFalse
        BY DEF Pass
      <4> QED BY <3>1, <4>1 DEF w
    <3>3. Targets(d, walk[n].at) =
            (IF step.type = "branch" THEN {step.ifTrue, step.ifFalse, step.next} ELSE {step.next}) \ {""}
      BY DEF Targets
    <3> HIDE DEF step
    <3> QED BY <3>1, <3>2, <3>3
  <2>7. ASSUME NEW i \in 0..K, NEW j \in 0..K, i < j, walk[i].at = walk[j].at
        PROVE  FALSE
    <3> DEFINE S == {walk[n].at : n \in i..(j - 1)}
    <3>1. i \in i..(j - 1) /\ \A n \in i..(j - 1) : n \in 0..K /\ n < K
      BY <2>4, <2>7
    <3>2. S # {} /\ S \subseteq DOMAIN d.steps
      <4>1. walk[i].at \in S
        BY <3>1
      <4>2. ASSUME NEW n \in i..(j - 1) PROVE walk[n].at \in DOMAIN d.steps
        BY <2>5, <3>1
      <4> QED BY <4>1, <4>2
    <3>3. PICK x \in S : Targets(d, x) \cap S = {}
      <4> HIDE DEF S
      <4> QED BY <2>3, <3>2 DEF ValidDefinition, Acyclic
    <3>4. PICK n \in i..(j - 1) : x = walk[n].at
      OBVIOUS
    <3>5. walk[n + 1].at \in Targets(d, x)
      BY <2>6, <3>1, <3>4
    <3>6. walk[n + 1].at \in S
      <4>1. CASE n + 1 = j
        BY <2>7, <3>1, <4>1
      <4>2. CASE n + 1 # j
        <5>1. n + 1 \in i..(j - 1)
          BY <4>2
        <5> QED BY <5>1
      <4> QED BY <4>1, <4>2
    <3> QED BY <3>3, <3>5, <3>6
  <2>8. IsFiniteSet(0..K) /\ Cardinality(0..K) = K + 1
    BY <2>4, FS_Interval
  <2>9. Cardinality(DOMAIN d.steps) < Cardinality(0..K)
    BY <2>4, <2>8 DEF K
  <2> DEFINE places == [n \in 0..K |-> walk[n].at]
  <2>10. places \in [0..K -> DOMAIN d.steps]
    BY <2>5
  <2>11. PICK i \in 0..K, j \in 0..K : i # j /\ places[i] = places[j]
    <3> HIDE DEF places
    <3> QED BY <2>4, <2>8, <2>9, <2>10, FS_PigeonHole
  <2>12. walk[i].at = walk[j].at /\ (i < j \/ j < i)
    BY <2>11
  <2> QED BY <2>7, <2>12
<1>6. Walk(d, context, s, fs) = walk[Rounds]
  BY <1>2 DEF IsWalk
<1>7. ~Going(Rounds) /\ walk[Rounds].steps < MaxSteps
  BY <1>4, <1>5
<1>8. ~Throws(d, context, walk[Rounds])
  <2>1. walk[Rounds].steps # MaxSteps
    <3>1. walk[Rounds].steps \in Int
      <4>1. Rounds \in 0..Rounds
        BY <1>3
      <4> QED BY <1>2, <4>1 DEF IsWalk, Place
    <3> QED BY <1>3, <1>7, <3>1
  <2>2. TypeOf(d, walk[Rounds].at) # "assert"
    BY <1>7 DEF Inline
  <2> QED BY <2>1, <2>2 DEF Throws
<1> QED BY <1>6, <1>7, <1>8

\* What a row holds.
LEMMA RowFields ==
  ASSUME NEW row \in Row
  PROVE  /\ row.status \in Status /\ row.flow \in Flow \cup {NoFlow} /\ row.at \in StepId
         /\ row.form \in Form \cup {""} /\ row.scope \in {"", "given"}
         /\ row.token \in {"none", "live", "lapsed"} /\ row.consumed \in BOOLEAN
         /\ row.target \in Target /\ row.context \in {"given", "answers"}
         /\ row.expires \in BOOLEAN /\ row.stranded \in BOOLEAN
BY DEF Row

\* What is written to a row.
LEMMA RowEdits ==
  ASSUME NEW row \in Row, NEW x \in Status, NEW y \in StepId
  PROVE  /\ [row EXCEPT !.status = x] \in Row
         /\ [row EXCEPT !.status = x, !.at = y] \in Row
         /\ [row EXCEPT !.token = "lapsed"] \in Row
         /\ [row EXCEPT !.context = "answers", !.consumed = TRUE] \in Row
         /\ [row EXCEPT !.stranded = TRUE] \in Row
         /\ [row EXCEPT !.at = y, !.stranded = TRUE] \in Row
<1>1. [row EXCEPT !.status = x] \in Row
  BY DEF Row
<1>2. [row EXCEPT !.status = x, !.at = y] \in Row
  BY DEF Row
<1>3. [row EXCEPT !.token = "lapsed"] \in Row
  BY DEF Row
<1>4. [row EXCEPT !.context = "answers", !.consumed = TRUE] \in Row
  BY DEF Row
<1>5. [row EXCEPT !.stranded = TRUE] \in Row
  BY DEF Row
<1>6. [row EXCEPT !.at = y, !.stranded = TRUE] \in Row
  BY DEF Row
<1> QED BY <1>1, <1>2, <1>3, <1>4, <1>5, <1>6

\* A row parked at a collect step, with its fresh link, is a row.
LEMMA RowCollects ==
  ASSUME NEW row \in Row, NEW x \in Status, NEW y \in StepId,
         NEW f \in Form, NEW scope \in {"", "given"}
  PROVE  [row EXCEPT !.status = x, !.at = y, !.form = f, !.scope = scope, !.token = "live"]
           \in Row
BY DEF Row

\* The rows that calls create.
LEMMA NewRows ==
  /\ NoRow \in Row
  /\ \A f \in Form, t \in Target, x \in BOOLEAN : CollectRow(f, t, x) \in Row
  /\ \A n \in Flow, y \in StepId :
       [NoRow EXCEPT !.status = "running", !.flow = n, !.at = y] \in Row
<1>1. NoRow \in Row
  BY StepIdAssumption DEF NoRow, Row, Status, Target
<1>2. ASSUME NEW f \in Form, NEW t \in Target, NEW x \in BOOLEAN PROVE CollectRow(f, t, x) \in Row
  BY StepIdAssumption DEF CollectRow, NoRow, Row, Status
<1>3. ASSUME NEW n \in Flow, NEW y \in StepId
      PROVE  [NoRow EXCEPT !.status = "running", !.flow = n, !.at = y] \in Row
  BY DEF NoRow, Row, Status, Target
<1> QED BY <1>1, <1>2, <1>3

\* Counts of what is due stay numbers.
LEMMA QueueType ==
  ASSUME NEW q \in [Job -> Nat], NEW j \in Job
  PROVE  /\ Add(q, j) \in [Job -> Nat]
         /\ q[j] > 0 => Take(q, j) \in [Job -> Nat]
         /\ \A J : AddEach(q, J) \in [Job -> Nat]
BY DEF Add, Take, AddEach

\* The functions of a run and of a form are among what is scheduled.
LEMMA Jobs ==
  /\ \A r \in Run : /\ <<"advance", r>> \in Job /\ <<"wake", r>> \in Job
                    /\ <<"action", r>> \in Job /\ <<"expire", r>> \in Job
  /\ \A f \in Form : <<"change", f>> \in Job /\ <<"resume", f>> \in Job
BY DEF Job

\* The status facts of rows are sets of statuses.
LEMMA MirrorType ==
  ASSUME TypeOK, NEW R, NEW rows \in [Run -> Row]
  PROVE  RecordStatus(R, rows) \in [Run -> SUBSET Status]
<1>1. \A r \in Run : rows[r].status \in Status
  BY DEF Row
<1> QED BY <1>1 DEF RecordStatus, TypeOK

\* A run of a definition goes on at a step identifier.
LEMMA ResumedType ==
  ASSUME TypeOK, NEW r \in Run, runs[r].flow # NoFlow
  PROVE  /\ defs[runs[r].flow] \in Definition \cup {NoDef}
         /\ ResumedRow(r) \in Row
         /\ \E y \in StepId : ResumedRow(r) = [runs[r] EXCEPT !.status = "running", !.at = y]
<1>1. runs[r] \in Row /\ runs[r].flow \in Flow
  BY RowFields DEF TypeOK
<1>2. defs[runs[r].flow] \in Definition \cup {NoDef}
  BY <1>1 DEF TypeOK
<1> DEFINE d == defs[runs[r].flow]
           next == IF runs[r].at \in DOMAIN d.steps THEN d.steps[runs[r].at].next ELSE ""
<1>3. next \in StepId
  <2>1. d \in Definition \cup {NoDef}
    BY <1>2
  <2> HIDE DEF d
  <2> QED BY <2>1, StepFields, StepIdAssumption
<1>4. ResumedRow(r) = [runs[r] EXCEPT !.status = "running", !.at = next]
  BY DEF ResumedRow
<1> HIDE DEF next
<1>5. "running" \in Status
  BY DEF Status
<1>6. [runs[r] EXCEPT !.status = "running", !.at = next] \in Row
  BY <1>1, <1>3, <1>5, RowEdits
<1> QED BY <1>2, <1>3, <1>4, <1>6

\* A run of a definition parks at a step of the definition that parks.
LEMMA ParkedType ==
  ASSUME TypeOK, NEW r \in Run, runs[r].flow # NoFlow,
         NEW s \in StepId, Parks(TypeOf(defs[runs[r].flow], s))
  PROVE  ParkedRow(r, s) \in Row
<1> DEFINE d == defs[runs[r].flow]
<1>1. d \in Definition \cup {NoDef}
  BY ResumedType
<1>2. s \in DOMAIN d.steps /\ TypeOf(d, s) = d.steps[s].type
  BY DEF Parks, TypeOf, Missing
<1>3. d.steps[s].type = "collect" => d.steps[s].form \in Form
  BY <1>1, <1>2, StepFields
<1>4. runs[r] \in Row /\ "waiting" \in Status
  BY DEF TypeOK, Status
<1>5. CASE d.steps[s].type # "collect"
  <2>1. ParkedRow(r, s) = [runs[r] EXCEPT !.status = "waiting", !.at = s]
    BY <1>5 DEF ParkedRow
  <2>2. [runs[r] EXCEPT !.status = "waiting", !.at = s] \in Row
    BY <1>4, RowEdits
  <2> QED BY <2>1, <2>2
<1>6. CASE d.steps[s].type = "collect"
  <2> DEFINE scope == IF d.steps[s].scope = "context" /\ runs[r].context = "answers"
                      THEN "" ELSE "given"
  <2>1. ParkedRow(r, s) = [runs[r] EXCEPT !.status = "waiting", !.at = s,
                             !.form = d.steps[s].form, !.scope = scope, !.token = "live"]
    BY <1>6 DEF ParkedRow
  <2>2. scope \in {"", "given"} /\ d.steps[s].form \in Form
    BY <1>3, <1>6
  <2> HIDE DEF scope
  <2>3. [runs[r] EXCEPT !.status = "waiting", !.at = s, !.form = d.steps[s].form,
                         !.scope = scope, !.token = "live"] \in Row
    <3> DEFINE f == d.steps[s].form
    <3> HIDE DEF f
    <3>1. f \in Form
      BY <2>2 DEF f
    <3>2. [runs[r] EXCEPT !.status = "waiting", !.at = s, !.form = f, !.scope = scope,
                           !.token = "live"] \in Row
      BY <1>4, <2>2, <3>1, RowCollects
    <3> QED BY <3>2 DEF f
  <2> QED BY <2>1, <2>3
<1> QED BY <1>5, <1>6

\* A running run is of a definition, and the interpreter takes it to a step.
LEMMA RunningWalks ==
  ASSUME TypeOK, NEW r \in Run, Owned(r), runs[r].status = "running"
  PROVE  /\ runs[r].flow # NoFlow
         /\ Walk(defs[runs[r].flow], runs[r].context, runs[r].at, facts) \in Place
<1>1. runs[r].flow # NoFlow
  BY DEF Owned, Standalone
<1>2. defs[runs[r].flow] \in Definition \cup {NoDef}
  BY <1>1, ResumedType
<1>3. runs[r].at \in StepId /\ facts \in SUBSET Attr
  BY RowFields DEF TypeOK
<1> QED BY <1>1, <1>2, <1>3, WalkType

\* The interpreter keeps every variable in its range.
LEMMA AdvanceType ==
  ASSUME TypeOK, NEW r \in Run, Owned(r), AdvanceFlow(r)
  PROVE  TypeOK'
<1> DEFINE w == Walk(defs[runs[r].flow], runs[r].context, runs[r].at, facts)
           type == TypeOf(defs[runs[r].flow], w.at)
           spent == Take(queue, <<"advance", r>>)
<1>1. /\ spent \in [Job -> Nat]
      /\ \A J : AddEach(spent, J) \in [Job -> Nat]
  <2>1. <<"advance", r>> \in Job /\ queue \in [Job -> Nat] /\ queue[<<"advance", r>>] > 0
    BY Jobs DEF TypeOK, AdvanceFlow
  <2>2. spent \in [Job -> Nat]
    BY <2>1, QueueType
  <2> HIDE DEF spent
  <2> QED BY <2>1, <2>2, QueueType
<1>2. defs' \in [Flow -> Definition \cup {NoDef}] /\ markers' \in Nat
  BY DEF AdvanceFlow, TypeOK
<1>3. CASE /\ queue' = spent /\ UNCHANGED <<runs, facts, mirror>>
  BY <1>1, <1>2, <1>3 DEF TypeOK
<1>4. ASSUME runs[r].status = "running"
      PROVE  w \in Place /\ w.at \in StepId /\ w.facts \in SUBSET Attr /\ runs[r].flow # NoFlow
  <2>1. w \in Place /\ runs[r].flow # NoFlow
    BY <1>4, RunningWalks
  <2> HIDE DEF w
  <2> QED BY <2>1 DEF Place
<1>5. CASE /\ runs[r].status = "running" /\ Parks(type)
           /\ runs' = [runs EXCEPT ![r] = ParkedRow(r, w.at)]
           /\ queue' = AddEach(spent, TimersOf(r, defs[runs[r].flow].steps[w.at]))
           /\ facts' = w.facts
           /\ mirror' = RecordStatus({r}, runs')
  <2>1. ParkedRow(r, w.at) \in Row
    BY <1>4, <1>5, ParkedType
  <2>2. runs' \in [Run -> Row]
    BY <1>5, <2>1 DEF TypeOK
  <2>3. mirror' \in [Run -> SUBSET Status]
    BY <1>5, <2>2, MirrorType
  <2> QED BY <1>1, <1>2, <1>4, <1>5, <2>2, <2>3 DEF TypeOK
<1>6. CASE /\ runs[r].status = "running"
           /\ runs' = [runs EXCEPT ![r].status = "completed",
                                   ![r].at = IF w.at = "" THEN "done" ELSE w.at]
           /\ queue' = spent
           /\ facts' = w.facts
           /\ mirror' = RecordStatus({r}, runs')
  <2> DEFINE at == IF w.at = "" THEN "done" ELSE w.at
  <2>1. at \in StepId /\ "completed" \in Status /\ runs[r] \in Row
    BY <1>4, <1>6, StepIdAssumption DEF Status, TypeOK
  <2> HIDE DEF at
  <2>2. [runs[r] EXCEPT !.status = "completed", !.at = at] \in Row
    BY <2>1, RowEdits
  <2>3. runs' = [runs EXCEPT ![r] = [runs[r] EXCEPT !.status = "completed", !.at = at]]
    BY <1>6 DEF at, TypeOK
  <2>4. runs' \in [Run -> Row]
    BY <2>2, <2>3 DEF TypeOK
  <2>5. mirror' \in [Run -> SUBSET Status]
    BY <1>6, <2>4, MirrorType
  <2> QED BY <1>1, <1>2, <1>4, <1>6, <2>4, <2>5 DEF TypeOK
<1>7. CASE /\ runs' = [runs EXCEPT ![r].stranded = TRUE]
           /\ queue' = spent
           /\ UNCHANGED <<facts, mirror>>
  <2>1. runs[r] \in Row /\ "running" \in Status /\ "" \in StepId
    BY StepIdAssumption DEF TypeOK, Status
  <2>2. [runs[r] EXCEPT !.stranded = TRUE] \in Row
    BY <2>1, RowEdits
  <2> QED BY <1>1, <1>2, <1>7, <2>2 DEF TypeOK
<1>8. CASE /\ runs[r].status = "running"
           /\ runs' = [runs EXCEPT ![r].at = w.at, ![r].stranded = TRUE]
           /\ queue' = spent
           /\ facts' = w.facts
           /\ UNCHANGED mirror
  <2> DEFINE at == w.at
  <2>1. runs[r] \in Row /\ "running" \in Status /\ at \in StepId
    BY <1>4, <1>8 DEF TypeOK, Status
  <2>2. runs' = [runs EXCEPT ![r] = [runs[r] EXCEPT !.at = at, !.stranded = TRUE]]
    BY <1>8 DEF TypeOK
  <2> HIDE DEF at
  <2>3. [runs[r] EXCEPT !.at = at, !.stranded = TRUE] \in Row
    BY <2>1, RowEdits
  <2>4. runs' \in [Run -> Row]
    BY <2>2, <2>3 DEF TypeOK
  <2> QED BY <1>1, <1>2, <1>4, <1>8, <2>4 DEF TypeOK
<1> QED BY <1>3, <1>5, <1>6, <1>7, <1>8 DEF AdvanceFlow

\* A run that is resumed keeps every variable in its range.
LEMMA ResumeType ==
  ASSUME TypeOK, NEW r \in Run, Owned(r),
         Wake(r) \/ ResumeAction(r)
  PROVE  TypeOK'
<1>1. PICK kind \in {"wake", "action"} :
        /\ queue[<<kind, r>>] > 0
        /\ \/ /\ queue' = Take(queue, <<kind, r>>)
              /\ UNCHANGED <<runs, facts, mirror>>
           \/ /\ runs' = [runs EXCEPT ![r] = ResumedRow(r)]
              /\ queue' = Add(Take(queue, <<kind, r>>), <<"advance", r>>)
              /\ mirror' = RecordStatus({r}, runs')
        /\ UNCHANGED <<defs, markers>>
  BY DEF Wake, ResumeAction
<1>2. <<kind, r>> \in Job /\ <<"advance", r>> \in Job /\ queue \in [Job -> Nat]
  BY Jobs DEF TypeOK
<1>3. Take(queue, <<kind, r>>) \in [Job -> Nat]
  BY <1>1, <1>2, QueueType
<1>4. queue' \in [Job -> Nat]
  BY <1>1, <1>2, <1>3, QueueType
<1>5. runs[r].flow # NoFlow
  <2>1. runs[r].flow = NoFlow => \A k \in {"advance", "wake", "action"} : queue[<<k, r>>] = 0
    BY DEF Owned, Standalone
  <2>2. ~(0 > 0) /\ kind \in {"advance", "wake", "action"}
    OBVIOUS
  <2> QED BY <1>1, <2>1, <2>2
<1>6. facts' \subseteq Attr
  <2>1. CASE Wake(r)
    BY <2>1 DEF Wake, TypeOK
  <2>2. CASE ResumeAction(r)
    <3> DEFINE d == defs[runs[r].flow]
               result == IF TypeOf(d, runs[r].at) = "action"
                         THEN {d.steps[runs[r].at].attr} ELSE {}
    <3>1. d \in Definition \cup {NoDef}
      BY <1>5, ResumedType
    <3>2. result \subseteq Attr
      <4>1. CASE TypeOf(d, runs[r].at) = "action"
        <5>1. runs[r].at \in DOMAIN d.steps /\ d.steps[runs[r].at].type = "action"
          BY <4>1 DEF TypeOf, Missing
        <5>2. d.steps[runs[r].at].attr \in Attr
          BY <3>1, <5>1, StepFields
        <5> QED BY <5>2
      <4> QED BY <4>1
    <3>3. facts' = facts \/ facts' = facts \cup result
      BY <2>2 DEF ResumeAction
    <3> QED BY <3>2, <3>3 DEF TypeOK
  <2> QED BY <2>1, <2>2
<1>7. runs' \in [Run -> Row]
  BY <1>1, <1>5, ResumedType DEF TypeOK
<1>8. mirror' \in [Run -> SUBSET Status]
  BY <1>1, <1>7, MirrorType DEF TypeOK
<1> QED BY <1>1, <1>4, <1>6, <1>7, <1>8 DEF TypeOK

\* Every step keeps every variable in its range.
LEMMA TypeStep ==
  ASSUME TypeOK, \A r \in Run : Owned(r), [Next]_vars
  PROVE  TypeOK'
<1> USE DEF TypeOK
<1>1. ASSUME NEW r \in CollectRun, NEW f \in Form, NEW x \in BOOLEAN, StartCollect(r, f, x)
      PROVE  TypeOK'
  <2>1. r \in Run /\ "host" \in Target /\ runs' = [runs EXCEPT ![r] = CollectRow(f, "host", x)]
    BY <1>1 DEF StartCollect, Run, Target
  <2>2. runs' \in [Run -> Row]
    BY <2>1, NewRows
  <2>3. mirror' \in [Run -> SUBSET Status]
    BY <1>1, <2>2, MirrorType DEF StartCollect
  <2>4. queue' \in [Job -> Nat]
    BY <1>1, <2>1, Jobs, QueueType DEF StartCollect
  <2> QED BY <1>1, <2>2, <2>3, <2>4 DEF StartCollect
<1>2. ASSUME NEW r \in CollectRun, NEW f \in Form, NEW t \in Target, IssueActionCollect(r, f, t)
      PROVE  TypeOK'
  <2>1. r \in Run /\ runs' = [runs EXCEPT ![r] = CollectRow(f, t, FALSE)]
    BY <1>2 DEF IssueActionCollect, Run
  <2>2. runs' \in [Run -> Row]
    BY <2>1, NewRows
  <2> QED BY <1>2, <2>2 DEF IssueActionCollect
<1>3. ASSUME NEW n \in Flow, NEW d \in Definition, DefineFlow(n, d) PROVE TypeOK'
  BY <1>3 DEF DefineFlow
<1>4. ASSUME NEW r \in DagRun, NEW n \in Flow, StartFlow(r, n) PROVE TypeOK'
  <2>1. r \in Run /\ defs[n] \in Definition
    BY <1>4 DEF StartFlow, Run
  <2>2. defs[n].start \in StepId
    BY <2>1, DefinitionAssumption
  <2>3. runs' \in [Run -> Row]
    BY <1>4, <2>2, NewRows DEF StartFlow
  <2>4. mirror' \in [Run -> SUBSET Status]
    BY <1>4, <2>3, MirrorType DEF StartFlow
  <2>5. queue' \in [Job -> Nat]
    BY <1>4, <2>1, Jobs, QueueType DEF StartFlow
  <2> QED BY <1>4, <2>3, <2>4, <2>5 DEF StartFlow
<1>5. ASSUME NEW r \in Run, ExpireTick(r) PROVE TypeOK'
  <2>1. "expired" \in Status
    BY DEF Status
  <2>2. runs' \in [Run -> Row]
    <3>1. [runs[r] EXCEPT !.status = "expired"] \in Row
      BY <2>1, RowEdits, StepIdAssumption
    <3> QED BY <1>5, <3>1 DEF ExpireTick
  <2>3. mirror' \in [Run -> SUBSET Status]
    BY <1>5, <2>2, MirrorType DEF ExpireTick
  <2>4. queue' \in [Job -> Nat]
    BY <1>5, Jobs, QueueType DEF ExpireTick
  <2> QED BY <1>5, <2>2, <2>3, <2>4 DEF ExpireTick
<1>6. ASSUME NEW f \in Form, ResumeOnSubmission(f) PROVE TypeOK'
  <2> DEFINE R == Awaiting(f)
             dag == {r \in R : runs[r].flow # NoFlow}
             J == {<<"advance", r>> : r \in dag}
  <2>1. /\ queue[<<"resume", f>>] > 0
        /\ runs' = [r \in Run |->
                      CASE r \in dag -> ResumedRow(r)
                        [] r \in R \ dag -> [runs[r] EXCEPT !.status = "completed"]
                        [] OTHER -> runs[r]]
        /\ mirror' = RecordStatus(R, runs')
        /\ queue' = AddEach(Take(queue, <<"resume", f>>), J)
        /\ UNCHANGED <<defs, facts, markers>>
    BY <1>6 DEF ResumeOnSubmission
  <2>2. \A r \in dag : ResumedRow(r) \in Row
    BY ResumedType DEF Awaiting
  <2>3. \A r \in Run : [runs[r] EXCEPT !.status = "completed"] \in Row
    <3>1. "completed" \in Status
      BY DEF Status
    <3> QED BY <3>1, RowEdits, StepIdAssumption
  <2>4. Take(queue, <<"resume", f>>) \in [Job -> Nat]
    BY <2>1, Jobs, QueueType
  <2> HIDE DEF R, dag, J
  <2>5. runs' \in [Run -> Row]
    BY <2>1, <2>2, <2>3
  <2>6. mirror' \in [Run -> SUBSET Status]
    BY <2>1, <2>5, MirrorType
  <2>7. queue' \in [Job -> Nat]
    BY <2>1, <2>4, Jobs, QueueType
  <2> QED BY <2>1, <2>5, <2>6, <2>7
<1>7. ASSUME NEW r \in Run, CancelFlow(r) PROVE TypeOK'
  <2>1. "cancelled" \in Status
    BY DEF Status
  <2>2. runs' \in [Run -> Row]
    BY <1>7, <2>1, RowEdits, StepIdAssumption DEF CancelFlow
  <2>3. mirror' \in [Run -> SUBSET Status]
    BY <1>7, <2>2, MirrorType DEF CancelFlow
  <2> QED BY <1>7, <2>2, <2>3 DEF CancelFlow
<1>8. ASSUME NEW r \in Run, NEW answers \in SUBSET Answer, Submit(r, answers) PROVE TypeOK'
  <2>1. runs[r] \in Row /\ "expired" \in Status
    BY DEF Status
  <2>2. /\ [runs[r] EXCEPT !.status = "expired"] \in Row
        /\ [runs[r] EXCEPT !.context = "answers", !.consumed = TRUE] \in Row
    BY <2>1, RowEdits, StepIdAssumption
  <2>3. \/ runs' = [runs EXCEPT ![r] = [runs[r] EXCEPT !.status = "expired"]]
        \/ runs' = [runs EXCEPT ![r] = [runs[r] EXCEPT !.context = "answers", !.consumed = TRUE]]
    BY <1>8 DEF Submit
  <2>4. runs' \in [Run -> Row]
    BY <2>2, <2>3
  <2>5. facts' \subseteq Attr
    BY <1>8, AnswerAssumption DEF Submit
  <2>6. runs[r].form \in Form
    BY <1>8, <2>1, RowFields DEF Submit
  <2>7. queue' \in [Job -> Nat]
    <3>1. queue' = queue \/ queue' = Add(queue, <<"change", runs[r].form>>)
      BY <1>8 DEF Submit
    <3>2. <<"change", runs[r].form>> \in Job
      BY <2>6, Jobs
    <3> QED BY <3>1, <3>2, QueueType
  <2> QED BY <1>8, <2>4, <2>5, <2>7 DEF Submit
<1>9. ASSUME NEW f \in Form, AssertMarker(f) PROVE TypeOK'
  <2>1. queue' \in [Job -> Nat]
    <3>1. <<"change", f>> \in Job
      BY Jobs
    <3> QED BY <1>9, <3>1, QueueType DEF AssertMarker
  <2>2. markers' \in Nat
    BY <1>9 DEF AssertMarker
  <2> QED BY <1>9, <2>1, <2>2 DEF AssertMarker
<1>10. ASSUME NEW f \in Form, ProcessSubmission(f) PROVE TypeOK'
  <2>1. Take(queue, <<"change", f>>) \in [Job -> Nat]
    BY <1>10, Jobs, QueueType DEF ProcessSubmission
  <2>2. queue' \in [Job -> Nat]
    BY <1>10, <2>1, Jobs, QueueType DEF ProcessSubmission
  <2> QED BY <1>10, <2>2 DEF ProcessSubmission
<1>11. ASSUME NEW r \in Run, LoseAction(r) PROVE TypeOK'
  BY <1>11, Jobs, QueueType DEF LoseAction
<1>12. ASSUME NEW r \in Run, TokenLapses(r) PROVE TypeOK'
  <2>1. [runs[r] EXCEPT !.token = "lapsed"] \in Row
    <3>1. "expired" \in Status /\ "" \in StepId
      BY StepIdAssumption DEF Status
    <3> QED BY <3>1, RowEdits
  <2> QED BY <1>12, <2>1 DEF TokenLapses
<1>13. CASE UNCHANGED vars
  BY <1>13 DEF vars
<1>14. CASE Scheduled
  BY <1>5, <1>6, <1>10, <1>14, AdvanceType, ResumeType DEF Scheduled
<1>15. CASE Called
  BY <1>1, <1>2, <1>3, <1>4, <1>7, <1>8, <1>9, <1>15 DEF Called
<1> QED BY <1>11, <1>12, <1>13, <1>14, <1>15 DEF Next

------------------------------------------------------------------------------
(* Steps *)

\* How often a function is due after one was scheduled or taken.
LEMMA QueueAt ==
  ASSUME NEW q \in [Job -> Nat], NEW j \in Job, NEW k \in Job
  PROVE  /\ Add(q, j)[k] = IF k = j THEN q[k] + 1 ELSE q[k]
         /\ Take(q, j)[k] = IF k = j THEN q[k] - 1 ELSE q[k]
         /\ \A J : AddEach(q, J)[k] = IF k \in J THEN q[k] + 1 ELSE q[k]
BY DEF Add, Take, AddEach

\* A step leaves run p alone, but may take one of its timers.
Kept(p) ==
  /\ runs'[p] = runs[p] /\ mirror'[p] = mirror[p]
  /\ queue'[<<"advance", p>>] = queue[<<"advance", p>>]
  /\ \A kind \in {"wake", "action"} : queue'[<<kind, p>>] <= queue[<<kind, p>>]

\* A run that a step leaves alone keeps what holds of it.
LEMMA KeptInv == ASSUME TypeOK, TypeOK', NEW p \in Run, RunInv(p), Kept(p) PROVE RunInv(p)'
<1>1. \A kind \in {"advance", "wake", "action"} :
        queue[<<kind, p>>] \in Nat /\ queue'[<<kind, p>>] \in Nat
  BY Jobs DEF TypeOK
<1>2. Due(p)' /\ Standing(p)' /\ Unstranded(p)'
  BY DEF RunInv, Kept, Due, Standing, Unstranded
<1>3. Owned(p)'
  <2>1. runs'[p].flow = NoFlow =>
          \A kind \in {"advance", "wake", "action"} : queue'[<<kind, p>>] = 0
    BY <1>1 DEF RunInv, Kept, Owned, Standalone
  <2> QED BY <2>1 DEF RunInv, Kept, Owned, Standalone
<1>4. Mirrored(p)'
  BY DEF RunInv, Kept, Mirrored
<1> QED BY <1>2, <1>3, <1>4 DEF RunInv

\* A token is live for a target while its run waits for it.
LEMMA LiveIs ==
  ASSUME NEW row \in Row, NEW T
  PROVE  IsLiveToken(row, T) <=> /\ row.token = "live" /\ ~row.consumed
                                 /\ row.status = "waiting" /\ row.target \in T
BY RowFields DEF IsLiveToken, TokenInvalidReason

\* No step but its creation makes a standalone run one with a live link.
LiveStandalone(row, t) == IsLiveToken(row, {t}) /\ row.flow = NoFlow

NotRevived(p) ==
  \A t \in Target : LiveStandalone(runs'[p], t)
                     => LiveStandalone(runs[p], t) /\ runs'[p].form = runs[p].form

\* What a step of run r does.
StepOf(r) ==
  /\ RunInv(r)' /\ NotRevived(r)
  /\ \A p \in Run \ {r} : Kept(p)

\* A step that schedules or takes functions of run r alone leaves the others' alone.
LEMMA OtherQueues ==
  ASSUME TypeOK, TypeOK', NEW r \in Run,
         \A p \in Run \ {r} : runs'[p] = runs[p] /\ mirror'[p] = mirror[p],
         \A j \in Job : j \notin {"advance", "wake", "action", "expire"} \X {r}
            => queue'[j] = queue[j] \/ j \in {"change", "resume"} \X Form
  PROVE  \A p \in Run \ {r} : Kept(p)
<1> SUFFICES ASSUME NEW p \in Run \ {r} PROVE Kept(p)
  OBVIOUS
<1>1. ASSUME NEW kind \in {"advance", "wake", "action"}
      PROVE  queue'[<<kind, p>>] = queue[<<kind, p>>] /\ queue[<<kind, p>>] \in Nat
  <2>1. <<kind, p>> \in Job /\ <<kind, p>> \notin {"change", "resume"} \X Form
    BY Jobs
  <2>2. <<kind, p>> \notin {"advance", "wake", "action", "expire"} \X {r}
    OBVIOUS
  <2> QED BY <2>1, <2>2 DEF TypeOK
<1> QED BY <1>1 DEF Kept

\* What a step wrote to the row and the status fact of its run.
LEMMA Written ==
  ASSUME TypeOK, NEW r \in Run, NEW row, runs' = [runs EXCEPT ![r] = row]
  PROVE  /\ runs'[r] = row
         /\ \A p \in Run \ {r} : runs'[p] = runs[p]
         /\ mirror' = RecordStatus({r}, runs') =>
              /\ mirror'[r] = {row.status}
              /\ \A p \in Run \ {r} : mirror'[p] = mirror[p]
BY DEF TypeOK, RecordStatus

\* A step that leaves rows and status facts alone, and takes timers at most.
LEMMA NothingWritten ==
  ASSUME TypeOK, TypeOK', NEW r \in Run, RunInv(r), UNCHANGED <<runs, mirror>>,
         \A p \in Run : queue'[<<"advance", p>>] = queue[<<"advance", p>>],
         \A p \in Run, kind \in {"wake", "action"} : queue'[<<kind, p>>] <= queue[<<kind, p>>]
  PROVE  StepOf(r)
<1>1. \A p \in Run : Kept(p)
  BY DEF Kept
<1>2. RunInv(r)'
  BY <1>1, KeptInv
<1>3. NotRevived(r)
  BY DEF NotRevived
<1> QED BY <1>1, <1>2, <1>3 DEF StepOf

\* What the interpreter and the timers owe run p is as it was.
SameQueue(p) ==
  \A kind \in {"advance", "wake", "action"} :
    queue'[<<kind, p>>] = queue[<<kind, p>>] /\ queue[<<kind, p>>] \in Nat

\* A run whose row, status fact and scheduled functions are the same is left alone.
LEMMA KeptIs ==
  ASSUME NEW p \in Run, SameQueue(p), runs'[p] = runs[p], mirror'[p] = mirror[p]
  PROVE  Kept(p)
<1>1. ASSUME NEW kind \in {"wake", "action"} PROVE queue'[<<kind, p>>] <= queue[<<kind, p>>]
  <2>1. kind \in {"advance", "wake", "action"}
    OBVIOUS
  <2> QED BY <2>1 DEF SameQueue
<1> QED BY <1>1 DEF Kept, SameQueue

\* A call that returns early does nothing to any run.
LEMMA NothingDone ==
  ASSUME TypeOK, TypeOK', NEW r \in Run, RunInv(r), UNCHANGED <<runs, mirror>>,
         \A p \in Run : SameQueue(p)
  PROVE  StepOf(r)
<1>1. \A p \in Run : Kept(p)
  BY KeptIs
<1>2. RunInv(r)'
  BY <1>1, KeptInv
<1> QED BY <1>1, <1>2 DEF StepOf, NotRevived

\* A row that does not exist has no token.
LEMMA NoRowFields == /\ NoRow.status = "absent" /\ NoRow.flow = NoFlow /\ NoRow.at = ""
                     /\ NoRow.form = "" /\ NoRow.scope = "" /\ NoRow.token = "none"
                     /\ NoRow.consumed = FALSE /\ NoRow.expires = FALSE
                     /\ NoRow.stranded = FALSE
BY DEF NoRow

\* The ends of a run.
LEMMA CancelStep ==
  ASSUME TypeOK, TypeOK', NEW r \in Run, RunInv(r), CancelFlow(r)
  PROVE  StepOf(r)
<1> DEFINE row == [runs[r] EXCEPT !.status = "cancelled"]
<1>1. runs' = [runs EXCEPT ![r] = row]
  BY DEF CancelFlow
<1>2. /\ row.status = "cancelled" /\ row.flow = runs[r].flow /\ row.stranded = runs[r].stranded
      /\ row.token = runs[r].token /\ row.scope = runs[r].scope /\ row.consumed = runs[r].consumed
  <2>1. runs[r] \in Row
    BY DEF TypeOK
  <2> QED BY <2>1 DEF Row
<1> HIDE DEF row
<1>3. /\ runs'[r] = row /\ mirror'[r] = {row.status}
      /\ \A p \in Run \ {r} : runs'[p] = runs[p] /\ mirror'[p] = mirror[p]
  BY <1>1, Written DEF CancelFlow
<1>4. queue' = queue /\ runs[r].status = "waiting"
  BY DEF CancelFlow
<1>5. queue[<<"advance", r>>] = 0
  <2>1. queue[<<"advance", r>>] \in Nat
    BY Jobs DEF TypeOK
  <2> QED BY <1>4, <2>1 DEF RunInv, Due
<1>6. RunInv(r)'
  BY <1>2, <1>3, <1>4, <1>5 DEF RunInv, Due, Standing, Unstranded, Owned, Standalone, Mirrored
<1>7. NotRevived(r)
  <2>1. row \in Row
    BY <1>3 DEF TypeOK
  <2> QED BY <1>2, <1>3, <2>1, LiveIs DEF NotRevived, LiveStandalone
<1>8. \A p \in Run \ {r} : Kept(p)
  <2>1. \A j \in Job : queue'[j] = queue[j]
    BY <1>4
  <2> QED BY <1>3, <2>1, OtherQueues
<1> QED BY <1>6, <1>7, <1>8 DEF StepOf

\* The expiry tick ends its run or does nothing, and leaves the other runs alone.
LEMMA ExpireStep ==
  ASSUME TypeOK, TypeOK', NEW r \in Run, RunInv(r), ExpireTick(r)
  PROVE  StepOf(r)
<1>1. queue' = Take(queue, <<"expire", r>>) /\ <<"expire", r>> \in Job
  BY Jobs DEF ExpireTick
<1>2. ASSUME NEW p \in Run, NEW kind \in {"advance", "wake", "action"}
      PROVE  queue'[<<kind, p>>] = queue[<<kind, p>>] /\ queue[<<kind, p>>] \in Nat
  <2>1. <<kind, p>> \in Job /\ <<kind, p>> # <<"expire", r>>
    BY Jobs
  <2> QED BY <1>1, <2>1, QueueAt DEF TypeOK
<1>3. CASE runs[r].status # "waiting"
  <2>1. UNCHANGED <<runs, mirror>>
    BY <1>3 DEF ExpireTick
  <2>2. \A p \in Run : SameQueue(p)
    BY <1>2 DEF SameQueue
  <2> QED BY <2>1, <2>2, NothingDone
<1>4. CASE runs[r].status = "waiting"
  <2> DEFINE row == [runs[r] EXCEPT !.status = "expired"]
  <2>1. runs' = [runs EXCEPT ![r] = row] /\ mirror' = RecordStatus({r}, runs')
    BY <1>4 DEF ExpireTick
  <2>2. /\ row.status = "expired" /\ row.flow = runs[r].flow /\ row.stranded = runs[r].stranded
        /\ row.token = runs[r].token /\ row.scope = runs[r].scope
    <3>1. runs[r] \in Row
      BY DEF TypeOK
    <3> QED BY <3>1 DEF Row
  <2> HIDE DEF row
  <2>3. /\ runs'[r] = row /\ mirror'[r] = {row.status}
        /\ \A p \in Run \ {r} : runs'[p] = runs[p] /\ mirror'[p] = mirror[p]
    BY <2>1, Written
  <2>4. RunInv(r)'
    BY <1>2, <1>4, <2>2, <2>3 DEF RunInv, Due, Standing, Unstranded, Owned, Standalone, Mirrored
  <2>5. NotRevived(r)
    <3>1. row \in Row
      BY <2>3 DEF TypeOK
    <3> QED BY <2>2, <2>3, <3>1, LiveIs DEF NotRevived, LiveStandalone
  <2>6. \A p \in Run \ {r} : Kept(p)
    <3>1. \A p \in Run : SameQueue(p)
      BY <1>2 DEF SameQueue
    <3> QED BY <2>3, <3>1, KeptIs
  <2> QED BY <2>4, <2>5, <2>6 DEF StepOf
<1> QED BY <1>3, <1>4

\* A submission: the answers are taken, or the run expires over its link.
LEMMA SubmitStep ==
  ASSUME TypeOK, TypeOK', NEW r \in Run, NEW answers, RunInv(r), Submit(r, answers)
  PROVE  StepOf(r)
<1>1. mirror' = mirror /\ runs[r] \in Row
  BY DEF Submit, TypeOK
<1>2. ASSUME NEW p \in Run, NEW kind \in {"advance", "wake", "action"}
      PROVE  queue'[<<kind, p>>] = queue[<<kind, p>>] /\ queue[<<kind, p>>] \in Nat
  <2>1. queue' = queue \/ queue' = Add(queue, <<"change", runs[r].form>>)
    BY DEF Submit
  <2>2. <<"change", runs[r].form>> \in Job
    BY <1>1, Jobs, RowFields DEF Submit
  <2>3. <<kind, p>> \in Job /\ <<kind, p>> # <<"change", runs[r].form>>
    BY Jobs
  <2> QED BY <2>1, <2>2, <2>3, QueueAt DEF TypeOK
<1>3. PICK row :
        /\ runs' = [runs EXCEPT ![r] = row]
        /\ row.flow = runs[r].flow /\ row.token = runs[r].token /\ row.scope = runs[r].scope
        /\ row.stranded = runs[r].stranded
        /\ \/ row.status = "expired"
           \/ row.status = runs[r].status /\ row.consumed
  <2>1. CASE runs' = [runs EXCEPT ![r].status = "expired"]
    <3> DEFINE row == [runs[r] EXCEPT !.status = "expired"]
    <3>1. /\ row.status = "expired" /\ row.flow = runs[r].flow /\ row.stranded = runs[r].stranded
          /\ row.token = runs[r].token /\ row.scope = runs[r].scope
      BY <1>1 DEF Row
    <3>2. runs' = [runs EXCEPT ![r] = row]
      BY <2>1
    <3> QED BY <3>1, <3>2
  <2>2. CASE runs' = [runs EXCEPT ![r].context = "answers", ![r].consumed = TRUE]
    <3> DEFINE row == [runs[r] EXCEPT !.context = "answers", !.consumed = TRUE]
    <3>1. /\ row.status = runs[r].status /\ row.consumed /\ row.flow = runs[r].flow
          /\ row.stranded = runs[r].stranded /\ row.token = runs[r].token /\ row.scope = runs[r].scope
      BY <1>1 DEF Row
    <3>2. runs' = [runs EXCEPT ![r] = row]
      BY <2>2 DEF TypeOK
    <3> QED BY <3>1, <3>2
  <2> QED BY <2>1, <2>2 DEF Submit
<1>4. runs'[r] = row /\ \A p \in Run \ {r} : runs'[p] = runs[p]
  BY <1>3, Written
<1>5. runs[r].status # "absent"
  BY NoRowFields DEF Submit, RunInv, Owned
<1>6. RunInv(r)'
  BY <1>1, <1>2, <1>3, <1>4, <1>5 DEF RunInv, Due, Standing, Unstranded, Owned, Standalone, Mirrored
<1>7. NotRevived(r)
  <2>1. row \in Row
    BY <1>4 DEF TypeOK
  <2> QED BY <1>3, <1>4, <2>1, LiveIs DEF NotRevived, LiveStandalone
<1>8. \A p \in Run \ {r} : Kept(p)
  <2>1. \A p \in Run : SameQueue(p)
    BY <1>2 DEF SameQueue
  <2> QED BY <1>1, <1>4, <2>1, KeptIs
<1> QED BY <1>6, <1>7, <1>8 DEF StepOf

\* A link that lapses changes only the token of its run.
LEMMA LapseStep ==
  ASSUME TypeOK, TypeOK', NEW r \in Run, RunInv(r), TokenLapses(r)
  PROVE  StepOf(r)
<1> DEFINE row == [runs[r] EXCEPT !.token = "lapsed"]
<1>1. runs' = [runs EXCEPT ![r] = row] /\ mirror' = mirror /\ queue' = queue
  BY DEF TokenLapses
<1>2. /\ row.token = "lapsed" /\ row.status = runs[r].status /\ row.flow = runs[r].flow
      /\ row.scope = runs[r].scope /\ row.stranded = runs[r].stranded
  <2>1. runs[r] \in Row
    BY DEF TypeOK
  <2> QED BY <2>1 DEF Row
<1> HIDE DEF row
<1>3. runs'[r] = row /\ \A p \in Run \ {r} : runs'[p] = runs[p]
  BY <1>1, Written
<1>4. runs[r].status # "absent" /\ runs[r].token # "none"
  BY NoRowFields DEF TokenLapses, RunInv, Owned
<1>5. RunInv(r)'
  BY <1>1, <1>2, <1>3, <1>4 DEF RunInv, Due, Standing, Unstranded, Owned, Standalone, Mirrored
<1>6. NotRevived(r)
  <2>1. row \in Row
    BY <1>3 DEF TypeOK
  <2> QED BY <1>2, <1>3, <2>1, LiveIs DEF NotRevived, LiveStandalone
<1>7. \A p \in Run \ {r} : Kept(p)
  <2>1. \A p \in Run : SameQueue(p)
    BY <1>1, Jobs DEF SameQueue, TypeOK
  <2> QED BY <1>1, <1>3, <2>1, KeptIs
<1> QED BY <1>5, <1>6, <1>7 DEF StepOf

\* An action that is lost leaves its run waiting.
LEMMA LoseStep ==
  ASSUME TypeOK, TypeOK', NEW r \in Run, RunInv(r), LoseAction(r)
  PROVE  StepOf(r)
<1>1. queue' = Take(queue, <<"action", r>>) /\ <<"action", r>> \in Job
  BY Jobs DEF LoseAction
<1>2. ASSUME NEW p \in Run
      PROVE  /\ queue'[<<"advance", p>>] = queue[<<"advance", p>>]
             /\ \A kind \in {"wake", "action"} : queue'[<<kind, p>>] <= queue[<<kind, p>>]
  <2>1. \A kind \in {"advance", "wake", "action"} : <<kind, p>> \in Job
    BY Jobs
  <2>2. <<"advance", p>> # <<"action", r>>
    OBVIOUS
  <2> QED BY <1>1, <2>1, <2>2, QueueAt DEF TypeOK
<1> QED BY <1>2, NothingWritten DEF LoseAction

\* The calls that concern no run yet.
LEMMA IdleStep ==
  ASSUME TypeOK, TypeOK',
         \/ \E f \in Form : ProcessSubmission(f) \/ AssertMarker(f)
         \/ \E n \in Flow, d \in Definition : DefineFlow(n, d)
  PROVE  UNCHANGED runs /\ \A p \in Run : Kept(p)
<1>1. UNCHANGED <<runs, mirror>>
  BY DEF ProcessSubmission, AssertMarker, DefineFlow
<1>2. ASSUME NEW p \in Run, NEW kind \in {"advance", "wake", "action"}
      PROVE  queue'[<<kind, p>>] = queue[<<kind, p>>] /\ queue[<<kind, p>>] \in Nat
  <2>1. <<kind, p>> \in Job /\ queue \in [Job -> Nat]
    BY Jobs DEF TypeOK
  <2>2. \A f \in Form : /\ <<"change", f>> \in Job /\ <<"resume", f>> \in Job
                        /\ <<kind, p>> # <<"change", f>> /\ <<kind, p>> # <<"resume", f>>
    BY Jobs
  <2>3. CASE \E f \in Form : ProcessSubmission(f)
    <3>1. PICK f \in Form : /\ queue[<<"change", f>>] > 0
                            /\ queue' = Add(Take(queue, <<"change", f>>), <<"resume", f>>)
      BY <2>3 DEF ProcessSubmission
    <3>2. Take(queue, <<"change", f>>) \in [Job -> Nat]
      BY <2>1, <2>2, <3>1, QueueType
    <3> QED BY <2>1, <2>2, <3>1, <3>2, QueueAt
  <2>4. CASE \E f \in Form : AssertMarker(f)
    <3>1. PICK f \in Form : queue' = Add(queue, <<"change", f>>)
      BY <2>4 DEF AssertMarker
    <3>2. <<"change", f>> \in Job /\ <<kind, p>> # <<"change", f>>
      BY <2>2
    <3>3. queue'[<<kind, p>>] = queue[<<kind, p>>]
      BY <2>1, <3>1, <3>2, QueueAt
    <3> QED BY <2>1, <3>3
  <2>5. CASE \E n \in Flow, d \in Definition : DefineFlow(n, d)
    BY <2>1, <2>5 DEF DefineFlow
  <2> QED BY <2>3, <2>4, <2>5
<1>3. \A p \in Run : SameQueue(p)
  BY <1>2 DEF SameQueue
<1> QED BY <1>1, <1>3, KeptIs

\* startFlow creates a run for which the interpreter is due.
LEMMA StartStep ==
  ASSUME TypeOK, TypeOK', NEW r \in Run, NEW n \in Flow, RunInv(r), StartFlow(r, n)
  PROVE  StepOf(r)
<1> DEFINE row == [NoRow EXCEPT !.status = "running", !.flow = n, !.at = defs[n].start]
<1>1. runs' = [runs EXCEPT ![r] = row] /\ mirror' = RecordStatus({r}, runs')
  BY DEF StartFlow
<1>2. row.status = "running" /\ row.flow = n /\ n # NoFlow /\ row.stranded = FALSE
  BY FlowAssumption DEF NoRow
<1> HIDE DEF row
<1>3. /\ runs'[r] = row /\ mirror'[r] = {row.status}
      /\ \A p \in Run \ {r} : runs'[p] = runs[p] /\ mirror'[p] = mirror[p]
  BY <1>1, Written
<1>4. queue' = Add(queue, <<"advance", r>>) /\ <<"advance", r>> \in Job /\ queue \in [Job -> Nat]
  BY Jobs DEF StartFlow, TypeOK
<1>5. queue[<<"advance", r>>] = 0
  <2>1. runs[r].flow = NoFlow
    BY NoRowFields DEF StartFlow, RunInv, Owned
  <2> QED BY <2>1 DEF RunInv, Owned, Standalone
<1>6. queue'[<<"advance", r>>] = 1
  BY <1>4, <1>5, QueueAt
<1>7. RunInv(r)'
  BY <1>2, <1>3, <1>6 DEF RunInv, Due, Standing, Unstranded, Owned, Mirrored
<1>8. NotRevived(r)
  BY <1>2, <1>3 DEF NotRevived, LiveStandalone
<1>9. ASSUME NEW p \in Run \ {r} PROVE Kept(p)
  <2>1. ASSUME NEW kind \in {"advance", "wake", "action"}
        PROVE  queue'[<<kind, p>>] = queue[<<kind, p>>] /\ queue[<<kind, p>>] \in Nat
    <3>1. <<kind, p>> \in Job /\ <<kind, p>> # <<"advance", r>>
      BY Jobs
    <3> QED BY <1>4, <3>1, QueueAt
  <2>2. SameQueue(p)
    BY <2>1 DEF SameQueue
  <2> QED BY <1>3, <2>2, KeptIs
<1> QED BY <1>7, <1>8, <1>9 DEF StepOf

\* A timer or a callback resumes a run that waits, and then the interpreter is due.
LEMMA ResumeStep ==
  ASSUME TypeOK, TypeOK', NEW r \in Run, RunInv(r), Wake(r) \/ ResumeAction(r)
  PROVE  StepOf(r)
<1>1. PICK kind \in {"wake", "action"} :
        /\ queue[<<kind, r>>] > 0
        /\ \/ /\ queue' = Take(queue, <<kind, r>>)
              /\ UNCHANGED <<runs, mirror>>
           \/ /\ runs[r].status = "waiting"
              /\ runs' = [runs EXCEPT ![r] = ResumedRow(r)]
              /\ queue' = Add(Take(queue, <<kind, r>>), <<"advance", r>>)
              /\ mirror' = RecordStatus({r}, runs')
  BY DEF Wake, ResumeAction
<1>2. <<kind, r>> \in Job /\ <<"advance", r>> \in Job /\ queue \in [Job -> Nat]
  BY Jobs DEF TypeOK
<1>3. Take(queue, <<kind, r>>) \in [Job -> Nat]
  BY <1>1, <1>2, QueueType
<1>4. ASSUME NEW p \in Run, NEW k \in {"advance", "wake", "action"}
      PROVE  /\ <<k, p>> \in Job /\ queue[<<k, p>>] \in Nat
             /\ p # r => <<k, p>> # <<kind, r>> /\ <<k, p>> # <<"advance", r>>
             /\ k = "advance" => <<k, p>> # <<kind, r>>
  BY <1>2, Jobs
<1>5. CASE queue' = Take(queue, <<kind, r>>) /\ UNCHANGED <<runs, mirror>>
  <2>1. ASSUME NEW p \in Run, NEW k \in {"advance", "wake", "action"}
        PROVE  /\ queue'[<<k, p>>] <= queue[<<k, p>>]
               /\ k = "advance" => queue'[<<k, p>>] = queue[<<k, p>>]
    <3>1. queue'[<<k, p>>] = IF <<k, p>> = <<kind, r>> THEN queue[<<k, p>>] - 1 ELSE queue[<<k, p>>]
      <4>1. <<k, p>> \in Job
        BY <1>4
      <4> QED BY <1>2, <1>5, <4>1, QueueAt
    <3>2. queue[<<k, p>>] \in Nat /\ (k = "advance" => <<k, p>> # <<kind, r>>)
      BY <1>4
    <3> QED BY <3>1, <3>2
  <2> QED BY <1>5, <2>1, NothingWritten
<1>6. CASE /\ runs[r].status = "waiting"
           /\ runs' = [runs EXCEPT ![r] = ResumedRow(r)]
           /\ queue' = Add(Take(queue, <<kind, r>>), <<"advance", r>>)
           /\ mirror' = RecordStatus({r}, runs')
  <2>1. runs[r].flow # NoFlow
    <3>1. runs[r].flow = NoFlow => \A k \in {"advance", "wake", "action"} : queue[<<k, r>>] = 0
      BY DEF RunInv, Owned, Standalone
    <3>2. ~(0 > 0) /\ kind \in {"advance", "wake", "action"}
      OBVIOUS
    <3> QED BY <1>1, <3>1, <3>2
  <2> DEFINE row == ResumedRow(r)
  <2>2. row.status = "running" /\ row.flow = runs[r].flow /\ row.stranded = runs[r].stranded
    <3>1. PICK y \in StepId : row = [runs[r] EXCEPT !.status = "running", !.at = y]
      BY <2>1, ResumedType
    <3>2. runs[r] \in Row
      BY DEF TypeOK
    <3> HIDE DEF row
    <3> QED BY <3>1, <3>2 DEF Row
  <2> HIDE DEF row
  <2>3. /\ runs'[r] = row /\ mirror'[r] = {row.status}
        /\ \A p \in Run \ {r} : runs'[p] = runs[p] /\ mirror'[p] = mirror[p]
    BY <1>6, Written DEF row
  <2>4. ASSUME NEW p \in Run, NEW k \in {"advance", "wake", "action"}, p # r \/ k = "advance"
        PROVE  queue'[<<k, p>>] = IF p = r THEN queue[<<k, p>>] + 1 ELSE queue[<<k, p>>]
    <3> DEFINE taken == Take(queue, <<kind, r>>)
    <3>1. <<k, p>> \in Job /\ <<k, p>> # <<kind, r>>
      BY <1>4, <2>4
    <3>2. taken[<<k, p>>] = queue[<<k, p>>]
      BY <1>2, <3>1, QueueAt
    <3>3. taken \in [Job -> Nat] /\ queue' = Add(taken, <<"advance", r>>)
      BY <1>3, <1>6
    <3> HIDE DEF taken
    <3>4. queue'[<<k, p>>] = IF <<k, p>> = <<"advance", r>>
                             THEN queue[<<k, p>>] + 1 ELSE queue[<<k, p>>]
      BY <1>2, <3>1, <3>2, <3>3, QueueAt, SMTT(30)
    <3> QED BY <2>4, <3>4
  <2>5. queue[<<"advance", r>>] = 0
    <3>1. queue[<<"advance", r>>] \in Nat /\ ~(queue[<<"advance", r>>] > 0)
      BY <1>4, <1>6 DEF RunInv, Due
    <3> QED BY <3>1
  <2>6. queue'[<<"advance", r>>] = 1
    <3>1. queue'[<<"advance", r>>] = queue[<<"advance", r>>] + 1
      BY <2>4
    <3> QED BY <2>5, <3>1
  <2>7. RunInv(r)'
    BY <2>1, <2>2, <2>3, <2>6 DEF RunInv, Due, Standing, Unstranded, Owned, Mirrored
  <2>8. NotRevived(r)
    BY <2>1, <2>2, <2>3 DEF NotRevived, LiveStandalone
  <2>9. ASSUME NEW p \in Run \ {r} PROVE Kept(p)
    <3>1. SameQueue(p)
      BY <1>4, <2>4 DEF SameQueue
    <3> QED BY <2>3, <3>1, KeptIs
  <2> QED BY <2>7, <2>8, <2>9 DEF StepOf
<1> QED BY <1>1, <1>5, <1>6

\* What a parked run's row says of it.
LEMMA ParkedFields ==
  ASSUME TypeOK, NEW r \in Run, NEW s
  PROVE  /\ ParkedRow(r, s).status = "waiting" /\ ParkedRow(r, s).flow = runs[r].flow
         /\ ParkedRow(r, s).stranded = runs[r].stranded
<1> DEFINE step == defs[runs[r].flow].steps[s]
           scope == IF step.scope = "context" /\ runs[r].context = "answers" THEN "" ELSE "given"
<1>1. runs[r] \in Row
  BY DEF TypeOK
<1>2. CASE step.type # "collect"
  <2>1. ParkedRow(r, s) = [runs[r] EXCEPT !.status = "waiting", !.at = s]
    BY <1>2 DEF ParkedRow
  <2> QED BY <1>1, <2>1 DEF Row
<1>3. CASE step.type = "collect"
  <2>1. ParkedRow(r, s) = [runs[r] EXCEPT !.status = "waiting", !.at = s, !.form = step.form,
                                          !.scope = scope, !.token = "live"]
    BY <1>3 DEF ParkedRow
  <2> HIDE DEF step, scope
  <2> QED BY <1>1, <2>1 DEF Row
<1> QED BY <1>2, <1>3

\* The interpreter spends its call: it parks the run with what is to wake it, ends it, or
\* strands it.
LEMMA AdvanceStep ==
  ASSUME TypeOK, TypeOK', StoredValid, NEW r \in Run, RunInv(r), AdvanceFlow(r)
  PROVE  StepOf(r)
<1> DEFINE w == Walk(defs[runs[r].flow], runs[r].context, runs[r].at, facts)
           type == TypeOf(defs[runs[r].flow], w.at)
           spent == Take(queue, <<"advance", r>>)
           timers == TimersOf(r, defs[runs[r].flow].steps[w.at])
<1>1. queue[<<"advance", r>>] = 1
  <2>1. queue[<<"advance", r>>] \in Nat /\ queue[<<"advance", r>>] > 0
    BY Jobs DEF AdvanceFlow, TypeOK
  <2> QED BY <2>1 DEF RunInv, Due
<1>2. runs[r].flow # NoFlow
  <2>1. runs[r].flow = NoFlow => queue[<<"advance", r>>] = 0
    BY DEF RunInv, Owned, Standalone
  <2> QED BY <1>1, <2>1
<1>3. queue \in [Job -> Nat] /\ <<"advance", r>> \in Job /\ spent \in [Job -> Nat]
  <2>1. queue \in [Job -> Nat] /\ <<"advance", r>> \in Job
    BY Jobs DEF TypeOK
  <2>2. queue[<<"advance", r>>] > 0
    BY <1>1
  <2> QED BY <2>1, <2>2, QueueType
<1>4. queue' = spent \/ queue' = AddEach(spent, timers)
  BY DEF AdvanceFlow
<1>5. ASSUME NEW p \in Run, NEW k \in {"advance", "wake", "action"}, p # r \/ k = "advance"
      PROVE  /\ queue'[<<k, p>>] = IF p = r THEN queue[<<k, p>>] - 1 ELSE queue[<<k, p>>]
             /\ queue[<<k, p>>] \in Nat
  <2>1. <<k, p>> \in Job /\ (<<k, p>> = <<"advance", r>> <=> p = r)
    BY <1>5, Jobs
  <2>2. <<k, p>> \notin timers
    BY <1>5 DEF TimersOf
  <2> HIDE DEF timers
  <2>3. spent[<<k, p>>] = IF p = r THEN queue[<<k, p>>] - 1 ELSE queue[<<k, p>>]
    BY <1>3, <2>1, QueueAt
  <2> HIDE DEF spent
  <2>4. queue'[<<k, p>>] = spent[<<k, p>>]
    BY <1>3, <1>4, <2>1, <2>2, QueueAt
  <2> QED BY <1>3, <2>1, <2>3, <2>4
<1>6. queue'[<<"advance", r>>] = 0
  <2>1. queue'[<<"advance", r>>] = queue[<<"advance", r>>] - 1
    BY <1>5
  <2> QED BY <1>1, <2>1
<1>7. \A p \in Run \ {r} : SameQueue(p)
  BY <1>5 DEF SameQueue
<1>8. CASE runs[r].status # "running" /\ UNCHANGED <<runs, mirror>>
  <2>1. runs'[r] = runs[r] /\ mirror'[r] = mirror[r]
    BY <1>8
  <2>2. RunInv(r)'
    BY <1>2, <1>6, <1>8, <2>1 DEF RunInv, Due, Standing, Unstranded, Owned, Mirrored
  <2>3. \A p \in Run \ {r} : Kept(p)
    BY <1>7, <1>8, KeptIs
  <2> QED BY <2>1, <2>2, <2>3 DEF StepOf, NotRevived
<1>9. CASE /\ runs[r].status = "running"
           /\ runs' = [runs EXCEPT ![r] = ParkedRow(r, w.at)]
           /\ mirror' = RecordStatus({r}, runs')
  <2> DEFINE row == ParkedRow(r, w.at)
  <2>1. row.status = "waiting" /\ row.flow = runs[r].flow /\ row.stranded = runs[r].stranded
    BY ParkedFields
  <2> HIDE DEF row
  <2>2. /\ runs'[r] = row /\ mirror'[r] = {row.status}
        /\ \A p \in Run \ {r} : runs'[p] = runs[p] /\ mirror'[p] = mirror[p]
    BY <1>9, Written DEF row
  <2>3. RunInv(r)'
    BY <1>2, <1>6, <2>1, <2>2 DEF RunInv, Due, Standing, Unstranded, Owned, Mirrored
  <2>4. NotRevived(r)
    BY <1>2, <2>1, <2>2 DEF NotRevived, LiveStandalone
  <2>5. \A p \in Run \ {r} : Kept(p)
    BY <1>7, <2>2, KeptIs
  <2> QED BY <2>3, <2>4, <2>5 DEF StepOf
<1>10. CASE /\ runs[r].status = "running"
            /\ runs' = [runs EXCEPT ![r].status = "completed",
                                    ![r].at = IF w.at = "" THEN "done" ELSE w.at]
            /\ mirror' = RecordStatus({r}, runs')
  <2> DEFINE at == IF w.at = "" THEN "done" ELSE w.at
             row == [runs[r] EXCEPT !.status = "completed", !.at = at]
  <2>1. runs' = [runs EXCEPT ![r] = row]
    BY <1>10 DEF TypeOK
  <2>2. row.status = "completed" /\ row.flow = runs[r].flow /\ row.stranded = runs[r].stranded
    <3>1. runs[r] \in Row
      BY DEF TypeOK
    <3> HIDE DEF at
    <3> QED BY <3>1 DEF Row
  <2> HIDE DEF row
  <2>3. /\ runs'[r] = row /\ mirror'[r] = {row.status}
        /\ \A p \in Run \ {r} : runs'[p] = runs[p] /\ mirror'[p] = mirror[p]
    BY <1>10, <2>1, Written
  <2>4. RunInv(r)'
    BY <1>2, <1>6, <2>2, <2>3 DEF RunInv, Due, Standing, Unstranded, Owned, Mirrored
  <2>5. NotRevived(r)
    BY <1>2, <2>2, <2>3 DEF NotRevived, LiveStandalone
  <2>6. \A p \in Run \ {r} : Kept(p)
    BY <1>7, <2>3, KeptIs
  <2> QED BY <2>4, <2>5, <2>6 DEF StepOf
<1>11. CASE /\ runs[r].status = "running"
            /\ Throws(defs[runs[r].flow], runs[r].context, w) \/ type = "branch"
            /\ \/ runs' = [runs EXCEPT ![r].stranded = TRUE]
               \/ runs' = [runs EXCEPT ![r].at = w.at, ![r].stranded = TRUE]
            /\ UNCHANGED mirror
  <2>1. ~ShortDefinitions
    <3> SUFFICES ASSUME ShortDefinitions PROVE FALSE
      OBVIOUS
    <3>1. runs[r].flow \in Flow /\ runs[r].at \in StepId /\ facts \in SUBSET Attr
      BY <1>2, RowFields DEF TypeOK
    <3>2. defs[runs[r].flow] \in ValidDefinition \cup {NoDef}
      BY <3>1 DEF StoredValid
    <3>3. ~Inline(type) /\ ~Throws(defs[runs[r].flow], runs[r].context, w)
      BY <3>1, <3>2, WalkEnds
    <3> QED BY <1>11, <3>3 DEF Inline
  <2>2. PICK row : /\ runs' = [runs EXCEPT ![r] = row]
                   /\ row.status = "running" /\ row.flow = runs[r].flow /\ row.stranded = TRUE
    <3> DEFINE at == w.at
               row1 == [runs[r] EXCEPT !.stranded = TRUE]
               row2 == [runs[r] EXCEPT !.at = at, !.stranded = TRUE]
    <3>1. runs[r] \in Row
      BY DEF TypeOK
    <3>2. runs' = [runs EXCEPT ![r] = row1] \/ runs' = [runs EXCEPT ![r] = row2]
      BY <1>11 DEF TypeOK
    <3> HIDE DEF at
    <3>3. row1.status = "running" /\ row1.flow = runs[r].flow /\ row1.stranded = TRUE
      BY <1>11, <3>1 DEF Row
    <3>4. row2.status = "running" /\ row2.flow = runs[r].flow /\ row2.stranded = TRUE
      BY <1>11, <3>1 DEF Row
    <3> HIDE DEF row1, row2
    <3> QED BY <3>2, <3>3, <3>4
  <2>3. runs'[r] = row /\ mirror'[r] = mirror[r]
        /\ \A p \in Run \ {r} : runs'[p] = runs[p] /\ mirror'[p] = mirror[p]
    BY <1>11, <2>2, Written
  <2>4. RunInv(r)'
    BY <1>2, <1>6, <1>11, <2>1, <2>2, <2>3
    DEF RunInv, Due, Standing, Unstranded, Owned, Mirrored
  <2>5. NotRevived(r)
    BY <1>2, <2>2, <2>3 DEF NotRevived, LiveStandalone
  <2>6. \A p \in Run \ {r} : Kept(p)
    BY <1>7, <2>3, KeptIs
  <2> QED BY <2>4, <2>5, <2>6 DEF StepOf
<1> QED BY <1>8, <1>9, <1>10, <1>11 DEF AdvanceFlow

\* A submission ends or resumes every run that awaits it, each once, and leaves the
\* others alone.
LEMMA SubmissionStep ==
  ASSUME TypeOK, TypeOK', \A r \in Run : RunInv(r), NEW f \in Form, ResumeOnSubmission(f)
  PROVE  \A r \in Run : RunInv(r)' /\ NotRevived(r)
<1> SUFFICES ASSUME NEW r \in Run PROVE RunInv(r)' /\ NotRevived(r)
  OBVIOUS
<1> DEFINE R == Awaiting(f)
           dag == {p \in R : runs[p].flow # NoFlow}
           J == {<<"advance", p>> : p \in dag}
           taken == Take(queue, <<"resume", f>>)
<1>1. /\ queue[<<"resume", f>>] > 0
      /\ runs' = [p \in Run |->
                    CASE p \in dag -> ResumedRow(p)
                      [] p \in R \ dag -> [runs[p] EXCEPT !.status = "completed"]
                      [] OTHER -> runs[p]]
      /\ mirror' = RecordStatus(R, runs')
      /\ queue' = AddEach(taken, J)
  BY DEF ResumeOnSubmission
<1>2. queue \in [Job -> Nat] /\ <<"resume", f>> \in Job /\ taken \in [Job -> Nat]
  <2>1. queue \in [Job -> Nat] /\ <<"resume", f>> \in Job
    BY Jobs DEF TypeOK
  <2> QED BY <1>1, <2>1, QueueType
<1>3. ASSUME NEW k \in {"advance", "wake", "action"}
      PROVE  /\ queue'[<<k, r>>] = IF k = "advance" /\ r \in dag
                                  THEN queue[<<k, r>>] + 1 ELSE queue[<<k, r>>]
             /\ queue[<<k, r>>] \in Nat
  <2>1. <<k, r>> \in Job /\ <<k, r>> # <<"resume", f>>
    BY Jobs
  <2>2. taken[<<k, r>>] = queue[<<k, r>>]
    BY <1>2, <2>1, QueueAt
  <2>3. <<k, r>> \in J <=> k = "advance" /\ r \in dag
    OBVIOUS
  <2> HIDE DEF J, taken, dag
  <2>4. queue'[<<k, r>>] = IF <<k, r>> \in J THEN taken[<<k, r>>] + 1 ELSE taken[<<k, r>>]
    BY <1>1, <1>2, <2>1, QueueAt
  <2> QED BY <1>2, <2>1, <2>2, <2>3, <2>4
<1>4. ASSUME r \in R
      PROVE  /\ runs[r].status = "waiting" /\ runs[r].form = f /\ runs[r].scope = "given"
             /\ mirror'[r] = {runs'[r].status}
  BY <1>1, <1>4 DEF Awaiting, RecordStatus
<1>5. CASE r \in dag
  <2> DEFINE row == ResumedRow(r)
  <2>1. runs'[r] = row
    BY <1>1, <1>5
  <2>2. row.status = "running" /\ row.flow = runs[r].flow /\ row.stranded = runs[r].stranded
    <3>1. PICK y \in StepId : row = [runs[r] EXCEPT !.status = "running", !.at = y]
      BY <1>5, ResumedType
    <3>2. runs[r] \in Row
      BY DEF TypeOK
    <3> HIDE DEF row
    <3> QED BY <3>1, <3>2 DEF Row
  <2> HIDE DEF row
  <2>3. queue'[<<"advance", r>>] = 1
    <3>1. queue[<<"advance", r>>] \in Nat /\ ~(queue[<<"advance", r>>] > 0)
      BY <1>3, <1>4, <1>5 DEF RunInv, Due
    <3>2. queue'[<<"advance", r>>] = queue[<<"advance", r>>] + 1
      BY <1>3, <1>5
    <3> QED BY <3>1, <3>2
  <2>4. runs[r].flow # NoFlow /\ mirror'[r] = {row.status}
    BY <1>4, <1>5, <2>1
  <2>5. RunInv(r)'
    BY <2>1, <2>2, <2>3, <2>4 DEF RunInv, Due, Standing, Unstranded, Owned, Mirrored
  <2> QED BY <2>1, <2>2, <2>4, <2>5 DEF NotRevived, LiveStandalone
<1>6. CASE r \in R \ dag
  <2> DEFINE row == [runs[r] EXCEPT !.status = "completed"]
  <2>1. runs'[r] = row
    BY <1>1, <1>6
  <2>2. /\ row.status = "completed" /\ row.flow = runs[r].flow
        /\ row.scope = runs[r].scope /\ row.stranded = runs[r].stranded
    <3>1. runs[r] \in Row
      BY DEF TypeOK
    <3> QED BY <3>1 DEF Row
  <2> HIDE DEF row
  <2>3. runs[r].flow = NoFlow /\ runs[r].scope = "given" /\ mirror'[r] = {row.status}
    BY <1>4, <1>6, <2>1
  <2>4. \A k \in {"advance", "wake", "action"} : queue'[<<k, r>>] = queue[<<k, r>>]
    BY <1>3, <1>6
  <2>5. RunInv(r)'
    BY <2>1, <2>2, <2>3, <2>4 DEF RunInv, Due, Standing, Unstranded, Owned, Standalone, Mirrored
  <2>6. row \in Row
    BY <2>1 DEF TypeOK
  <2> QED BY <2>1, <2>2, <2>5, <2>6, LiveIs DEF NotRevived, LiveStandalone
<1>7. CASE r \notin R
  <2>1. runs'[r] = runs[r] /\ mirror'[r] = mirror[r]
    BY <1>1, <1>7 DEF RecordStatus
  <2>2. SameQueue(r)
    BY <1>3, <1>7 DEF SameQueue
  <2>3. RunInv(r)'
    BY <2>1, <2>2, KeptIs, KeptInv
  <2> QED BY <2>1, <2>3 DEF NotRevived
<1> QED BY <1>5, <1>6, <1>7

\* A collection is issued when its target has no live link, and is a standalone run.
LEMMA CollectStep ==
  ASSUME TypeOK, TypeOK', NEW r \in Run, NEW f \in Form, NEW x \in BOOLEAN, RunInv(r),
         NEW t \in Target, StartCollect(r, f, x) \/ IssueActionCollect(r, f, t)
  PROVE  /\ runs'[r].form = f /\ runs'[r].target \in Target
         /\ LiveFor(f, {runs'[r].target}) = {}
         /\ RunInv(r)' /\ \A p \in Run \ {r} : Kept(p)
<1>1. PICK y \in BOOLEAN, u \in Target :
        /\ runs' = [runs EXCEPT ![r] = CollectRow(f, u, y)]
        /\ LiveFor(f, {u}) = {} \/ LiveFor(f, Target) = {}
        /\ \/ mirror' = mirror
           \/ mirror' = RecordStatus({r}, runs')
  BY DEF StartCollect, IssueActionCollect, Target
<1> DEFINE row == CollectRow(f, u, y)
<1>2. /\ row.status = "waiting" /\ row.flow = NoFlow /\ row.form = f /\ row.scope = "given"
      /\ row.target = u /\ row.stranded = FALSE
  BY DEF CollectRow, NoRow
<1> HIDE DEF row
<1>3. runs'[r] = row /\ \A p \in Run \ {r} : runs'[p] = runs[p]
  BY <1>1, Written DEF row
<1>4. /\ mirror'[r] = mirror[r] \/ mirror'[r] = {row.status}
      /\ \A p \in Run \ {r} : mirror'[p] = mirror[p]
  BY <1>1, Written DEF row
<1>5. mirror[r] = {} /\ runs[r].flow = NoFlow
  BY NoRowFields DEF StartCollect, IssueActionCollect, RunInv, Owned
<1>6. ASSUME NEW p \in Run, NEW k \in {"advance", "wake", "action"}
      PROVE  queue'[<<k, p>>] = queue[<<k, p>>] /\ queue[<<k, p>>] \in Nat
  <2>1. queue \in [Job -> Nat] /\ <<"expire", r>> \in Job /\ <<k, p>> \in Job
        /\ <<k, p>> # <<"expire", r>>
    BY Jobs DEF TypeOK
  <2>2. queue' = queue \/ queue' = Add(queue, <<"expire", r>>)
    BY DEF StartCollect, IssueActionCollect
  <2> QED BY <2>1, <2>2, QueueAt
<1>7. RunInv(r)'
  <2>1. \A k \in {"advance", "wake", "action"} : queue'[<<k, r>>] = 0
    BY <1>5, <1>6 DEF RunInv, Owned, Standalone
  <2> QED BY <1>2, <1>3, <1>4, <1>5, <2>1 DEF RunInv, Due, Standing, Unstranded, Owned, Standalone, Mirrored
<1>8. ASSUME NEW p \in Run \ {r} PROVE Kept(p)
  <2>1. SameQueue(p)
    BY <1>6 DEF SameQueue
  <2> QED BY <1>3, <1>4, <2>1, KeptIs
<1>9. LiveFor(f, {u}) = {}
  BY <1>1 DEF LiveFor, IsLiveToken
<1> QED BY <1>2, <1>3, <1>7, <1>8, <1>9

------------------------------------------------------------------------------
(* The invariant *)

\* Every step keeps what holds of the runs, and of their links.
LEMMA RunStep ==
  ASSUME TypeOK, TypeOK', StoredValid, \A r \in Run : RunInv(r), OneLiveCollect, [Next]_vars
  PROVE  (\A r \in Run : RunInv(r)') /\ OneLiveCollect'
<1>1. ASSUME \A p \in Run : RunInv(p)' /\ NotRevived(p)
      PROVE  (\A r \in Run : RunInv(r)') /\ OneLiveCollect'
  BY <1>1 DEF NotRevived, LiveStandalone, OneLiveCollect
<1>2. ASSUME NEW r \in Run, StepOf(r)
      PROVE  (\A p \in Run : RunInv(p)') /\ OneLiveCollect'
  <2>1. ASSUME NEW p \in Run PROVE RunInv(p)' /\ NotRevived(p)
    <3>1. CASE p = r
      BY <1>2, <3>1 DEF StepOf
    <3>2. CASE p # r
      <4>1. Kept(p)
        BY <1>2, <3>2 DEF StepOf
      <4> QED BY <4>1, KeptInv DEF Kept, NotRevived
    <3> QED BY <3>1, <3>2
  <2> QED BY <1>1, <2>1
<1>3. ASSUME UNCHANGED runs, \A p \in Run : Kept(p)
      PROVE  (\A r \in Run : RunInv(r)') /\ OneLiveCollect'
  <2>1. \A p \in Run : RunInv(p)'
    BY <1>3, KeptInv
  <2>2. \A p \in Run : NotRevived(p)
    BY <1>3 DEF NotRevived
  <2> QED BY <1>1, <2>1, <2>2
<1>4. ASSUME NEW r \in CollectRun, NEW f \in Form,
             (\E x \in BOOLEAN : StartCollect(r, f, x)) \/ \E t \in Target : IssueActionCollect(r, f, t)
      PROVE  (\A p \in Run : RunInv(p)') /\ OneLiveCollect'
  <2>1. r \in Run
    BY DEF Run
  <2>2. PICK x \in BOOLEAN, t \in Target : StartCollect(r, f, x) \/ IssueActionCollect(r, f, t)
    BY <1>4 DEF Target
  <2> DEFINE to == runs'[r].target
  <2>3. /\ LiveFor(f, {to}) = {} /\ runs'[r].form = f /\ to \in Target
        /\ RunInv(r)' /\ \A p \in Run \ {r} : Kept(p)
    BY <2>1, <2>2, CollectStep
  <2>4. \A p \in Run : RunInv(p)'
    BY <2>3, KeptInv
  <2>5. ASSUME NEW p \in Run \ {r}
        PROVE  runs'[p] = runs[p] /\ ~(LiveStandalone(runs[p], to) /\ runs[p].form = f)
    <3>1. runs'[p] = runs[p]
      BY <2>3 DEF Kept
    <3>2. LiveStandalone(runs[p], to) => runs[p].scope = "given"
      BY DEF LiveStandalone, IsLiveToken, RunInv, Owned, Standalone
    <3> QED BY <2>3, <3>1, <3>2 DEF LiveFor, LiveStandalone
  <2>6. \A t2 \in Target : LiveStandalone(runs'[r], t2) => t2 = to
    BY DEF LiveStandalone, IsLiveToken
  <2>7. OneLiveCollect'
    <3> HIDE DEF to
    <3> SUFFICES ASSUME NEW p \in Run, NEW q \in Run, NEW t2 \in Target,
                        LiveStandalone(runs'[p], t2), LiveStandalone(runs'[q], t2),
                        runs'[p].form = runs'[q].form
                 PROVE  p = q
      BY DEF OneLiveCollect, LiveStandalone
    <3>1. CASE p # r /\ q # r
      <4>1. runs'[p] = runs[p] /\ runs'[q] = runs[q]
        BY <2>5, <3>1
      <4> QED BY <4>1 DEF OneLiveCollect, LiveStandalone
    <3>2. CASE p = r \/ q = r
      BY <2>3, <2>5, <2>6, <3>2
    <3> QED BY <3>1, <3>2
  <2> QED BY <2>4, <2>7
<1>5. CASE UNCHANGED vars
  <2>1. \A p \in Run : SameQueue(p)
    BY <1>5, Jobs DEF vars, SameQueue, TypeOK
  <2>2. UNCHANGED <<runs, mirror>>
    BY <1>5 DEF vars
  <2> QED BY <1>3, <2>1, <2>2, KeptIs
<1>6. CASE Scheduled
  <2>1. CASE \E r \in Run : AdvanceFlow(r) \/ ExpireTick(r) \/ Wake(r) \/ ResumeAction(r)
    BY <1>2, <2>1, AdvanceStep, ExpireStep, ResumeStep
  <2>2. CASE \E f \in Form : ResumeOnSubmission(f)
    BY <1>1, <2>2, SubmissionStep
  <2>3. CASE \E f \in Form : ProcessSubmission(f)
    BY <1>3, <2>3, IdleStep
  <2> QED BY <1>6, <2>1, <2>2, <2>3 DEF Scheduled
<1>7. CASE Called
  <2>1. CASE \E n \in Flow, d \in Definition : DefineFlow(n, d)
    BY <1>3, <2>1, IdleStep
  <2>2. CASE \E f \in Form : AssertMarker(f)
    BY <1>3, <2>2, IdleStep
  <2>3. CASE \E r \in DagRun, n \in Flow : StartFlow(r, n)
    BY <1>2, <2>3, StartStep DEF Run
  <2>4. CASE \E r \in Run : CancelFlow(r) \/ \E answers \in SUBSET Answer : Submit(r, answers)
    BY <1>2, <2>4, CancelStep, SubmitStep
  <2> QED BY <1>4, <1>7, <2>1, <2>2, <2>3, <2>4 DEF Called
<1>8. CASE \E r \in Run : LoseAction(r) \/ TokenLapses(r)
  BY <1>2, <1>8, LoseStep, LapseStep
<1> QED BY <1>5, <1>6, <1>7, <1>8 DEF Next

\* Only definitions that defineFlow has validated get stored.
LEMMA StoredStep == ASSUME StoredValid, TypeOK, [Next]_vars PROVE StoredValid'
<1>1. ASSUME NEW n \in Flow, NEW d \in Definition, DefineFlow(n, d) PROVE StoredValid'
  BY <1>1 DEF DefineFlow, StoredValid, TypeOK
<1>2. CASE UNCHANGED defs
  BY <1>2 DEF StoredValid
<1>3. UNCHANGED defs \/ \E n \in Flow, d \in Definition : DefineFlow(n, d)
  BY DEF Next, Scheduled, Called, vars, AdvanceFlow, ExpireTick, Wake, ResumeAction,
         ResumeOnSubmission, ProcessSubmission, StartCollect, IssueActionCollect, StartFlow,
         CancelFlow, Submit, AssertMarker, LoseAction, TokenLapses
<1> QED BY <1>1, <1>2, <1>3

\* The invariant holds before the first call.
LEMMA FlowInitially == Init => FlowInv
<1> SUFFICES ASSUME Init PROVE FlowInv
  OBVIOUS
<1>1. TypeOK
  BY NewRows DEF Init, TypeOK
<1>2. StoredValid
  BY DEF Init, StoredValid
<1>3. ASSUME NEW r \in Run PROVE RunInv(r) /\ runs[r].token = "none"
  <2>1. runs[r] = NoRow /\ mirror[r] = {}
    BY DEF Init
  <2>2. \A kind \in {"advance", "wake", "action"} : queue[<<kind, r>>] = 0
    BY Jobs DEF Init
  <2>3. Due(r) /\ Standing(r) /\ Unstranded(r)
    <3>1. queue[<<"advance", r>>] = 0 /\ 0 <= 1 /\ ~(0 > 0)
      BY <2>2
    <3>2. runs[r].status = "absent"
      BY <2>1, NoRowFields
    <3> QED BY <2>1, <3>1, <3>2, NoRowFields DEF Due, Standing, Unstranded
  <2>4. Owned(r)
    BY <2>1, <2>2, NoRowFields DEF Owned, Standalone
  <2>5. Mirrored(r)
    BY <2>1, NoRowFields DEF Mirrored
  <2> QED BY <2>1, <2>3, <2>4, <2>5, NoRowFields DEF RunInv
<1>4. OneLiveCollect
  BY <1>3 DEF OneLiveCollect, IsLiveToken
<1> QED BY <1>1, <1>2, <1>3, <1>4 DEF FlowInv

\* The invariant is inductive: every mutation, early return and lost action keeps it.
LEMMA FlowInvStep == FlowInv /\ [Next]_vars => FlowInv'
<1> SUFFICES ASSUME FlowInv, [Next]_vars PROVE FlowInv'
  OBVIOUS
<1> USE DEF FlowInv
<1>1. TypeOK'
  BY TypeStep DEF RunInv
<1>2. StoredValid'
  BY StoredStep
<1>3. (\A r \in Run : RunInv(r)') /\ OneLiveCollect'
  BY <1>1, RunStep
<1> QED BY <1>1, <1>2, <1>3

\* Every behaviour keeps the invariant.
LEMMA FlowInvariant == Spec => []FlowInv
BY FlowInitially, FlowInvStep, PTL DEF Spec

\* No step takes a run out of its end: whatever resumes, starts or parks a run asks
\* for its status, and what does not ask writes an end or leaves the status.
LEMMA EndedStep ==
  ASSUME TypeOK, [Next]_vars, NEW p \in Run, runs[p].status \in Ended
  PROVE  runs'[p].status \in Ended
<1>1. runs[p].status \notin {"absent", "running", "waiting"}
  BY DEF Ended
<1>2. ASSUME NEW r \in Run, NEW row, runs' = [runs EXCEPT ![r] = row],
             \/ runs[r].status \in {"absent", "running", "waiting"}
             \/ row.status \in Ended \cup {runs[r].status}
      PROVE  runs'[p].status \in Ended
  <2>1. CASE p = r
    BY <1>1, <1>2, <2>1, Written
  <2>2. CASE p # r
    BY <1>2, <2>2, Written
  <2> QED BY <2>1, <2>2
<1>3. ASSUME UNCHANGED runs PROVE runs'[p].status \in Ended
  BY <1>3
<1>4. ASSUME NEW r \in Run, NEW row, runs' = [runs EXCEPT ![r] = row],
             runs[r].status \in {"absent", "running", "waiting"}
      PROVE  runs'[p].status \in Ended
  BY <1>2, <1>4
<1>5. ASSUME NEW r \in Run, AdvanceFlow(r) PROVE runs'[p].status \in Ended
  <2>1. CASE runs[r].status # "running" \/ UNCHANGED runs
    BY <1>3, <1>5, <2>1 DEF AdvanceFlow
  <2>2. CASE runs[r].status = "running" /\ ~UNCHANGED runs
    <3>1. \E row : runs' = [runs EXCEPT ![r] = row]
      <4> DEFINE at == Walk(defs[runs[r].flow], runs[r].context, runs[r].at, facts).at
                 end == IF at = "" THEN "done" ELSE at
      <4>1. \/ runs' = [runs EXCEPT ![r] = ParkedRow(r, at)]
            \/ runs' = [runs EXCEPT ![r].status = "completed", ![r].at = end]
            \/ runs' = [runs EXCEPT ![r].stranded = TRUE]
            \/ runs' = [runs EXCEPT ![r].at = at, ![r].stranded = TRUE]
        BY <1>5, <2>2 DEF AdvanceFlow
      <4> HIDE DEF at, end
      <4>2. runs' = [runs EXCEPT ![r].status = "completed", ![r].at = end]
              => runs' = [runs EXCEPT ![r] = [runs[r] EXCEPT !.status = "completed", !.at = end]]
        BY DEF TypeOK
      <4>3. runs' = [runs EXCEPT ![r].at = at, ![r].stranded = TRUE]
              => runs' = [runs EXCEPT ![r] = [runs[r] EXCEPT !.at = at, !.stranded = TRUE]]
        BY DEF TypeOK
      <4> QED BY <4>1, <4>2, <4>3
    <3> QED BY <1>4, <2>2, <3>1
  <2> QED BY <2>1, <2>2
<1>6. ASSUME NEW r \in Run, ExpireTick(r) \/ Wake(r) \/ ResumeAction(r) \/ CancelFlow(r)
      PROVE  runs'[p].status \in Ended
  <2>1. CASE runs[r].status # "waiting"
    <3>1. runs' = runs
      BY <1>6, <2>1 DEF ExpireTick, Wake, ResumeAction, CancelFlow
    <3> QED BY <1>3, <3>1
  <2>2. CASE runs[r].status = "waiting"
    <3>1. PICK row : runs' = [runs EXCEPT ![r] = row]
      <4>1. CASE ExpireTick(r)
        BY <2>2, <4>1 DEF ExpireTick
      <4>2. CASE Wake(r)
        BY <2>2, <4>2 DEF Wake
      <4>3. CASE ResumeAction(r)
        BY <2>2, <4>3 DEF ResumeAction
      <4>4. CASE CancelFlow(r)
        BY <4>4 DEF CancelFlow
      <4> QED BY <1>6, <4>1, <4>2, <4>3, <4>4
    <3> QED BY <1>4, <2>2, <3>1
  <2> QED BY <2>1, <2>2
<1>7. ASSUME NEW r \in Run, NEW answers, Submit(r, answers) PROVE runs'[p].status \in Ended
  <2>1. runs[r] \in Row
    BY DEF TypeOK
  <2>2. CASE runs' = [runs EXCEPT ![r].status = "expired"]
    <3> DEFINE row == [runs[r] EXCEPT !.status = "expired"]
    <3>1. row.status \in Ended /\ runs' = [runs EXCEPT ![r] = row]
      BY <2>1, <2>2 DEF Row, Ended
    <3> QED BY <1>2, <3>1
  <2>3. CASE runs' = [runs EXCEPT ![r].context = "answers", ![r].consumed = TRUE]
    <3> DEFINE row == [runs[r] EXCEPT !.context = "answers", !.consumed = TRUE]
    <3>1. row.status = runs[r].status
      BY <2>1 DEF Row
    <3>2. runs' = [runs EXCEPT ![r] = row]
      BY <2>3 DEF TypeOK
    <3> QED BY <1>2, <3>1, <3>2
  <2> QED BY <1>7, <2>2, <2>3 DEF Submit
<1>8. ASSUME NEW r \in Run, TokenLapses(r) PROVE runs'[p].status \in Ended
  <2> DEFINE row == [runs[r] EXCEPT !.token = "lapsed"]
  <2>1. row.status = runs[r].status
    <3>1. runs[r] \in Row
      BY DEF TypeOK
    <3> QED BY <3>1 DEF Row
  <2>2. runs' = [runs EXCEPT ![r] = row]
    BY <1>8 DEF TokenLapses
  <2> QED BY <1>2, <2>1, <2>2
<1>9. ASSUME NEW f \in Form, ResumeOnSubmission(f) PROVE runs'[p].status \in Ended
  <2>1. p \notin Awaiting(f)
    BY <1>1 DEF Awaiting
  <2>2. runs'[p] = runs[p]
    BY <1>9, <2>1 DEF ResumeOnSubmission
  <2> QED BY <2>2
<1>10. ASSUME NEW r \in CollectRun, NEW f \in Form,
              (\E x \in BOOLEAN : StartCollect(r, f, x)) \/ \E t \in Target : IssueActionCollect(r, f, t)
       PROVE  runs'[p].status \in Ended
  BY <1>4, <1>10 DEF StartCollect, IssueActionCollect, Run
<1>11. ASSUME NEW r \in DagRun, NEW n \in Flow, StartFlow(r, n) PROVE runs'[p].status \in Ended
  BY <1>4, <1>11 DEF StartFlow, Run
<1>12. ASSUME \/ \E n \in Flow, d \in Definition : DefineFlow(n, d)
              \/ \E f \in Form : AssertMarker(f) \/ ProcessSubmission(f)
              \/ \E r \in Run : LoseAction(r)
              \/ UNCHANGED vars
       PROVE  runs'[p].status \in Ended
  BY <1>3, <1>12 DEF DefineFlow, AssertMarker, ProcessSubmission, LoseAction, vars
<1>13. CASE Scheduled
  BY <1>5, <1>6, <1>9, <1>12, <1>13 DEF Scheduled
<1>14. CASE Called
  BY <1>6, <1>7, <1>10, <1>11, <1>12, <1>14 DEF Called
<1> QED BY <1>8, <1>12, <1>13, <1>14 DEF Next

------------------------------------------------------------------------------
(* Theorems *)

\* Every variable keeps its range: rows hold what the schema allows, and no scheduled
\* function is taken more often than it was scheduled.
THEOREM FlowTypeCorrect == Spec => []TypeOK
<1>1. FlowInv => TypeOK
  BY DEF FlowInv
<1> QED BY <1>1, FlowInvariant, PTL

\* Whatever the definitions are, the interpreter is due exactly once for a run that is
\* running and that it has not stranded, and at most once for any run (advanceFlow,
\* resumeToNext, wake, resumeAction, resumeOnSubmission).
THEOREM RunningScheduled == Spec => []RunningIsScheduled
<1>1. FlowInv => RunningIsScheduled
  BY DEF FlowInv, RunInv, Due, Standing, RunningIsScheduled
<1> QED BY <1>1, FlowInvariant, PTL

\* No run is left running by a call of the interpreter that threw or ended early.
NoneStranded == \A r \in Run : ~runs[r].stranded

\* Only two things strand a run: a definition with as many steps as one call of stepFlow
\* executes or as advanceFlow makes calls, and an assert step whose value is read from
\* the context, which a submission replaces (stepFlow, requireValue, advanceFlow).
THEOREM ShortNeverStrand == ASSUME ShortDefinitions PROVE Spec => []NoneStranded
<1>1. FlowInv => NoneStranded
  BY DEF FlowInv, RunInv, Unstranded, NoneStranded
<1> QED BY <1>1, FlowInvariant, PTL

\* The status fact has one value, that of the row, but for runs that expired over their
\* link and for collections that an action issued (recordFlowRunStatus).
THEOREM MirrorFollowsStatus == Spec => []MirrorIsStatus
<1>1. FlowInv => MirrorIsStatus
  BY DEF FlowInv, RunInv, Mirrored, MirrorIsStatus
<1> QED BY <1>1, FlowInvariant, PTL

\* A form never has two live links of standalone collections with the same target of the
\* answers (startCollect, issueActionCollectRun, isLiveToken).
THEOREM OneLinkPerTarget == Spec => []OneLiveCollect
<1>1. FlowInv => OneLiveCollect
  BY DEF FlowInv
<1> QED BY <1>1, FlowInvariant, PTL

\* A run that has ended is never resumed, whatever timer, callback or submission comes
\* late (advanceFlow, tick, wake, resumeAction, resumeOnSubmission).
THEOREM EndIsFinal == Spec => EndedStaysEnded
<1>1. FlowInv /\ [Next]_vars
        => [\A r \in Run : runs[r].status \in Ended => runs'[r].status \in Ended]_vars
  BY EndedStep DEF FlowInv
<1> QED BY <1>1, FlowInvariant, PTL DEF Spec, EndedStaysEnded
==============================================================================
