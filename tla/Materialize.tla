------------------------------ MODULE Materialize ------------------------------
(****************************************************************************)
(* Rule output kept up to date by scheduled recomputation                     *)
(* (apps/convex-demo/convex/materialize.ts) behind the write path of FactRows: *)
(* processFactChange finds the rules a change concerns and schedules what is  *)
(* to be recomputed; each scheduled function is a transaction of its own, run *)
(* once, in any order, with writes in between.                                *)
(*                                                                           *)
(* A Datalog rule is given by its ground bindings: the triples a binding      *)
(* needs, those it must not find, and what it emits.  Rules do not read the   *)
(* output of rules here, and none emits a requires.<form> attribute.  Which   *)
(* changes concern a rule is what its author said (dependsOnAttributes), which*)
(* nothing compares with the rule; it is assumed here to name all it reads.   *)
(* One closure rule derives reachability over an attribute.  Rules with       *)
(* materialization "manual", which are invalidated and never recomputed,      *)
(* support counts, provenance of pairs and the limits on rows are left out.   *)
(****************************************************************************)
EXTENDS FactRows

CONSTANTS
  Rule,           \* the Datalog rules
  Scope,          \* Scope[r]: how r is recomputed, "local", "scoped" or "constant"
  Bindings,       \* Bindings[r]: a set of [out, needs, absent]
  DependsOnAttributes,  \* DependsOnAttributes[r]: as given to defineRule
  Base,           \* baseAttribute of the closure rule
  MaxDepth,       \* its maxDepth
  Reflexive       \* its option reflexive

ASSUME RuleAssumption ==
  /\ MaxDepth \in Nat /\ Reflexive \in BOOLEAN
  /\ \A r \in Rule : Scope[r] \in {"local", "scoped", "constant"}
  /\ \A r \in Rule : \A b \in Bindings[r] :
       /\ Scope[r] # "constant" => \A t \in b.absent : t[1] = b.out
       /\ Scope[r] = "local" => \A t \in b.needs : t[1] = b.out

\* defineRule takes dependsOnAttributes as it comes (rules.ts:17, 34).
ASSUME DependencyAssumption ==
  \A r \in Rule : \A b \in Bindings[r] : \A t \in b.needs \cup b.absent :
    t[2] \in DependsOnAttributes[r]

VARIABLES
  rows,           \* rows[r]: derivedFacts of r, records [out, from, stale]
  pairs,          \* derivedFacts of the closure rule, <<x, y>>
  stalePairs,     \* those of them with stale
  invalidated,    \* unprocessed rows of ruleInvalidations: <<rule, kind, fact>>
  jobs            \* jobs[j]: how often the recomputation j is due

vars == <<factVars, rows, pairs, stalePairs, invalidated, jobs>>

Output == UNION {{b.out : b \in Bindings[r]} : r \in Rule}
Entity == Output \cup {Triple[f][1] : f \in Fact}
Node == UNION {{Triple[f][1], Triple[f][3]} : f \in {f \in Fact : Triple[f][2] = Base}}

\* "add" is incrementalClosureAdd, "entities" recomputeRuleForEntity and
\* recomputeRuleForEntities, "rule" recomputeRule, "closure" recomputeTransitiveClosure.
Job == ({"add"} \X Fact) \cup ({"entities"} \X Rule \X (SUBSET Entity)) \cup ({"rule"} \X Rule)
         \cup {<<"closure">>}

\* The values the variables range over; an output has one row per rule.
TypeOK ==
  /\ FactTypeOK
  /\ rows \in [Rule -> SUBSET [out : Output, from : SUBSET Fact, stale : BOOLEAN]]
  /\ \A r \in Rule : \A x, y \in rows[r] : x.out = y.out => x = y
  /\ pairs \subseteq Node \X Node /\ stalePairs \subseteq pairs
  /\ invalidated \subseteq (Rule \cup {"closure"}) \X ChangeKind \X Fact
  /\ jobs \in [Job -> Nat]

\* The rules are defined and recomputed, as defineRule schedules it, before the first fact.
Init ==
  /\ FactInit
  /\ rows = [r \in Rule |-> {[out |-> b.out, from |-> {}, stale |-> FALSE] :
                               b \in {b \in Bindings[r] : b.needs = {}}}]
  /\ pairs = {} /\ stalePairs = {} /\ invalidated = {}
  /\ jobs = [j \in Job |-> 0]

------------------------------------------------------------------------------

Schedule(J) == jobs' = [j \in Job |-> IF j \in J THEN jobs[j] + 1 ELSE jobs[j]]
Done(j) == jobs[j] > 0 /\ jobs' = [jobs EXCEPT ![j] = @ - 1]

\* The bindings of r that the visible facts satisfy.
Solved(r) ==
  LET triples == {Triple[f] : f \in Visible}
  IN  {b \in Bindings[r] : b.needs \subseteq triples /\ b.absent \cap triples = {}}

Outs(B) == {b.out : b \in B}

\* The row emitted for an output: bindings that emit the same fact are merged, with
\* the facts of all of them as sources.
RowOf(r, o) ==
  [out |-> o, stale |-> FALSE,
   from |-> {f \in Visible : \E b \in Solved(r) : b.out = o /\ Triple[f] \in b.needs}]

DependsOn(r, f) == Triple[f][2] \in DependsOnAttributes[r]

\* The entity of a fact whose attribute r negates.
Negated(r, f) ==
  IF \E b \in Bindings[r] : \E t \in b.absent : t[2] = Triple[f][2]
  THEN {Triple[f][1]} ELSE {}

\* Mutant of Affected: the rows are not searched.
OnlySolved(r, f) == Negated(r, f) \cup {o \in Outs(Solved(r)) : f \in RowOf(r, o).from}

\* affectedOutputEntitiesForFact: of a negated attribute the fact's entity, rows that
\* name the fact as a source, and bindings that the fact satisfies now.
Affected(r, f) ==
  Negated(r, f) \cup {x.out : x \in {x \in rows[r] : f \in x.from}}
    \cup {o \in Outs(Solved(r)) : f \in RowOf(r, o).from}

\* The outputs that a change of f makes r recompute.
ToRecompute(r, f) ==
  CASE Scope[r] = "local" -> {Triple[f][1]}
    [] Scope[r] = "scoped" -> Affected(r, f)
    [] Scope[r] = "constant" -> Output

JobFor(r, f) ==
  IF Scope[r] = "constant" THEN <<"rule", r>> ELSE <<"entities", r, ToRecompute(r, f)>>

MarkStale(R, O) == {IF x.out \in O THEN [x EXCEPT !.stale = TRUE] ELSE x : x \in R}

\* Mutant of ProcessFactChange: a rule is recomputed, its rows are not marked.
Unmarked(kind, f) ==
  LET R == {r \in Rule : DependsOn(r, f)}
      c == <<kind, f>>
  IN  /\ changes[c] > 0
      /\ changes' = [changes EXCEPT ![c] = @ - 1]
      /\ invalidated' = invalidated \cup (R \X {kind} \X {f})
      /\ Schedule({JobFor(r, f) : r \in R} \cup IF Triple[f][2] # Base THEN {} ELSE {<<"closure">>})
      /\ UNCHANGED <<asserted, retracted, tombstoned, corrections, current, writes, rows, pairs, stalePairs>>

ProcessFactChange(kind, f) ==
  LET R == {r \in Rule : DependsOn(r, f)}
      edge == Triple[f][2] = Base
      c == <<kind, f>>
      closureJob == IF ~edge THEN {} ELSE IF kind = "assert" THEN {<<"add", f>>} ELSE {<<"closure">>}
  IN  /\ changes[c] > 0
      /\ changes' = [changes EXCEPT ![c] = @ - 1]
      /\ invalidated' = invalidated \cup ((R \cup IF edge THEN {"closure"} ELSE {}) \X {kind} \X {f})
      /\ rows' = [r \in Rule |-> IF r \in R THEN MarkStale(rows[r], ToRecompute(r, f)) ELSE rows[r]]
      /\ stalePairs' = IF edge /\ kind # "assert" THEN pairs ELSE stalePairs
      /\ Schedule({JobFor(r, f) : r \in R} \cup closureJob)
      /\ UNCHANGED <<asserted, retracted, tombstoned, corrections, current, writes, pairs>>

\* clearInvalidations of r, for changes of the entities E.
Uncleared(r, E) == {i \in invalidated : i[1] # r \/ Triple[i[3]][1] \notin E}

\* Mutant of Recompute: the rows before it stay.
PriorKept(r, O) ==
  /\ rows' = [rows EXCEPT ![r] = @ \cup {RowOf(r, o) : o \in O \cap Outs(Solved(r))}]
  /\ invalidated' = Uncleared(r, IF Scope[r] = "local" THEN O ELSE Entity)
  /\ UNCHANGED <<factVars, pairs, stalePairs>>

\* The output of r for O is replaced, and r's invalidations are cleared: for a local
\* rule those of the entities recomputed, otherwise all.
Recompute(r, O) ==
  /\ rows' = [rows EXCEPT ![r] = {x \in @ : x.out \notin O}
                                   \cup {RowOf(r, o) : o \in O \cap Outs(Solved(r))}]
  /\ invalidated' = Uncleared(r, IF Scope[r] = "local" THEN O ELSE Entity)
  /\ UNCHANGED <<factVars, pairs, stalePairs>>

\* recomputeRuleForEntityList.
RecomputeRuleForEntities(r, O) == Done(<<"entities", r, O>>) /\ Recompute(r, O)

\* recomputeRule.
RecomputeRule(r) == Done(<<"rule", r>>) /\ Recompute(r, Output)

Edges(F) == {<<Triple[f][1], Triple[f][3]>> : f \in {f \in F : Triple[f][2] = Base}}

\* computeClosureSupports: the pairs joined by at most MaxDepth edges.
Reach(E) ==
  LET within[n \in 0..MaxDepth] ==
        IF n = 0 THEN {<<x, x>> : x \in Node}
        ELSE within[n - 1] \cup {<<j[1][1], j[2][2]>> : j \in
                                   {j \in within[n - 1] \X E : j[1][2] = j[2][1]}}
  IN  {p \in within[MaxDepth] : p[1] # p[2]}
        \cup IF Reflexive THEN {<<q[1], q[1]>> : q \in E} ELSE {}

RecomputeTransitiveClosure ==
  /\ Done(<<"closure">>)
  /\ pairs' = Reach(Edges(Visible))
  /\ stalePairs' = {}
  /\ invalidated' = Uncleared("closure", Entity)
  /\ UNCHANGED <<factVars, rows>>

\* incrementalClosureAdd, for the edge u -> w of f: from what reaches u to what w
\* reaches, by the pairs derived so far.  It does not ask whether f is still visible.
\* Mutant of Added: the successors of w are left out.
AddedUpToW(f) ==
  LET u == Triple[f][1]  w == Triple[f][3]
      preds == {p[1] : p \in {p \in pairs : p[2] = u}} \cup {u}
  IN  {p \in preds \X {w} : p[1] # p[2] \/ Reflexive}

Added(f) ==
  LET u == Triple[f][1]  w == Triple[f][3]
      preds == {p[1] : p \in {p \in pairs : p[2] = u}} \cup {u}
      succs == {p[2] : p \in {p \in pairs : p[1] = w}} \cup {w}
  IN  {p \in preds \X succs : p[1] # p[2] \/ Reflexive}

IncrementalClosureAdd(f) ==
  /\ Done(<<"add", f>>)
  /\ pairs' = pairs \cup Added(f)
  /\ stalePairs' = stalePairs \ Added(f)
  /\ invalidated' = Uncleared("closure", Entity)
  /\ UNCHANGED <<factVars, rows>>

\* rebuildProjections: currentFacts again, and everything recomputed.
RebuildProjections ==
  /\ RebuildCurrent
  /\ Schedule({<<"rule", r>> : r \in Rule} \cup {<<"closure">>})
  /\ UNCHANGED <<rows, pairs, stalePairs, invalidated>>

------------------------------------------------------------------------------

Mutation ==
  /\ \/ \E f \in Fact : AssertInTx(f) \/ RetractFact(f) \/ TombstoneFact(f)
     \/ \E f, g \in Fact : CorrectFact(f, g)
  /\ UNCHANGED <<rows, pairs, stalePairs, invalidated, jobs>>

Scheduled ==
  \/ \E kind \in ChangeKind, f \in Fact : ProcessFactChange(kind, f)
  \/ \E r \in Rule : RecomputeRule(r) \/ \E O \in SUBSET Entity : RecomputeRuleForEntities(r, O)
  \/ RecomputeTransitiveClosure
  \/ \E f \in Fact : IncrementalClosureAdd(f)

Next == Mutation \/ RebuildProjections \/ Scheduled

Spec == Init /\ [][Next]_vars

\* Scheduled functions are run.
FairSpec == Spec /\ WF_vars(Scheduled)

------------------------------------------------------------------------------
(* Safety *)

\* Something is due that may still recompute output o of rule r.
Awaited(r, o) ==
  \/ \E kind \in ChangeKind, f \in Fact : changes[<<kind, f>>] > 0 /\ DependsOn(r, f)
  \/ \E O \in SUBSET Entity : o \in O /\ jobs[<<"entities", r, O>>] > 0
  \/ jobs[<<"rule", r>>] > 0

\* No lost update: as long as an output of a rule is missing or unfounded, something
\* is due that recomputes it, in whichever order changes and recomputations ran.
NoLostUpdate ==
  \A r \in Rule : \A o \in Output :
    Awaited(r, o) \/ (o \in Outs(Solved(r)) <=> \E x \in rows[r] : x.out = o)

\* A row that no longer holds is marked stale, and queries skip it, from the moment the
\* change is processed: no earlier recomputation, run late, shows it as fresh again.
UnfoundedIsStale ==
  \A r \in Rule : \A x \in rows[r] :
    \/ x.out \in Outs(Solved(r)) \/ x.stale
    \/ \E kind \in ChangeKind, f \in Fact : changes[<<kind, f>>] > 0 /\ DependsOn(r, f)

\* The edges whose addition is not still to come.
SettledEdges ==
  Edges({f \in Visible : changes[<<"assert", f>>] = 0 /\ jobs[<<"add", f>>] = 0})

\* Reachability is never incomplete for longer than an addition is due: additions run
\* in any order, between full recomputations, miss no pair.
ClosureComplete == Reach(SettledEdges) \subseteq pairs

------------------------------------------------------------------------------
(* Liveness *)

\* Once writing has stopped, the rules' output becomes and stays what the facts give.
RulesCatchUp ==
  \A r \in Rule : <>[](Outs(Solved(r)) = {x.out : x \in {x \in rows[r] : ~x.stale}})

==============================================================================
