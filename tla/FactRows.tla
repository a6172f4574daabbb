------------------------------- MODULE FactRows -------------------------------
(****************************************************************************)
(* The write path of the Convex application (facts.ts, rebuild.ts in          *)
(* apps/convex-demo/convex; reconcile.ts in packages/convex): the rows of the *)
(* table facts, folded from the append-only factEvents, their projection      *)
(* currentFacts, and the calls of processFactChange it schedules.             *)
(*                                                                           *)
(* A fact is one assertion, identified by its row; its lifecycle events set   *)
(* retractedAt and tombstonedAt and are never taken back here (the mutations  *)
(* do not untombstone).  Valid time is left out: facts are valid for ever.    *)
(* cardinalityOf reads the current fact (attr:<a>, "cardinality", ?) at every  *)
(* write; here the cardinality of an attribute is declared before its first   *)
(* fact and does not change (OneAttr).                                        *)
(****************************************************************************)
EXTENDS Integers, FiniteSets

CONSTANTS
  Fact,           \* rows of the table facts
  Triple,         \* Triple[f]: what f asserts, <<e, a, v>>
  Stamp,          \* Stamp[f]: the place of f's assert event in the order of events
  OneAttr,        \* attributes declared with cardinality one, before the first write
  MaxWrites       \* bound on mutations

ASSUME FactAssumption ==
  /\ \A f \in Fact : Stamp[f] \in Nat
  /\ \A f, g \in Fact : Stamp[f] = Stamp[g] => f = g
  /\ MaxWrites \in Nat

VARIABLES
  asserted,       \* facts with an assert event
  retracted,      \* facts with retractedAt
  tombstoned,     \* facts with tombstonedAt
  corrections,    \* facts with supersedes
  current,        \* facts with a row in currentFacts
  changes,        \* changes[<<kind, f>>]: how often processFactChange is due for it
  writes          \* mutations so far

factVars == <<asserted, retracted, tombstoned, corrections, current, changes, writes>>

ChangeKind == {"assert", "retract", "tombstone"}

FactTypeOK ==
  /\ asserted \subseteq Fact /\ retracted \subseteq asserted /\ tombstoned \subseteq asserted
  /\ corrections \subseteq asserted /\ current \subseteq asserted
  /\ changes \in [ChangeKind \X Fact -> Nat]
  /\ writes \in 0..MaxWrites

FactInit ==
  /\ asserted = {} /\ retracted = {} /\ tombstoned = {} /\ corrections = {} /\ current = {}
  /\ changes = [c \in ChangeKind \X Fact |-> 0]
  /\ writes = 0

------------------------------------------------------------------------------

\* isVisible at the present, and what the event log shows of f.
Visible == asserted \ (retracted \cup tombstoned)

Key(f) == <<Triple[f][1], Triple[f][2]>>
IsOne(f) == Triple[f][2] \in OneAttr

\* The rows of currentFacts that a new row of f replaces.
Replaced(f, rows) ==
  IF IsOne(f) THEN {g \in rows : Key(g) = Key(f)} ELSE {g \in rows : Triple[g] = Triple[f]}

\* reconcileCardinalityOneCandidates: the candidate whose event is last in the order.
Winner(C) == CHOOSE f \in C : \A g \in C : Stamp[g] <= Stamp[f]

\* The fact that has a row once f is asserted.
Kept(f) == IF IsOne(f) THEN Winner(Replaced(f, current) \cup {f}) ELSE f

Notify(S) ==
  changes' = [c \in DOMAIN changes |-> IF c \in S THEN changes[c] + 1 ELSE changes[c]]

Write == writes < MaxWrites /\ writes' = writes + 1

\* Mutant of AssertInTx: the facts that lose are left unretracted.
LosersKept(f) ==
  LET rows == Replaced(f, current)
  IN  /\ f \notin asserted
      /\ Write
      /\ asserted' = asserted \cup {f}
      /\ current' = (current \ rows) \cup {Kept(f)}
      /\ Notify({<<"assert", f>>})
      /\ UNCHANGED <<retracted, tombstoned, corrections>>

\* assertInTx.  Of an attribute of cardinality one the facts in currentFacts and the
\* new one compete, and the losers are retracted; of others, an equal triple's row is
\* replaced.  Only the new fact is notified.
AssertInTx(f) ==
  LET rows == Replaced(f, current)
  IN  /\ f \notin asserted
      /\ Write
      /\ asserted' = asserted \cup {f}
      /\ retracted' = IF IsOne(f) THEN retracted \cup ((rows \cup {f}) \ {Kept(f)}) ELSE retracted
      /\ current' = (current \ rows) \cup {Kept(f)}
      /\ Notify({<<"assert", f>>})
      /\ UNCHANGED <<tombstoned, corrections>>

\* retractFact, and retractInTx.
RetractFact(f) ==
  /\ f \in asserted \ retracted
  /\ Write
  /\ retracted' = retracted \cup {f}
  /\ current' = current \ {f}
  /\ Notify({<<"retract", f>>})
  /\ UNCHANGED <<asserted, tombstoned, corrections>>

\* Mutant of TombstoneFact: the row of currentFacts stays.
RowKept(f) ==
  /\ f \in asserted
  /\ Write
  /\ tombstoned' = tombstoned \cup {f}
  /\ Notify({<<"tombstone", f>>})
  /\ UNCHANGED <<asserted, retracted, corrections, current>>

TombstoneFact(f) ==
  /\ f \in asserted
  /\ Write
  /\ tombstoned' = tombstoned \cup {f}
  /\ current' = current \ {f}
  /\ Notify({<<"tombstone", f>>})
  /\ UNCHANGED <<asserted, retracted, corrections>>

\* correctFact: old is tombstoned, whatever its state, and new asserted for its key.
CorrectFact(old, new) ==
  /\ old \in asserted /\ new \notin asserted /\ Key(old) = Key(new)
  /\ Write
  /\ asserted' = asserted \cup {new}
  /\ tombstoned' = tombstoned \cup {old}
  /\ corrections' = corrections \cup {new}
  /\ current' = (current \ ({old} \cup Replaced(new, current))) \cup {new}
  /\ Notify({<<"tombstone", old>>, <<"assert", new>>})
  /\ UNCHANGED retracted

\* The rows that rebuildProjections folds from the events: the lifecycle of each fact
\* as it stands, and a row of currentFacts for every visible one.
RebuildCurrent ==
  /\ Write
  /\ current' = Visible
  /\ UNCHANGED <<asserted, retracted, tombstoned, corrections, changes>>

------------------------------------------------------------------------------

\* currentFacts never shows a fact that is retracted or tombstoned, in whichever order
\* competing assertions, corrections and rebuilds replaced its rows.
CurrentIsVisible == current \subseteq Visible

\* Until one of them is corrected, at most one fact for a key of cardinality one is
\* visible, whatever the order of the event stamps.
OneValue ==
  \A f, g \in Visible :
    IsOne(f) /\ Key(f) = Key(g) /\ (\A h \in corrections : Key(h) # Key(f)) => f = g

==============================================================================
