--------------------------------- MODULE Fold ---------------------------------
(****************************************************************************)
(* The deterministic bitemporal fold: packages/core/src/order.ts and fold.ts, *)
(* the current rows packages/runtime/src/projection.ts derives with it, and   *)
(* the cardinality of an attribute as apps/convex-demo/convex/facts.ts reads  *)
(* it from the same log.                                                      *)
(*                                                                            *)
(* A log is a Map from id to event, so iterating over it follows the order    *)
(* in which this replica came to hold the events: log is that sequence.       *)
(* Events arrive in any order, a correction before what it corrects too.      *)
(****************************************************************************)
EXTENDS Hlc, FiniteSetsExt, SequencesExt

CONSTANTS
  Event,       \* every event the replicas author
  TxTime,      \* the transaction times and the valid times asked about
  ValidTime,
  AttrId,      \* attrId(a): the entity that describes an attribute
  BuiltInOne   \* the attributes BUILTIN_CARDINALITY has as "one"

\* An event is [id, kind, actor, hlc] and, of an assert, [e, a, v, validFrom, validTo],
\* of the other kinds, [target].  Ids and actors are compared only: numbers.
Forever == 1000000        \* validTo = null
Kind == {"assert", "retract", "tombstone", "untombstone"}

ASSUME EventAssumption ==
  /\ IsFiniteSet(Event)
  /\ \A x \in Event :
       /\ x.id \in Nat /\ x.actor \in Nat /\ x.kind \in Kind
       /\ x.hlc \in Timestamp(Nat)
       /\ x.kind = "assert" => /\ x.validFrom \in Nat /\ x.validTo \in Nat
                                /\ x.a \in DOMAIN AttrId
  /\ \A x, y \in Event : x.id = y.id => x = y
ASSUME TimeAssumption == TxTime \subseteq Nat /\ ValidTime \subseteq Nat

VARIABLE log

vars == <<log>>

Events(L) == ToSet(L)
Asserts == {x \in Event : x.kind = "assert"}
Coord == [txTime : TxTime, validTime : ValidTime]

\* A log holds events of the system, each once.
TypeOK == log \in Seq(Event) /\ IsInjective(log)

Init == log = <<>>

\* Mutant of Add: an event already held is added again.
AddAgain(x) == log' = Append(log, x)

\* add(log, event), and merge(log, other) one event at a time: an event already
\* held keeps its place.
Add(x) == log' = IF x \in Events(log) THEN log ELSE Append(log, x)

Next == \E x \in Event : Add(x)

Spec == Init /\ [][Next]_vars

------------------------------------------------------------------------------
(* order.ts *)

\* Mutant of Precedes: equal timestamps are left undecided.
PrecedesInTime(x, y) == HlcLess(x.hlc, y.hlc)

\* precedes(x, y): by timestamp, then actor, then id.
Precedes(x, y) ==
  \/ HlcLess(x.hlc, y.hlc)
  \/ x.hlc = y.hlc /\ x.actor < y.actor
  \/ x.hlc = y.hlc /\ x.actor = y.actor /\ x.id < y.id

\* The empty set is undefined; otherwise the set of the one winner.
Better(max, x) ==
  IF \A m \in max : Precedes(m, x) THEN {x} ELSE max

\* maxByOrder(events): one pass, keeping the larger.
MaxByOrder(seq) == FoldLeft(Better, {}, seq)

------------------------------------------------------------------------------
(* fold.ts *)

\* Mutants of ActedOn: at any time; whatever the target.
ActedOnAnyTime(L, kind, x, t) ==
  {y \in Events(L) \ Asserts : y.kind = kind /\ y.target = x.id}
ActedOnAnyTarget(L, kind, x, t) ==
  {y \in Events(L) \ Asserts : y.kind = kind /\ y.hlc.pt <= t}

\* Events of a kind that act on the assert x by transaction time t.
ActedOn(L, kind, x, t) ==
  {y \in Events(L) \ Asserts : y.kind = kind /\ y.target = x.id /\ y.hlc.pt <= t}

\* Mutant of Tombstoned: any untombstone at or after the latest tombstone restores.
TombstonedBefore(L, x, t) ==
  LET tombs == ActedOn(L, "tombstone", x, t)
      latest == Max({y.hlc.pt : y \in tombs})
  IN  tombs # {} /\ \A u \in ActedOn(L, "untombstone", x, t) : u.hlc.pt < latest

\* Is x tombstoned as of t, and not untombstoned after the latest tombstone?
Tombstoned(L, x, t) ==
  LET tombs == ActedOn(L, "tombstone", x, t)
      latest == Max({y.hlc.pt : y \in tombs})
  IN  /\ tombs # {}
      /\ \A u \in ActedOn(L, "untombstone", x, t) : u.hlc.pt <= latest

\* visible(x, c, L) with the default flags.
Visible(L, x, c) ==
  /\ x.kind = "assert"
  /\ x.hlc.pt <= c.txTime
  /\ ActedOn(L, "retract", x, c.txTime) = {}
  /\ ~Tombstoned(L, x, c.txTime)
  /\ x.validFrom <= c.validTime /\ c.validTime < x.validTo

\* Array.filter: the events of L that pass, in its order.  SelectSeq, written as a fold
\* because the proof system cannot expand SelectSeq.
Passing(L, Test(_)) ==
  FoldLeft(LAMBDA kept, x : IF Test(x) THEN Append(kept, x) ELSE kept, <<>>, L)

\* visibleAsserts(e, a, c, L), in the order of the log.
VisibleAsserts(L, e, a, c) ==
  Passing(L, LAMBDA x : Visible(L, x, c) /\ x.e = e /\ x.a = a)

\* cardinalityFromLog(log, c)(a) = "one": an attribute's cardinality is a fact of the
\* same log, read as an attribute of cardinality one, with the built-in as default.
CardinalityOne(L, a, c) ==
  LET declared == {x.v : x \in MaxByOrder(VisibleAsserts(L, AttrId[a], "cardinality", c))}
  IN  "one" \in declared \/ ("many" \notin declared /\ a \in BuiltInOne)

\* value(e, a, c, L), as the set of its events.
Value(L, e, a, c) ==
  IF CardinalityOne(L, a, c) THEN MaxByOrder(VisibleAsserts(L, e, a, c))
  ELSE Events(VisibleAsserts(L, e, a, c))

------------------------------------------------------------------------------
(* projection.ts *)

\* The visible asserts grouped by entity and attribute, each group reduced with
\* compareEvents when the attribute has cardinality one.
Group(L, x, c) ==
  Passing(L, LAMBDA y : Visible(L, y, c) /\ y.e = x.e /\ y.a = x.a)

\* Mutant of Keep: the first of a group stays.
KeepFirst(best, y) == best

Keep(best, y) == IF best.id # y.id /\ Precedes(best, y) THEN y ELSE best

Rows(L, c) ==
  UNION { LET group == Group(L, x, c) IN
            IF CardinalityOne(L, x.a, c) THEN {FoldLeft(Keep, Head(group), Tail(group))}
            ELSE Events(group)
        : x \in {y \in Events(L) : Visible(L, y, c)} }

------------------------------------------------------------------------------
(* Properties *)

\* Visibility as protocol.md 5.3 has it: each tombstone needs an untombstone that
\* is later than it.  The code asks only about the latest tombstone.
VisibleInProtocol(S, x, c) ==
  LET Acts(kind) == {y \in S \ Asserts : y.kind = kind /\ y.target = x.id
                                          /\ y.hlc.pt <= c.txTime}
  IN  /\ x.hlc.pt <= c.txTime
      /\ Acts("retract") = {}
      /\ \A t \in Acts("tombstone") :
           \E u \in Acts("untombstone") : t.hlc.pt < u.hlc.pt
      /\ c.validTime \in x.validFrom .. (x.validTo - 1)

\* The code's visibility is the protocol's, for every log a replica can get to
\* hold, corrections that arrive first and equal times included.
VisibleAsSpecified ==
  \A x \in Events(log) \cap Asserts : \A c \in Coord :
    Visible(log, x, c) <=> VisibleInProtocol(Events(log), x, c)

\* The visible asserts of an entity and attribute, and the largest of them.
Candidates(S, e, a, c) ==
  {x \in S \cap Asserts : x.e = e /\ x.a = a /\ VisibleInProtocol(S, x, c)}
Winners(S, e, a, c) ==
  {x \in Candidates(S, e, a, c) :
     \A y \in Candidates(S, e, a, c) \ {x} : Precedes(y, x)}

\* protocol.md 5.2: the cardinality is itself a fact, resolved at the coordinate asked
\* about, and MUST NOT depend on the order of arrival.
OneInProtocol(S, a, c) ==
  LET declared == {x.v : x \in Winners(S, AttrId[a], "cardinality", c)}
  IN  "one" \in declared \/ ("many" \notin declared /\ a \in BuiltInOne)

\* value() of protocol.md 5.4, a function of the set of events alone.
ValueInProtocol(S, e, a, c) ==
  IF OneInProtocol(S, a, c) THEN Winners(S, e, a, c) ELSE Candidates(S, e, a, c)

\* Two replicas that hold the same events see the same values, in whatever order
\* the events and the declarations of their attributes reached them: what the code
\* computes along its own order of arrival is a function of the set, with exactly one
\* winner of equal timestamps.
ValueIgnoresArrival ==
  \A x \in Events(log) \cap Asserts : \A c \in Coord :
    Value(log, x.e, x.a, c) = ValueInProtocol(Events(log), x.e, x.a, c)

\* The materialized rows are the union of the values.
RowsAreValues ==
  \A c \in Coord :
    Rows(log, c) = UNION {Value(log, x.e, x.a, c) : x \in Events(log) \cap Asserts}

\* History is stable: an event that arrives late, a declaration of an attribute too,
\* changes no snapshot of a transaction time before its own.
HistoryStable ==
  [][\A x \in Events(log') \ Events(log) : \A c \in Coord :
       c.txTime < x.hlc.pt => Rows(log', c) = Rows(log, c)]_vars

\* The assert an event is, or corrects.
About(x) == {y \in Asserts : y = x \/ (x \notin Asserts /\ x.target = y.id)}

\* Where an arrival can change rows: in the entity and attribute of the assert it is
\* or corrects, and, when that assert declares a cardinality, in the attribute it
\* describes, of every entity.  Reconciling after a merge has to look there and need
\* look nowhere else.
ChangesAreLocal ==
  [][\A x \in Events(log') \ Events(log) : \A c \in Coord :
       \A r \in (Rows(log', c) \ Rows(log, c)) \cup (Rows(log, c) \ Rows(log', c)) :
         \E y \in About(x) : \/ r.e = y.e /\ r.a = y.a
                             \/ y.a = "cardinality" /\ AttrId[r.a] = y.e]_vars
==============================================================================
