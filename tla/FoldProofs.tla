------------------------------ MODULE FoldProofs ------------------------------
(* What the fold guarantees for every set of events and every order of their    *)
(* arrival: visibility, the one winner, values, rows, and what an arrival leaves  *)
(* alone.  A pass over the log is a fold; the section on passes shows by induction *)
(* over the position what the three of the code leave behind.                      *)
EXTENDS Fold, Orders

\* An event's fields.
LEMMA EventFields ==
  \A x \in Event :
    /\ x.id \in Nat /\ x.actor \in Nat /\ x.hlc \in Timestamp(Nat)
    /\ x.hlc.pt \in Nat
    /\ x.kind = "assert" => x.validFrom \in Nat /\ x.validTo \in Nat
BY EventAssumption DEF Timestamp

\* The order that resolves conflicts is a strict total order on the events: equal
\* timestamps and equal actors included, one of two events is the larger.
THEOREM PrecedesOrder ==
  /\ \A x \in Event : ~Precedes(x, x)
  /\ \A x, y, z \in Event : Precedes(x, y) /\ Precedes(y, z) => Precedes(x, z)
  /\ \A x, y \in Event : Precedes(x, y) \/ x = y \/ Precedes(y, x)
<1>1. /\ \A a \in Timestamp(Nat) : ~HlcLess(a, a)
      /\ \A a, b, c \in Timestamp(Nat) : HlcLess(a, b) /\ HlcLess(b, c) => HlcLess(a, c)
      /\ \A a, b \in Timestamp(Nat) : HlcLess(a, b) \/ a = b \/ HlcLess(b, a)
  BY HlcOrder
<1>2. ASSUME NEW x \in Event PROVE ~Precedes(x, x)
  BY <1>1, EventFields DEF Precedes
<1>3. ASSUME NEW x \in Event, NEW y \in Event, NEW z \in Event,
             Precedes(x, y), Precedes(y, z)
      PROVE  Precedes(x, z)
  <2>1. /\ x.id \in Nat /\ x.actor \in Nat /\ x.hlc \in Timestamp(Nat)
        /\ y.id \in Nat /\ y.actor \in Nat /\ y.hlc \in Timestamp(Nat)
        /\ z.id \in Nat /\ z.actor \in Nat /\ z.hlc \in Timestamp(Nat)
    BY EventFields
  <2>2. CASE HlcLess(x.hlc, y.hlc)
    BY <1>1, <1>3, <2>1, <2>2 DEF Precedes
  <2>3. CASE x.hlc = y.hlc
    BY <1>3, <2>1, <2>3 DEF Precedes
  <2> QED BY <1>3, <2>2, <2>3 DEF Precedes
<1>4. ASSUME NEW x \in Event, NEW y \in Event
      PROVE  Precedes(x, y) \/ x = y \/ Precedes(y, x)
  <2>1. HlcLess(x.hlc, y.hlc) \/ x.hlc = y.hlc \/ HlcLess(y.hlc, x.hlc)
    BY <1>1, EventFields
  <2>2. x.actor < y.actor \/ x.actor = y.actor \/ y.actor < x.actor
    BY EventFields
  <2>3. x.id < y.id \/ x.id = y.id \/ y.id < x.id
    BY EventFields
  <2>4. x.id = y.id => x = y
    BY EventAssumption
  <2> QED BY <2>1, <2>2, <2>3, <2>4 DEF Precedes
<1> QED BY <1>2, <1>3, <1>4

\* An attribute of cardinality one never has two values, whatever is in the log.
THEOREM OneWinner ==
  ASSUME NEW S \in SUBSET Event, NEW e, NEW a, NEW c \in Coord,
         OneInProtocol(S, a, c),
         NEW x \in ValueInProtocol(S, e, a, c), NEW y \in ValueInProtocol(S, e, a, c)
  PROVE  x = y
<1>1. x \in Winners(S, e, a, c) /\ y \in Winners(S, e, a, c)
  BY DEF ValueInProtocol
<1>2. /\ x \in Candidates(S, e, a, c) /\ y \in Candidates(S, e, a, c)
      /\ x # y => Precedes(y, x) /\ Precedes(x, y)
  BY <1>1 DEF Winners
<1>3. x \in Event /\ y \in Event
  BY <1>2 DEF Candidates
<1> QED BY <1>2, <1>3, PrecedesOrder

\* One more event at the end of a sequence.
LEMMA AppendEvents ==
  ASSUME NEW seq \in Seq(Event), NEW x \in Event
  PROVE  /\ Append(seq, x) \in Seq(Event)
         /\ Events(Append(seq, x)) = Events(seq) \cup {x}
<1> DEFINE more == Append(seq, x)
<1>1. more \in Seq(Event) /\ Len(more) = Len(seq) + 1 /\ Len(seq) \in Nat
  OBVIOUS
<1>2. \A i \in 1..Len(seq) : more[i] = seq[i]
  OBVIOUS
<1>3. more[Len(seq) + 1] = x
  OBVIOUS
<1>4. DOMAIN more = 1..(Len(seq) + 1) /\ DOMAIN seq = 1..Len(seq)
  BY <1>1
<1> HIDE DEF more
<1>5. Events(more) = Events(seq) \cup {x}
  BY <1>1, <1>2, <1>3, <1>4 DEF Events, ToSet
<1> QED BY <1>1, <1>5 DEF more

\* Every event enters the log once and none leaves it.
LEMMA AddStep ==
  ASSUME TypeOK, NEW x \in Event, Add(x)
  PROVE  TypeOK' /\ Events(log') = Events(log) \cup {x}
<1>1. CASE x \in Events(log)
  BY <1>1 DEF Add, TypeOK
<1>2. CASE x \notin Events(log)
  <2>1. log \in Seq(Event) /\ log' = Append(log, x)
    BY <1>2 DEF Add, TypeOK
  <2>2. log' \in Seq(Event) /\ Len(log') = Len(log) + 1 /\ Len(log) \in Nat
    BY <2>1
  <2>3. \A i \in 1..Len(log) : log'[i] = log[i]
    BY <2>1
  <2>4. log'[Len(log) + 1] = x
    BY <2>1
  <2>5. DOMAIN log' = 1..(Len(log) + 1) /\ DOMAIN log = 1..Len(log)
    BY <2>1, <2>2
  <2>6. Events(log') = Events(log) \cup {x}
    BY <2>1, AppendEvents
  <2>7. \A i \in 1..Len(log) : log[i] # x
    BY <1>2, <2>5 DEF Events, ToSet
  <2>8. IsInjective(log')
    BY <2>2, <2>3, <2>4, <2>5, <2>7 DEF TypeOK, IsInjective
  <2> QED BY <2>2, <2>6, <2>8 DEF TypeOK
<1> QED BY <1>1, <1>2

\* A log holds events of the system, each once, in whatever order they arrive.
THEOREM FoldTypeCorrect == Spec => []TypeOK
<1>1. Init => TypeOK
  BY DEF Init, TypeOK, IsInjective
<1>2. TypeOK /\ [Next]_vars => TypeOK'
  BY AddStep DEF Next, vars, TypeOK
<1> QED BY <1>1, <1>2, PTL DEF Spec

\* The largest number of a bounded set.
LEMMA MaxOfBounded ==
  ASSUME NEW N \in Nat, NEW T \in SUBSET (0..N), T # {}
  PROVE  Max(T) \in T /\ \A n \in T : n <= Max(T)
<1>1. \E m \in T : \A n \in T : m >= n
  BY LargestNatural
<1>2. Max(T) \in T /\ \A n \in T : Max(T) >= n
  BY <1>1 DEF Max
<1>3. \A n \in T : n \in Int
  OBVIOUS
<1> QED BY <1>2, <1>3

\* Asking about the latest tombstone alone is asking about each of them: an
\* untombstone later than the latest is later than all.
LEMMA LatestTombstone ==
  ASSUME NEW L, Events(L) \subseteq Event, NEW x \in Event, NEW t \in Nat
  PROVE  Tombstoned(L, x, t) <=>
           \E y \in ActedOn(L, "tombstone", x, t) :
             \A u \in ActedOn(L, "untombstone", x, t) : u.hlc.pt <= y.hlc.pt
<1> DEFINE tombs == ActedOn(L, "tombstone", x, t)
           untombs == ActedOn(L, "untombstone", x, t)
           times == {y.hlc.pt : y \in tombs}
<1>1. /\ \A y \in tombs : y.hlc.pt \in 0..t
      /\ \A u \in untombs : u.hlc.pt \in Nat
  BY EventFields DEF ActedOn
<1>2. Tombstoned(L, x, t) <=> tombs # {} /\ \A u \in untombs : u.hlc.pt <= Max(times)
  BY DEF Tombstoned
<1> HIDE DEF tombs, untombs
<1>3. tombs # {} => Max(times) \in times /\ \A n \in times : n <= Max(times)
  <2> SUFFICES ASSUME tombs # {}
               PROVE  Max(times) \in times /\ \A n \in times : n <= Max(times)
    OBVIOUS
  <2>1. times # {} /\ times \in SUBSET (0..t)
    BY <1>1
  <2> HIDE DEF times
  <2> QED BY <2>1, MaxOfBounded
<1>4. ASSUME tombs # {}, \A u \in untombs : u.hlc.pt <= Max(times)
      PROVE  \E y \in tombs : \A u \in untombs : u.hlc.pt <= y.hlc.pt
  <2>1. PICK y \in tombs : y.hlc.pt = Max(times)
    BY <1>3, <1>4
  <2> QED BY <1>4, <2>1
<1>5. ASSUME NEW y \in tombs, \A u \in untombs : u.hlc.pt <= y.hlc.pt
      PROVE  tombs # {} /\ \A u \in untombs : u.hlc.pt <= Max(times)
  <2>1. y.hlc.pt <= Max(times) /\ Max(times) \in Nat /\ y.hlc.pt \in Nat
    BY <1>1, <1>3
  <2> HIDE DEF times
  <2> QED BY <1>1, <1>5, <2>1
<1> QED BY <1>2, <1>4, <1>5 DEF tombs, untombs

\* The visibility the code computes is the protocol's, for every log.
LEMMA VisibleIsSpecified ==
  ASSUME NEW L, Events(L) \subseteq Event, NEW x \in Events(L) \cap Asserts,
         NEW c \in Coord
  PROVE  Visible(L, x, c) <=> VisibleInProtocol(Events(L), x, c)
<1> DEFINE Acts(kind) == {y \in Events(L) \ Asserts :
                            y.kind = kind /\ y.target = x.id /\ y.hlc.pt <= c.txTime}
<1>1. /\ x \in Event /\ x.kind = "assert" /\ x.validFrom \in Nat /\ x.validTo \in Nat
      /\ c.txTime \in Nat /\ c.validTime \in Nat
  BY EventFields, TimeAssumption DEF Asserts, Coord
<1>2. \A kind : ActedOn(L, kind, x, c.txTime) = Acts(kind)
  BY DEF ActedOn
<1>3. /\ \A y \in Acts("tombstone") : y.hlc.pt \in Nat
      /\ \A y \in Acts("untombstone") : y.hlc.pt \in Nat
  BY EventFields
<1>4. ~Tombstoned(L, x, c.txTime) <=>
        \A t \in Acts("tombstone") : \E u \in Acts("untombstone") : t.hlc.pt < u.hlc.pt
  <2>1. Tombstoned(L, x, c.txTime) <=>
          \E y \in Acts("tombstone") :
            \A u \in Acts("untombstone") : u.hlc.pt <= y.hlc.pt
    BY <1>1, <1>2, LatestTombstone
  <2> HIDE DEF Acts
  <2> QED BY <1>3, <2>1
<1>5. c.validTime \in x.validFrom .. (x.validTo - 1) <=>
        x.validFrom <= c.validTime /\ c.validTime < x.validTo
  BY <1>1
<1>6. VisibleInProtocol(Events(L), x, c) <=>
        /\ x.hlc.pt <= c.txTime
        /\ Acts("retract") = {}
        /\ \A t \in Acts("tombstone") : \E u \in Acts("untombstone") : t.hlc.pt < u.hlc.pt
        /\ c.validTime \in x.validFrom .. (x.validTo - 1)
  BY DEF VisibleInProtocol
<1>7. Visible(L, x, c) <=>
        /\ x.hlc.pt <= c.txTime
        /\ ActedOn(L, "retract", x, c.txTime) = {}
        /\ ~Tombstoned(L, x, c.txTime)
        /\ x.validFrom <= c.validTime /\ c.validTime < x.validTo
  BY <1>1 DEF Visible
<1> HIDE DEF Acts
<1> QED BY <1>2, <1>4, <1>5, <1>6, <1>7

\* Every replica's visibility is the protocol's, at every coordinate, for every
\* set of events in every order of arrival.
THEOREM FoldVisibleAsSpecified == Spec => []VisibleAsSpecified
<1>1. TypeOK => VisibleAsSpecified
  <2>1. TypeOK => Events(log) \subseteq Event
    BY DEF TypeOK, Events, ToSet
  <2> QED BY <2>1, VisibleIsSpecified DEF VisibleAsSpecified
<1> QED BY <1>1, FoldTypeCorrect, PTL

\* The past is settled: a log that grew by events later than a transaction time
\* shows at that time exactly what it showed before.
THEOREM PastIsSettled ==
  ASSUME NEW L, NEW M, Events(L) \subseteq Events(M), NEW c \in Coord,
         \A y \in Events(M) \ Events(L) : ~(y.hlc.pt <= c.txTime)
  PROVE  {x \in Events(M) : Visible(M, x, c)} = {x \in Events(L) : Visible(L, x, c)}
<1>1. \A kind, x : ActedOn(M, kind, x, c.txTime) = ActedOn(L, kind, x, c.txTime)
  BY DEF ActedOn
<1>2. \A x : Tombstoned(M, x, c.txTime) <=> Tombstoned(L, x, c.txTime)
  BY <1>1 DEF Tombstoned
<1>3. \A x : Visible(M, x, c) <=> Visible(L, x, c)
  BY <1>1, <1>2 DEF Visible
<1>4. \A x \in Events(M) : Visible(M, x, c) => x \in Events(L)
  BY DEF Visible
<1> QED BY <1>3, <1>4

------------------------------------------------------------------------------
(* Passes over a sequence *)

\* The recursion of FoldLeft, over the sets of positions: the result for a set is that
\* for the set without its largest position, with the largest applied.
FoldsBy(g, N, S, base, F) ==
  /\ g \in [SUBSET (1..N) -> S]
  /\ \A s \in SUBSET (1..N) : g[s] = IF s = {} THEN base ELSE F[<<Max(s), g[s \ {Max(s)}]>>]

\* The recursion has a solution.
LEMMA FoldExists ==
  ASSUME NEW N \in Nat, NEW S, NEW base \in S,
         NEW F, \A i \in 1..N, v \in S : F[<<i, v>>] \in S
  PROVE  \E g : FoldsBy(g, N, S, base, F)
<1> DEFINE Of(g, m) ==
             \A s \in SUBSET (1..m) :
               /\ g[s] \in S
               /\ g[s] = IF s = {} THEN base ELSE F[<<Max(s), g[s \ {Max(s)}]>>]
           T == {m \in Nat : m <= N => \E g : Of(g, m)}
<1>1. 0 \in T
  <2> DEFINE g == [s \in SUBSET (1..0) |-> base]
  <2>1. \A s \in SUBSET (1..0) : s = {}
    OBVIOUS
  <2>2. Of(g, 0)
    BY <2>1
  <2> QED BY <2>2
<1>2. ASSUME NEW m \in Nat, NEW g, m + 1 <= N, Of(g, m) PROVE \E h : Of(h, m + 1)
  <2> DEFINE h == [s \in SUBSET (1..(m + 1)) |->
                     IF m + 1 \in s THEN F[<<m + 1, g[s \ {m + 1}]>>] ELSE g[s]]
  <2>1. \A s \in SUBSET (1..m) :
          /\ g[s] \in S
          /\ g[s] = IF s = {} THEN base ELSE F[<<Max(s), g[s \ {Max(s)}]>>]
    BY <1>2
  <2>2. ASSUME NEW s \in SUBSET (1..(m + 1))
        PROVE  /\ h[s] \in S
               /\ h[s] = IF s = {} THEN base ELSE F[<<Max(s), h[s \ {Max(s)}]>>]
    <3>1. CASE m + 1 \in s
      <4>1. Max(s) \in s /\ m + 1 <= Max(s)
        <5>1. s \in SUBSET (0..(m + 1)) /\ s # {} /\ m + 1 \in Nat
          BY <3>1
        <5>2. Max(s) \in s /\ \A n \in s : n <= Max(s)
          BY <5>1, MaxOfBounded
        <5> QED BY <3>1, <5>2
      <4>2. Max(s) = m + 1
        <5>1. Max(s) \in 1..(m + 1)
          BY <4>1
        <5> QED BY <4>1, <5>1
      <4> DEFINE t == s \ {m + 1}
      <4>3. t \in SUBSET (1..m) /\ t \in SUBSET (1..(m + 1)) /\ m + 1 \notin t
        OBVIOUS
      <4>4. h[t] = g[t] /\ g[t] \in S
        BY <2>1, <4>3
      <4>5. m + 1 \in 1..N
        BY <1>2
      <4>6. h[s] = F[<<m + 1, g[t]>>] /\ F[<<m + 1, g[t]>>] \in S
        BY <3>1, <4>4, <4>5
      <4> HIDE DEF h, t
      <4>7. s \ {Max(s)} = t /\ s # {}
        BY <3>1, <4>2 DEF t
      <4> QED BY <4>2, <4>4, <4>6, <4>7
    <3>2. CASE m + 1 \notin s
      <4>1. s \in SUBSET (1..m)
        BY <3>2
      <4>2. h[s] = g[s] /\ g[s] \in S
        BY <2>1, <3>2, <4>1
      <4>3. s \ {Max(s)} \in SUBSET (1..m) /\ h[s \ {Max(s)}] = g[s \ {Max(s)}]
        BY <3>2, <4>1
      <4>4. g[s] = IF s = {} THEN base ELSE F[<<Max(s), g[s \ {Max(s)}]>>]
        BY <2>1, <4>1
      <4> HIDE DEF h
      <4> QED BY <4>2, <4>3, <4>4
    <3> QED BY <3>1, <3>2
  <2>3. Of(h, m + 1)
    <3> HIDE DEF h
    <3> QED BY <2>2
  <2> HIDE DEF Of, h
  <2> QED BY <2>3
<1>3. ASSUME NEW m \in Nat, m \in T PROVE m + 1 \in T
  <2> HIDE DEF Of
  <2> QED BY <1>2, <1>3
<1>4. N \in T
  <2> HIDE DEF T
  <2>1. \A m \in Nat : m \in T
    BY <1>1, <1>3, NatSetInduction
  <2> QED BY <2>1
<1>5. PICK g : Of(g, N)
  <2> HIDE DEF Of
  <2> QED BY <1>4
<1> DEFINE k == [s \in SUBSET (1..N) |-> g[s]]
<1>6. ASSUME NEW s \in SUBSET (1..N)
      PROVE  k[s] \in S /\ k[s] = IF s = {} THEN base ELSE F[<<Max(s), k[s \ {Max(s)}]>>]
  <2>1. s \ {Max(s)} \in SUBSET (1..N)
    OBVIOUS
  <2> QED BY <1>5, <2>1
<1>7. k \in [SUBSET (1..N) -> S]
  BY <1>6
<1> HIDE DEF k
<1> QED BY <1>6, <1>7 DEF FoldsBy

\* From one prefix of the positions to the next.
LEMMA NextPosition ==
  ASSUME NEW n \in Nat
  PROVE  /\ 1..0 = {}
         /\ 1..(n + 1) # {} /\ Max(1..(n + 1)) = n + 1 /\ (1..(n + 1)) \ {n + 1} = 1..n
<1>1. 1..0 = {} /\ 1..(n + 1) # {} /\ (1..(n + 1)) \ {n + 1} = 1..n
  OBVIOUS
<1>2. Max(1..(n + 1)) \in 1..(n + 1) /\ \A i \in 1..(n + 1) : i <= Max(1..(n + 1))
  <2>1. 1..(n + 1) \in SUBSET (0..(n + 1)) /\ n + 1 \in Nat
    OBVIOUS
  <2> QED BY <1>1, <2>1, MaxOfBounded
<1>3. Max(1..(n + 1)) = n + 1
  <2>1. n + 1 \in 1..(n + 1)
    OBVIOUS
  <2> QED BY <1>2, <2>1
<1> QED BY <1>1, <1>3

\* A pass that keeps the better goes through the results of the prefixes.
LEMMA BetterPass ==
  ASSUME NEW seq \in Seq(Event)
  PROVE  \E v : /\ v[0] = {} /\ v[Len(seq)] = MaxByOrder(seq)
                /\ \A k \in 0..(Len(seq) - 1) : v[k + 1] = Better(v[k], seq[k + 1])
<1> DEFINE n == Len(seq)
           F == [p \in (1..n) \X SUBSET Event |-> Better(p[2], seq[p[1]])]
           W(g) == g = [s \in SUBSET (1..n) |->
                          IF s = {} THEN {} ELSE Better(g[s \ {Max(s)}], seq[Max(s)])]
           it == CHOOSE g : W(g)
<1>1. n \in Nat /\ DOMAIN seq = 1..n /\ \A i \in 1..n : seq[i] \in Event
  OBVIOUS
<1>2. F \in [(1..n) \X SUBSET Event -> SUBSET Event]
  BY <1>1 DEF Better
<1>3. PICK g : FoldsBy(g, n, SUBSET Event, {}, F)
  <2> DEFINE S == SUBSET Event
             none == {}
  <2>1. none \in S /\ \A i \in 1..n, v \in S : F[<<i, v>>] \in S
    BY <1>2
  <2> HIDE DEF n, F, S, none
  <2>2. \E g : FoldsBy(g, n, S, none, F)
    BY <1>1, <2>1, FoldExists
  <2> QED BY <2>2 DEF S, none
<1>4. W(g)
  <2>1. ASSUME NEW s \in SUBSET (1..n), s # {}
        PROVE  F[<<Max(s), g[s \ {Max(s)}]>>] = Better(g[s \ {Max(s)}], seq[Max(s)])
    <3>1. Max(s) \in 1..n
      <4>1. s \in SUBSET (0..n)
        OBVIOUS
      <4>2. Max(s) \in s
        BY <1>1, <2>1, <4>1, MaxOfBounded
      <4> QED BY <4>2
    <3>2. g[s \ {Max(s)}] \in SUBSET Event
      BY <1>3 DEF FoldsBy
    <3> QED BY <3>1, <3>2
  <2> HIDE DEF F
  <2> QED BY <1>3, <2>1 DEF FoldsBy
<1>5. W(it)
  <2> HIDE DEF W
  <2> QED BY <1>4
<1>6. MaxByOrder(seq) = it[1..n]
  BY <1>1 DEF MaxByOrder, FoldLeft, MapThenFoldSet
<1> HIDE DEF it
<1>7. \A s \in SUBSET (1..n) :
        it[s] = IF s = {} THEN {} ELSE Better(it[s \ {Max(s)}], seq[Max(s)])
  BY <1>5
<1> DEFINE v == [k \in 0..n |-> it[1..k]]
<1>8. v[0] = {}
  <2>1. {} \in SUBSET (1..n) /\ 1..0 = {}
    OBVIOUS
  <2>2. it[{}] = {}
    BY <1>7, <2>1
  <2> QED BY <1>1, <2>1, <2>2
<1>9. ASSUME NEW k \in 0..(n - 1) PROVE v[k + 1] = Better(v[k], seq[k + 1])
  <2>1. k \in Nat /\ k \in 0..n /\ k + 1 \in 0..n /\ 1..(k + 1) \in SUBSET (1..n)
    BY <1>1
  <2> DEFINE s == 1..(k + 1)
  <2>2. s # {} /\ Max(s) = k + 1 /\ s \ {k + 1} = 1..k
    BY <2>1, NextPosition
  <2>3. it[s] = IF s = {} THEN {} ELSE Better(it[s \ {Max(s)}], seq[Max(s)])
    BY <1>7, <2>1
  <2>4. v[k + 1] = it[s] /\ v[k] = it[1..k]
    BY <2>1
  <2> HIDE DEF s, v
  <2> QED BY <2>2, <2>3, <2>4
<1>10. v[n] = MaxByOrder(seq)
  BY <1>1, <1>6
<1> HIDE DEF v
<1> QED BY <1>8, <1>9, <1>10

\* So does the reduction of a group.
LEMMA KeepPass ==
  ASSUME NEW seq \in Seq(Event), NEW b \in Event
  PROVE  \E v : /\ v[0] = b /\ v[Len(seq)] = FoldLeft(Keep, b, seq)
                /\ \A k \in 0..(Len(seq) - 1) : v[k + 1] = Keep(v[k], seq[k + 1])
<1> DEFINE n == Len(seq)
           F == [p \in (1..n) \X Event |-> Keep(p[2], seq[p[1]])]
           W(g) == g = [s \in SUBSET (1..n) |->
                          IF s = {} THEN b ELSE Keep(g[s \ {Max(s)}], seq[Max(s)])]
           it == CHOOSE g : W(g)
<1>1. n \in Nat /\ DOMAIN seq = 1..n /\ \A i \in 1..n : seq[i] \in Event
  OBVIOUS
<1>2. F \in [(1..n) \X Event -> Event]
  BY <1>1 DEF Keep
<1>3. PICK g : FoldsBy(g, n, Event, b, F)
  <2> DEFINE S == Event
  <2>1. b \in S /\ \A i \in 1..n, v \in S : F[<<i, v>>] \in S
    BY <1>2
  <2> HIDE DEF n, F, S
  <2>2. \E g : FoldsBy(g, n, S, b, F)
    BY <1>1, <2>1, FoldExists
  <2> QED BY <2>2 DEF S
<1>4. W(g)
  <2>1. ASSUME NEW s \in SUBSET (1..n), s # {}
        PROVE  F[<<Max(s), g[s \ {Max(s)}]>>] = Keep(g[s \ {Max(s)}], seq[Max(s)])
    <3>1. Max(s) \in 1..n
      <4>1. s \in SUBSET (0..n)
        OBVIOUS
      <4>2. Max(s) \in s
        BY <1>1, <2>1, <4>1, MaxOfBounded
      <4> QED BY <4>2
    <3>2. g[s \ {Max(s)}] \in Event
      BY <1>3 DEF FoldsBy
    <3> QED BY <3>1, <3>2
  <2> HIDE DEF F
  <2> QED BY <1>3, <2>1 DEF FoldsBy
<1>5. W(it)
  <2> HIDE DEF W
  <2> QED BY <1>4
<1>6. FoldLeft(Keep, b, seq) = it[1..n]
  BY <1>1 DEF FoldLeft, MapThenFoldSet
<1> HIDE DEF it
<1>7. \A s \in SUBSET (1..n) :
        it[s] = IF s = {} THEN b ELSE Keep(it[s \ {Max(s)}], seq[Max(s)])
  BY <1>5
<1> DEFINE v == [k \in 0..n |-> it[1..k]]
<1>8. v[0] = b
  <2>1. {} \in SUBSET (1..n) /\ 1..0 = {}
    OBVIOUS
  <2>2. it[{}] = b
    BY <1>7, <2>1
  <2> QED BY <1>1, <2>1, <2>2
<1>9. ASSUME NEW k \in 0..(n - 1) PROVE v[k + 1] = Keep(v[k], seq[k + 1])
  <2>1. k \in Nat /\ k \in 0..n /\ k + 1 \in 0..n /\ 1..(k + 1) \in SUBSET (1..n)
    BY <1>1
  <2> DEFINE s == 1..(k + 1)
  <2>2. s # {} /\ Max(s) = k + 1 /\ s \ {k + 1} = 1..k
    BY <2>1, NextPosition
  <2>3. it[s] = IF s = {} THEN b ELSE Keep(it[s \ {Max(s)}], seq[Max(s)])
    BY <1>7, <2>1
  <2>4. v[k + 1] = it[s] /\ v[k] = it[1..k]
    BY <2>1
  <2> HIDE DEF s, v
  <2> QED BY <2>2, <2>3, <2>4
<1>10. v[n] = FoldLeft(Keep, b, seq)
  BY <1>1, <1>6
<1> HIDE DEF v
<1> QED BY <1>8, <1>9, <1>10

\* One more event passes the filter, or not.
Picked(kept, x, L, e, a, c) ==
  IF Visible(L, x, c) /\ x.e = e /\ x.a = a THEN Append(kept, x) ELSE kept

\* The results v of the prefixes, when the filter leaves the sequence result.
PickedBy(v, result, L, e, a, c) ==
  /\ v[0] = <<>> /\ v[Len(L)] = result
  /\ \A k \in 0..(Len(L) - 1) : v[k + 1] = Picked(v[k], L[k + 1], L, e, a, c)

\* So does the pass that picks the visible asserts of one entity and attribute.
LEMMA VisiblePass ==
  ASSUME NEW L \in Seq(Event), NEW e, NEW a, NEW c
  PROVE  \E v : PickedBy(v, VisibleAsserts(L, e, a, c), L, e, a, c)
<1> DEFINE n == Len(L)
           F == [p \in (1..n) \X Seq(Event) |-> Picked(p[2], L[p[1]], L, e, a, c)]
           W(g) == g = [s \in SUBSET (1..n) |->
                          IF s = {} THEN <<>> ELSE Picked(g[s \ {Max(s)}], L[Max(s)], L, e, a, c)]
           it == CHOOSE g : W(g)
<1>1. n \in Nat /\ DOMAIN L = 1..n /\ \A i \in 1..n : L[i] \in Event
  OBVIOUS
<1>2. F \in [(1..n) \X Seq(Event) -> Seq(Event)]
  BY <1>1 DEF Picked
<1>3. PICK g : FoldsBy(g, n, Seq(Event), <<>>, F)
  <2> DEFINE S == Seq(Event)
             none == <<>>
  <2>1. none \in S /\ \A i \in 1..n, v \in S : F[<<i, v>>] \in S
    BY <1>2
  <2> HIDE DEF n, F, S, none
  <2>2. \E g : FoldsBy(g, n, S, none, F)
    BY <1>1, <2>1, FoldExists
  <2> QED BY <2>2 DEF S, none
<1>4. W(g)
  <2>1. ASSUME NEW s \in SUBSET (1..n), s # {}
        PROVE  F[<<Max(s), g[s \ {Max(s)}]>>] = Picked(g[s \ {Max(s)}], L[Max(s)], L, e, a, c)
    <3>1. Max(s) \in 1..n
      <4>1. s \in SUBSET (0..n)
        OBVIOUS
      <4>2. Max(s) \in s
        BY <1>1, <2>1, <4>1, MaxOfBounded
      <4> QED BY <4>2
    <3>2. g[s \ {Max(s)}] \in Seq(Event)
      BY <1>3 DEF FoldsBy
    <3> QED BY <3>1, <3>2
  <2> HIDE DEF F
  <2> QED BY <1>3, <2>1 DEF FoldsBy
<1>5. W(it)
  <2> HIDE DEF W
  <2> QED BY <1>4
<1>6. VisibleAsserts(L, e, a, c) = it[1..n]
  BY <1>1 DEF VisibleAsserts, Passing, Picked, FoldLeft, MapThenFoldSet
<1> HIDE DEF it
<1>7. \A s \in SUBSET (1..n) :
        it[s] = IF s = {} THEN <<>> ELSE Picked(it[s \ {Max(s)}], L[Max(s)], L, e, a, c)
  BY <1>5
<1> DEFINE v == [k \in 0..n |-> it[1..k]]
<1>8. v[0] = <<>>
  <2>1. {} \in SUBSET (1..n) /\ 1..0 = {}
    OBVIOUS
  <2>2. it[{}] = <<>>
    BY <1>7, <2>1
  <2> QED BY <1>1, <2>1, <2>2
<1>9. ASSUME NEW k \in 0..(n - 1) PROVE v[k + 1] = Picked(v[k], L[k + 1], L, e, a, c)
  <2>1. k \in Nat /\ k \in 0..n /\ k + 1 \in 0..n /\ 1..(k + 1) \in SUBSET (1..n)
    BY <1>1
  <2> DEFINE s == 1..(k + 1)
  <2>2. s # {} /\ Max(s) = k + 1 /\ s \ {k + 1} = 1..k
    BY <2>1, NextPosition
  <2>3. it[s] = IF s = {} THEN <<>> ELSE Picked(it[s \ {Max(s)}], L[Max(s)], L, e, a, c)
    BY <1>7, <2>1
  <2>4. v[k + 1] = it[s] /\ v[k] = it[1..k]
    BY <2>1
  <2> HIDE DEF s, v
  <2> QED BY <2>2, <2>3, <2>4
<1>10. v[n] = VisibleAsserts(L, e, a, c)
  BY <1>1, <1>6
<1> HIDE DEF v
<1> QED BY <1>8, <1>9, <1>10 DEF PickedBy

\* The events of A that come after all others of A.
Best(A) == {x \in A : \A y \in A \ {x} : Precedes(y, x)}

\* One more event is the best, or the one that was the best is.
LEMMA BestStep ==
  ASSUME NEW A \in SUBSET Event, NEW m, Best(A) = {m}, NEW x \in Event
  PROVE  Best(A \cup {x}) = IF Precedes(m, x) THEN {x} ELSE {m}
<1>1. m \in A /\ m \in Event /\ \A y \in A \ {m} : Precedes(y, m)
  BY DEF Best
<1>2. CASE Precedes(m, x)
  <2>1. \A y \in A : Precedes(y, x)
    BY <1>1, <1>2, PrecedesOrder
  <2>2. x \in Best(A \cup {x})
    BY <2>1 DEF Best
  <2>3. ASSUME NEW z \in Best(A \cup {x}), z # x PROVE FALSE
    <3>1. z \in A /\ Precedes(x, z)
      BY <2>3 DEF Best
    <3> QED BY <2>1, <3>1, PrecedesOrder
  <2> QED BY <1>2, <2>2, <2>3
<1>3. CASE ~Precedes(m, x)
  <2>1. x = m \/ Precedes(x, m)
    BY <1>1, <1>3, PrecedesOrder
  <2>2. m \in Best(A \cup {x})
    BY <1>1, <2>1 DEF Best
  <2>3. ASSUME NEW z \in Best(A \cup {x}), z # m PROVE FALSE
    <3>1. z \in Event /\ Precedes(m, z) /\ z \in A \cup {x}
      BY <1>1, <2>3 DEF Best
    <3>2. z = x \/ Precedes(z, m)
      BY <1>1, <2>3, <3>1
    <3> QED BY <1>1, <1>3, <3>1, <3>2, PrecedesOrder
  <2> QED BY <1>3, <2>2, <2>3
<1> QED BY <1>2, <1>3

\* The only event of a set is its best.
LEMMA BestOfOne ==
  ASSUME NEW x PROVE Best({x}) = {x}
BY DEF Best

\* The first events of a sequence.
First(seq, k) == {seq[i] : i \in 1..k}

\* From one prefix of a sequence to the next.
LEMMA FirstStep ==
  ASSUME NEW seq \in Seq(Event)
  PROVE  /\ First(seq, 0) = {} /\ First(seq, Len(seq)) = Events(seq)
         /\ \A k \in 0..(Len(seq) - 1) : /\ First(seq, k + 1) = First(seq, k) \cup {seq[k + 1]}
                                         /\ seq[k + 1] \in Event
         /\ \A k \in 0..Len(seq) : First(seq, k) \in SUBSET Event
<1>1. Len(seq) \in Nat /\ DOMAIN seq = 1..Len(seq) /\ \A i \in 1..Len(seq) : seq[i] \in Event
  OBVIOUS
<1>2. First(seq, Len(seq)) = Events(seq)
  BY <1>1 DEF First, Events, ToSet
<1>3. ASSUME NEW k \in 0..(Len(seq) - 1)
      PROVE  First(seq, k + 1) = First(seq, k) \cup {seq[k + 1]} /\ seq[k + 1] \in Event
  <2>1. k + 1 \in 1..Len(seq) /\ 1..(k + 1) = (1..k) \cup {k + 1}
    BY <1>1
  <2> QED BY <1>1, <2>1 DEF First
<1> QED BY <1>1, <1>2, <1>3 DEF First

\* maxByOrder gives the best, whatever the order of its argument.
LEMMA MaxByOrderIsBest ==
  ASSUME NEW seq \in Seq(Event)
  PROVE  MaxByOrder(seq) = Best(Events(seq))
<1>1. PICK v : /\ v[0] = {} /\ v[Len(seq)] = MaxByOrder(seq)
               /\ \A k \in 0..(Len(seq) - 1) : v[k + 1] = Better(v[k], seq[k + 1])
  BY BetterPass
<1> DEFINE P(k) == /\ v[k] = Best(First(seq, k))
                   /\ k # 0 => \E m : v[k] = {m}
           T == {k \in Nat : k <= Len(seq) => P(k)}
<1>2. Len(seq) \in Nat
  OBVIOUS
<1>3. 0 \in T
  <2>1. Best({}) = {}
    BY DEF Best
  <2>2. P(0)
    BY <1>1, <2>1, FirstStep
  <2> HIDE DEF P
  <2> QED BY <2>2
<1>4. ASSUME NEW k \in Nat, k \in T PROVE k + 1 \in T
  <2> SUFFICES ASSUME k + 1 <= Len(seq)
               PROVE  P(k + 1)
    <3> HIDE DEF P
    <3> QED OBVIOUS
  <2> DEFINE x == seq[k + 1]
             A == First(seq, k)
  <2>0. k \in 0..(Len(seq) - 1) /\ k \in 0..Len(seq) /\ k <= Len(seq)
    BY <1>2
  <2>1. v[k] = Best(A) /\ (k # 0 => \E m : v[k] = {m})
    <3>1. P(k)
      <4> HIDE DEF P
      <4> QED BY <1>4, <2>0
    <3> QED BY <3>1
  <2>2. x \in Event /\ A \in SUBSET Event /\ First(seq, k + 1) = A \cup {x} /\ v[k + 1] = Better(v[k], x)
    BY <1>1, <2>0, FirstStep
  <2>3. CASE k = 0
    <3>1. A = {} /\ v[k] = {}
      BY <1>1, <2>3, FirstStep
    <3> HIDE DEF x, A
    <3>2. v[k + 1] = {x} /\ Best(A \cup {x}) = {x}
      BY <2>2, <3>1, BestOfOne DEF Better
    <3> QED BY <2>2, <3>2
  <2>4. CASE k # 0
    <3>1. PICK m : v[k] = {m}
      BY <2>1, <2>4
    <3> HIDE DEF x, A
    <3>2. Best(A \cup {x}) = IF Precedes(m, x) THEN {x} ELSE {m}
      BY <2>1, <2>2, <3>1, BestStep
    <3>3. v[k + 1] = IF Precedes(m, x) THEN {x} ELSE {m}
      BY <2>2, <3>1 DEF Better
    <3> QED BY <2>2, <3>2, <3>3
  <2> QED BY <2>3, <2>4
<1>5. Len(seq) \in T
  <2> HIDE DEF T
  <2>1. \A k \in Nat : k \in T
    BY <1>3, <1>4, NatSetInduction
  <2> QED BY <1>2, <2>1
<1>6. P(Len(seq))
  <2> HIDE DEF P
  <2> QED BY <1>2, <1>5
<1> QED BY <1>1, <1>6, FirstStep

\* So does the reduction of a group, from any of its events.
LEMMA KeepIsBest ==
  ASSUME NEW seq \in Seq(Event), NEW b \in Event
  PROVE  {FoldLeft(Keep, b, seq)} = Best({b} \cup Events(seq))
<1>1. PICK v : /\ v[0] = b /\ v[Len(seq)] = FoldLeft(Keep, b, seq)
               /\ \A k \in 0..(Len(seq) - 1) : v[k + 1] = Keep(v[k], seq[k + 1])
  BY KeepPass
<1> DEFINE P(k) == {v[k]} = Best({b} \cup First(seq, k))
           T == {k \in Nat : k <= Len(seq) => P(k)}
<1>2. Len(seq) \in Nat
  OBVIOUS
<1>3. 0 \in T
  <2>1. {b} \cup First(seq, 0) = {b}
    BY FirstStep
  <2>2. P(0)
    BY <1>1, <2>1, BestOfOne
  <2> HIDE DEF P
  <2> QED BY <2>2
<1>4. ASSUME NEW k \in Nat, k \in T PROVE k + 1 \in T
  <2> SUFFICES ASSUME k + 1 <= Len(seq)
               PROVE  P(k + 1)
    <3> HIDE DEF P
    <3> QED OBVIOUS
  <2> DEFINE x == seq[k + 1]
             A == {b} \cup First(seq, k)
  <2>0. k \in 0..(Len(seq) - 1) /\ k \in 0..Len(seq) /\ k <= Len(seq)
    BY <1>2
  <2>1. {v[k]} = Best(A)
    <3>1. P(k)
      <4> HIDE DEF P
      <4> QED BY <1>4, <2>0
    <3> QED BY <3>1
  <2>2. /\ x \in Event /\ A \in SUBSET Event
        /\ {b} \cup First(seq, k + 1) = A \cup {x} /\ v[k + 1] = Keep(v[k], x)
    BY <1>1, <2>0, FirstStep
  <2> HIDE DEF x, A
  <2>3. v[k] \in Event
    BY <2>1, <2>2 DEF Best
  <2>4. Precedes(v[k], x) => v[k].id # x.id
    BY <2>2, <2>3, EventAssumption, PrecedesOrder
  <2>5. Best(A \cup {x}) = IF Precedes(v[k], x) THEN {x} ELSE {v[k]}
    BY <2>1, <2>2, BestStep
  <2>6. v[k + 1] = IF Precedes(v[k], x) THEN x ELSE v[k]
    BY <2>2, <2>4 DEF Keep
  <2> QED BY <2>2, <2>5, <2>6
<1>5. Len(seq) \in T
  <2> HIDE DEF T
  <2>1. \A k \in Nat : k \in T
    BY <1>3, <1>4, NatSetInduction
  <2> QED BY <1>2, <2>1
<1>6. P(Len(seq))
  <2> HIDE DEF P
  <2> QED BY <1>2, <1>5
<1> QED BY <1>1, <1>6, FirstStep

\* The asserts of S visible in L, and among them those of one entity and attribute.
Seen(L, c) == {x \in Events(L) : Visible(L, x, c)}
SeenOf(L, e, a, c) == {x \in Seen(L, c) : x.e = e /\ x.a = a}

\* The filter leaves those events, no other.
LEMMA VisibleAssertsAre ==
  ASSUME NEW L \in Seq(Event), NEW e, NEW a, NEW c
  PROVE  /\ VisibleAsserts(L, e, a, c) \in Seq(Event)
         /\ Events(VisibleAsserts(L, e, a, c)) = SeenOf(L, e, a, c)
<1>0. PICK v : PickedBy(v, VisibleAsserts(L, e, a, c), L, e, a, c)
  BY VisiblePass
<1>1. /\ v[0] = <<>> /\ v[Len(L)] = VisibleAsserts(L, e, a, c)
      /\ \A k \in 0..(Len(L) - 1) : v[k + 1] = Picked(v[k], L[k + 1], L, e, a, c)
  BY <1>0 DEF PickedBy
<1> DEFINE Q(x) == Visible(L, x, c) /\ x.e = e /\ x.a = a
           P(k) == v[k] \in Seq(Event) /\ Events(v[k]) = {x \in First(L, k) : Q(x)}
           T == {k \in Nat : k <= Len(L) => P(k)}
<1>2. Len(L) \in Nat
  OBVIOUS
<1>3. 0 \in T
  <2>1. First(L, 0) = {} /\ DOMAIN <<>> = {}
    BY FirstStep
  <2>2. Events(<<>>) = {}
    BY <2>1 DEF Events, ToSet
  <2>3. P(0)
    BY <1>1, <2>1, <2>2
  <2> HIDE DEF P
  <2> QED BY <2>3
<1>4. ASSUME NEW k \in Nat, k \in T PROVE k + 1 \in T
  <2> SUFFICES ASSUME k + 1 <= Len(L)
               PROVE  P(k + 1)
    <3> HIDE DEF P
    <3> QED OBVIOUS
  <2> DEFINE x == L[k + 1]
  <2>0. k \in 0..(Len(L) - 1) /\ k \in 0..Len(L) /\ k <= Len(L)
    BY <1>2
  <2>1. v[k] \in Seq(Event) /\ Events(v[k]) = {y \in First(L, k) : Q(y)}
    <3>1. P(k)
      <4> HIDE DEF P
      <4> QED BY <1>4, <2>0
    <3> QED BY <3>1
  <2>2. x \in Event /\ First(L, k + 1) = First(L, k) \cup {x}
    BY <2>0, FirstStep
  <2>3. v[k + 1] = IF Q(x) THEN Append(v[k], x) ELSE v[k]
    BY <1>1, <2>0 DEF Picked
  <2> HIDE DEF Q, x
  <2>4. Append(v[k], x) \in Seq(Event) /\ Events(Append(v[k], x)) = Events(v[k]) \cup {x}
    BY <2>1, <2>2, AppendEvents
  <2>5. CASE Q(x)
    BY <2>1, <2>2, <2>3, <2>4, <2>5
  <2>6. CASE ~Q(x)
    BY <2>1, <2>2, <2>3, <2>6
  <2> QED BY <2>5, <2>6
<1>5. Len(L) \in T
  <2> HIDE DEF T
  <2>1. \A k \in Nat : k \in T
    BY <1>3, <1>4, NatSetInduction
  <2> QED BY <1>2, <2>1
<1>6. P(Len(L))
  <2> HIDE DEF P
  <2> QED BY <1>2, <1>5
<1>7. SeenOf(L, e, a, c) = {x \in Events(L) : Q(x)}
  BY DEF SeenOf, Seen
<1> QED BY <1>1, <1>6, <1>7, FirstStep

\* What the code takes for an attribute's cardinality is what the best of the visible
\* declarations says.
Declared(L, a, c) == {x.v : x \in Best(SeenOf(L, AttrId[a], "cardinality", c))}

LEMMA CardinalityIs ==
  ASSUME NEW L \in Seq(Event), NEW a, NEW c
  PROVE  CardinalityOne(L, a, c) <=> \/ "one" \in Declared(L, a, c)
                                     \/ "many" \notin Declared(L, a, c) /\ a \in BuiltInOne
<1>1. \A e, b : /\ VisibleAsserts(L, e, b, c) \in Seq(Event)
                /\ Events(VisibleAsserts(L, e, b, c)) = SeenOf(L, e, b, c)
  BY VisibleAssertsAre
<1>2. \A seq \in Seq(Event) : MaxByOrder(seq) = Best(Events(seq))
  BY MaxByOrderIsBest
<1>3. MaxByOrder(VisibleAsserts(L, AttrId[a], "cardinality", c))
        = Best(SeenOf(L, AttrId[a], "cardinality", c))
  BY <1>1, <1>2
<1> QED BY <1>3 DEF CardinalityOne, Declared

\* The value the code computes along its order of arrival is the best of the visible
\* asserts, or all of them.
LEMMA ValueIs ==
  ASSUME NEW L \in Seq(Event), NEW e, NEW a, NEW c
  PROVE  Value(L, e, a, c) = IF CardinalityOne(L, a, c) THEN Best(SeenOf(L, e, a, c))
                             ELSE SeenOf(L, e, a, c)
<1>1. /\ VisibleAsserts(L, e, a, c) \in Seq(Event)
      /\ Events(VisibleAsserts(L, e, a, c)) = SeenOf(L, e, a, c)
  BY VisibleAssertsAre
<1>2. MaxByOrder(VisibleAsserts(L, e, a, c)) = Best(SeenOf(L, e, a, c))
  BY <1>1, MaxByOrderIsBest
<1> QED BY <1>1, <1>2 DEF Value

\* Two replicas that hold the same events see the same values, in whatever order the
\* events reached them.
THEOREM ValueIsOfTheSet == Spec => []ValueIgnoresArrival
<1>1. ASSUME TypeOK, NEW x \in Events(log) \cap Asserts, NEW c \in Coord
      PROVE  Value(log, x.e, x.a, c) = ValueInProtocol(Events(log), x.e, x.a, c)
  <2>1. log \in Seq(Event) /\ Events(log) \subseteq Event
    BY <1>1 DEF TypeOK, Events, ToSet
  <2>2. \A y \in Events(log) : Visible(log, y, c) => y \in Asserts
    BY <2>1 DEF Visible, Asserts
  <2>3. \A y \in Events(log) \cap Asserts :
          Visible(log, y, c) <=> VisibleInProtocol(Events(log), y, c)
    BY <2>1, VisibleIsSpecified
  <2>4. \A e, a : SeenOf(log, e, a, c) = Candidates(Events(log), e, a, c)
    BY <2>2, <2>3 DEF SeenOf, Seen, Candidates
  <2>5. \A e, a : Best(SeenOf(log, e, a, c)) = Winners(Events(log), e, a, c)
    BY <2>4 DEF Best, Winners
  <2>6. \A a : CardinalityOne(log, a, c) <=> OneInProtocol(Events(log), a, c)
    <3>1. \A a : Declared(log, a, c)
                  = {y.v : y \in Winners(Events(log), AttrId[a], "cardinality", c)}
      BY <2>5 DEF Declared
    <3>2. \A a : CardinalityOne(log, a, c) <=>
                   \/ "one" \in Declared(log, a, c)
                   \/ "many" \notin Declared(log, a, c) /\ a \in BuiltInOne
      BY <2>1, CardinalityIs
    <3> QED BY <3>1, <3>2 DEF OneInProtocol
  <2>7. \A e, a : Value(log, e, a, c) = IF CardinalityOne(log, a, c)
                                        THEN Best(SeenOf(log, e, a, c))
                                        ELSE SeenOf(log, e, a, c)
    BY <2>1, ValueIs
  <2> QED BY <2>4, <2>5, <2>6, <2>7 DEF ValueInProtocol
<1>2. TypeOK => ValueIgnoresArrival
  BY <1>1 DEF ValueIgnoresArrival
<1> QED BY <1>2, FoldTypeCorrect, PTL

\* The first of a sequence and the rest are its events.
LEMMA HeadAndTail ==
  ASSUME NEW seq \in Seq(Event), Events(seq) # {}
  PROVE  /\ Head(seq) \in Event /\ Tail(seq) \in Seq(Event)
         /\ {Head(seq)} \cup Events(Tail(seq)) = Events(seq)
<1>1. Len(seq) \in Nat /\ DOMAIN seq = 1..Len(seq)
  OBVIOUS
<1>2. seq # <<>>
  <2>1. DOMAIN <<>> = {}
    OBVIOUS
  <2> QED BY <2>1 DEF Events, ToSet
<1>3. Head(seq) = seq[1] /\ Head(seq) \in Event /\ Tail(seq) \in Seq(Event)
  BY <1>2
<1>4. /\ DOMAIN Tail(seq) = 1..(Len(seq) - 1)
      /\ \A i \in 1..(Len(seq) - 1) : Tail(seq)[i] = seq[i + 1]
  BY <1>2
<1>5. Events(Tail(seq)) = {seq[i + 1] : i \in 1..(Len(seq) - 1)}
  BY <1>4 DEF Events, ToSet
<1>6. Events(seq) = {seq[i] : i \in 1..Len(seq)}
  BY <1>1 DEF Events, ToSet
<1>7. 1 \in 1..Len(seq)
  BY <1>1, <1>2
<1>8. \A i \in 1..Len(seq) : i = 1 \/ (i - 1 \in 1..(Len(seq) - 1) /\ (i - 1) + 1 = i)
  BY <1>1
<1>9. \A i \in 1..(Len(seq) - 1) : i + 1 \in 1..Len(seq)
  BY <1>1
<1>10. ASSUME NEW y \in Events(seq) PROVE y \in {Head(seq)} \cup Events(Tail(seq))
  <2>1. PICK i \in 1..Len(seq) : y = seq[i]
    BY <1>6, <1>10
  <2>2. CASE i = 1
    BY <1>3, <2>1, <2>2
  <2>3. CASE i # 1
    <3>1. i - 1 \in 1..(Len(seq) - 1) /\ seq[(i - 1) + 1] = y
      BY <1>8, <2>1, <2>3
    <3> QED BY <1>5, <3>1
  <2> QED BY <2>2, <2>3
<1>11. {Head(seq)} \cup Events(Tail(seq)) \subseteq Events(seq)
  BY <1>3, <1>5, <1>6, <1>7, <1>9
<1> QED BY <1>3, <1>10, <1>11

\* A group holds the visible asserts of its entity and attribute.
LEMMA GroupIs ==
  ASSUME NEW L \in Seq(Event), NEW x, NEW c
  PROVE  Group(L, x, c) = VisibleAsserts(L, x.e, x.a, c)
BY DEF Group, VisibleAsserts, Passing, FoldLeft, MapThenFoldSet

\* The rows of a visible assert's group are the value of its entity and attribute.
LEMMA GroupRows ==
  ASSUME NEW L \in Seq(Event), NEW c, NEW x \in Seen(L, c)
  PROVE  (IF CardinalityOne(L, x.a, c) THEN {FoldLeft(Keep, Head(Group(L, x, c)), Tail(Group(L, x, c)))}
          ELSE Events(Group(L, x, c))) = Value(L, x.e, x.a, c)
<1> DEFINE group == Group(L, x, c)
           all == SeenOf(L, x.e, x.a, c)
<1>1. group = VisibleAsserts(L, x.e, x.a, c)
  BY GroupIs
<1>2. \A e, a : /\ VisibleAsserts(L, e, a, c) \in Seq(Event)
                /\ Events(VisibleAsserts(L, e, a, c)) = SeenOf(L, e, a, c)
                /\ Value(L, e, a, c) = IF CardinalityOne(L, a, c) THEN Best(SeenOf(L, e, a, c))
                                       ELSE SeenOf(L, e, a, c)
  BY VisibleAssertsAre, ValueIs
<1>3. x \in all
  BY DEF SeenOf
<1> HIDE DEF group, all
<1>4. group \in Seq(Event) /\ Events(group) = all /\ all # {}
  BY <1>1, <1>2, <1>3 DEF all
<1>5. Value(L, x.e, x.a, c) = IF CardinalityOne(L, x.a, c) THEN Best(all) ELSE all
  BY <1>2 DEF all
<1>6. {FoldLeft(Keep, Head(group), Tail(group))} = Best(all)
  <2>1. /\ Head(group) \in Event /\ Tail(group) \in Seq(Event)
        /\ {Head(group)} \cup Events(Tail(group)) = all
    BY <1>4, HeadAndTail
  <2> QED BY <2>1, KeepIsBest
<1> QED BY <1>4, <1>5, <1>6 DEF group

\* A row is a visible assert that, where one value is kept, comes after all others of
\* its entity and attribute.
LEMMA RowIs ==
  ASSUME NEW L \in Seq(Event), NEW c, NEW y
  PROVE  y \in Rows(L, c) <=> /\ y \in Seen(L, c)
                              /\ CardinalityOne(L, y.a, c) => y \in Best(SeenOf(L, y.e, y.a, c))
<1>1. Rows(L, c) = UNION {Value(L, x.e, x.a, c) : x \in Seen(L, c)}
  <2>1. Rows(L, c) = UNION {IF CardinalityOne(L, x.a, c)
                            THEN {FoldLeft(Keep, Head(Group(L, x, c)), Tail(Group(L, x, c)))}
                            ELSE Events(Group(L, x, c)) : x \in Seen(L, c)}
    BY DEF Rows, Seen
  <2> QED BY <2>1, GroupRows
<1>2. \A e, a : Value(L, e, a, c) = IF CardinalityOne(L, a, c) THEN Best(SeenOf(L, e, a, c))
                                    ELSE SeenOf(L, e, a, c)
  BY ValueIs
<1>3. y \in Rows(L, c) <=> \E x \in Seen(L, c) : y \in Value(L, x.e, x.a, c)
  BY <1>1
<1>4. \A x : y \in Value(L, x.e, x.a, c) =>
              y \in Seen(L, c) /\ y.e = x.e /\ y.a = x.a
  BY <1>2 DEF Best, SeenOf
<1>5. y \in Seen(L, c) => y \in SeenOf(L, y.e, y.a, c)
  BY DEF SeenOf
<1>6. y \in Value(L, y.e, y.a, c) <=>
        /\ y \in SeenOf(L, y.e, y.a, c)
        /\ CardinalityOne(L, y.a, c) => y \in Best(SeenOf(L, y.e, y.a, c))
  BY <1>2 DEF Best
<1>7. ASSUME y \in Rows(L, c) PROVE y \in Seen(L, c) /\ y \in Value(L, y.e, y.a, c)
  <2>1. PICK x \in Seen(L, c) : y \in Value(L, x.e, x.a, c)
    BY <1>3, <1>7
  <2>2. y \in Seen(L, c) /\ y.e = x.e /\ y.a = x.a
    BY <1>4, <2>1
  <2> QED BY <2>1, <2>2
<1>8. y \in Seen(L, c) /\ y \in Value(L, y.e, y.a, c) => y \in Rows(L, c)
  BY <1>3
<1> QED BY <1>5, <1>6, <1>7, <1>8

\* The materialized rows are the union of the values.
THEOREM RowsAreTheValues == Spec => []RowsAreValues
<1>1. ASSUME TypeOK, NEW c \in Coord
      PROVE  Rows(log, c) = UNION {Value(log, x.e, x.a, c) : x \in Events(log) \cap Asserts}
  <2>1. log \in Seq(Event) /\ Events(log) \subseteq Event
    BY <1>1 DEF TypeOK, Events, ToSet
  <2>2. Seen(log, c) \subseteq Events(log) \cap Asserts
    BY <2>1 DEF Seen, Visible, Asserts
  <2>3. \A e, a : Value(log, e, a, c) = IF CardinalityOne(log, a, c) THEN Best(SeenOf(log, e, a, c))
                                        ELSE SeenOf(log, e, a, c)
    BY <2>1, ValueIs
  <2>4. ASSUME NEW y \in Rows(log, c)
        PROVE  y \in UNION {Value(log, x.e, x.a, c) : x \in Events(log) \cap Asserts}
    <3>1. y \in Seen(log, c) /\ (CardinalityOne(log, y.a, c) => y \in Best(SeenOf(log, y.e, y.a, c)))
      BY <2>1, <2>4, RowIs
    <3>2. y \in SeenOf(log, y.e, y.a, c)
      BY <3>1 DEF SeenOf
    <3>3. y \in Value(log, y.e, y.a, c)
      BY <2>3, <3>1, <3>2
    <3> QED BY <2>2, <3>1, <3>3
  <2>5. ASSUME NEW x \in Events(log) \cap Asserts, NEW y \in Value(log, x.e, x.a, c)
        PROVE  y \in Rows(log, c)
    <3>1. y \in Seen(log, c) /\ y.e = x.e /\ y.a = x.a
      BY <2>3, <2>5 DEF Best, SeenOf
    <3>2. CardinalityOne(log, y.a, c) => y \in Best(SeenOf(log, y.e, y.a, c))
      BY <2>3, <2>5, <3>1
    <3> QED BY <2>1, <3>1, <3>2, RowIs
  <2> QED BY <2>4, <2>5
<1>2. TypeOK => RowsAreValues
  BY <1>1 DEF RowsAreValues
<1> QED BY <1>2, FoldTypeCorrect, PTL

\* The rows of one entity and attribute follow from its visible asserts and those that
\* declare its cardinality.
LEMMA RowsFollow ==
  ASSUME NEW L \in Seq(Event), NEW M \in Seq(Event), NEW c, NEW y,
         y \in Seen(L, c) <=> y \in Seen(M, c),
         SeenOf(L, y.e, y.a, c) = SeenOf(M, y.e, y.a, c),
         SeenOf(L, AttrId[y.a], "cardinality", c) = SeenOf(M, AttrId[y.a], "cardinality", c)
  PROVE  y \in Rows(L, c) <=> y \in Rows(M, c)
<1>1. CardinalityOne(L, y.a, c) <=> CardinalityOne(M, y.a, c)
  <2>1. Declared(L, y.a, c) = Declared(M, y.a, c)
    BY DEF Declared
  <2> QED BY <2>1, CardinalityIs
<1> QED BY <1>1, RowIs

\* History is stable: an event that arrives late changes no snapshot of a transaction
\* time before its own.
THEOREM HistoryIsStable == Spec => HistoryStable
<1> DEFINE A == \A x \in Events(log') \ Events(log) : \A c \in Coord :
                  c.txTime < x.hlc.pt => Rows(log', c) = Rows(log, c)
<1>1. ASSUME TypeOK, Next PROVE A
  <2> SUFFICES ASSUME NEW x \in Events(log') \ Events(log), NEW c \in Coord,
                      c.txTime < x.hlc.pt
               PROVE  Rows(log', c) = Rows(log, c)
    OBVIOUS
  <2>1. PICK y \in Event : Add(y)
    BY <1>1 DEF Next
  <2>2. /\ log \in Seq(Event) /\ log' \in Seq(Event)
        /\ Events(log') = Events(log) \cup {x}
    BY <1>1, <2>1, AddStep DEF TypeOK
  <2>3. \A z \in Events(log') \ Events(log) : ~(z.hlc.pt <= c.txTime)
    <3>1. x \in Event
      BY <2>1, <1>1, AddStep DEF TypeOK
    <3>2. x.hlc.pt \in Nat /\ c.txTime \in Nat
      BY <3>1, EventFields, TimeAssumption DEF Coord
    <3>3. ~(x.hlc.pt <= c.txTime)
      BY <3>2
    <3> QED BY <2>2, <3>3
  <2>4. Seen(log', c) = Seen(log, c)
    BY <2>2, <2>3, PastIsSettled DEF Seen
  <2>5. \A e, a : SeenOf(log', e, a, c) = SeenOf(log, e, a, c)
    BY <2>4 DEF SeenOf
  <2>6. \A z : z \in Rows(log', c) <=> z \in Rows(log, c)
    BY <2>2, <2>4, <2>5, RowsFollow
  <2>7. \A z \in Rows(log', c) : z \in Rows(log, c)
    BY <2>6
  <2>8. \A z \in Rows(log, c) : z \in Rows(log', c)
    BY <2>6
  <2> QED BY <2>7, <2>8
<1>2. TypeOK /\ [Next]_vars => [A]_vars
  <2> HIDE DEF A
  <2> QED BY <1>1
<1> QED BY <1>2, FoldTypeCorrect, PTL DEF Spec, HistoryStable

\* An event that arrives touches what is seen of one assert at most: itself, or the
\* assert it corrects.
LEMMA ArrivalTouchesOne ==
  ASSUME NEW L \in Seq(Event), NEW M \in Seq(Event), NEW x \in Event,
         Events(M) = Events(L) \cup {x}, NEW c,
         NEW y \in Seen(L, c) \cup Seen(M, c), ~(y \in Seen(L, c) <=> y \in Seen(M, c))
  PROVE  y \in About(x)
<1>1. y \in Event /\ y.kind = "assert" /\ y \in Asserts
  <2>1. Events(L) \subseteq Event /\ Events(M) \subseteq Event
    BY DEF Events, ToSet
  <2> QED BY <2>1 DEF Seen, Visible, Asserts
<1>2. CASE x.kind = "assert"
  <2>1. Events(M) \ Asserts = Events(L) \ Asserts
    BY <1>2 DEF Asserts
  <2>2. \A kind, z, t : ActedOn(M, kind, z, t) = ActedOn(L, kind, z, t)
    BY <2>1 DEF ActedOn
  <2>3. \A z, t : Tombstoned(M, z, t) <=> Tombstoned(L, z, t)
    BY <2>2 DEF Tombstoned
  <2>4. \A z : Visible(M, z, c) <=> Visible(L, z, c)
    BY <2>2, <2>3 DEF Visible
  <2>5. y = x
    BY <2>4 DEF Seen
  <2> QED BY <1>1, <2>5 DEF About
<1>3. CASE x.kind # "assert"
  <2>1. ASSUME y.id # x.target PROVE FALSE
    <3>1. \A kind, t : ActedOn(M, kind, y, t) = ActedOn(L, kind, y, t)
      <4>1. ASSUME NEW kind, NEW t PROVE ActedOn(M, kind, y, t) = ActedOn(L, kind, y, t)
        <5>1. \A w \in ActedOn(M, kind, y, t) : w # x
          BY <2>1 DEF ActedOn
        <5> QED BY <5>1 DEF ActedOn
      <4> QED BY <4>1
    <3>2. \A t : Tombstoned(M, y, t) <=> Tombstoned(L, y, t)
      BY <3>1 DEF Tombstoned
    <3>3. Visible(M, y, c) <=> Visible(L, y, c)
      BY <3>1, <3>2 DEF Visible
    <3>4. y # x
      BY <1>1, <1>3
    <3> QED BY <3>3, <3>4 DEF Seen
  <2>2. x \notin Asserts
    BY <1>3 DEF Asserts
  <2> QED BY <1>1, <2>1, <2>2 DEF About
<1> QED BY <1>2, <1>3

\* An arrival changes rows only of the entity and attribute of the assert it is or
\* corrects, and, when that declares a cardinality, of the attribute it describes:
\* reconciling after a merge need look nowhere else.
THEOREM ArrivalIsLocal == Spec => ChangesAreLocal
<1> DEFINE A == \A x \in Events(log') \ Events(log) : \A c \in Coord :
                  \A r \in (Rows(log', c) \ Rows(log, c)) \cup (Rows(log, c) \ Rows(log', c)) :
                    \E y \in About(x) : \/ r.e = y.e /\ r.a = y.a
                                        \/ y.a = "cardinality" /\ AttrId[r.a] = y.e
<1>1. ASSUME TypeOK, Next PROVE A
  <2> SUFFICES ASSUME NEW x \in Events(log') \ Events(log), NEW c \in Coord,
                      NEW r, ~(r \in Rows(log, c) <=> r \in Rows(log', c))
               PROVE  \E y \in About(x) : \/ r.e = y.e /\ r.a = y.a
                                          \/ y.a = "cardinality" /\ AttrId[r.a] = y.e
    OBVIOUS
  <2>1. PICK new \in Event : Add(new)
    BY <1>1 DEF Next
  <2>2. /\ log \in Seq(Event) /\ log' \in Seq(Event)
        /\ Events(log') = Events(log) \cup {x} /\ x \in Event
    BY <1>1, <2>1, AddStep DEF TypeOK
  <2> DEFINE Touched(w) == /\ w \in Seen(log, c) \cup Seen(log', c)
                           /\ ~(w \in Seen(log, c) <=> w \in Seen(log', c))
  <2>3. \A w : Touched(w) => w \in About(x)
    BY <2>2, ArrivalTouchesOne
  \* Where the visible asserts of an entity and attribute differ, one of them is touched.
  <2>4. ASSUME NEW e, NEW a, SeenOf(log, e, a, c) # SeenOf(log', e, a, c)
        PROVE  \E w : Touched(w) /\ w.e = e /\ w.a = a
    <3>1. PICK w : ~(w \in SeenOf(log, e, a, c) <=> w \in SeenOf(log', e, a, c))
      <4>1. \A w : w \in SeenOf(log, e, a, c) => w \in Seen(log, c)
        BY DEF SeenOf
      <4>2. \A w : w \in SeenOf(log', e, a, c) => w \in Seen(log', c)
        BY DEF SeenOf
      <4> QED BY <2>4 DEF SeenOf
    <3>2. Touched(w) /\ w.e = e /\ w.a = a
      BY <3>1 DEF SeenOf
    <3> QED BY <3>2
  <2>5. SeenOf(log, r.e, r.a, c) = SeenOf(log', r.e, r.a, c)
          => (r \in Seen(log, c) <=> r \in Seen(log', c))
    BY DEF SeenOf
  <2>6. \/ SeenOf(log, r.e, r.a, c) # SeenOf(log', r.e, r.a, c)
        \/ SeenOf(log, AttrId[r.a], "cardinality", c)
             # SeenOf(log', AttrId[r.a], "cardinality", c)
    BY <2>2, <2>5, RowsFollow
  <2>7. \E w : /\ Touched(w)
               /\ \/ w.e = r.e /\ w.a = r.a
                  \/ w.e = AttrId[r.a] /\ w.a = "cardinality"
    <3> HIDE DEF Touched
    <3> QED BY <2>4, <2>6
  <2> HIDE DEF Touched
  <2> QED BY <2>3, <2>7
<1>2. TypeOK /\ [Next]_vars => [A]_vars
  <2> HIDE DEF A
  <2> QED BY <1>1
<1> QED BY <1>2, FoldTypeCorrect, PTL DEF Spec, ChangesAreLocal
==============================================================================
