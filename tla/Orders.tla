-------------------------------- MODULE Orders --------------------------------
(* Facts about the orders the models rest on: extreme elements of sets of      *)
(* numbers, induction over numbers as a statement about sets, and what the     *)
(* clock arithmetic of Hlc guarantees for every timestamp.                     *)
EXTENDS Hlc, WellFoundedInduction, TLAPS

\* A set of numbers has a least element.
LEMMA LeastNatural ==
  ASSUME NEW U \in SUBSET Nat, U # {}
  PROVE  \E k \in U : \A j \in U : k <= j
<1> DEFINE R == {pair \in Nat \X Nat : pair[1] < pair[2]}
<1>1. IsWellFoundedOn(R, Nat)
  BY NatLessThanWellFounded DEF OpToRel
<1>2. PICK x \in U : \A y \in U : <<y, x>> \notin R
  <2> HIDE DEF R
  <2> QED BY <1>1, WFMin
<1>3. ASSUME NEW y \in U PROVE x <= y
  <2>1. <<y, x>> \notin R
    BY <1>2
  <2> QED BY <2>1
<1> QED BY <1>3

\* A bounded set of numbers has a largest element.
LEMMA LargestNatural ==
  ASSUME NEW N \in Nat, NEW T \in SUBSET (0..N), T # {}
  PROVE  \E n \in T : \A m \in T : m <= n
<1> DEFINE U == {k \in Nat : N - k \in T}
<1>1. U \in SUBSET Nat
  OBVIOUS
<1>2. PICK t \in T : TRUE
  OBVIOUS
<1>3. N - t \in Nat /\ N - (N - t) = t
  OBVIOUS
<1>4. N - t \in U
  BY <1>2, <1>3
<1>5. PICK k \in U : \A j \in U : k <= j
  <2>1. U # {}
    BY <1>4
  <2> HIDE DEF U
  <2> QED BY <1>1, <2>1, LeastNatural
<1>6. ASSUME NEW m \in T PROVE m <= N - k
  <2>1. N - m \in Nat /\ N - (N - m) = m
    OBVIOUS
  <2>2. N - m \in U
    BY <2>1
  <2>3. k <= N - m
    BY <1>5, <2>2
  <2> QED BY <2>3
<1>7. N - k \in T
  OBVIOUS
<1> QED BY <1>6, <1>7

\* A set of numbers that contains 0 and the successor of each of its numbers
\* contains every number.
LEMMA NatSetInduction ==
  ASSUME NEW T, 0 \in T, \A n \in Nat : n \in T => n + 1 \in T
  PROVE  \A n \in Nat : n \in T
<1> DEFINE U == Nat \ T
<1>1. SUFFICES ASSUME U # {} PROVE FALSE
  OBVIOUS
<1>2. PICK k \in U : \A j \in U : k <= j
  <2> HIDE DEF U
  <2>1. U \in SUBSET Nat
    BY DEF U
  <2> QED BY <1>1, <2>1, LeastNatural
<1>3. k # 0 /\ k - 1 \in Nat /\ k - 1 \notin U
  BY <1>2
<1> QED BY <1>2, <1>3

\* Applying F again and again is well defined: the recursive definition of the
\* results has a solution.
LEMMA IteratesExist ==
  ASSUME NEW S, NEW base \in S, NEW F \in [S -> S], NEW N \in Nat
  PROVE  \E f : f = [n \in 0..N |-> IF n = 0 THEN base ELSE F[f[n - 1]]]
<1> DEFINE Of(g, M) == g = [n \in 0..M |-> IF n = 0 THEN base ELSE F[g[n - 1]]]
           T == {M \in Nat : \E g : Of(g, M)}
<1>1. 0 \in T
  <2> DEFINE g == [n \in 0..0 |-> base]
  <2>1. Of(g, 0)
    OBVIOUS
  <2> QED BY <2>1
<1>2. ASSUME NEW M \in Nat, M \in T PROVE M + 1 \in T
  <2>1. PICK g : Of(g, M)
    BY <1>2
  <2> DEFINE h == [n \in 0..(M + 1) |-> IF n = 0 THEN base ELSE F[g[n - 1]]]
  <2>2. \A n \in 0..M : h[n] = g[n]
    BY <2>1
  <2>3. \A n \in 0..(M + 1) : n # 0 => n - 1 \in 0..M
    OBVIOUS
  <2>4. Of(h, M + 1)
    BY <2>2, <2>3
  <2> HIDE DEF h
  <2> QED BY <2>4
<1>3. \A M \in Nat : M \in T
  <2> HIDE DEF T
  <2> QED BY <1>1, <1>2, NatSetInduction
<1> QED BY <1>3

\* What starts in S and does not leave it stays in it.
LEMMA StaysIn ==
  ASSUME NEW S, NEW N \in Nat, NEW f, f[0] \in S,
         \A n \in 0..(N - 1) : f[n] \in S => f[n + 1] \in S
  PROVE  \A n \in 0..N : f[n] \in S
<1> DEFINE U == {n \in Nat : n \in 0..N => f[n] \in S}
<1>1. 0 \in U
  OBVIOUS
<1>2. ASSUME NEW n \in Nat, n \in U PROVE n + 1 \in U
  <2> SUFFICES ASSUME n + 1 \in 0..N PROVE f[n + 1] \in S
    OBVIOUS
  <2>1. n \in 0..N /\ n \in 0..(N - 1)
    OBVIOUS
  <2> QED BY <1>2, <2>1
<1>3. \A n \in Nat : n \in U
  <2> HIDE DEF U
  <2> QED BY <1>1, <1>2, NatSetInduction
<1> QED BY <1>3

\* The results are in the domain of F.
LEMMA IteratesType ==
  ASSUME NEW S, NEW base \in S, NEW F \in [S -> S], NEW N \in Nat,
         NEW f, f = [n \in 0..N |-> IF n = 0 THEN base ELSE F[f[n - 1]]]
  PROVE  f \in [0..N -> S]
<1>1. f[0] \in S
  OBVIOUS
<1>2. ASSUME NEW n \in 0..(N - 1), f[n] \in S PROVE f[n + 1] \in S
  <2>1. n + 1 \in 0..N /\ n + 1 # 0 /\ (n + 1) - 1 = n
    OBVIOUS
  <2>2. f[n + 1] = F[f[n]]
    BY <2>1
  <2> QED BY <1>2, <2>2
<1>3. \A n \in 0..N : f[n] \in S
  BY <1>1, <1>2, StaysIn
<1> QED BY <1>3

------------------------------------------------------------------------------

\* compareHlc is a strict total order on timestamps, for any replica ids that are
\* themselves ordered: resolution by the largest timestamp has one answer.
THEOREM HlcOrder ==
  ASSUME NEW R, R \subseteq Nat
  PROVE  /\ \A a \in Timestamp(R) : ~HlcLess(a, a)
         /\ \A a, b, c \in Timestamp(R) :
              HlcLess(a, b) /\ HlcLess(b, c) => HlcLess(a, c)
         /\ \A a, b \in Timestamp(R) : HlcLess(a, b) \/ a = b \/ HlcLess(b, a)
<1>1. ASSUME NEW a \in Timestamp(R) PROVE ~HlcLess(a, a)
  <2>1. a.pt \in Nat /\ a.l \in Nat /\ a.r \in Nat
    BY DEF Timestamp
  <2> QED BY <2>1 DEF HlcLess
<1>2. ASSUME NEW a \in Timestamp(R), NEW b \in Timestamp(R), NEW c \in Timestamp(R),
             HlcLess(a, b), HlcLess(b, c)
      PROVE  HlcLess(a, c)
  <2>1. /\ a.pt \in Nat /\ a.l \in Nat /\ a.r \in Nat
        /\ b.pt \in Nat /\ b.l \in Nat /\ b.r \in Nat
        /\ c.pt \in Nat /\ c.l \in Nat /\ c.r \in Nat
    BY DEF Timestamp
  <2> QED BY <1>2, <2>1 DEF HlcLess
<1>3. ASSUME NEW a \in Timestamp(R), NEW b \in Timestamp(R)
      PROVE  HlcLess(a, b) \/ a = b \/ HlcLess(b, a)
  <2>1. /\ a.pt \in Nat /\ a.l \in Nat /\ a.r \in Nat
        /\ b.pt \in Nat /\ b.l \in Nat /\ b.r \in Nat
    BY DEF Timestamp
  <2>2. a.pt = b.pt /\ a.l = b.l /\ a.r = b.r => a = b
    BY DEF Timestamp
  <2> QED BY <2>1, <2>2 DEF HlcLess
<1> QED BY <1>1, <1>2, <1>3

\* The same order, non-strict on one side.
LEMMA HlcMixed ==
  ASSUME NEW R, R \subseteq Nat,
         NEW a \in Timestamp(R), NEW b \in Timestamp(R), NEW c \in Timestamp(R)
  PROVE  /\ HlcLeq(a, b) /\ HlcLess(b, c) => HlcLess(a, c)
         /\ HlcLess(a, b) /\ HlcLeq(b, c) => HlcLess(a, c)
         /\ HlcLeq(a, b) /\ HlcLeq(b, c) => HlcLeq(a, c)
BY HlcOrder DEF HlcLeq

\* tick returns a timestamp of this replica strictly above the clock it started
\* from, whatever the wall clock reads.
THEOREM TickAbove ==
  ASSUME NEW R, R \subseteq Nat, NEW self \in R,
         NEW clock \in Timestamp(R), NEW wall \in Nat
  PROVE  /\ Tick(clock, wall, self) \in Timestamp({self})
         /\ clock.r = self => HlcLess(clock, Tick(clock, wall, self))
<1>1. clock.pt \in Nat /\ clock.l \in Nat
  BY DEF Timestamp
<1> QED BY <1>1 DEF Tick, Larger, HlcLess, Timestamp

\* receive returns a timestamp of this replica strictly above both the clock it
\* started from and the remote timestamp, whatever the wall clock reads.
THEOREM ReceiveAbove ==
  ASSUME NEW R, R \subseteq Nat, NEW self \in R, NEW clock \in Timestamp(R),
         NEW incoming \in Timestamp(R), NEW wall \in Nat
  PROVE  /\ Receive(clock, incoming, wall, self) \in Timestamp({self})
         /\ HlcLess(clock, Receive(clock, incoming, wall, self))
         /\ HlcLess(incoming, Receive(clock, incoming, wall, self))
<1> DEFINE pt == Larger(Larger(clock.pt, incoming.pt), wall)
           new == Receive(clock, incoming, wall, self)
<1>1. /\ clock.pt \in Nat /\ clock.l \in Nat
      /\ incoming.pt \in Nat /\ incoming.l \in Nat
  BY DEF Timestamp
<1>2. pt \in Nat /\ pt >= clock.pt /\ pt >= incoming.pt
  BY <1>1 DEF Larger
<1>3. new.pt = pt /\ new.r = self
  BY DEF Receive
<1>4. CASE pt = clock.pt /\ pt = incoming.pt
  <2>1. new = [pt |-> pt, l |-> Larger(clock.l, incoming.l) + 1, r |-> self]
    BY <1>4 DEF Receive
  <2> QED BY <2>1, <1>1, <1>2, <1>4 DEF HlcLess, Timestamp, Larger
<1>5. CASE pt = clock.pt /\ pt # incoming.pt
  <2>1. new = [pt |-> pt, l |-> clock.l + 1, r |-> self]
    BY <1>5 DEF Receive
  <2> QED BY <2>1, <1>1, <1>2, <1>5 DEF HlcLess, Timestamp
<1>6. CASE pt # clock.pt /\ pt = incoming.pt
  <2>1. new = [pt |-> pt, l |-> incoming.l + 1, r |-> self]
    BY <1>6 DEF Receive
  <2> QED BY <2>1, <1>1, <1>2, <1>6 DEF HlcLess, Timestamp
<1>7. CASE pt # clock.pt /\ pt # incoming.pt
  <2>1. new = [pt |-> pt, l |-> 0, r |-> self]
    BY <1>7 DEF Receive
  <2> QED BY <2>1, <1>1, <1>2, <1>7 DEF HlcLess, Timestamp
<1> QED BY <1>4, <1>5, <1>6, <1>7
==============================================================================
