--------------------------- MODULE MaterializeProofs ---------------------------
(* The rows of facts and currentFacts, the output of rules and the closure, for  *)
(* every set of facts, every order of their events and any number of mutations,  *)
(* late recomputations included.                                                 *)
EXTENDS Materialize, TLAPS

Orders == INSTANCE Orders

\* Every lifecycle, correction and row is of a fact that is asserted, and the stamps
\* given so far have a bound, so that of competing facts one is last.
Written ==
  /\ asserted \subseteq Fact
  /\ retracted \subseteq asserted /\ tombstoned \subseteq asserted
  /\ corrections \subseteq asserted /\ current \subseteq asserted
  /\ \E n \in Nat : \A f \in asserted : Stamp[f] <= n

\* A visible fact of a key of cardinality one that was never corrected has a row.
VisibleHasRow ==
  \A f \in Visible : IsOne(f) /\ (\A h \in corrections : Key(h) # Key(f)) => f \in current

Inv == Written /\ CurrentIsVisible /\ VisibleHasRow /\ OneValue

\* Facts of a key have one attribute, and facts of a triple one key.
LEMMA KeyIsOne ==
  ASSUME NEW f, NEW g
  PROVE  /\ Key(f) = Key(g) => (IsOne(f) <=> IsOne(g))
         /\ Triple[f] = Triple[g] => Key(f) = Key(g)
BY DEF Key, IsOne

\* A fact that is asserted keeps its row or loses it to one that had a row.
LEMMA KeptCompetes ==
  ASSUME Inv, NEW f \in Fact
  PROVE  /\ Kept(f) \in Replaced(f, current) \cup {f}
         /\ ~IsOne(f) => Kept(f) = f
<1> DEFINE C == Replaced(f, current) \cup {f}
<1>1. C \subseteq asserted \cup {f} /\ C \subseteq Fact /\ C # {}
  BY DEF Inv, Written, Replaced
<1>2. \A g \in Fact : Stamp[g] \in Nat
  BY FactAssumption
<1>3. PICK n \in Nat : \A g \in asserted : Stamp[g] <= n
  BY DEF Inv, Written
<1>4. PICK m \in Nat : \A g \in asserted \cup {f} : Stamp[g] <= m
  <2>1. CASE Stamp[f] <= n
    BY <1>3, <2>1
  <2>2. CASE ~(Stamp[f] <= n)
    <3>1. \A g \in asserted \cup {f} : Stamp[g] <= Stamp[f]
      <4>1. \A g \in asserted : Stamp[g] \in Nat
        BY <1>2 DEF Inv, Written
      <4> QED BY <1>2, <1>3, <2>2, <4>1
    <3> QED BY <1>2, <3>1
  <2> QED BY <2>1, <2>2
<1>5. PICK g \in C : \A h \in C : Stamp[h] <= Stamp[g]
  <2> DEFINE T == {Stamp[h] : h \in C}
  <2>1. T \in SUBSET (0..m) /\ T # {}
    BY <1>1, <1>2, <1>4
  <2>2. PICK k \in T : \A j \in T : j <= k
    <3> HIDE DEF T
    <3> QED BY <2>1, Orders!LargestNatural
  <2> QED BY <2>2
<1>6. Winner(C) \in C
  <2> HIDE DEF C
  <2> QED BY <1>5 DEF Winner
<1> QED BY <1>6 DEF Kept

\* Asserting keeps the invariant: the row that stays is of a visible fact, and the facts
\* that lose it are retracted.
LEMMA AssertStep == ASSUME Inv, NEW f \in Fact, AssertInTx(f) PROVE Inv'
<1> DEFINE rows0 == Replaced(f, current)
           k == Kept(f)
<1>1. /\ f \notin asserted
      /\ asserted' = asserted \cup {f}
      /\ retracted' = IF IsOne(f) THEN retracted \cup ((rows0 \cup {f}) \ {k}) ELSE retracted
      /\ current' = (current \ rows0) \cup {k}
      /\ tombstoned' = tombstoned /\ corrections' = corrections
  BY DEF AssertInTx
<1>2. k \in rows0 \cup {f} /\ (~IsOne(f) => k = f)
  BY KeptCompetes
<1>3. rows0 = IF IsOne(f) THEN {g \in current : Key(g) = Key(f)} ELSE {g \in current : Triple[g] = Triple[f]}
  BY DEF Replaced
<1>4. /\ Visible = asserted \ (retracted \cup tombstoned)
      /\ Visible' = asserted' \ (retracted' \cup tombstoned')
  BY DEF Visible
<1> HIDE DEF rows0, k
<1>5. Written'
  <2>1. \E n \in Nat : \A g \in asserted' : Stamp[g] <= n
    <3>1. PICK n \in Nat : \A g \in asserted : Stamp[g] <= n
      BY DEF Inv, Written
    <3>2. \A g \in asserted \cup {f} : Stamp[g] \in Nat
      BY FactAssumption DEF Inv, Written
    <3>3. CASE Stamp[f] <= n
      BY <1>1, <3>1, <3>3
    <3>4. CASE ~(Stamp[f] <= n)
      BY <1>1, <3>1, <3>2, <3>4
    <3> QED BY <3>3, <3>4
  <2>2. rows0 \subseteq current
    BY <1>3
  <2> QED BY <1>1, <1>2, <2>1, <2>2 DEF Inv, Written
<1>6. CurrentIsVisible'
  <2> SUFFICES ASSUME NEW g \in current' PROVE g \in Visible'
    BY DEF CurrentIsVisible
  <2>1. CASE g = k
    BY <1>1, <1>2, <1>3, <1>4, <2>1 DEF Inv, Written, CurrentIsVisible
  <2>2. CASE g \in current \ rows0
    BY <1>1, <1>4, <2>2 DEF Inv, Written, CurrentIsVisible
  <2> QED BY <1>1, <2>1, <2>2
<1>7. VisibleHasRow'
  <2> SUFFICES ASSUME NEW g \in Visible', IsOne(g), \A h \in corrections : Key(h) # Key(g)
               PROVE  g \in current'
    BY <1>1 DEF VisibleHasRow, IsOne, Key
  <2>1. CASE g = f
    BY <1>1, <1>4, <2>1
  <2>2. CASE g # f
    <3>1. g \in current
      BY <1>1, <1>4, <2>2 DEF Inv, VisibleHasRow
    <3>2. CASE g \in rows0
      <4>1. IsOne(f)
        BY <1>3, <3>2, KeyIsOne
      <4>2. g = k
        BY <1>1, <1>4, <3>2, <4>1
      <4> QED BY <1>1, <4>2
    <3> QED BY <1>1, <3>1, <3>2
  <2> QED BY <2>1, <2>2
<1>8. OneValue'
  <2> SUFFICES ASSUME NEW g \in Visible', NEW h \in Visible', IsOne(g), Key(g) = Key(h),
                      \A c \in corrections : Key(c) # Key(g)
               PROVE  g = h
    BY <1>1 DEF OneValue, IsOne, Key
  <2>1. CASE g # f /\ h # f
    <3>1. g \in Visible /\ h \in Visible
      BY <1>1, <1>4, <2>1
    <3> QED BY <3>1 DEF Inv, OneValue
  <2>2. ASSUME NEW c \in Visible', Key(c) = Key(f), f \in Visible', IsOne(f),
               \A d \in corrections : Key(d) # Key(c), c # f
        PROVE  FALSE
    <3>1. c \in Visible
      BY <1>1, <1>4, <2>2
    <3>2. c \in rows0
      BY <1>3, <2>2, <3>1, KeyIsOne DEF Inv, VisibleHasRow
    <3>3. k = f
      BY <1>1, <1>4, <2>2
    <3> QED BY <1>1, <1>4, <2>2, <3>2, <3>3
  <2> QED BY <2>1, <2>2, KeyIsOne
<1> QED BY <1>5, <1>6, <1>7, <1>8 DEF Inv

\* A correction keeps the invariant: it promises nothing of its own key.
LEMMA CorrectStep ==
  ASSUME Inv, NEW old \in Fact, NEW new \in Fact, CorrectFact(old, new)
  PROVE  Inv'
<1> DEFINE rows0 == Replaced(new, current)
<1>1. /\ old \in asserted /\ new \notin asserted /\ Key(old) = Key(new)
      /\ asserted' = asserted \cup {new} /\ tombstoned' = tombstoned \cup {old}
      /\ corrections' = corrections \cup {new} /\ retracted' = retracted
      /\ current' = (current \ ({old} \cup rows0)) \cup {new}
  BY DEF CorrectFact
<1>2. \A g \in rows0 : Key(g) = Key(new)
  BY KeyIsOne DEF Replaced
<1>3. /\ Visible = asserted \ (retracted \cup tombstoned)
      /\ Visible' = asserted' \ (retracted' \cup tombstoned')
  BY DEF Visible
<1> HIDE DEF rows0
<1>4. Written'
  <2>1. \E n \in Nat : \A g \in asserted' : Stamp[g] <= n
    <3>1. PICK n \in Nat : \A g \in asserted : Stamp[g] <= n
      BY DEF Inv, Written
    <3>2. \A g \in asserted \cup {new} : Stamp[g] \in Nat
      BY FactAssumption DEF Inv, Written
    <3>3. CASE Stamp[new] <= n
      BY <1>1, <3>1, <3>3
    <3>4. CASE ~(Stamp[new] <= n)
      BY <1>1, <3>1, <3>2, <3>4
    <3> QED BY <3>3, <3>4
  <2> QED BY <1>1, <2>1 DEF Inv, Written
<1>5. CurrentIsVisible'
  BY <1>1, <1>3 DEF Inv, Written, CurrentIsVisible
<1>6. ASSUME NEW g \in Visible', \A h \in corrections' : Key(h) # Key(g)
      PROVE  g \in Visible /\ Key(g) # Key(new) /\ \A h \in corrections : Key(h) # Key(g)
  BY <1>1, <1>3, <1>6
<1>7. VisibleHasRow'
  <2> SUFFICES ASSUME NEW g \in Visible', IsOne(g), \A h \in corrections' : Key(h) # Key(g)
               PROVE  g \in current'
    BY DEF VisibleHasRow, IsOne, Key
  <2>1. g \in current
    BY <1>6 DEF Inv, VisibleHasRow
  <2>2. g # old /\ g \notin rows0
    BY <1>1, <1>2, <1>6
  <2> QED BY <1>1, <2>1, <2>2
<1>8. OneValue'
  <2> SUFFICES ASSUME NEW g \in Visible', NEW h \in Visible', IsOne(g), Key(g) = Key(h),
                      \A c \in corrections' : Key(c) # Key(g)
               PROVE  g = h
    BY DEF OneValue, IsOne, Key
  <2>1. /\ g \in Visible /\ h \in Visible
        /\ \A c \in corrections : Key(c) # Key(g)
    BY <1>6
  <2> QED BY <2>1 DEF Inv, OneValue
<1> QED BY <1>4, <1>5, <1>7, <1>8 DEF Inv

\* Every step keeps the invariant; what is scheduled touches no fact.
LEMMA InvStep == Inv /\ [Next]_vars => Inv'
<1> SUFFICES ASSUME Inv, [Next]_vars PROVE Inv'
  OBVIOUS
<1>0. Visible = asserted \ (retracted \cup tombstoned)
      /\ Visible' = asserted' \ (retracted' \cup tombstoned')
  BY DEF Visible
<1>1. ASSUME NEW f \in Fact, RetractFact(f) PROVE Inv'
  <2>1. /\ retracted' = retracted \cup {f} /\ current' = current \ {f} /\ f \in asserted
        /\ UNCHANGED <<asserted, tombstoned, corrections>>
    BY <1>1 DEF RetractFact
  <2> QED BY <1>0, <2>1 DEF Inv, Written, CurrentIsVisible, VisibleHasRow, OneValue, IsOne, Key
<1>2. ASSUME NEW f \in Fact, TombstoneFact(f) PROVE Inv'
  <2>1. /\ tombstoned' = tombstoned \cup {f} /\ current' = current \ {f} /\ f \in asserted
        /\ UNCHANGED <<asserted, retracted, corrections>>
    BY <1>2 DEF TombstoneFact
  <2> QED BY <1>0, <2>1 DEF Inv, Written, CurrentIsVisible, VisibleHasRow, OneValue, IsOne, Key
<1>3. CASE RebuildProjections
  <2>1. current' = Visible /\ UNCHANGED <<asserted, retracted, tombstoned, corrections>>
    BY <1>3 DEF RebuildProjections, RebuildCurrent
  <2> QED BY <1>0, <2>1 DEF Inv, Written, CurrentIsVisible, VisibleHasRow, OneValue, IsOne, Key
<1>4. CASE UNCHANGED <<asserted, retracted, tombstoned, corrections, current>>
  BY <1>0, <1>4 DEF Inv, Written, CurrentIsVisible, VisibleHasRow, OneValue, IsOne, Key
<1>5. ASSUME NEW kind \in ChangeKind, NEW f \in Fact, ProcessFactChange(kind, f) PROVE Inv'
  BY <1>4, <1>5 DEF ProcessFactChange
<1>6. ASSUME NEW r \in Rule, NEW O, Recompute(r, O) PROVE Inv'
  BY <1>4, <1>6 DEF Recompute, factVars
<1>7. CASE RecomputeTransitiveClosure \/ \E f \in Fact : IncrementalClosureAdd(f)
  BY <1>4, <1>7 DEF RecomputeTransitiveClosure, IncrementalClosureAdd, factVars
<1>8. CASE Scheduled
  BY <1>5, <1>6, <1>7, <1>8 DEF Scheduled, RecomputeRule, RecomputeRuleForEntities
<1>9. CASE Mutation
  BY <1>1, <1>2, <1>9, AssertStep, CorrectStep DEF Mutation
<1>10. CASE UNCHANGED vars
  BY <1>4, <1>10 DEF vars, factVars
<1> QED BY <1>3, <1>8, <1>9, <1>10 DEF Next

\* The invariant holds of every state.
LEMMA InvAlways == Spec => []Inv
<1>1. Init => Inv
  BY DEF Init, FactInit, Inv, Written, CurrentIsVisible, VisibleHasRow, OneValue, Visible
<1> QED BY <1>1, InvStep, PTL DEF Spec

\* currentFacts shows no retracted or tombstoned fact, whatever competing assertions,
\* corrections and rebuilds came before.
THEOREM RowsAreVisible == Spec => []CurrentIsVisible
<1>1. Inv => CurrentIsVisible
  BY DEF Inv
<1> QED BY <1>1, InvAlways, PTL

\* A key of cardinality one that was never corrected has at most one visible fact,
\* although the fact that wins is not the one written last but the one stamped last.
THEOREM OneVisibleValue == Spec => []OneValue
<1>1. Inv => OneValue
  BY DEF Inv
<1> QED BY <1>1, InvAlways, PTL

------------------------------------------------------------------------------
(* What mutations change *)

\* A notification is due once more, and no other less often.
LEMMA Notified ==
  ASSUME FactTypeOK, NEW S, Notify(S)
  PROVE  /\ changes' \in [ChangeKind \X Fact -> Nat]
         /\ \A c \in ChangeKind \X Fact : changes[c] <= changes'[c]
         /\ \A c \in (ChangeKind \X Fact) \cap S : changes'[c] > 0
BY DEF FactTypeOK, Notify

\* A fact that a mutation makes visible has its assertion due; one that it hides has a
\* change of its own due, or the assertion of a fact of its key of cardinality one.
Hidden(g) ==
  \/ \E kind \in ChangeKind : changes'[<<kind, g>>] > 0
  \/ /\ IsOne(g)
     /\ \E f \in Fact : Key(f) = Key(g) /\ changes'[<<"assert", f>>] > 0

\* What a write does to the facts and the changes due: types stay, no change is taken
\* back, and a fact that appears or disappears has its change due, or is hidden by a
\* later value of its key.
LEMMA MutationEffects ==
  ASSUME Inv, Inv', FactTypeOK,
         \/ \E f \in Fact : AssertInTx(f) \/ RetractFact(f) \/ TombstoneFact(f)
         \/ \E f, g \in Fact : CorrectFact(f, g)
  PROVE  /\ FactTypeOK'
         /\ \A c \in ChangeKind \X Fact : changes[c] <= changes'[c]
         /\ \A g \in Visible' \ Visible : changes'[<<"assert", g>>] > 0
         /\ \A g \in Visible \ Visible' : Hidden(g)
<1> DEFINE Goal == /\ FactTypeOK'
                   /\ \A c \in ChangeKind \X Fact : changes[c] <= changes'[c]
                   /\ \A g \in Visible' \ Visible : changes'[<<"assert", g>>] > 0
                   /\ \A g \in Visible \ Visible' : Hidden(g)
<1>0. /\ Visible = asserted \ (retracted \cup tombstoned)
      /\ Visible' = asserted' \ (retracted' \cup tombstoned')
      /\ Visible \subseteq Fact /\ Visible' \subseteq Fact
  BY DEF Visible, Inv, Written
<1>1. ASSUME NEW S, Notify(S), Write
      PROVE  /\ FactTypeOK'
             /\ \A c \in ChangeKind \X Fact : changes[c] <= changes'[c]
             /\ \A c \in (ChangeKind \X Fact) \cap S : changes'[c] > 0
  <2>1. writes' \in 0..MaxWrites
    BY <1>1, FactAssumption DEF Write, FactTypeOK
  <2>2. /\ changes' \in [ChangeKind \X Fact -> Nat]
        /\ \A c \in ChangeKind \X Fact : changes[c] <= changes'[c]
        /\ \A c \in (ChangeKind \X Fact) \cap S : changes'[c] > 0
    BY <1>1, Notified
  <2> QED BY <2>1, <2>2 DEF FactTypeOK, Inv, Written
<1>2. ASSUME NEW f \in Fact, AssertInTx(f) PROVE Goal
  <2>1. Notify({<<"assert", f>>}) /\ Write
    BY <1>2 DEF AssertInTx
  <2>2. changes'[<<"assert", f>>] > 0
    BY <1>1, <2>1 DEF ChangeKind
  <2>3. \A g \in Visible' \ Visible : g = f
    BY <1>0, <1>2 DEF AssertInTx
  <2>4. ASSUME NEW g \in Visible \ Visible' PROVE IsOne(g) /\ Key(f) = Key(g)
    <3>1. IsOne(f) /\ g \in Replaced(f, current) \cup {f} /\ g # f
      BY <1>0, <1>2 DEF AssertInTx
    <3> QED BY <3>1, KeyIsOne DEF Replaced
  <2> QED BY <1>1, <2>1, <2>2, <2>3, <2>4 DEF Hidden
<1>3. ASSUME NEW f \in Fact, NEW kind \in ChangeKind, Notify({<<kind, f>>}), Write,
             asserted' = asserted, retracted \subseteq retracted', tombstoned \subseteq tombstoned',
             (retracted' \cup tombstoned') \subseteq (retracted \cup tombstoned \cup {f})
      PROVE  Goal
  <2>1. changes'[<<kind, f>>] > 0
    BY <1>1, <1>3
  <2>2. Visible' \subseteq Visible /\ \A g \in Visible \ Visible' : g = f
    BY <1>0, <1>3
  <2> QED BY <1>1, <1>3, <2>1, <2>2 DEF Hidden
<1>4. ASSUME NEW f \in Fact, RetractFact(f) PROVE Goal
  BY <1>3, <1>4 DEF RetractFact, ChangeKind
<1>5. ASSUME NEW f \in Fact, TombstoneFact(f) PROVE Goal
  BY <1>3, <1>5 DEF TombstoneFact, ChangeKind
<1>6. ASSUME NEW old \in Fact, NEW new \in Fact, CorrectFact(old, new) PROVE Goal
  <2>1. Notify({<<"tombstone", old>>, <<"assert", new>>}) /\ Write
    BY <1>6 DEF CorrectFact
  <2>2. changes'[<<"tombstone", old>>] > 0 /\ changes'[<<"assert", new>>] > 0
    BY <1>1, <2>1 DEF ChangeKind
  <2>3. /\ \A g \in Visible' \ Visible : g = new
        /\ \A g \in Visible \ Visible' : g = old
    BY <1>0, <1>6 DEF CorrectFact
  <2> QED BY <1>1, <2>1, <2>2, <2>3 DEF Hidden, ChangeKind
<1> QED BY <1>2, <1>4, <1>5, <1>6

------------------------------------------------------------------------------
(* Reachability *)

\* What is joined by n edges of E, for each n: the rounds of computeClosureSupports.
Rounds(W, E) ==
  /\ W \in [0..MaxDepth -> SUBSET (Node \X Node)]
  /\ \A x \in Node : <<x, x>> \in W[0]
  /\ \A x, y \in Node : <<x, y>> \in W[0] => x = y
  /\ \A n \in 0..(MaxDepth - 1), x, z \in Node :
       <<x, z>> \in W[n + 1] <=>
         <<x, z>> \in W[n] \/ \E y \in Node : <<x, y>> \in W[n] /\ <<y, z>> \in E
  /\ Reach(E) = {p \in W[MaxDepth] : p[1] # p[2]}
                  \cup IF Reflexive THEN {<<q[1], q[1]>> : q \in E} ELSE {}

\* The recursion of the rounds has a solution, and Reach is its last round.
LEMMA RoundsExist ==
  ASSUME NEW E \in SUBSET (Node \X Node)
  PROVE  \E W : Rounds(W, E)
<1> DEFINE Joined(V) == {<<j[1][1], j[2][2]>> : j \in {j \in V \X E : j[1][2] = j[2][1]}}
           P == SUBSET (Node \X Node)
           next == [V \in P |-> V \cup Joined(V)]
           base == {<<x, x>> : x \in Node}
           W == CHOOSE g : g = [n \in 0..MaxDepth |->
                                  IF n = 0 THEN base ELSE g[n - 1] \cup Joined(g[n - 1])]
<1>1. MaxDepth \in Nat
  BY RuleAssumption
<1>2. base \in P
  OBVIOUS
<1>3. ASSUME NEW V \in P PROVE Joined(V) \in P
  OBVIOUS
<1>4. next \in [P -> P]
  BY <1>3
<1>5. PICK g : g = [n \in 0..MaxDepth |-> IF n = 0 THEN base ELSE next[g[n - 1]]]
  <2> HIDE DEF next, base, P
  <2> QED BY <1>1, <1>2, <1>4, Orders!IteratesExist
<1>6. \A n \in 0..MaxDepth : g[n] \in P
  <2>1. g[0] \in P
    BY <1>1, <1>2, <1>5
  <2>2. ASSUME NEW n \in 0..(MaxDepth - 1), g[n] \in P PROVE g[n + 1] \in P
    <3>1. n + 1 \in 0..MaxDepth /\ n + 1 # 0 /\ (n + 1) - 1 = n
      BY <1>1
    <3>2. g[n + 1] = next[g[n]]
      BY <1>5, <3>1
    <3>3. next[g[n]] \in P
      BY <1>4, <2>2
    <3> QED BY <3>2, <3>3
  <2> HIDE DEF P
  <2> QED BY <1>1, <2>1, <2>2, Orders!StaysIn
<1>7. g = [n \in 0..MaxDepth |-> IF n = 0 THEN base ELSE g[n - 1] \cup Joined(g[n - 1])]
  <2>1. ASSUME NEW n \in 0..MaxDepth, n # 0 PROVE next[g[n - 1]] = g[n - 1] \cup Joined(g[n - 1])
    <3>1. g[n - 1] \in P
      BY <1>1, <1>6, <2>1
    <3> HIDE DEF P, Joined
    <3> QED BY <3>1
  <2> HIDE DEF next, base, Joined
  <2> QED BY <1>5, <2>1
<1> HIDE DEF base, Joined, P
<1>8. W = [n \in 0..MaxDepth |-> IF n = 0 THEN base ELSE W[n - 1] \cup Joined(W[n - 1])]
  BY <1>7
<1>9. Reach(E) = {p \in W[MaxDepth] : p[1] # p[2]}
                  \cup IF Reflexive THEN {<<q[1], q[1]>> : q \in E} ELSE {}
  BY DEF Reach, base, Joined
<1> HIDE DEF W
<1>10. \A n \in 0..(MaxDepth - 1) : W[n + 1] = W[n] \cup Joined(W[n])
  <2> TAKE n \in 0..(MaxDepth - 1)
  <2>1. n + 1 \in 0..MaxDepth /\ n + 1 # 0 /\ (n + 1) - 1 = n
    BY <1>1
  <2> QED BY <1>8, <2>1
<1>11. W[0] = base
  BY <1>1, <1>8
<1>12. W \in [0..MaxDepth -> P]
  <2>1. W[0] \in P
    BY <1>2, <1>11
  <2>2. ASSUME NEW n \in 0..(MaxDepth - 1), W[n] \in P PROVE W[n + 1] \in P
    <3>1. Joined(W[n]) \in P
      BY <1>3, <2>2
    <3> QED BY <1>10, <2>2, <3>1 DEF P
  <2>4. \A n \in 0..MaxDepth : W[n] \in P
    BY <1>1, <2>1, <2>2, Orders!StaysIn
  <2>5. \E h : W = [n \in 0..MaxDepth |-> h[n]]
    <3> DEFINE h == [n \in 0..MaxDepth |->
                       IF n = 0 THEN base ELSE W[n - 1] \cup Joined(W[n - 1])]
    <3>1. W = [n \in 0..MaxDepth |-> h[n]]
      BY <1>8
    <3> QED BY <3>1
  <2> QED BY <2>4, <2>5
<1>13. ASSUME NEW n \in 0..(MaxDepth - 1), NEW x \in Node, NEW z \in Node
       PROVE  <<x, z>> \in W[n + 1] <=>
                <<x, z>> \in W[n] \/ \E y \in Node : <<x, y>> \in W[n] /\ <<y, z>> \in E
  <2>1. W[n] \subseteq Node \X Node
    BY <1>1, <1>12 DEF P
  <2>2. <<x, z>> \in Joined(W[n]) <=> \E y \in Node : <<x, y>> \in W[n] /\ <<y, z>> \in E
    <3>1. ASSUME <<x, z>> \in Joined(W[n])
          PROVE  \E y \in Node : <<x, y>> \in W[n] /\ <<y, z>> \in E
      <4>1. PICK a \in W[n], e \in E : a[2] = e[1] /\ <<x, z>> = <<a[1], e[2]>>
        BY <3>1 DEF Joined
      <4>2. a = <<a[1], a[2]>> /\ a[2] \in Node /\ e = <<e[1], e[2]>>
        BY <2>1
      <4> QED BY <4>1, <4>2
    <3>2. ASSUME NEW y \in Node, <<x, y>> \in W[n], <<y, z>> \in E
          PROVE  <<x, z>> \in Joined(W[n])
      <4> DEFINE j == <<<<x, y>>, <<y, z>>>>
      <4>1. j \in {i \in W[n] \X E : i[1][2] = i[2][1]} /\ <<x, z>> = <<j[1][1], j[2][2]>>
        BY <3>2
      <4> QED BY <4>1 DEF Joined
    <3> QED BY <3>1, <3>2
  <2> QED BY <1>10, <2>2
<1>14. /\ \A x \in Node : <<x, x>> \in W[0]
       /\ \A x, y \in Node : <<x, y>> \in W[0] => x = y
  BY <1>11 DEF base
<1>15. Rounds(W, E)
  BY <1>9, <1>12, <1>13, <1>14 DEF Rounds, P
<1> QED BY <1>15

------------------------------------------------------------------------------
(* Types *)

\* Only edges are added one by one.
AddIsEdge == \A f \in Fact : jobs[<<"add", f>>] > 0 => Triple[f][2] = Base

\* The recomputations are of four kinds.
LEMMA JobKinds ==
  /\ \A f \in Fact : <<"add", f>> \in Job
  /\ \A r \in Rule, O \in SUBSET Entity : <<"entities", r, O>> \in Job
  /\ \A r \in Rule : <<"rule", r>> \in Job
  /\ <<"closure">> \in Job
BY DEF Job

\* Different kinds of recomputation are different jobs.
LEMMA JobsDiffer ==
  ASSUME NEW f, NEW r, NEW O
  PROVE  /\ <<"add", f>> # <<"entities", r, O>> /\ <<"add", f>> # <<"rule", r>>
         /\ <<"add", f>> # <<"closure">> /\ <<"entities", r, O>> # <<"rule", r>>
         /\ <<"entities", r, O>> # <<"closure">> /\ <<"rule", r>> # <<"closure">>
OBVIOUS

\* Scheduling adds one to each job named and takes none away.
LEMMA ScheduledJobs ==
  ASSUME jobs \in [Job -> Nat], NEW J, Schedule(J)
  PROVE  /\ jobs' \in [Job -> Nat]
         /\ \A j \in Job : jobs'[j] = IF j \in J THEN jobs[j] + 1 ELSE jobs[j]
         /\ \A j \in Job : jobs[j] > 0 \/ j \in J => jobs'[j] > 0
         /\ \A j \in Job : jobs'[j] = 0 => jobs[j] = 0
<1>1. /\ jobs' \in [Job -> Nat]
      /\ \A j \in Job : jobs'[j] = IF j \in J THEN jobs[j] + 1 ELSE jobs[j]
  BY DEF Schedule
<1>2. \A j \in Job : jobs[j] \in Nat
  OBVIOUS
<1> HIDE DEF Schedule
<1> QED BY <1>1, <1>2

\* A job that runs is taken once, the others stay.
LEMMA DoneJob ==
  ASSUME jobs \in [Job -> Nat], NEW j \in Job, Done(j)
  PROVE  /\ jobs' \in [Job -> Nat]
         /\ jobs[j] > 0
         /\ \A i \in Job : i # j => jobs'[i] = jobs[i]
         /\ \A i \in Job : jobs'[i] > 0 => jobs[i] > 0
<1>1. jobs[j] \in Nat /\ jobs[j] > 0 /\ jobs[j] - 1 \in Nat
  BY DEF Done
<1>2. jobs' = [jobs EXCEPT ![j] = jobs[j] - 1]
  BY DEF Done
<1>3. jobs'[j] = jobs[j] - 1 /\ \A i \in Job : i # j => jobs'[i] = jobs[i]
  BY <1>2
<1>4. jobs' \in [Job -> Nat]
  BY <1>1, <1>2
<1> QED BY <1>1, <1>3, <1>4

\* The outputs that a change makes a rule recompute are entities.
LEMMA RecomputedAreEntities ==
  ASSUME TypeOK, NEW r \in Rule, NEW f \in Fact
  PROVE  ToRecompute(r, f) \in SUBSET Entity /\ JobFor(r, f) \in Job
<1>1. Triple[f][1] \in Entity
  BY DEF Entity
<1>2. Output \subseteq Entity /\ Outs(Solved(r)) \subseteq Output
  BY DEF Entity, Outs, Solved, Output
<1>3. \A x \in rows[r] : x.out \in Output
  BY DEF TypeOK
<1>4. Affected(r, f) \subseteq Entity
  BY <1>1, <1>2, <1>3 DEF Affected, Negated
<1>5. ToRecompute(r, f) \in SUBSET Entity
  BY <1>1, <1>2, <1>4, RuleAssumption DEF ToRecompute
<1> QED BY <1>5, JobKinds DEF JobFor

\* The edges of facts join nodes.
LEMMA EdgesAreNodes ==
  ASSUME NEW F \in SUBSET Fact
  PROVE  /\ Edges(F) \in SUBSET (Node \X Node)
         /\ \A f \in F : Triple[f][2] = Base => <<Triple[f][1], Triple[f][3]>> \in Edges(F)
<1>1. \A f \in Fact : Triple[f][2] = Base => Triple[f][1] \in Node /\ Triple[f][3] \in Node
  BY DEF Node
<1> QED BY <1>1 DEF Edges

\* What is reached are nodes.
LEMMA ReachIsNodes ==
  ASSUME NEW E \in SUBSET (Node \X Node)
  PROVE  Reach(E) \subseteq Node \X Node
<1>1. PICK W : Rounds(W, E)
  BY RoundsExist
<1>2. W[MaxDepth] \subseteq Node \X Node
  BY <1>1, RuleAssumption DEF Rounds
<1>3. \A q \in E : <<q[1], q[1]>> \in Node \X Node
  OBVIOUS
<1> QED BY <1>1, <1>2, <1>3 DEF Rounds

\* An addition to the closure adds pairs of nodes.
LEMMA AddedIsNodes ==
  ASSUME TypeOK, NEW f \in Fact, Triple[f][2] = Base
  PROVE  Added(f) \subseteq Node \X Node
<1>1. Triple[f][1] \in Node /\ Triple[f][3] \in Node
  BY DEF Node
<1>2. \A p \in pairs : p[1] \in Node /\ p[2] \in Node
  BY DEF TypeOK
<1> QED BY <1>1, <1>2 DEF Added

\* The steps of the facts are typed.
LEMMA FactTypeStep ==
  ASSUME Inv, Inv', FactTypeOK, [Next]_vars
  PROVE  FactTypeOK'
<1>1. CASE Mutation
  BY <1>1, MutationEffects DEF Mutation
<1>2. ASSUME NEW kind \in ChangeKind, NEW f \in Fact, ProcessFactChange(kind, f)
      PROVE  FactTypeOK'
  <2>1. changes[<<kind, f>>] > 0 /\ <<kind, f>> \in ChangeKind \X Fact
    BY <1>2 DEF ProcessFactChange
  <2>2. changes' = [changes EXCEPT ![<<kind, f>>] = changes[<<kind, f>>] - 1]
    BY <1>2 DEF ProcessFactChange
  <2>3. changes[<<kind, f>>] \in Nat
    BY <2>1 DEF FactTypeOK
  <2>4. changes[<<kind, f>>] - 1 \in Nat
    BY <2>1, <2>3
  <2>5. changes' \in [ChangeKind \X Fact -> Nat]
    BY <2>2, <2>4 DEF FactTypeOK
  <2>6. UNCHANGED <<asserted, retracted, tombstoned, corrections, current, writes>>
    BY <1>2 DEF ProcessFactChange
  <2> QED BY <2>5, <2>6 DEF FactTypeOK
<1>3. CASE RebuildProjections
  <2>1. writes' \in 0..MaxWrites /\ UNCHANGED changes
    BY <1>3, FactAssumption DEF RebuildProjections, RebuildCurrent, Write, FactTypeOK
  <2> QED BY <2>1 DEF FactTypeOK, Inv, Written
<1>4. CASE UNCHANGED factVars
  BY <1>4 DEF factVars, FactTypeOK
<1>5. CASE Scheduled
  <2>1. ASSUME NEW r \in Rule, NEW O, Recompute(r, O) PROVE UNCHANGED factVars
    BY <2>1 DEF Recompute
  <2> QED BY <1>2, <1>4, <1>5, <2>1
      DEF Scheduled, RecomputeRule, RecomputeRuleForEntities, RecomputeTransitiveClosure,
          IncrementalClosureAdd
<1> QED BY <1>1, <1>3, <1>4, <1>5 DEF Next, vars

\* The rows a recomputation leaves are typed, one per output.
LEMMA RecomputeTypes ==
  ASSUME TypeOK, NEW r \in Rule, NEW O, Recompute(r, O)
  PROVE  /\ rows' \in [Rule -> SUBSET [out : Output, from : SUBSET Fact, stale : BOOLEAN]]
         /\ \A q \in Rule : \A x, y \in rows'[q] : x.out = y.out => x = y
         /\ invalidated' \subseteq invalidated
<1> DEFINE Row == [out : Output, from : SUBSET Fact, stale : BOOLEAN]
           old == {x \in rows[r] : x.out \notin O}
           new == {RowOf(r, o) : o \in O \cap Outs(Solved(r))}
<1>1. rows' = [rows EXCEPT ![r] = old \cup new]
  BY DEF Recompute
<1>2. Outs(Solved(r)) \subseteq Output /\ Visible \subseteq Fact
  BY DEF Outs, Solved, Output, Visible, TypeOK, FactTypeOK
<1>3. ASSUME NEW o \in Output PROVE RowOf(r, o) \in Row /\ RowOf(r, o).out = o
  BY <1>2 DEF RowOf
<1>4. rows \in [Rule -> SUBSET Row] /\ \A q \in Rule : \A x, y \in rows[q] : x.out = y.out => x = y
  BY DEF TypeOK
<1>5. new \subseteq Row /\ old \subseteq Row
  BY <1>2, <1>3, <1>4
<1>6. \A x, y \in old \cup new : x.out = y.out => x = y
  <2>1. \A x \in new : x.out \in O /\ x = RowOf(r, x.out)
    BY <1>2, <1>3
  <2>2. \A x \in old : x.out \notin O /\ x \in rows[r]
    OBVIOUS
  <2> HIDE DEF old, new
  <2> QED BY <1>4, <2>1, <2>2
<1>7. invalidated' \subseteq invalidated
  BY DEF Recompute, Uncleared
<1> HIDE DEF Row, old, new
<1>8. rows' \in [Rule -> SUBSET Row]
  BY <1>1, <1>4, <1>5
<1>9. \A q \in Rule : \A x, y \in rows'[q] : x.out = y.out => x = y
  BY <1>1, <1>4, <1>6
<1> QED BY <1>7, <1>8, <1>9 DEF Row

\* Every step is typed, and schedules the addition of edges only.
LEMMA TypeStep ==
  ASSUME Inv, Inv', TypeOK, AddIsEdge, [Next]_vars
  PROVE  TypeOK' /\ AddIsEdge'
<1>0. /\ FactTypeOK' /\ Visible \subseteq Fact
      /\ jobs \in [Job -> Nat]
  BY FactTypeStep DEF TypeOK, FactTypeOK, Visible
<1>1. CASE Mutation \/ UNCHANGED vars
  <2>1. UNCHANGED <<rows, pairs, stalePairs, invalidated, jobs>>
    BY <1>1 DEF Mutation, vars
  <2> QED BY <1>0, <2>1 DEF TypeOK, AddIsEdge
<1>2. CASE RebuildProjections
  <2> DEFINE J == {<<"rule", r>> : r \in Rule} \cup {<<"closure">>}
  <2>1. Schedule(J) /\ UNCHANGED <<rows, pairs, stalePairs, invalidated>>
    BY <1>2 DEF RebuildProjections
  <2>2. \A f \in Fact : <<"add", f>> \in Job /\ <<"add", f>> \notin J
    BY JobKinds, JobsDiffer
  <2> HIDE DEF J
  <2>3. jobs' \in [Job -> Nat] /\ \A f \in Fact : jobs'[<<"add", f>>] = jobs[<<"add", f>>]
    BY <1>0, <2>1, <2>2, ScheduledJobs
  <2> QED BY <1>0, <2>1, <2>3 DEF TypeOK, AddIsEdge
<1>3. ASSUME NEW kind \in ChangeKind, NEW f \in Fact, ProcessFactChange(kind, f)
      PROVE  TypeOK' /\ AddIsEdge'
  <2> DEFINE R == {r \in Rule : DependsOn(r, f)}
             edge == Triple[f][2] = Base
             closureJob == IF ~edge THEN {} ELSE IF kind = "assert" THEN {<<"add", f>>} ELSE {<<"closure">>}
             J == {JobFor(r, f) : r \in R} \cup closureJob
             Row == [out : Output, from : SUBSET Fact, stale : BOOLEAN]
  <2>1. /\ invalidated' = invalidated \cup ((R \cup IF edge THEN {"closure"} ELSE {}) \X {kind} \X {f})
        /\ rows' = [r \in Rule |-> IF r \in R THEN MarkStale(rows[r], ToRecompute(r, f)) ELSE rows[r]]
        /\ stalePairs' = IF edge /\ kind # "assert" THEN pairs ELSE stalePairs
        /\ Schedule(J) /\ UNCHANGED pairs
    BY <1>3 DEF ProcessFactChange
  <2>2. \A g \in Fact : <<"add", g>> \in Job /\ (<<"add", g>> \in J => Triple[g][2] = Base)
    <3> TAKE g \in Fact
    <3>1. \A r \in R : JobFor(r, f) # <<"add", g>>
      BY JobsDiffer DEF JobFor
    <3>2. <<"add", g>> \in closureJob => Triple[g][2] = Base
      BY JobsDiffer
    <3> QED BY <3>1, <3>2, JobKinds
  <2>3. jobs' \in [Job -> Nat] /\ AddIsEdge'
    <3> HIDE DEF J
    <3>1. jobs' \in [Job -> Nat]
      BY <1>0, <2>1, ScheduledJobs
    <3>2. ASSUME NEW g \in Fact, jobs'[<<"add", g>>] > 0 PROVE Triple[g][2] = Base
      BY <1>0, <2>1, <2>2, <3>2, ScheduledJobs DEF AddIsEdge
    <3> QED BY <3>1, <3>2 DEF AddIsEdge
  <2>4. invalidated' \subseteq (Rule \cup {"closure"}) \X ChangeKind \X Fact
    BY <2>1 DEF TypeOK
  <2>5. ASSUME NEW S \in SUBSET Row, NEW O, \A x, y \in S : x.out = y.out => x = y
        PROVE  /\ MarkStale(S, O) \subseteq Row
               /\ \A x, y \in MarkStale(S, O) : x.out = y.out => x = y
    <3> DEFINE mark(x) == IF x.out \in O THEN [x EXCEPT !.stale = TRUE] ELSE x
    <3>1. \A x \in Row : mark(x) \in Row /\ mark(x).out = x.out
      OBVIOUS
    <3>2. MarkStale(S, O) = {mark(x) : x \in S}
      BY DEF MarkStale
    <3> HIDE DEF mark, Row
    <3> QED BY <2>5, <3>1, <3>2
  <2>6. /\ rows' \in [Rule -> SUBSET Row]
        /\ \A r \in Rule : \A x, y \in rows'[r] : x.out = y.out => x = y
    <3>1. rows \in [Rule -> SUBSET Row] /\ \A r \in Rule : \A x, y \in rows[r] : x.out = y.out => x = y
      BY DEF TypeOK
    <3> HIDE DEF Row, R
    <3>2. ASSUME NEW r \in Rule
          PROVE  /\ rows'[r] \subseteq Row
                 /\ \A x, y \in rows'[r] : x.out = y.out => x = y
      <4>1. rows'[r] = rows[r] \/ rows'[r] = MarkStale(rows[r], ToRecompute(r, f))
        BY <2>1
      <4> QED BY <2>5, <3>1, <4>1
    <3> QED BY <2>1, <3>2
  <2>7. pairs' \subseteq Node \X Node /\ stalePairs' \subseteq pairs'
    BY <2>1 DEF TypeOK
  <2> QED BY <1>0, <2>3, <2>4, <2>6, <2>7 DEF TypeOK
<1>4. ASSUME NEW j \in Job, Done(j) PROVE jobs' \in [Job -> Nat] /\ AddIsEdge'
  BY <1>0, <1>4, DoneJob, JobKinds DEF AddIsEdge
<1>5. ASSUME NEW r \in Rule, NEW O, Recompute(r, O), NEW j \in Job, Done(j)
      PROVE  TypeOK' /\ AddIsEdge'
  <2>1. UNCHANGED <<pairs, stalePairs>>
    BY <1>5 DEF Recompute
  <2> QED BY <1>0, <1>4, <1>5, <2>1, RecomputeTypes DEF TypeOK
<1>6. ASSUME NEW r \in Rule, NEW O \in SUBSET Entity, RecomputeRuleForEntities(r, O)
      PROVE  TypeOK' /\ AddIsEdge'
  <2>1. <<"entities", r, O>> \in Job
    BY JobKinds
  <2> QED BY <1>5, <1>6, <2>1 DEF RecomputeRuleForEntities
<1>7. ASSUME NEW r \in Rule, RecomputeRule(r) PROVE TypeOK' /\ AddIsEdge'
  <2>1. <<"rule", r>> \in Job
    BY JobKinds
  <2> QED BY <1>5, <1>7, <2>1 DEF RecomputeRule
<1>8. CASE RecomputeTransitiveClosure
  <2>1. /\ Done(<<"closure">>) /\ pairs' = Reach(Edges(Visible)) /\ stalePairs' = {}
        /\ invalidated' \subseteq invalidated /\ UNCHANGED rows
    BY <1>8 DEF RecomputeTransitiveClosure, Uncleared
  <2>2. pairs' \subseteq Node \X Node
    BY <1>0, <2>1, EdgesAreNodes, ReachIsNodes
  <2>3. <<"closure">> \in Job
    BY JobKinds
  <2> QED BY <1>0, <1>4, <2>1, <2>2, <2>3 DEF TypeOK
<1>9. ASSUME NEW f \in Fact, IncrementalClosureAdd(f) PROVE TypeOK' /\ AddIsEdge'
  <2>1. /\ Done(<<"add", f>>) /\ pairs' = pairs \cup Added(f) /\ stalePairs' = stalePairs \ Added(f)
        /\ invalidated' \subseteq invalidated /\ UNCHANGED rows
    BY <1>9 DEF IncrementalClosureAdd, Uncleared
  <2>2. <<"add", f>> \in Job
    BY JobKinds
  <2>3. Triple[f][2] = Base
    BY <1>0, <2>1, <2>2, DoneJob DEF AddIsEdge
  <2>4. pairs' \subseteq Node \X Node /\ stalePairs' \subseteq pairs'
    BY <2>1, <2>3, AddedIsNodes DEF TypeOK
  <2> QED BY <1>0, <1>4, <2>1, <2>2, <2>4 DEF TypeOK
<1> QED BY <1>1, <1>2, <1>3, <1>6, <1>7, <1>8, <1>9 DEF Next, Scheduled

\* Every behaviour keeps the types, the facts and that additions are of edges.
LEMMA TypesAlways == Spec => [](Inv /\ TypeOK /\ AddIsEdge)
<1>1. Init => Inv /\ TypeOK /\ AddIsEdge
  <2> SUFFICES ASSUME Init PROVE Inv /\ TypeOK /\ AddIsEdge
    OBVIOUS
  <2>1. Inv
    BY DEF Init, FactInit, Inv, Written, CurrentIsVisible, VisibleHasRow, OneValue, Visible
  <2>2. FactTypeOK
    BY FactAssumption DEF Init, FactInit, FactTypeOK
  <2>3. /\ jobs = [j \in Job |-> 0]
        /\ pairs = {} /\ stalePairs = {} /\ invalidated = {}
    BY DEF Init
  <2>4. AddIsEdge
    BY <2>3, JobKinds DEF AddIsEdge
  <2>5. /\ rows \in [Rule -> SUBSET [out : Output, from : SUBSET Fact, stale : BOOLEAN]]
        /\ \A r \in Rule : \A x, y \in rows[r] : x.out = y.out => x = y
    <3> DEFINE row(b) == [out |-> b.out, from |-> {}, stale |-> FALSE]
    <3>1. rows = [r \in Rule |-> {row(b) : b \in {b \in Bindings[r] : b.needs = {}}}]
      BY DEF Init
    <3>2. \A r \in Rule : \A b \in Bindings[r] :
            row(b) \in [out : Output, from : SUBSET Fact, stale : BOOLEAN]
      BY DEF Output
    <3>3. \A r \in Rule : \A b, d \in Bindings[r] : row(b).out = row(d).out => row(b) = row(d)
      OBVIOUS
    <3> HIDE DEF row
    <3> QED BY <3>1, <3>2, <3>3
  <2> QED BY <2>1, <2>2, <2>3, <2>4, <2>5 DEF TypeOK
<1>2. Inv /\ TypeOK /\ AddIsEdge /\ [Next]_vars => (Inv /\ TypeOK /\ AddIsEdge)'
  BY InvStep, TypeStep
<1> QED BY <1>1, <1>2, PTL DEF Spec

\* The rows, pairs and recomputations due are of their types, with one row of a rule for
\* an output, however changes and recomputations interleave.
THEOREM MaterializeTypeCorrect == Spec => []TypeOK
BY TypesAlways, PTL

------------------------------------------------------------------------------
(* The output of rules *)

\* The run rule_superseded shows what goes wrong otherwise: the fact that a new value of
\* a key of cardinality one hides is not notified, and a rule over other entities than
\* its own does not look for it.
ScopedOverMany ==
  \A r \in Rule : Scope[r] = "scoped" => \A b \in Bindings[r] : \A t \in b.needs : t[2] \notin OneAttr

Triples(F) == {Triple[f] : f \in F}

\* The visible facts whose assertion has been processed.
Settled == {f \in Visible : changes[<<"assert", f>>] = 0}

\* A change is due that r's negations make recompute o.
NegatedDue(r, o) ==
  \E kind \in ChangeKind, f \in Fact :
    /\ changes[<<kind, f>>] > 0 /\ Negated(r, f) # {}
    /\ Scope[r] = "constant" \/ Triple[f][1] = o

\* A recomputation of o is due.
JobDue(r, o) ==
  \/ \E O \in SUBSET Entity : o \in O /\ jobs[<<"entities", r, O>>] > 0
  \/ jobs[<<"rule", r>>] > 0

\* A change is due that makes r recompute a row that has g as a source.
Going(r, g) ==
  \E kind \in ChangeKind, f \in Fact :
    /\ changes[<<kind, f>>] > 0
    /\ f = g \/ (Scope[r] # "scoped" /\ Key(f) = Key(g))

\* The row is founded on a binding whose triples its sources have, except that some
\* sources may be hidden by a change still due.
Founded(r, x) ==
  \E b \in Bindings[r] :
    /\ b.out = x.out /\ b.absent \cap Triples(Visible) = {}
    /\ \A t \in b.needs : \E g \in x.from : Triple[g] = t /\ (g \in Visible \/ Going(r, g))

RowHeld(r, x) == (x.stale /\ JobDue(r, x.out)) \/ NegatedDue(r, x.out) \/ Founded(r, x)

\* A binding that holds has a row, or a change or recomputation that gives it one is due.
BindingMet(r, b) ==
  b.needs \subseteq Triples(Settled) /\ b.absent \cap Triples(Visible) = {} =>
    JobDue(r, b.out) \/ NegatedDue(r, b.out) \/ \E x \in rows[r] : x.out = b.out

RulesInv ==
  \A r \in Rule : (\A x \in rows[r] : RowHeld(r, x)) /\ (\A b \in Bindings[r] : BindingMet(r, b))

\* What r negates it negates of the binding's own entity.
LEMMA NegatedOwn ==
  ASSUME NEW r \in Rule, NEW b \in Bindings[r], NEW t \in b.absent, NEW f \in Fact, Triple[f][2] = t[2]
  PROVE  /\ Negated(r, f) = {Triple[f][1]}
         /\ Scope[r] = "constant" \/ t[1] = b.out
BY RuleAssumption DEF Negated

\* A mutation keeps the rows held and the bindings met.
LEMMA RulesMutation ==
  ASSUME ScopedOverMany, Inv, Inv', TypeOK, RulesInv, Mutation
  PROVE  RulesInv'
<1>0. /\ UNCHANGED <<rows, jobs>>
      /\ \A c \in ChangeKind \X Fact : changes[c] <= changes'[c]
      /\ \A g \in Visible' \ Visible : changes'[<<"assert", g>>] > 0
      /\ \A g \in Visible \ Visible' : Hidden(g)
      /\ FactTypeOK'
  BY MutationEffects DEF Mutation, TypeOK
<1>1. Visible \subseteq Fact /\ Visible' \subseteq Fact
  BY DEF Visible, Inv, Written
<1>2. \A c \in ChangeKind \X Fact : changes[c] > 0 => changes'[c] > 0
  BY <1>0 DEF TypeOK, FactTypeOK
<1>3. \A kind \in ChangeKind, f \in Fact : <<kind, f>> \in ChangeKind \X Fact
  OBVIOUS
<1>4. "assert" \in ChangeKind
  BY DEF ChangeKind
<1>5. ASSUME NEW r \in Rule, NEW o
      PROVE  (NegatedDue(r, o) => NegatedDue(r, o)') /\ (JobDue(r, o) <=> JobDue(r, o)')
  BY <1>0, <1>2, <1>3 DEF NegatedDue, JobDue, Negated
<1>6. ASSUME NEW r \in Rule, NEW b \in Bindings[r], NEW t \in b.absent, NEW h \in Fact, NEW f \in Fact,
             NEW kind \in ChangeKind, Triple[h] = t, Key(f) = Key(h), changes'[<<kind, f>>] > 0
      PROVE  NegatedDue(r, b.out)'
  <2>1. Triple[f][2] = t[2] /\ Triple[f][1] = t[1]
    BY <1>6 DEF Key
  <2>2. Negated(r, f) = {Triple[f][1]} /\ (Scope[r] = "constant" \/ Triple[f][1] = b.out)
    BY <2>1, NegatedOwn
  <2> QED BY <1>6, <2>2 DEF NegatedDue, Negated
<1>7. ASSUME NEW h \in Visible \ Visible'
      PROVE  \E kind \in ChangeKind, f \in Fact : Key(f) = Key(h) /\ changes'[<<kind, f>>] > 0
  BY <1>0, <1>1, <1>4, <1>7 DEF Hidden
<1>8. ASSUME NEW r \in Rule, NEW x \in rows[r] PROVE RowHeld(r, x)'
  <2>1. RowHeld(r, x)
    BY DEF RulesInv
  <2>2. CASE Founded(r, x)
    <3>1. PICK b \in Bindings[r] :
            /\ b.out = x.out /\ b.absent \cap Triples(Visible) = {}
            /\ \A t \in b.needs : \E g \in x.from : Triple[g] = t /\ (g \in Visible \/ Going(r, g))
      BY <2>2 DEF Founded
    <3>2. CASE b.absent \cap Triples(Visible)' # {}
      <4>1. PICK h \in Visible' : Triple[h] \in b.absent
        BY <3>2 DEF Triples
      <4>2. h \in Visible' \ Visible
        BY <3>1, <4>1 DEF Triples
      <4>3. NegatedDue(r, b.out)'
        BY <1>0, <1>1, <1>4, <1>6, <4>1, <4>2
      <4> QED BY <3>1, <4>3 DEF RowHeld, NegatedDue, Negated
    <3>3. CASE b.absent \cap Triples(Visible)' = {}
      <4>1. ASSUME NEW t \in b.needs PROVE \E g \in x.from : Triple[g] = t /\ (g \in Visible' \/ Going(r, g)')
        <5>1. PICK g \in x.from : Triple[g] = t /\ (g \in Visible \/ Going(r, g))
          BY <3>1
        <5>2. CASE Going(r, g)
          BY <1>2, <1>3, <5>1, <5>2 DEF Going, Key
        <5>3. CASE g \in Visible \ Visible'
          <6>1. CASE \E kind \in ChangeKind : changes'[<<kind, g>>] > 0
            BY <1>1, <5>1, <5>3, <6>1 DEF Going
          <6>2. CASE IsOne(g) /\ \E f \in Fact : Key(f) = Key(g) /\ changes'[<<"assert", f>>] > 0
            <7>1. Scope[r] # "scoped"
              BY <5>1, <6>2 DEF ScopedOverMany, IsOne
            <7> QED BY <1>4, <5>1, <6>2, <7>1 DEF Going, Key
          <6> QED BY <1>0, <5>3, <6>1, <6>2 DEF Hidden
        <5> QED BY <5>1, <5>2, <5>3
      <4>2. Founded(r, x)'
        BY <3>1, <3>3, <4>1 DEF Founded
      <4> QED BY <4>2 DEF RowHeld
    <3> QED BY <3>2, <3>3
  <2>3. CASE x.stale /\ JobDue(r, x.out)
    BY <1>5, <2>3 DEF RowHeld
  <2>4. CASE NegatedDue(r, x.out)
    BY <1>5, <2>4 DEF RowHeld
  <2> QED BY <2>1, <2>2, <2>3, <2>4 DEF RowHeld
<1>9. ASSUME NEW r \in Rule, NEW b \in Bindings[r] PROVE BindingMet(r, b)'
  <2> SUFFICES ASSUME b.needs \subseteq Triples(Settled)', b.absent \cap Triples(Visible)' = {}
               PROVE  JobDue(r, b.out)' \/ NegatedDue(r, b.out)' \/ \E x \in rows'[r] : x.out = b.out
    BY DEF BindingMet
  <2>1. Settled' \subseteq Settled
    <3> SUFFICES ASSUME NEW f \in Settled' PROVE f \in Settled
      OBVIOUS
    <3>1. f \in Visible' /\ changes'[<<"assert", f>>] = 0 /\ f \in Fact
      BY <1>1 DEF Settled
    <3>2. f \in Visible
      BY <1>0, <3>1
    <3>3. changes[<<"assert", f>>] \in Nat /\ changes[<<"assert", f>>] <= 0
      BY <1>0, <1>3, <1>4, <3>1 DEF TypeOK, FactTypeOK
    <3> QED BY <3>2, <3>3 DEF Settled
  <2>2. b.needs \subseteq Triples(Settled)
    BY <2>1 DEF Triples
  <2>3. CASE b.absent \cap Triples(Visible) = {}
    BY <1>0, <1>5, <2>2, <2>3 DEF RulesInv, BindingMet
  <2>4. CASE b.absent \cap Triples(Visible) # {}
    <3>1. PICK h \in Visible : Triple[h] \in b.absent
      BY <2>4 DEF Triples
    <3>2. h \in Visible \ Visible'
      BY <3>1 DEF Triples
    <3>3. PICK kind \in ChangeKind, f \in Fact : Key(f) = Key(h) /\ changes'[<<kind, f>>] > 0
      BY <1>7, <3>2
    <3>4. NegatedDue(r, b.out)'
      BY <1>1, <1>6, <3>1, <3>3
    <3> QED BY <3>4
  <2> QED BY <2>3, <2>4
<1> QED BY <1>0, <1>8, <1>9 DEF RulesInv

\* Processing a change of f marks the rows of the rules it concerns, and makes every
\* output due that the change may have touched.
LEMMA RulesProcess ==
  ASSUME TypeOK, RulesInv, NEW kind \in ChangeKind, NEW f \in Fact, ProcessFactChange(kind, f)
  PROVE  RulesInv'
<1> DEFINE R == {r \in Rule : DependsOn(r, f)}
           c == <<kind, f>>
           closureJob == IF Triple[f][2] # Base THEN {}
                         ELSE IF kind = "assert" THEN {<<"add", f>>} ELSE {<<"closure">>}
           J == {JobFor(r, f) : r \in R} \cup closureJob
<1>1. /\ changes' = [changes EXCEPT ![c] = changes[c] - 1]
      /\ rows' = [r \in Rule |-> IF r \in R THEN MarkStale(rows[r], ToRecompute(r, f)) ELSE rows[r]]
      /\ Schedule(J) /\ Visible' = Visible
  BY DEF ProcessFactChange, Visible
<1>2. \A d \in ChangeKind \X Fact : d # c => changes'[d] = changes[d]
  BY <1>1 DEF TypeOK, FactTypeOK
<1>4. /\ \A j \in Job : jobs[j] > 0 => jobs'[j] > 0
      /\ \A j \in Job : j \in J => jobs'[j] > 0
  <2> HIDE DEF J
  <2> QED BY <1>1, ScheduledJobs DEF TypeOK
<1>5. ASSUME NEW r \in Rule, NEW o PROVE JobDue(r, o) => JobDue(r, o)'
  BY <1>4, JobKinds DEF JobDue
<1>6. ASSUME NEW r \in R, NEW o \in ToRecompute(r, f), o \in Output PROVE JobDue(r, o)'
  <2>1. JobFor(r, f) \in J /\ JobFor(r, f) \in Job /\ ToRecompute(r, f) \in SUBSET Entity
    BY RecomputedAreEntities
  <2>2. jobs'[JobFor(r, f)] > 0
    <3> HIDE DEF J
    <3> QED BY <1>4, <2>1
  <2> QED BY <1>6, <2>1, <2>2 DEF JobFor, JobDue
\* A change other than this one is still due.
<1>7. ASSUME NEW r \in Rule, NEW g, Going(r, g),
             ~(f = g \/ (Scope[r] # "scoped" /\ Key(f) = Key(g)))
      PROVE  Going(r, g)'
  <2>1. PICK k \in ChangeKind, h \in Fact :
          changes[<<k, h>>] > 0 /\ (h = g \/ (Scope[r] # "scoped" /\ Key(h) = Key(g)))
    BY <1>7 DEF Going
  <2>2. h # f
    BY <1>7, <2>1
  <2>3. <<k, h>> \in ChangeKind \X Fact /\ <<k, h>> # c
    BY <2>2
  <2> QED BY <1>2, <2>1, <2>3 DEF Going, Key
<1>8. ASSUME NEW r \in Rule, NEW o, NegatedDue(r, o),
             ~(Negated(r, f) # {} /\ (Scope[r] = "constant" \/ Triple[f][1] = o))
      PROVE  NegatedDue(r, o)'
  <2>1. PICK k \in ChangeKind, h \in Fact :
          changes[<<k, h>>] > 0 /\ Negated(r, h) # {} /\ (Scope[r] = "constant" \/ Triple[h][1] = o)
    BY <1>8 DEF NegatedDue
  <2>2. <<k, h>> \in ChangeKind \X Fact /\ <<k, h>> # c
    BY <1>8, <2>1
  <2> QED BY <1>2, <2>1, <2>2 DEF NegatedDue, Negated
<1>9. ASSUME NEW r \in Rule, NEW o \in Output, NegatedDue(r, o),
             ~(r \in R /\ o \in ToRecompute(r, f))
      PROVE  NegatedDue(r, o)'
  <2>1. Negated(r, f) # {} => r \in R /\ Negated(r, f) = {Triple[f][1]}
    BY DependencyAssumption DEF Negated, DependsOn
  <2>2. r \in R /\ Scope[r] = "constant" => o \in ToRecompute(r, f)
    BY DEF ToRecompute
  <2>3. r \in R /\ Scope[r] # "constant" => Negated(r, f) \subseteq ToRecompute(r, f)
    BY RuleAssumption DEF ToRecompute, Affected, Negated
  <2>4. ~(Negated(r, f) # {} /\ (Scope[r] = "constant" \/ Triple[f][1] = o))
    BY <1>9, <2>1, <2>2, <2>3
  <2> QED BY <1>8, <1>9, <2>4
<1>10. ASSUME NEW r \in Rule, NEW b \in Bindings[r], ~(r \in R /\ b.out \in ToRecompute(r, f)),
              NEW g, Triple[g] \in b.needs, Key(f) = Key(g)
       PROVE  Scope[r] = "scoped" /\ r \in R
  <2>1. r \in R
    BY <1>10, DependencyAssumption DEF DependsOn, Key
  <2>2. Scope[r] # "constant"
    BY <1>10, <2>1 DEF ToRecompute, Output
  <2>3. Scope[r] = "local" => Triple[f][1] = b.out /\ ToRecompute(r, f) = {Triple[f][1]}
    BY <1>10, RuleAssumption DEF Key, ToRecompute
  <2> QED BY <1>10, <2>1, <2>2, <2>3, RuleAssumption
<1>11. ASSUME NEW r \in Rule, NEW y \in rows'[r] PROVE RowHeld(r, y)'
  <2>1. PICK x \in rows[r] : /\ y.out = x.out /\ y.from = x.from /\ (x.stale => y.stale)
                             /\ (r \in R /\ x.out \in ToRecompute(r, f) => y.stale)
    <3>1. \A x \in rows[r] : x \in [out : Output, from : SUBSET Fact, stale : BOOLEAN]
      BY DEF TypeOK
    <3>2. \A x \in rows[r] : LET z == [x EXCEPT !.stale = TRUE]
                             IN  z.out = x.out /\ z.from = x.from /\ z.stale
      BY <3>1
    <3>3. CASE r \in R
      <4>1. y \in MarkStale(rows[r], ToRecompute(r, f))
        BY <1>1, <3>3
      <4>2. PICK x \in rows[r] :
              y = IF x.out \in ToRecompute(r, f) THEN [x EXCEPT !.stale = TRUE] ELSE x
        BY <4>1 DEF MarkStale
      <4> QED BY <3>2, <4>2
    <3>4. CASE r \notin R
      BY <1>1, <3>4
    <3> QED BY <3>3, <3>4
  <2>2. RowHeld(r, x) /\ x.out \in Output
    BY DEF RulesInv, TypeOK
  <2>3. CASE r \in R /\ x.out \in ToRecompute(r, f)
    BY <1>6, <2>1, <2>2, <2>3 DEF RowHeld
  <2>4. CASE ~(r \in R /\ x.out \in ToRecompute(r, f)) /\ Founded(r, x)
    <3>1. PICK b \in Bindings[r] :
            /\ b.out = x.out /\ b.absent \cap Triples(Visible) = {}
            /\ \A t \in b.needs : \E g \in x.from : Triple[g] = t /\ (g \in Visible \/ Going(r, g))
      BY <2>4 DEF Founded
    <3>2. ASSUME NEW t \in b.needs, NEW g \in x.from, Triple[g] = t, Going(r, g) PROVE Going(r, g)'
      <4>1. Key(f) = Key(g) => Scope[r] = "scoped" /\ r \in R
        BY <1>10, <2>4, <3>1, <3>2
      <4>2. f = g => x.out \in ToRecompute(r, f)
        <5>1. f = g => Scope[r] = "scoped" /\ f \in x.from
          BY <3>2, <4>1 DEF Key
        <5> QED BY <5>1 DEF ToRecompute, Affected
      <4>3. ~(f = g \/ (Scope[r] # "scoped" /\ Key(f) = Key(g)))
        BY <2>4, <4>1, <4>2 DEF Key
      <4> QED BY <1>7, <3>2, <4>3
    <3>3. Founded(r, y)'
      BY <1>1, <2>1, <3>1, <3>2 DEF Founded
    <3> QED BY <3>3 DEF RowHeld
  <2>5. CASE ~(r \in R /\ x.out \in ToRecompute(r, f)) /\ NegatedDue(r, x.out)
    BY <1>9, <2>1, <2>2, <2>5 DEF RowHeld
  <2>6. CASE x.stale /\ JobDue(r, x.out)
    BY <1>5, <2>1, <2>6 DEF RowHeld
  <2> QED BY <2>2, <2>3, <2>4, <2>5, <2>6 DEF RowHeld
<1>12. ASSUME NEW r \in Rule, NEW b \in Bindings[r] PROVE BindingMet(r, b)'
  <2> SUFFICES ASSUME b.needs \subseteq Triples(Settled)', b.absent \cap Triples(Visible)' = {}
               PROVE  JobDue(r, b.out)' \/ NegatedDue(r, b.out)' \/ \E x \in rows'[r] : x.out = b.out
    BY DEF BindingMet
  <2>1. b.out \in Output /\ Visible \subseteq Fact
    BY DEF Output, TypeOK, FactTypeOK, Visible
  <2>2. CASE r \in R /\ b.out \in ToRecompute(r, f)
    BY <1>6, <2>1, <2>2
  <2>3. CASE ~(r \in R /\ b.out \in ToRecompute(r, f))
    <3>1. ASSUME NEW t \in b.needs PROVE t \in Triples(Settled)
      <4>1. PICK g \in Settled' : t = Triple[g]
        BY DEF Triples
      <4>2. g \in Visible /\ changes'[<<"assert", g>>] = 0
        BY <1>1, <4>1 DEF Settled
      <4>3. g # f
        <5> SUFFICES ASSUME g = f PROVE FALSE
          OBVIOUS
        <5>1. Scope[r] = "scoped" /\ r \in R
          BY <1>10, <2>3, <4>1 DEF Key
        <5>2. b.needs \subseteq Triples(Visible)
          BY <1>1 DEF Triples, Settled
        <5>3. b \in Solved(r)
          BY <1>1, <5>2 DEF Solved, Triples
        <5>4. b.out \in Outs(Solved(r)) /\ f \in RowOf(r, b.out).from
          BY <4>1, <4>2, <5>3 DEF Outs, RowOf
        <5>5. b.out \in ToRecompute(r, f)
          BY <5>1, <5>4 DEF ToRecompute, Affected
        <5> QED BY <2>3, <5>1, <5>5
      <4>4. <<"assert", g>> \in ChangeKind \X Fact /\ <<"assert", g>> # c
        BY <2>1, <4>2, <4>3 DEF ChangeKind
      <4>5. g \in Settled
        BY <1>2, <4>2, <4>4 DEF Settled
      <4> QED BY <4>1, <4>5 DEF Triples
    <3>2. JobDue(r, b.out) \/ NegatedDue(r, b.out) \/ \E x \in rows[r] : x.out = b.out
      BY <1>1, <3>1 DEF RulesInv, BindingMet, Triples
    <3>3. ASSUME NEW x \in rows[r] PROVE \E y \in rows'[r] : y.out = x.out
      <4>1. x \in [out : Output, from : SUBSET Fact, stale : BOOLEAN]
        BY DEF TypeOK
      <4>2. [x EXCEPT !.stale = TRUE].out = x.out
        BY <4>1
      <4> QED BY <1>1, <4>2 DEF MarkStale
    <3> QED BY <1>5, <1>9, <2>1, <2>3, <3>2, <3>3
  <2> QED BY <2>2, <2>3
<1> QED BY <1>11, <1>12 DEF RulesInv

\* A recomputation replaces the rows of its outputs by founded ones, and takes away only
\* what was due for those outputs.
LEMMA RulesRecompute ==
  ASSUME TypeOK, RulesInv, NEW q \in Rule, NEW O, Recompute(q, O), NEW j \in Job, Done(j),
         \/ O \in SUBSET Entity /\ j = <<"entities", q, O>>
         \/ O = Output /\ j = <<"rule", q>>
  PROVE  RulesInv'
<1>1. /\ rows' = [rows EXCEPT ![q] = {x \in rows[q] : x.out \notin O}
                                       \cup {RowOf(q, o) : o \in O \cap Outs(Solved(q))}]
      /\ changes' = changes /\ Visible' = Visible /\ Settled' = Settled
  BY DEF Recompute, factVars, Visible, Settled
<1>2. \A i \in Job : i # j => jobs'[i] = jobs[i]
  BY DoneJob DEF TypeOK
<1>3. ASSUME NEW r \in Rule, NEW o \in Output, r # q \/ o \notin O
      PROVE  JobDue(r, o) => JobDue(r, o)'
  <2>1. ASSUME NEW P \in SUBSET Entity, o \in P, jobs[<<"entities", r, P>>] > 0 PROVE JobDue(r, o)'
    <3>1. <<"entities", r, P>> \in Job /\ <<"entities", r, P>> # j
      BY <1>3, <2>1, JobKinds, JobsDiffer
    <3> QED BY <1>2, <2>1, <3>1 DEF JobDue
  <2>2. ASSUME jobs[<<"rule", r>>] > 0 PROVE JobDue(r, o)'
    <3>1. <<"rule", r>> \in Job /\ <<"rule", r>> # j
      BY <1>3, JobKinds, JobsDiffer
    <3> QED BY <1>2, <2>2, <3>1 DEF JobDue
  <2> QED BY <2>1, <2>2 DEF JobDue
<1>4. ASSUME NEW r \in Rule, NEW o
      PROVE  /\ NegatedDue(r, o) => NegatedDue(r, o)'
             /\ \A g : Going(r, g) => Going(r, g)'
  BY <1>1 DEF NegatedDue, Going, Negated, Key
<1>5. ASSUME NEW r \in Rule, NEW x \in rows[r], r # q \/ x.out \notin O PROVE RowHeld(r, x)'
  <2>1. RowHeld(r, x) /\ x.out \in Output
    BY DEF RulesInv, TypeOK
  <2>2. Founded(r, x) => Founded(r, x)'
    BY <1>1, <1>4 DEF Founded
  <2> QED BY <1>3, <1>4, <1>5, <2>1, <2>2 DEF RowHeld
<1>6. ASSUME NEW o \in O \cap Outs(Solved(q)), NEW x, x = RowOf(q, o) PROVE RowHeld(q, x)'
  <2>1. PICK b \in Solved(q) : b.out = o
    BY DEF Outs
  <2>2. /\ b \in Bindings[q] /\ b.needs \subseteq Triples(Visible)
        /\ b.absent \cap Triples(Visible) = {}
    BY DEF Solved, Triples
  <2>3. x.out = o /\ x.from = {f \in Visible : \E d \in Solved(q) : d.out = o /\ Triple[f] \in d.needs}
    BY <1>6 DEF RowOf
  <2>4. ASSUME NEW t \in b.needs PROVE \E g \in x.from : Triple[g] = t /\ g \in Visible
    <3>1. PICK g \in Visible : Triple[g] = t
      BY <2>2 DEF Triples
    <3> QED BY <2>1, <2>3, <3>1
  <2> QED BY <1>1, <2>1, <2>2, <2>3, <2>4 DEF RowHeld, Founded, Triples
<1>7. ASSUME NEW r \in Rule, NEW x \in rows'[r] PROVE RowHeld(r, x)'
  <2>1. rows \in [Rule -> SUBSET [out : Output, from : SUBSET Fact, stale : BOOLEAN]]
    BY DEF TypeOK
  <2>2. CASE r # q
    BY <1>1, <1>5, <2>1, <2>2
  <2>3. CASE r = q
    <3>1. x \in {y \in rows[q] : y.out \notin O} \/ x \in {RowOf(q, o) : o \in O \cap Outs(Solved(q))}
      BY <1>1, <2>1, <2>3
    <3> QED BY <1>5, <1>6, <2>3, <3>1
  <2> QED BY <2>2, <2>3
<1>8. ASSUME NEW r \in Rule, NEW b \in Bindings[r] PROVE BindingMet(r, b)'
  <2> SUFFICES ASSUME b.needs \subseteq Triples(Settled), b.absent \cap Triples(Visible) = {}
               PROVE  JobDue(r, b.out)' \/ NegatedDue(r, b.out)' \/ \E x \in rows'[r] : x.out = b.out
    BY <1>1 DEF BindingMet, Triples
  <2>1. JobDue(r, b.out) \/ NegatedDue(r, b.out) \/ \E x \in rows[r] : x.out = b.out
    BY DEF RulesInv, BindingMet
  <2>2. rows \in [Rule -> SUBSET [out : Output, from : SUBSET Fact, stale : BOOLEAN]]
    BY DEF TypeOK
  <2>3. CASE r = q /\ b.out \in O
    <3>1. b \in Solved(q)
      BY <2>3 DEF Solved, Triples, Settled
    <3>2. b.out \in O \cap Outs(Solved(q)) /\ RowOf(q, b.out).out = b.out
      BY <2>3, <3>1 DEF Outs, RowOf
    <3>3. RowOf(q, b.out) \in rows'[q]
      BY <1>1, <2>2, <3>2
    <3> QED BY <2>3, <3>2, <3>3
  <2>4. CASE r # q \/ b.out \notin O
    <3>1. \A x \in rows[r] : x.out = b.out => x \in rows'[r]
      BY <1>1, <2>2, <2>4
    <3>2. b.out \in Output
      BY DEF Output
    <3> QED BY <1>3, <1>4, <2>1, <2>4, <3>1, <3>2
  <2> QED BY <2>3, <2>4
<1> QED BY <1>7, <1>8 DEF RulesInv

\* Every step keeps the rows held and the bindings met.
LEMMA RulesStep ==
  ASSUME ScopedOverMany, Inv, Inv', TypeOK, RulesInv, [Next]_vars
  PROVE  RulesInv'
<1>1. ASSUME UNCHANGED <<rows, changes, Visible>>,
             \A r \in Rule, o \in Output : JobDue(r, o) => JobDue(r, o)'
      PROVE  RulesInv'
  <2>1. \A r \in Rule : \A x \in rows[r] : x.out \in Output
    BY DEF TypeOK
  <2>2. \A r \in Rule : \A b \in Bindings[r] : b.out \in Output
    BY DEF Output
  <2>3. ASSUME NEW r \in Rule
        PROVE  /\ \A o : NegatedDue(r, o) => NegatedDue(r, o)'
               /\ \A g : Going(r, g) => Going(r, g)'
    BY <1>1 DEF NegatedDue, Going, Negated, Key
  <2>4. Settled' = Settled /\ Triples(Settled)' = Triples(Settled) /\ Triples(Visible)' = Triples(Visible)
    BY <1>1 DEF Settled, Triples
  <2>5. ASSUME NEW r \in Rule, NEW x \in rows'[r] PROVE RowHeld(r, x)'
    <3>1. RowHeld(r, x) /\ x.out \in Output
      BY <1>1, <2>1 DEF RulesInv
    <3>2. Founded(r, x) => Founded(r, x)'
      BY <1>1, <2>3, <2>4 DEF Founded
    <3> QED BY <1>1, <2>3, <3>1, <3>2 DEF RowHeld
  <2>6. ASSUME NEW r \in Rule, NEW b \in Bindings[r] PROVE BindingMet(r, b)'
    <3>1. BindingMet(r, b) /\ b.out \in Output
      BY <2>2 DEF RulesInv
    <3> QED BY <1>1, <2>3, <2>4, <3>1 DEF BindingMet
  <2> QED BY <2>5, <2>6 DEF RulesInv
<1>2. CASE RebuildProjections
  <2> DEFINE J == {<<"rule", r>> : r \in Rule} \cup {<<"closure">>}
  <2>1. Schedule(J) /\ UNCHANGED <<rows, changes, Visible>>
    BY <1>2 DEF RebuildProjections, RebuildCurrent, Visible
  <2>2. \A j \in Job : jobs[j] > 0 => jobs'[j] > 0
    <3> HIDE DEF J
    <3> QED BY <2>1, ScheduledJobs DEF TypeOK
  <2>3. \A r \in Rule, o \in Output : JobDue(r, o) => JobDue(r, o)'
    BY <2>2, JobKinds DEF JobDue
  <2> QED BY <1>1, <2>1, <2>3
<1>3. ASSUME NEW j \in Job, Done(j), UNCHANGED <<factVars, rows>>,
             \A r, O : j # <<"entities", r, O>> /\ j # <<"rule", r>>
      PROVE  RulesInv'
  <2>1. \A i \in Job : i # j => jobs'[i] = jobs[i]
    BY <1>3, DoneJob DEF TypeOK
  <2>2. \A r \in Rule, o \in Output : JobDue(r, o) => JobDue(r, o)'
    BY <1>3, <2>1, JobKinds DEF JobDue
  <2>3. UNCHANGED <<rows, changes, Visible>>
    BY <1>3 DEF factVars, Visible
  <2> QED BY <1>1, <2>2, <2>3
<1>4. CASE RecomputeTransitiveClosure
  BY <1>3, <1>4, JobKinds, JobsDiffer DEF RecomputeTransitiveClosure
<1>5. ASSUME NEW f \in Fact, IncrementalClosureAdd(f) PROVE RulesInv'
  BY <1>3, <1>5, JobKinds, JobsDiffer DEF IncrementalClosureAdd
<1>6. ASSUME NEW r \in Rule, NEW O \in SUBSET Entity, RecomputeRuleForEntities(r, O)
      PROVE  RulesInv'
  BY <1>6, RulesRecompute, JobKinds DEF RecomputeRuleForEntities
<1>7. ASSUME NEW r \in Rule, RecomputeRule(r) PROVE RulesInv'
  BY <1>7, RulesRecompute, JobKinds DEF RecomputeRule
<1>8. CASE UNCHANGED vars
  BY <1>1, <1>8 DEF vars, factVars, Visible, JobDue
<1> QED BY <1>2, <1>4, <1>5, <1>6, <1>7, <1>8, RulesMutation, RulesProcess DEF Next, Scheduled

\* Every behaviour keeps what holds of the rows of rules.
LEMMA RulesAlways ==
  ASSUME ScopedOverMany
  PROVE  Spec => [](TypeOK /\ RulesInv)
<1>1. Init => RulesInv
  <2> SUFFICES ASSUME Init PROVE RulesInv
    OBVIOUS
  <2>1. Visible = {} /\ Triples(Visible) = {} /\ Triples(Settled) = {}
    BY DEF Init, FactInit, Visible, Triples, Settled
  <2>2. ASSUME NEW r \in Rule
        PROVE  rows[r] = {[out |-> b.out, from |-> {}, stale |-> FALSE] :
                            b \in {b \in Bindings[r] : b.needs = {}}}
    BY DEF Init
  <2>3. ASSUME NEW r \in Rule, NEW x \in rows[r] PROVE RowHeld(r, x)
    <3>1. PICK b \in Bindings[r] : b.needs = {} /\ x = [out |-> b.out, from |-> {}, stale |-> FALSE]
      BY <2>2
    <3>2. x.out = b.out
      BY <3>1
    <3> QED BY <2>1, <3>1, <3>2 DEF RowHeld, Founded
  <2>4. ASSUME NEW r \in Rule, NEW b \in Bindings[r] PROVE BindingMet(r, b)
    <3>1. [out |-> b.out, from |-> {}, stale |-> FALSE].out = b.out
      OBVIOUS
    <3>2. b.needs = {} => \E x \in rows[r] : x.out = b.out
      BY <2>2, <3>1
    <3> QED BY <2>1, <3>2 DEF BindingMet
  <2> QED BY <2>3, <2>4 DEF RulesInv
<1>2. ScopedOverMany /\ Inv /\ TypeOK /\ RulesInv /\ Inv' /\ [Next]_vars => RulesInv'
  BY RulesStep
<1> QED BY <1>1, <1>2, TypesAlways, PTL DEF Spec

\* A change due that Going or NegatedDue speaks of is one the rule depends on.
LEMMA DueDepends ==
  ASSUME NEW r \in Rule, NEW kind \in ChangeKind, NEW f \in Fact
  PROVE  /\ Negated(r, f) # {} => DependsOn(r, f)
         /\ \A b \in Bindings[r] : \A g : Triple[g] \in b.needs /\ (f = g \/ Key(f) = Key(g)) => DependsOn(r, f)
BY DependencyAssumption DEF Negated, DependsOn, Key

\* A row that is neither stale nor waiting for a change holds.
LEMMA RowHolds ==
  ASSUME TypeOK, NEW r \in Rule, NEW x \in rows[r], RowHeld(r, x),
         ~ \E kind \in ChangeKind, f \in Fact : changes[<<kind, f>>] > 0 /\ DependsOn(r, f)
  PROVE  x.out \in Outs(Solved(r)) \/ (x.stale /\ JobDue(r, x.out))
<1>1. ~NegatedDue(r, x.out)
  BY DueDepends DEF NegatedDue
<1>2. ASSUME Founded(r, x) PROVE x.out \in Outs(Solved(r))
  <2>1. PICK b \in Bindings[r] :
          /\ b.out = x.out /\ b.absent \cap Triples(Visible) = {}
          /\ \A t \in b.needs : \E g \in x.from : Triple[g] = t /\ (g \in Visible \/ Going(r, g))
    BY <1>2 DEF Founded
  <2>2. \A t \in b.needs : \E g \in Visible : Triple[g] = t
    BY <2>1, DueDepends DEF Going
  <2>3. b \in Solved(r)
    BY <2>1, <2>2 DEF Solved, Triples
  <2> QED BY <2>1, <2>3 DEF Outs
<1> QED BY <1>1, <1>2 DEF RowHeld

\* Whatever order changes and recomputations run in, an output that is missing or
\* unfounded has something due that recomputes it: for every set of rules, facts and
\* bindings in which cross-entity rules read no attribute of cardinality one.
THEOREM NoUpdateIsLost ==
  ASSUME ScopedOverMany
  PROVE  Spec => []NoLostUpdate
<1>1. TypeOK /\ RulesInv => NoLostUpdate
  <2> SUFFICES ASSUME TypeOK, RulesInv, NEW r \in Rule, NEW o \in Output, ~Awaited(r, o)
               PROVE  o \in Outs(Solved(r)) <=> \E x \in rows[r] : x.out = o
    BY DEF NoLostUpdate
  <2>1. /\ ~ \E kind \in ChangeKind, f \in Fact : changes[<<kind, f>>] > 0 /\ DependsOn(r, f)
        /\ ~JobDue(r, o)
    BY DEF Awaited, JobDue
  <2>2. ASSUME NEW x \in rows[r], x.out = o PROVE o \in Outs(Solved(r))
    BY <2>1, <2>2, RowHolds DEF RulesInv
  <2>3. ASSUME o \in Outs(Solved(r)) PROVE \E x \in rows[r] : x.out = o
    <3>1. PICK b \in Solved(r) : b.out = o
      BY <2>3 DEF Outs
    <3>2. b \in Bindings[r] /\ b.absent \cap Triples(Visible) = {} /\ b.needs \subseteq Triples(Visible)
      BY DEF Solved, Triples
    <3>3. ASSUME NEW t \in b.needs PROVE t \in Triples(Settled)
      <4>1. PICK g \in Visible : t = Triple[g]
        BY <3>2 DEF Triples
      <4>2. g \in Fact /\ "assert" \in ChangeKind
        BY DEF Visible, TypeOK, FactTypeOK, ChangeKind
      <4>3. DependsOn(r, g)
        BY <3>2, <4>1, <4>2, DueDepends
      <4>4. changes[<<"assert", g>>] \in Nat
        BY <4>2 DEF TypeOK, FactTypeOK
      <4>5. changes[<<"assert", g>>] = 0
        BY <2>1, <4>2, <4>3, <4>4
      <4> QED BY <4>1, <4>5 DEF Triples, Settled
    <3>4. ~NegatedDue(r, o)
      BY <2>1, DueDepends DEF NegatedDue
    <3> QED BY <2>1, <3>1, <3>2, <3>3, <3>4 DEF RulesInv, BindingMet
  <2> QED BY <2>2, <2>3
<1> QED BY <1>1, RulesAlways, PTL

\* Under the same condition, a row that no longer holds is stale as soon as the change
\* that unfounded it is processed, and no recomputation that runs late makes it fresh.
THEOREM UnfoundedRowsAreStale ==
  ASSUME ScopedOverMany
  PROVE  Spec => []UnfoundedIsStale
<1>1. TypeOK /\ RulesInv => UnfoundedIsStale
  BY RowHolds DEF RulesInv, UnfoundedIsStale
<1> QED BY <1>1, RulesAlways, PTL

------------------------------------------------------------------------------
(* The closure *)

\* What few edges join, more edges join.
LEMMA ReachGrows ==
  ASSUME NEW D \in SUBSET (Node \X Node), NEW E \in SUBSET (Node \X Node), D \subseteq E
  PROVE  Reach(D) \subseteq Reach(E)
<1>1. PICK V : Rounds(V, D)
  BY RoundsExist
<1>2. PICK W : Rounds(W, E)
  BY RoundsExist
<1> DEFINE T == {n \in Nat : n \in 0..MaxDepth => V[n] \subseteq W[n]}
<1>3. MaxDepth \in Nat
  BY RuleAssumption
<1>4. \A n \in 0..MaxDepth : V[n] \subseteq Node \X Node
  BY <1>1 DEF Rounds
<1>5. 0 \in T
  <2>1. ASSUME NEW p \in V[0], 0 \in 0..MaxDepth PROVE p \in W[0]
    <3>1. p \in Node \X Node
      BY <1>4, <2>1
    <3>2. p = <<p[1], p[2]>> /\ p[1] \in Node /\ p[2] \in Node
      BY <3>1
    <3> QED BY <1>1, <1>2, <2>1, <3>2 DEF Rounds
  <2> QED BY <2>1
<1>6. ASSUME NEW n \in Nat, n \in T PROVE n + 1 \in T
  <2> SUFFICES ASSUME n + 1 \in 0..MaxDepth, NEW p \in V[n + 1] PROVE p \in W[n + 1]
    OBVIOUS
  <2>1. n \in 0..(MaxDepth - 1) /\ n \in 0..MaxDepth
    BY <1>3
  <2>2. p = <<p[1], p[2]>> /\ p[1] \in Node /\ p[2] \in Node
    BY <1>4
  <2>3. p \in V[n] \/ \E y \in Node : <<p[1], y>> \in V[n] /\ <<y, p[2]>> \in D
    BY <1>1, <2>1, <2>2 DEF Rounds
  <2>4. p \in W[n] \/ \E y \in Node : <<p[1], y>> \in W[n] /\ <<y, p[2]>> \in E
    BY <1>6, <2>1, <2>3
  <2> QED BY <1>2, <2>1, <2>2, <2>4 DEF Rounds
<1>7. MaxDepth \in T
  <2> HIDE DEF T
  <2> QED BY <1>3, <1>5, <1>6, Orders!NatSetInduction
<1> QED BY <1>1, <1>2, <1>3, <1>7 DEF Rounds

\* An edge added joins what reaches its start to what its end reaches, and nothing else.
LEMMA ReachByOneEdge ==
  ASSUME NEW D \in SUBSET (Node \X Node), NEW E \in SUBSET (Node \X Node),
         NEW u \in Node, NEW w \in Node, D \subseteq E \cup {<<u, w>>},
         NEW p \in Reach(D), p[1] # p[2]
  PROVE  /\ p = <<p[1], p[2]>>
         /\ \/ p \in Reach(E)
            \/ /\ p[1] = u \/ <<p[1], u>> \in Reach(E)
               /\ p[2] = w \/ <<w, p[2]>> \in Reach(E)
<1>1. PICK V : Rounds(V, D)
  BY RoundsExist
<1>2. PICK W : Rounds(W, E)
  BY RoundsExist
<1> DEFINE By(n, x, y) == <<x, y>> \in W[n] \/ (<<x, u>> \in W[n] /\ <<w, y>> \in W[n])
           T == {n \in Nat : n \in 0..MaxDepth =>
                   /\ \A x \in Node : <<x, x>> \in W[n]
                   /\ \A x, y \in Node : <<x, y>> \in V[n] => By(n, x, y)}
<1>3. MaxDepth \in Nat
  BY RuleAssumption
<1>4. 0 \in T
  BY <1>1, <1>2 DEF Rounds
<1>5. ASSUME NEW n \in Nat, n \in T PROVE n + 1 \in T
  <2> SUFFICES ASSUME n + 1 \in 0..MaxDepth
               PROVE  /\ \A x \in Node : <<x, x>> \in W[n + 1]
                      /\ \A x, y \in Node : <<x, y>> \in V[n + 1] => By(n + 1, x, y)
    OBVIOUS
  <2>1. n \in 0..(MaxDepth - 1) /\ n \in 0..MaxDepth
    BY <1>3
  <2>2. \A x, z \in Node : <<x, z>> \in W[n] => <<x, z>> \in W[n + 1]
    BY <1>2, <2>1 DEF Rounds
  <2>3. \A x \in Node : <<x, x>> \in W[n + 1]
    BY <1>5, <2>1, <2>2
  <2>4. ASSUME NEW x \in Node, NEW z \in Node, <<x, z>> \in V[n + 1] PROVE By(n + 1, x, z)
    <3>1. CASE <<x, z>> \in V[n]
      BY <1>5, <2>1, <2>2, <3>1
    <3>2. ASSUME NEW y \in Node, <<x, y>> \in V[n], <<y, z>> \in D PROVE By(n + 1, x, z)
      <4>1. By(n, x, y)
        BY <1>5, <2>1, <3>2
      <4>2. CASE <<y, z>> \in E
        <5>1. \A v \in Node : <<v, y>> \in W[n] => <<v, z>> \in W[n + 1]
          BY <1>2, <2>1, <4>2 DEF Rounds
        <5> QED BY <2>2, <4>1, <5>1
      <4>3. CASE y = u /\ z = w
        BY <2>2, <2>3, <4>1, <4>3
      <4> QED BY <3>2, <4>2, <4>3
    <3> QED BY <1>1, <2>1, <2>4, <3>1, <3>2 DEF Rounds
  <2> QED BY <2>3, <2>4
<1>6. MaxDepth \in T
  <2> HIDE DEF T
  <2> QED BY <1>3, <1>4, <1>5, Orders!NatSetInduction
<1>7. p \in V[MaxDepth] /\ p[1] # p[2]
  BY <1>1 DEF Rounds
<1>8. p = <<p[1], p[2]>> /\ p[1] \in Node /\ p[2] \in Node
  <2>1. V[MaxDepth] \subseteq Node \X Node
    BY <1>1, <1>3 DEF Rounds
  <2>2. p \in Node \X Node
    BY <1>7, <2>1
  <2> QED BY <2>2
<1>9. By(MaxDepth, p[1], p[2])
  BY <1>3, <1>6, <1>7, <1>8
<1>10. \A x, y \in Node : <<x, y>> \in W[MaxDepth] /\ x # y => <<x, y>> \in Reach(E)
  BY <1>2 DEF Rounds
<1> QED BY <1>7, <1>8, <1>9, <1>10

\* The facts whose edge is not still to be added.
SettledFacts == {f \in Visible : changes[<<"assert", f>>] = 0 /\ jobs[<<"add", f>>] = 0}

\* The pairs contain all that the edges whose addition is not due join, but for the pair
\* of a node with itself.  incrementalClosureAdd derives such a pair only where the new
\* edge closes a cycle: with the option reflexive a first edge u -> w does not get the pair
\* of u with itself, which a recomputation has, and ClosureComplete fails.
PathsComplete == \A p \in Reach(SettledEdges) : p[1] # p[2] => p \in pairs

\* Every step keeps the settled edges within what the pairs already cover.
LEMMA ClosureStep ==
  ASSUME Inv, Inv', TypeOK, TypeOK', AddIsEdge, PathsComplete, [Next]_vars
  PROVE  PathsComplete'
<1>0. /\ Visible \subseteq Fact /\ Visible' \subseteq Fact
      /\ jobs \in [Job -> Nat] /\ changes \in [ChangeKind \X Fact -> Nat]
  BY DEF Inv, Written, Visible, TypeOK, FactTypeOK
<1>1. /\ SettledEdges = Edges(SettledFacts) /\ SettledEdges' = Edges(SettledFacts')
      /\ SettledFacts \in SUBSET Fact /\ SettledFacts' \in SUBSET Fact
  BY <1>0 DEF SettledEdges, SettledFacts, Edges
<1>2. /\ SettledEdges \in SUBSET (Node \X Node)
      /\ SettledEdges' \in SUBSET (Node \X Node)
  BY <1>1, EdgesAreNodes
\* No new settled edge: nothing more to cover.
<1>3. ASSUME \A f \in SettledFacts' : Triple[f][2] = Base => f \in SettledFacts, pairs \subseteq pairs'
      PROVE  PathsComplete'
  <2>1. SettledEdges' \subseteq SettledEdges
    BY <1>1, <1>3 DEF Edges
  <2>2. Reach(SettledEdges') \subseteq Reach(SettledEdges)
    BY <1>2, <2>1, ReachGrows
  <2> QED BY <1>3, <2>2 DEF PathsComplete
<1>4. "assert" \in ChangeKind /\ \A f \in Fact : <<"assert", f>> \in ChangeKind \X Fact
  BY DEF ChangeKind
<1>5. CASE Mutation
  <2>1. /\ UNCHANGED <<jobs, pairs>>
        /\ \A c \in ChangeKind \X Fact : changes[c] <= changes'[c]
        /\ \A g \in Visible' \ Visible : changes'[<<"assert", g>>] > 0
    BY <1>5, MutationEffects DEF Mutation, TypeOK
  <2>2. ASSUME NEW f \in SettledFacts' PROVE f \in SettledFacts
    <3>1. f \in Visible' /\ f \in Fact /\ changes'[<<"assert", f>>] = 0 /\ jobs[<<"add", f>>] = 0
      BY <1>0, <2>1 DEF SettledFacts
    <3>2. f \in Visible
      BY <2>1, <3>1
    <3>3. changes[<<"assert", f>>] \in Nat /\ changes[<<"assert", f>>] <= 0
      BY <1>0, <1>4, <2>1, <3>1
    <3> QED BY <3>1, <3>2, <3>3 DEF SettledFacts
  <2> QED BY <1>3, <2>1, <2>2
<1>6. ASSUME UNCHANGED <<Visible, changes>>, \A f \in Fact : jobs'[<<"add", f>>] = 0 => jobs[<<"add", f>>] = 0,
             pairs \subseteq pairs'
      PROVE  PathsComplete'
  <2>1. \A f \in SettledFacts' : f \in SettledFacts
    BY <1>0, <1>6 DEF SettledFacts
  <2> QED BY <1>3, <1>6, <2>1
<1>7. CASE RebuildProjections
  <2> DEFINE J == {<<"rule", r>> : r \in Rule} \cup {<<"closure">>}
  <2>1. Schedule(J) /\ UNCHANGED <<pairs, changes, Visible>>
    BY <1>7 DEF RebuildProjections, RebuildCurrent, Visible
  <2>2. \A j \in Job : jobs'[j] = 0 => jobs[j] = 0
    <3> HIDE DEF J
    <3> QED BY <1>0, <2>1, ScheduledJobs
  <2> QED BY <1>6, <2>1, <2>2, JobKinds
<1>8. ASSUME NEW kind \in ChangeKind, NEW f \in Fact, ProcessFactChange(kind, f)
      PROVE  PathsComplete'
  <2> DEFINE c == <<kind, f>>
             closureJob == IF Triple[f][2] # Base THEN {}
                           ELSE IF kind = "assert" THEN {<<"add", f>>} ELSE {<<"closure">>}
             J == {JobFor(r, f) : r \in {r \in Rule : DependsOn(r, f)}} \cup closureJob
  <2>1. /\ changes' = [changes EXCEPT ![c] = changes[c] - 1]
        /\ Schedule(J) /\ Visible' = Visible /\ pairs' = pairs
    BY <1>8 DEF ProcessFactChange, Visible
  <2>2. \A d \in ChangeKind \X Fact : d # c => changes'[d] = changes[d]
    BY <1>0, <2>1
  <2>3. kind = "assert" /\ Triple[f][2] = Base => <<"add", f>> \in J
    OBVIOUS
  <2>4. /\ \A j \in Job : jobs'[j] = 0 => jobs[j] = 0
        /\ kind = "assert" /\ Triple[f][2] = Base => jobs'[<<"add", f>>] > 0
    <3> HIDE DEF J
    <3> QED BY <1>0, <2>1, <2>3, ScheduledJobs, JobKinds
  <2>5. ASSUME NEW g \in SettledFacts', Triple[g][2] = Base PROVE g \in SettledFacts
    <3>1. g \in Visible /\ g \in Fact /\ changes'[<<"assert", g>>] = 0 /\ jobs'[<<"add", g>>] = 0
      BY <1>0, <2>1 DEF SettledFacts
    <3>2. <<"assert", g>> # c
      <4>1. jobs'[<<"add", g>>] \in Nat
        BY <3>1, JobKinds DEF TypeOK
      <4> QED BY <2>4, <2>5, <3>1, <4>1
    <3> QED BY <1>4, <2>2, <2>4, <3>1, <3>2, JobKinds DEF SettledFacts
  <2> QED BY <1>3, <2>1, <2>5
<1>9. ASSUME NEW r \in Rule, NEW O, Recompute(r, O), NEW j \in Job, Done(j),
             \A f \in Fact : <<"add", f>> # j
      PROVE  PathsComplete'
  <2>1. UNCHANGED <<pairs, changes, Visible>>
    BY <1>9 DEF Recompute, factVars, Visible
  <2>2. \A f \in Fact : jobs'[<<"add", f>>] = jobs[<<"add", f>>]
    BY <1>0, <1>9, DoneJob, JobKinds
  <2> QED BY <1>6, <2>1, <2>2
<1>10. ASSUME NEW r \in Rule, RecomputeRule(r) PROVE PathsComplete'
  BY <1>9, <1>10, JobKinds, JobsDiffer DEF RecomputeRule
<1>11. ASSUME NEW r \in Rule, NEW O \in SUBSET Entity, RecomputeRuleForEntities(r, O)
       PROVE  PathsComplete'
  BY <1>9, <1>11, JobKinds, JobsDiffer DEF RecomputeRuleForEntities
<1>12. CASE RecomputeTransitiveClosure
  <2>1. pairs' = Reach(Edges(Visible)) /\ Visible' = Visible
    BY <1>12 DEF RecomputeTransitiveClosure, factVars, Visible
  <2>2. SettledEdges' \subseteq Edges(Visible)
    BY <1>1, <2>1 DEF SettledFacts, Edges
  <2>3. Edges(Visible) \in SUBSET (Node \X Node)
    BY <1>0, EdgesAreNodes
  <2>4. Reach(SettledEdges') \subseteq pairs'
    BY <1>2, <2>1, <2>2, <2>3, ReachGrows
  <2> QED BY <2>4 DEF PathsComplete
<1>13. ASSUME NEW f \in Fact, IncrementalClosureAdd(f) PROVE PathsComplete'
  <2> DEFINE u == Triple[f][1]
             w == Triple[f][3]
  <2>1. /\ Done(<<"add", f>>) /\ pairs' = pairs \cup Added(f)
        /\ UNCHANGED <<changes, Visible>>
    BY <1>13 DEF IncrementalClosureAdd, factVars, Visible
  <2>2. Triple[f][2] = Base /\ \A g \in Fact : g # f => jobs'[<<"add", g>>] = jobs[<<"add", g>>]
    <3>1. \A g \in Fact : g # f => <<"add", g>> # <<"add", f>>
      OBVIOUS
    <3> QED BY <1>0, <2>1, <3>1, DoneJob, JobKinds DEF AddIsEdge
  <2>3. u \in Node /\ w \in Node
    BY <2>2 DEF Node
  <2>4. SettledEdges' \subseteq SettledEdges \cup {<<u, w>>}
    <3>1. \A g \in SettledFacts' : g = f \/ g \in SettledFacts
      BY <1>1, <2>1, <2>2 DEF SettledFacts
    <3> QED BY <1>1, <3>1 DEF Edges
  <2>5. ASSUME NEW p \in Reach(SettledEdges'), p[1] # p[2] PROVE p \in pairs'
    <3>1. /\ p = <<p[1], p[2]>>
          /\ \/ p \in Reach(SettledEdges)
             \/ /\ p[1] = u \/ <<p[1], u>> \in Reach(SettledEdges)
                /\ p[2] = w \/ <<w, p[2]>> \in Reach(SettledEdges)
      <4> HIDE DEF u, w
      <4> QED BY <1>2, <2>3, <2>4, <2>5, ReachByOneEdge
    <3>2. CASE p \in Reach(SettledEdges)
      BY <2>1, <2>5, <3>2 DEF PathsComplete
    <3>3. CASE /\ p[1] = u \/ <<p[1], u>> \in pairs
               /\ p[2] = w \/ <<w, p[2]>> \in pairs
      <4> DEFINE preds == {q[1] : q \in {q \in pairs : q[2] = u}} \cup {u}
                 succs == {q[2] : q \in {q \in pairs : q[1] = w}} \cup {w}
      <4>1. \A x, y : <<x, y>>[1] = x /\ <<x, y>>[2] = y
        OBVIOUS
      <4>2. p[1] \in preds /\ p[2] \in succs
        BY <3>3, <4>1
      <4>3. Added(f) = {q \in preds \X succs : q[1] # q[2] \/ Reflexive}
        BY DEF Added
      <4> HIDE DEF preds, succs
      <4> QED BY <2>1, <2>5, <3>1, <4>2, <4>3
    <3>4. /\ <<p[1], u>> \in Reach(SettledEdges) => p[1] = u \/ <<p[1], u>> \in pairs
          /\ <<w, p[2]>> \in Reach(SettledEdges) => p[2] = w \/ <<w, p[2]>> \in pairs
      BY DEF PathsComplete
    <3> QED BY <3>1, <3>2, <3>3, <3>4
  <2> QED BY <2>5 DEF PathsComplete
<1>14. CASE UNCHANGED vars
  BY <1>6, <1>14 DEF vars, factVars, Visible
<1> QED BY <1>5, <1>7, <1>8, <1>10, <1>11, <1>12, <1>13, <1>14 DEF Next, Scheduled

\* Without edges nothing is reached.
LEMMA NothingReached == Reach({}) = {}
<1> SUFFICES ASSUME NEW p \in Reach({}) PROVE FALSE
  OBVIOUS
<1>1. PICK W : Rounds(W, {})
  BY RoundsExist
<1> DEFINE T == {n \in Nat : n \in 0..MaxDepth => \A x, y \in Node : <<x, y>> \in W[n] => x = y}
<1>2. MaxDepth \in Nat
  BY RuleAssumption
<1>3. 0 \in T
  BY <1>1 DEF Rounds
<1>4. ASSUME NEW n \in Nat, n \in T PROVE n + 1 \in T
  <2> SUFFICES ASSUME n + 1 \in 0..MaxDepth, NEW x \in Node, NEW y \in Node, <<x, y>> \in W[n + 1]
               PROVE  x = y
    OBVIOUS
  <2>1. n \in 0..(MaxDepth - 1) /\ n \in 0..MaxDepth
    BY <1>2
  <2>2. <<x, y>> \in W[n]
    BY <1>1, <2>1 DEF Rounds
  <2> QED BY <1>4, <2>1, <2>2
<1>5. MaxDepth \in T
  <2> HIDE DEF T
  <2> QED BY <1>2, <1>3, <1>4, Orders!NatSetInduction
<1>6. p \in W[MaxDepth] /\ p[1] # p[2] /\ W[MaxDepth] \subseteq Node \X Node
  BY <1>1, <1>2 DEF Rounds
<1>7. p = <<p[1], p[2]>> /\ p[1] \in Node /\ p[2] \in Node
  BY <1>6
<1> QED BY <1>2, <1>5, <1>6, <1>7

\* Whatever additions, recomputations and writes interleave, no pair of two nodes joined
\* by edges whose addition is not due is missing, reflexive or not (incrementalClosureAdd,
\* recomputeTransitiveClosure).
THEOREM PathsNeverMissing == Spec => []PathsComplete
<1>1. Init => PathsComplete
  <2> SUFFICES ASSUME Init, NEW p \in Reach(SettledEdges) PROVE FALSE
    BY DEF PathsComplete
  <2>1. SettledEdges = {}
    BY DEF Init, FactInit, SettledEdges, Visible, Edges
  <2>2. p \in Reach({})
    BY <2>1
  <2> QED BY <2>2, NothingReached
<1>2. Inv /\ Inv' /\ TypeOK /\ TypeOK' /\ AddIsEdge /\ PathsComplete /\ [Next]_vars
        => PathsComplete'
  BY ClosureStep
<1> QED BY <1>1, <1>2, TypesAlways, PTL DEF Spec

\* For a closure rule that is not reflexive, that is all there is to reach.
THEOREM ClosureNeverShort ==
  ASSUME ~Reflexive
  PROVE  Spec => []ClosureComplete
<1>1. Inv /\ TypeOK /\ PathsComplete => ClosureComplete
  <2> SUFFICES ASSUME Inv, TypeOK, PathsComplete, NEW p \in Reach(SettledEdges)
               PROVE  p \in pairs
    BY DEF ClosureComplete
  <2>1. SettledEdges \in SUBSET (Node \X Node)
    <3>1. SettledFacts \in SUBSET Fact
      BY DEF Inv, Written, Visible, SettledFacts
    <3>2. SettledEdges = Edges(SettledFacts)
      BY DEF SettledEdges, SettledFacts
    <3> QED BY <3>1, <3>2, EdgesAreNodes
  <2>2. PICK W : Rounds(W, SettledEdges)
    BY <2>1, RoundsExist
  <2>3. p[1] # p[2]
    BY <2>2 DEF Rounds
  <2> QED BY <2>3 DEF PathsComplete
<1> QED BY <1>1, PathsNeverMissing, TypesAlways, PTL
==============================================================================
