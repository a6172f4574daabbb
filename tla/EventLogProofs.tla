---------------------------- MODULE EventLogProofs ----------------------------
(* The replicated log keeps what it promises, for any replicas and events.     *)
EXTENDS EventLog, TLAPS

\* No two replicas author the same event: an event names its author.
Disjoint == \A r, q \in Replica : r # q => EventsBy[r] \cap EventsBy[q] = {}

\* Logs hold events of the system and nothing else.
THEOREM LogTypeCorrect == Spec => []TypeOK
<1>1. Init => TypeOK
  BY DEF Init, TypeOK
<1>2. TypeOK /\ [Next]_log => TypeOK'
  <2> SUFFICES ASSUME TypeOK, [Next]_log PROVE TypeOK'
    OBVIOUS
  <2>1. ASSUME NEW r \in Replica, Author(r) PROVE TypeOK'
    BY <2>1 DEF Author, TypeOK, Event
  <2>2. ASSUME NEW r \in Replica, NEW q \in Replica, Learn(r, q) PROVE TypeOK'
    BY <2>2 DEF Learn, TypeOK
  <2>3. CASE UNCHANGED log
    BY <2>3 DEF TypeOK
  <2> QED BY <2>1, <2>2, <2>3 DEF Next
<1> QED BY <1>1, <1>2, PTL DEF Spec

\* In every step every log only grows.
LEMMA LogGrows ==
  ASSUME TypeOK, Next
  PROVE  \A r \in Replica : log[r] \subseteq log'[r]
<1>1. ASSUME NEW r \in Replica, Author(r)
      PROVE  \A p \in Replica : log[p] \subseteq log'[p]
  BY <1>1 DEF Author, TypeOK
<1>2. ASSUME NEW r \in Replica, NEW q \in Replica, Learn(r, q)
      PROVE  \A p \in Replica : log[p] \subseteq log'[p]
  BY <1>2 DEF Learn, TypeOK
<1> QED BY <1>1, <1>2 DEF Next

\* A replica never loses an event (log.ts: events are only ever added).
THEOREM LogNeverForgets == Spec => NeverForgets
<1>1. TypeOK /\ [Next]_log => [\A r \in Replica : log[r] \subseteq log'[r]]_log
  BY LogGrows
<1> QED BY <1>1, LogTypeCorrect, PTL DEF Spec, NeverForgets

\* Whatever a replica holds, its author holds: learning never runs ahead of
\* authoring, however events travel.
THEOREM LogHeldByAuthor == Disjoint /\ Spec => []HeldByAuthor
<1> SUFFICES ASSUME Disjoint PROVE Spec => []HeldByAuthor
  OBVIOUS
<1>1. Init => HeldByAuthor
  BY DEF Init, HeldByAuthor
<1>2. TypeOK /\ HeldByAuthor /\ [Next]_log => HeldByAuthor'
  <2> SUFFICES ASSUME TypeOK, HeldByAuthor, [Next]_log PROVE HeldByAuthor'
    OBVIOUS
  <2>1. ASSUME NEW r \in Replica, Author(r) PROVE HeldByAuthor'
    <3>1. PICK e \in EventsBy[r] : log' = [log EXCEPT ![r] = @ \cup {e}]
      BY <2>1 DEF Author
    <3>2. SUFFICES ASSUME NEW p \in Replica, NEW q \in Replica,
                          NEW x \in log'[q], x \in EventsBy[p]
                   PROVE  x \in log'[p]
      BY DEF HeldByAuthor
    <3>3. log[p] \subseteq log'[p]
      BY <3>1 DEF TypeOK
    <3>4. CASE x \in log[q]
      BY <3>2, <3>3, <3>4 DEF HeldByAuthor
    <3>5. CASE x \notin log[q]
      <4>1. x = e /\ q = r
        BY <3>1, <3>2, <3>5 DEF TypeOK
      <4>2. p = r
        BY <3>2, <4>1 DEF Disjoint
      <4> QED BY <3>2, <4>1, <4>2
    <3> QED BY <3>4, <3>5
  <2>2. ASSUME NEW r \in Replica, NEW s \in Replica, Learn(r, s) PROVE HeldByAuthor'
    <3>1. PICK S \in SUBSET log[s] : log' = [log EXCEPT ![r] = @ \cup S]
      BY <2>2 DEF Learn
    <3>2. SUFFICES ASSUME NEW p \in Replica, NEW q \in Replica,
                          NEW x \in log'[q], x \in EventsBy[p]
                   PROVE  x \in log'[p]
      BY DEF HeldByAuthor
    <3>3. log[p] \subseteq log'[p]
      BY <3>1 DEF TypeOK
    <3>4. x \in log[q] \/ x \in log[s]
      BY <3>1, <3>2 DEF TypeOK
    <3> QED BY <3>2, <3>3, <3>4 DEF HeldByAuthor
  <2>3. CASE UNCHANGED log
    BY <2>3 DEF HeldByAuthor
  <2> QED BY <2>1, <2>2, <2>3 DEF Next
<1> QED BY <1>1, <1>2, LogTypeCorrect, PTL DEF Spec
==============================================================================
