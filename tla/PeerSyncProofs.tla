---------------------------- MODULE PeerSyncProofs ----------------------------
(* PeerSync, for every network of replicas, every number of events and of      *)
(* losses: the values stay in their ranges, nothing travels that is not in a   *)
(* store, and the sessions implement the replicated log.                       *)
EXTENDS PeerSync, TLAPS

Orders == INSTANCE Orders

\* What an event is made of.
LEMMA EventFields ==
  /\ \A e \in Event : e.r \in Replica /\ e.seq \in 1..MaxSeq[e.r] /\ e \in EventsBy[e.r]
  /\ \A o \in Replica : EventsBy[o] \subseteq Event
  /\ \A o \in Replica : \A e \in EventsBy[o] : e.r = o
  /\ \A o \in Replica : \A n \in 1..MaxSeq[o] : [r |-> o, seq |-> n] \in EventsBy[o]
<1>1. \A o \in Replica : EventsBy[o] = [r : {o}, seq : 1..MaxSeq[o]]
  BY DEF EventsBy
<1>2. \A o \in Replica : \A e \in EventsBy[o] :
        e.r = o /\ e.seq \in 1..MaxSeq[o]
  <2> SUFFICES ASSUME NEW o \in Replica, NEW e \in EventsBy[o]
               PROVE  e.r = o /\ e.seq \in 1..MaxSeq[o]
    OBVIOUS
  <2>1. e \in [r : {o}, seq : 1..MaxSeq[o]]
    BY <1>1
  <2> QED BY <2>1
<1>3. \A o \in Replica : \A n \in 1..MaxSeq[o] : [r |-> o, seq |-> n] \in EventsBy[o]
  BY <1>1
<1>4. \A e \in Event : \E o \in Replica : e \in EventsBy[o]
  BY DEF Event
<1>5. \A o \in Replica : EventsBy[o] \subseteq Event
  BY DEF Event
<1> QED BY <1>2, <1>3, <1>4, <1>5

\* A version vector is a number per replica, at least that of every event.
LEMMA VectorOf ==
  ASSUME NEW S \in SUBSET Event
  PROVE  /\ versionVector(S) \in Vector
         /\ \A e \in S : e.seq <= versionVector(S)[e.r]
<1> DEFINE seqs(o) == {0} \cup {e.seq : e \in {f \in S : f.r = o}}
<1>1. ASSUME NEW o \in Replica
      PROVE  /\ versionVector(S)[o] \in Nat
             /\ \A m \in seqs(o) : m <= versionVector(S)[o]
  <2>1. MaxSeq[o] \in Nat
    BY BoundAssumption
  <2>2. seqs(o) \in SUBSET (0..MaxSeq[o])
    BY <2>1, EventFields
  <2>3. \E n \in seqs(o) : \A m \in seqs(o) : m <= n
    <3>1. seqs(o) # {}
      OBVIOUS
    <3> HIDE DEF seqs
    <3> QED BY <2>1, <2>2, <3>1, Orders!LargestNatural
  <2>4. versionVector(S)[o] = CHOOSE n \in seqs(o) : \A m \in seqs(o) : m <= n
    BY DEF versionVector
  <2>5. /\ versionVector(S)[o] \in seqs(o)
        /\ \A m \in seqs(o) : m <= versionVector(S)[o]
    <3> HIDE DEF seqs
    <3> QED BY <2>3, <2>4
  <2> QED BY <2>1, <2>2, <2>5
<1>2. versionVector(S) \in Vector
  <2>1. versionVector(S) = [o \in Replica |-> versionVector(S)[o]]
    BY DEF versionVector
  <2> QED BY <1>1, <2>1 DEF Vector
<1>3. ASSUME NEW e \in S PROVE e.seq <= versionVector(S)[e.r]
  <2>1. e.r \in Replica /\ e.seq \in seqs(e.r)
    BY EventFields
  <2> QED BY <1>1, <2>1
<1> QED BY <1>2, <1>3

\* What messages, tasks and merges are made of.
LEMMA Shapes ==
  /\ \A m \in Message : m.type # "hello" => m.events \in SUBSET Event
  /\ \A S \in SUBSET Event : /\ [type |-> "events", events |-> S] \in Message
                             /\ [type |-> "delta", events |-> S] \in Message
  /\ \A S \in SUBSET Event : [type |-> "hello", vv |-> versionVector(S)] \in Message
  /\ \A b \in Replica, m \in Message : Only(b, m) \in Task /\ Except(b, m) \in Task
<1>1. \A m \in Message : m.type # "hello" => m.events \in SUBSET Event
  BY DEF Message
<1>2. \A S \in SUBSET Event : /\ [type |-> "events", events |-> S] \in Message
                              /\ [type |-> "delta", events |-> S] \in Message
  BY DEF Message
<1>3. ASSUME NEW S \in SUBSET Event
      PROVE  [type |-> "hello", vv |-> versionVector(S)] \in Message
  <2>1. versionVector(S) \in Vector
    BY VectorOf
  <2> HIDE DEF Message
  <2>2. [type |-> "hello", vv |-> versionVector(S)] \in [type : {"hello"}, vv : Vector]
    BY <2>1
  <2> QED BY <2>2 DEF Message
<1>4. ASSUME NEW b \in Replica, NEW m \in Message
      PROVE  Only(b, m) \in Task /\ Except(b, m) \in Task
  BY DEF Only, Except, Task
<1> QED BY <1>1, <1>2, <1>3, <1>4

\* Losing a channel changes only which peer a task or a merge is about.
LEMMA PartedShapes ==
  ASSUME NEW r \in Replica, NEW b \in Replica
  PROVE  /\ \A t \in Task : Parted(t, r, b) \in Task /\ Parted(t, r, b).msg = t.msg
         /\ \A m \in Merge : /\ Parted(m, r, b) \in Merge
                             /\ Parted(m, r, b).batch = m.batch
                             /\ Parted(m, r, b).left = m.left
<1>1. ASSUME NEW t \in Task
      PROVE  Parted(t, r, b) \in Task /\ Parted(t, r, b).msg = t.msg
  BY DEF Parted, Task
<1>2. ASSUME NEW m \in Merge
      PROVE  /\ Parted(m, r, b) \in Merge
             /\ Parted(m, r, b).batch = m.batch
             /\ Parted(m, r, b).left = m.left
  BY DEF Parted, Merge
<1> QED BY <1>1, <1>2

\* What a channel's loss leaves of the tasks and merges of a replica.
LEMMA WithoutShapes ==
  ASSUME TypeOK, NEW r \in Replica, NEW b \in Replica
  PROVE  /\ TasksWithout(r, b) \in SUBSET Task
         /\ \A t \in TasksWithout(r, b) : \E s \in tasks[r] : t.msg = s.msg
         /\ MergesWithout(r, b) \in SUBSET Merge
         /\ \A m \in MergesWithout(r, b) :
              \E n \in merges[r] : m.batch = n.batch /\ m.left = n.left
<1>1. tasks[r] \in SUBSET Task /\ merges[r] \in SUBSET Merge
  BY DEF TypeOK
<1>2. ASSUME NEW t \in TasksWithout(r, b)
      PROVE  t \in Task /\ \E s \in tasks[r] : t.msg = s.msg
  <2>1. PICK s \in tasks[r] : t = Parted(s, r, b)
    BY DEF TasksWithout
  <2> QED BY <1>1, <2>1, PartedShapes
<1>3. ASSUME NEW m \in MergesWithout(r, b)
      PROVE  m \in Merge /\ \E n \in merges[r] : m.batch = n.batch /\ m.left = n.left
  <2>1. PICK n \in merges[r] : m = Parted(n, r, b)
    BY DEF MergesWithout
  <2> QED BY <1>1, <2>1, PartedShapes
<1> QED BY <1>2, <1>3

\* A link joins replicas.
LEMMA LinkEnds == \A l \in Link : l \subseteq Replica
<1> SUFFICES ASSUME NEW l \in Link PROVE l \subseteq Replica
  OBVIOUS
<1>1. PICK a \in Replica, b \in Replica : l = {a, b}
  BY LinkAssumption
<1> QED BY <1>1

------------------------------------------------------------------------------
\* Every step keeps every variable in its range.
LEMMA TypeStep == TypeOK /\ [Next]_vars => TypeOK'
<1> SUFFICES ASSUME TypeOK, [Next]_vars PROVE TypeOK'
  OBVIOUS
<1> USE DEF TypeOK
<1>1. ASSUME NEW r \in Replica, Author(r) PROVE TypeOK'
  <2> DEFINE e == [r |-> r, seq |-> seq[r] + 1]
  <2>1. MaxSeq[r] \in Nat
    BY BoundAssumption
  <2>2. seq[r] + 1 \in 1..MaxSeq[r]
    BY <1>1, <2>1 DEF Author
  <2>3. e \in Event
    BY <2>2, EventFields
  <2>4. Except(r, [type |-> "events", events |-> {e}]) \in Task
    <3>1. {e} \in SUBSET Event
      BY <2>3
    <3> HIDE DEF e
    <3> QED BY <3>1, Shapes
  <2>5. store' \in [Replica -> SUBSET Event]
    <3>1. store' = [store EXCEPT ![r] = @ \cup {e}]
      BY <1>1 DEF Author
    <3> QED BY <2>3, <3>1
  <2>6. seq' \in [Replica -> Nat] /\ \A q \in Replica : seq'[q] <= MaxSeq[q]
    <3>1. seq' = [seq EXCEPT ![r] = @ + 1]
      BY <1>1 DEF Author
    <3>2. \A q \in Replica : seq'[q] = IF q = r THEN seq[r] + 1 ELSE seq[q]
      BY <3>1
    <3> QED BY <2>2, <3>1, <3>2
  <2>7. tasks' \in [Replica -> SUBSET Task]
    <3>1. tasks' = [tasks EXCEPT ![r] =
                      @ \cup {Except(r, [type |-> "events", events |-> {e}])}]
      BY <1>1 DEF Author
    <3> QED BY <2>4, <3>1
  <2>8. UNCHANGED <<open, chan, merges, failed, losses>>
    BY <1>1 DEF Author
  <2> QED BY <2>5, <2>6, <2>7, <2>8
<1>2. ASSUME NEW r \in Replica, NEW t \in tasks[r], Send(r, t) PROVE TypeOK'
  <2>1. t.msg \in Message
    BY DEF Task
  <2>2. tasks' \in [Replica -> SUBSET Task]
    BY <1>2 DEF Send
  <2>3. chan' \in [Replica -> [Replica -> Seq(Message)]]
    <3>1. ASSUME NEW b \in Replica PROVE Append(chan[r][b], t.msg) \in Seq(Message)
      <4> HIDE DEF Message
      <4> QED BY <2>1
    <3>2. chan' = [chan EXCEPT ![r] = [b \in Replica |->
                     IF b \in Recipients(r, t) THEN Append(chan[r][b], t.msg)
                                               ELSE chan[r][b]]]
      BY <1>2 DEF Send
    <3>3. [b \in Replica |-> IF b \in Recipients(r, t) THEN Append(chan[r][b], t.msg)
                                                      ELSE chan[r][b]]
            \in [Replica -> Seq(Message)]
      BY <3>1
    <3> QED BY <3>2, <3>3
  <2>4. UNCHANGED <<store, seq, open, merges, failed, losses>>
    BY <1>2 DEF Send
  <2> QED BY <2>2, <2>3, <2>4
<1>3. ASSUME NEW r \in Replica, NEW m \in merges[r], MergeOne(r, m) PROVE TypeOK'
  <2>1. m \in Merge
    OBVIOUS
  <2>2. PICK e \in m.left :
          LET n == [m EXCEPT !.left = @ \ {e}, !.new = @ \/ e \notin store[r]]
              done == n.left = {}
          IN  /\ store' = [store EXCEPT ![r] = @ \cup {e}]
              /\ merges' = [merges EXCEPT ![r] = (@ \ {m}) \cup IF done THEN {} ELSE {n}]
              /\ tasks' = [tasks EXCEPT ![r] = @ \cup
                   IF done /\ n.new
                     THEN {Except(m.peer, [type |-> "events", events |-> m.batch])}
                     ELSE {}]
    BY <1>3 DEF MergeOne
  <2>3. e \in Event /\ m.batch \in SUBSET Event /\ m.peer \in Replica
    BY <2>1 DEF Merge
  <2>4. [m EXCEPT !.left = @ \ {e}, !.new = @ \/ e \notin store[r]] \in Merge
    BY <2>1 DEF Merge
  <2>5. Except(m.peer, [type |-> "events", events |-> m.batch]) \in Task
    BY <2>3, Shapes
  <2>6. store' \in [Replica -> SUBSET Event]
    BY <2>2, <2>3
  <2>7. merges' \in [Replica -> SUBSET Merge]
    BY <2>2, <2>4
  <2>8. tasks' \in [Replica -> SUBSET Task]
    BY <2>2, <2>5
  <2>9. UNCHANGED <<seq, open, chan, failed, losses>>
    BY <1>3 DEF MergeOne
  <2> QED BY <2>6, <2>7, <2>8, <2>9
<1>4. ASSUME NEW r \in Replica, Restart(r) PROVE TypeOK'
  <2>1. chan' \in [Replica -> [Replica -> Seq(Message)]]
    BY <1>4 DEF Restart
  <2>2. tasks' \in [Replica -> SUBSET Task]
    BY <1>4, WithoutShapes DEF Restart
  <2>3. merges' \in [Replica -> SUBSET Merge]
    BY <1>4, WithoutShapes DEF Restart
  <2>4. open' \subseteq Link /\ failed' \subseteq open' /\ losses' \in Nat
    BY <1>4 DEF Restart
  <2>5. UNCHANGED <<store, seq>>
    BY <1>4 DEF Restart
  <2> QED BY <2>1, <2>2, <2>3, <2>4, <2>5
<1>5. ASSUME NEW l \in Link, Open(l) PROVE TypeOK'
  <2>1. l \subseteq Replica
    BY LinkEnds
  <2>2. ASSUME NEW r \in Replica, NEW b \in l PROVE Only(b, Hello(r)) \in Task
    <3>1. store[r] \in SUBSET Event
      OBVIOUS
    <3>2. Hello(r) \in Message
      BY <3>1, Shapes DEF Hello
    <3> QED BY <2>1, <3>2, Shapes
  <2>3. tasks' \in [Replica -> SUBSET Task]
    BY <1>5, <2>2 DEF Open
  <2>4. open' \subseteq Link /\ failed \subseteq open'
    BY <1>5 DEF Open
  <2>5. UNCHANGED <<store, seq, chan, merges, failed, losses>>
    BY <1>5 DEF Open
  <2> QED BY <2>3, <2>4, <2>5
<1>6. ASSUME NEW l \in Link, Close(l) PROVE TypeOK'
  <2>1. PICK a, b \in l :
          /\ chan' = [chan EXCEPT ![a][b] = <<>>, ![b][a] = <<>>]
          /\ tasks' = [tasks EXCEPT ![a] = TasksWithout(a, b), ![b] = TasksWithout(b, a)]
          /\ merges' = [merges EXCEPT ![a] = MergesWithout(a, b),
                                     ![b] = MergesWithout(b, a)]
    BY <1>6 DEF Close
  <2>2. a \in Replica /\ b \in Replica
    BY LinkEnds
  <2>3. chan' \in [Replica -> [Replica -> Seq(Message)]]
    <3> DEFINE c == [chan EXCEPT ![a][b] = <<>>]
    <3>1. <<>> \in Seq(Message)
      <4> HIDE DEF Message
      <4> QED OBVIOUS
    <3>2. c \in [Replica -> [Replica -> Seq(Message)]]
      BY <2>2, <3>1
    <3>3. chan' = [c EXCEPT ![b][a] = <<>>]
      BY <2>1
    <3> HIDE DEF c
    <3> QED BY <2>2, <3>1, <3>2, <3>3
  <2>4. tasks' \in [Replica -> SUBSET Task]
    BY <2>1, <2>2, WithoutShapes
  <2>5. merges' \in [Replica -> SUBSET Merge]
    BY <2>1, <2>2, WithoutShapes
  <2>6. open' \subseteq Link /\ failed' \subseteq open' /\ losses' \in Nat
    BY <1>6 DEF Close
  <2>7. UNCHANGED <<store, seq>>
    BY <1>6 DEF Close
  <2> QED BY <2>3, <2>4, <2>5, <2>6, <2>7
<1>7. ASSUME NEW a \in Replica, NEW b \in Replica, NEW T, Arrives(a, b, T)
      PROVE  /\ Head(chan[a][b]) \in Message
             /\ chan' \in [Replica -> [Replica -> Seq(Message)]]
  <2>1. chan[a][b] \in Seq(Message) /\ chan[a][b] # <<>>
    BY <1>7 DEF Arrives
  <2>2. Head(chan[a][b]) \in Message /\ Tail(chan[a][b]) \in Seq(Message)
    <3> HIDE DEF Message
    <3> QED BY <2>1
  <2>3. chan' = [chan EXCEPT ![a][b] = Tail(@)]
    BY <1>7 DEF Arrives
  <2> QED BY <2>2, <2>3
<1>8. ASSUME NEW a \in Replica, NEW b \in Replica, HandleHello(a, b) PROVE TypeOK'
  <2> DEFINE delta == deltaSince(store[b], Head(chan[a][b]).vv)
  <2>1. chan' \in [Replica -> [Replica -> Seq(Message)]]
    BY <1>7, <1>8 DEF HandleHello
  <2>2. delta \in SUBSET Event
    BY DEF deltaSince
  <2>3. Only(a, [type |-> "delta", events |-> delta]) \in Task
    <3> HIDE DEF delta
    <3> QED BY <2>2, Shapes
  <2>4. tasks' \in [Replica -> SUBSET Task]
    <3>1. tasks' = [tasks EXCEPT ![b] = @ \cup
             (IF delta = {} THEN {} ELSE {Only(a, [type |-> "delta", events |-> delta])})]
      BY <1>8 DEF HandleHello
    <3> HIDE DEF delta
    <3> QED BY <2>3, <3>1
  <2>5. UNCHANGED <<store, seq, open, merges, failed, losses>>
    BY <1>8 DEF HandleHello
  <2> QED BY <2>1, <2>4, <2>5
<1>9. ASSUME NEW a \in Replica, NEW b \in Replica, HandleEvents(a, b) PROVE TypeOK'
  <2> DEFINE batch == Head(chan[a][b]).events
  <2>1. chan' \in [Replica -> [Replica -> Seq(Message)]]
    BY <1>7, <1>9 DEF HandleEvents
  <2>2. batch \in SUBSET Event
    <3>1. Head(chan[a][b]) \in Message /\ Head(chan[a][b]).type # "hello"
      BY <1>7, <1>9 DEF HandleEvents, Arrives
    <3> QED BY <3>1, Shapes
  <2>3. [peer |-> a, batch |-> batch, left |-> batch, new |-> FALSE] \in Merge
    BY <2>2 DEF Merge
  <2>4. merges' \in [Replica -> SUBSET Merge]
    BY <1>9, <2>3 DEF HandleEvents
  <2>5. UNCHANGED <<store, seq, open, tasks, failed, losses>>
    BY <1>9 DEF HandleEvents
  <2> QED BY <2>1, <2>4, <2>5
<1>10. CASE UNCHANGED vars
  BY <1>10 DEF vars
<1>11. ASSUME NEW r \in Replica, NEW m \in merges[r], MergeFails(r, m) PROVE TypeOK'
  <2>1. store' \in [Replica -> SUBSET Event]
    BY <1>11 DEF MergeFails
  <2>2. merges' \in [Replica -> SUBSET Merge]
    BY <1>11 DEF MergeFails
  <2>3. failed' \subseteq open' /\ losses' \in Nat
    BY <1>11 DEF MergeFails
  <2>4. UNCHANGED <<seq, open, chan, tasks>>
    BY <1>11 DEF MergeFails
  <2> QED BY <2>1, <2>2, <2>3, <2>4
<1> QED BY <1>1, <1>2, <1>3, <1>4, <1>5, <1>6, <1>8, <1>9, <1>10, <1>11
       DEF Next, Work, Deliver

------------------------------------------------------------------------------
\* No step takes an event out of a store.
LEMMA StoreGrows ==
  ASSUME TypeOK, [Next]_vars
  PROVE  \A r \in Replica : store[r] \subseteq store'[r]
<1> USE DEF TypeOK
<1>1. ASSUME NEW r \in Replica, Author(r)
      PROVE  \A q \in Replica : store[q] \subseteq store'[q]
  BY <1>1 DEF Author
<1>2. ASSUME NEW r \in Replica, NEW m \in merges[r], MergeOne(r, m)
      PROVE  \A q \in Replica : store[q] \subseteq store'[q]
  BY <1>2 DEF MergeOne
<1>3. ASSUME UNCHANGED store
      PROVE  \A q \in Replica : store[q] \subseteq store'[q]
  BY <1>3
<1>4. CASE \E r \in Replica : Restart(r) \/ \E t \in tasks[r] : Send(r, t)
  BY <1>3, <1>4 DEF Restart, Send
<1>5. CASE \E l \in Link : Open(l) \/ Close(l)
  BY <1>3, <1>5 DEF Open, Close
<1>6. CASE \E a, b \in Replica : HandleHello(a, b) \/ HandleEvents(a, b)
  BY <1>3, <1>6 DEF HandleHello, HandleEvents
<1>7. CASE UNCHANGED vars
  BY <1>3, <1>7 DEF vars
<1>8. ASSUME NEW r \in Replica, NEW m \in merges[r], MergeFails(r, m)
      PROVE  \A q \in Replica : store[q] \subseteq store'[q]
  BY <1>8 DEF MergeFails
<1> QED BY <1>1, <1>2, <1>4, <1>5, <1>6, <1>7, <1>8 DEF Next, Work, Deliver

\* What is to be sent stays in the sender's store: a task is old, or is about what
\* its replica just stored, finished merging, or read from its store.
LEMMA TasksHeldStep ==
  ASSUME TypeOK, SentIsHeld, [Next]_vars
  PROVE  TasksHeld'
<1> USE DEF TypeOK
<1>1. SUFFICES ASSUME NEW q \in Replica, NEW t \in tasks'[q]
               PROVE  HeldIn(t.msg, store'[q])
  BY DEF TasksHeld
<1>2. store[q] \subseteq store'[q]
  BY StoreGrows
<1>3. ASSUME NEW s \in tasks[q], t.msg = s.msg PROVE HeldIn(t.msg, store'[q])
  <2>1. HeldIn(s.msg, store[q])
    BY DEF SentIsHeld, TasksHeld
  <2> QED BY <1>2, <1>3, <2>1 DEF HeldIn
<1>4. ASSUME NEW r \in Replica, Author(r) PROVE HeldIn(t.msg, store'[q])
  <2> DEFINE e == [r |-> r, seq |-> seq[r] + 1]
  <2>1. /\ tasks' = [tasks EXCEPT
              ![r] = @ \cup {Except(r, [type |-> "events", events |-> {e}])}]
        /\ store' = [store EXCEPT ![r] = @ \cup {e}]
    BY <1>4 DEF Author
  <2>2. CASE t \in tasks[q]
    BY <1>3, <2>2
  <2>3. CASE t \notin tasks[q]
    <3>1. q = r /\ t = Except(r, [type |-> "events", events |-> {e}])
      BY <2>1, <2>3
    <3>2. t.msg.events = {e}
      BY <3>1 DEF Except
    <3>3. e \in store'[q]
      BY <2>1, <3>1
    <3> QED BY <3>2, <3>3 DEF HeldIn
  <2> QED BY <2>2, <2>3
<1>5. ASSUME NEW r \in Replica, NEW s \in tasks[r], Send(r, s)
      PROVE  HeldIn(t.msg, store'[q])
  <2>1. t \in tasks[q]
    BY <1>5 DEF Send
  <2> QED BY <1>3, <2>1
<1>6. ASSUME NEW r \in Replica, NEW m \in merges[r], MergeOne(r, m)
      PROVE  HeldIn(t.msg, store'[q])
  <2>1. PICK e \in m.left :
          /\ store' = [store EXCEPT ![r] = @ \cup {e}]
          /\ LET n == [m EXCEPT !.left = @ \ {e}, !.new = @ \/ e \notin store[r]]
                 done == n.left = {}
             IN tasks' = [tasks EXCEPT ![r] = @ \cup
                  IF done /\ n.new
                    THEN {Except(m.peer, [type |-> "events", events |-> m.batch])}
                    ELSE {}]
    BY <1>6 DEF MergeOne
  <2>2. m.left \subseteq m.batch /\ m.batch \ m.left \subseteq store[r]
    BY DEF SentIsHeld, MergesHeld
  <2>3. CASE t \in tasks[q]
    BY <1>3, <2>3
  <2>4. CASE t \notin tasks[q]
    <3>1. /\ q = r /\ t = Except(m.peer, [type |-> "events", events |-> m.batch])
          /\ [m EXCEPT !.left = @ \ {e}, !.new = @ \/ e \notin store[r]].left = {}
      BY <2>1, <2>4
    <3>2. m.left \ {e} = {}
      BY <3>1 DEF Merge
    <3>3. m.batch \subseteq store'[q]
      BY <2>1, <2>2, <3>1, <3>2
    <3>4. t.msg.events = m.batch
      BY <3>1 DEF Except
    <3> QED BY <3>3, <3>4 DEF HeldIn
  <2> QED BY <2>3, <2>4
<1>7. ASSUME NEW r \in Replica, Restart(r) PROVE HeldIn(t.msg, store'[q])
  <2>1. q # r /\ t \in TasksWithout(q, r)
    BY <1>7 DEF Restart
  <2>2. \E s \in tasks[q] : t.msg = s.msg
    BY <2>1, WithoutShapes
  <2> QED BY <1>3, <2>2
<1>8. ASSUME NEW l \in Link, Open(l) PROVE HeldIn(t.msg, store'[q])
  <2>1. CASE t \in tasks[q]
    BY <1>3, <2>1
  <2>2. CASE t \notin tasks[q]
    <3>1. PICK b \in l : t = Only(b, Hello(q))
      BY <1>8, <2>2 DEF Open
    <3>2. t.msg.type = "hello"
      BY <3>1 DEF Only, Hello
    <3> QED BY <3>2 DEF HeldIn
  <2> QED BY <2>1, <2>2
<1>9. ASSUME NEW l \in Link, Close(l) PROVE HeldIn(t.msg, store'[q])
  <2>1. PICK a, b \in l :
          tasks' = [tasks EXCEPT ![a] = TasksWithout(a, b), ![b] = TasksWithout(b, a)]
    BY <1>9 DEF Close
  <2>2. a \in Replica /\ b \in Replica
    BY LinkEnds
  <2>3. \/ t \in tasks[q] \/ t \in TasksWithout(q, a) \/ t \in TasksWithout(q, b)
    BY <2>1, <2>2
  <2>4. \E s \in tasks[q] : t.msg = s.msg
    BY <2>2, <2>3, WithoutShapes
  <2> QED BY <1>3, <2>4
<1>10. ASSUME NEW a \in Replica, NEW b \in Replica, HandleHello(a, b)
       PROVE  HeldIn(t.msg, store'[q])
  <2> DEFINE delta == deltaSince(store[b], Head(chan[a][b]).vv)
  <2>1. tasks' = [tasks EXCEPT ![b] = @ \cup
           (IF delta = {} THEN {} ELSE {Only(a, [type |-> "delta", events |-> delta])})]
    BY <1>10 DEF HandleHello
  <2>2. delta \subseteq store[b]
    BY DEF deltaSince
  <2>3. CASE t \in tasks[q]
    BY <1>3, <2>3
  <2>4. CASE t \notin tasks[q]
    <3> HIDE DEF delta
    <3>1. q = b /\ t = Only(a, [type |-> "delta", events |-> delta])
      BY <2>1, <2>4
    <3>2. t.msg.events = delta
      BY <3>1 DEF Only
    <3> QED BY <1>2, <2>2, <3>1, <3>2 DEF HeldIn
  <2> QED BY <2>3, <2>4
<1>11. ASSUME NEW a \in Replica, NEW b \in Replica, HandleEvents(a, b)
       PROVE  HeldIn(t.msg, store'[q])
  <2>1. t \in tasks[q]
    BY <1>11 DEF HandleEvents
  <2> QED BY <1>3, <2>1
<1>12. CASE UNCHANGED vars
  BY <1>3, <1>12 DEF vars
<1>13. ASSUME NEW r \in Replica, NEW m \in merges[r], MergeFails(r, m)
       PROVE  HeldIn(t.msg, store'[q])
  <2>1. t \in tasks[q]
    BY <1>13 DEF MergeFails
  <2> QED BY <1>3, <2>1
<1> QED BY <1>4, <1>5, <1>6, <1>7, <1>8, <1>9, <1>10, <1>11, <1>12, <1>13
       DEF Next, Work, Deliver

\* The elements of a queue's tail are elements of the queue.
LEMMA TailIndex ==
  ASSUME NEW S, NEW s \in Seq(S), s # <<>>, NEW i \in DOMAIN Tail(s)
  PROVE  i + 1 \in DOMAIN s /\ Tail(s)[i] = s[i + 1]
OBVIOUS

\* What is in flight stays in the store of the replica that sent it.
LEMMA ChannelsHeldStep ==
  ASSUME TypeOK, SentIsHeld, [Next]_vars
  PROVE  ChannelsHeld'
<1> USE DEF TypeOK
<1>1. SUFFICES ASSUME NEW p \in Replica, NEW q \in Replica, NEW i \in DOMAIN chan'[p][q]
               PROVE  HeldIn(chan'[p][q][i], store'[p])
  BY DEF ChannelsHeld
<1>2. store[p] \subseteq store'[p]
  BY StoreGrows
<1>3. chan[p][q] \in Seq(Message)
  OBVIOUS
<1>4. \A j \in DOMAIN chan[p][q] : HeldIn(chan[p][q][j], store'[p])
  BY <1>2 DEF SentIsHeld, ChannelsHeld, HeldIn
<1>5. ASSUME chan'[p][q] = chan[p][q] \/ chan'[p][q] = <<>>
      PROVE  HeldIn(chan'[p][q][i], store'[p])
  BY <1>4, <1>5
<1>6. ASSUME NEW r \in Replica, NEW t \in tasks[r], Send(r, t)
      PROVE  HeldIn(chan'[p][q][i], store'[p])
  <2>1. HeldIn(t.msg, store[r])
    BY DEF SentIsHeld, TasksHeld
  <2>2. t.msg \in Message
    BY DEF Task
  <2>3. \/ chan'[p][q] = chan[p][q]
        \/ p = r /\ chan'[p][q] = Append(chan[p][q], t.msg)
    <3>1. chan' = [chan EXCEPT ![r] = [b \in Replica |->
                     IF b \in Recipients(r, t) THEN Append(chan[r][b], t.msg)
                                               ELSE chan[r][b]]]
      BY <1>6 DEF Send
    <3> QED BY <3>1
  <2>4. CASE p = r /\ chan'[p][q] = Append(chan[p][q], t.msg)
    <3>1. \/ i \in DOMAIN chan[p][q] /\ chan'[p][q][i] = chan[p][q][i]
          \/ chan'[p][q][i] = t.msg
      <4> HIDE DEF Message
      <4> QED BY <1>3, <2>2, <2>4
    <3> QED BY <1>2, <1>4, <2>1, <2>4, <3>1 DEF HeldIn
  <2> QED BY <1>5, <2>3, <2>4
<1>7. ASSUME NEW r \in Replica, Restart(r)
      PROVE  HeldIn(chan'[p][q][i], store'[p])
  <2>1. chan'[p][q] = chan[p][q] \/ chan'[p][q] = <<>>
    BY <1>7 DEF Restart
  <2> QED BY <1>5, <2>1
<1>8. ASSUME NEW l \in Link, Close(l)
      PROVE  HeldIn(chan'[p][q][i], store'[p])
  <2>1. PICK a, b \in l : chan' = [chan EXCEPT ![a][b] = <<>>, ![b][a] = <<>>]
    BY <1>8 DEF Close
  <2>2. a \in Replica /\ b \in Replica
    BY LinkEnds
  <2>3. chan'[p][q] = chan[p][q] \/ chan'[p][q] = <<>>
    <3> DEFINE c == [chan EXCEPT ![a][b] = <<>>]
    <3>1. c[p][q] = chan[p][q] \/ c[p][q] = <<>>
      BY <2>2
    <3>2. c \in [Replica -> [Replica -> Seq(Message)]]
      <4>1. <<>> \in Seq(Message)
        <5> HIDE DEF Message
        <5> QED OBVIOUS
      <4> QED BY <2>2, <4>1
    <3>3. chan' = [c EXCEPT ![b][a] = <<>>]
      BY <2>1
    <3> HIDE DEF c
    <3>4. chan'[p][q] = c[p][q] \/ chan'[p][q] = <<>>
      BY <2>2, <3>2, <3>3
    <3> QED BY <3>1, <3>4
  <2> QED BY <1>5, <2>3
<1>9. ASSUME NEW a \in Replica, NEW b \in Replica, NEW T, Arrives(a, b, T)
      PROVE  HeldIn(chan'[p][q][i], store'[p])
  <2>1. chan' = [chan EXCEPT ![a][b] = Tail(@)] /\ chan[a][b] # <<>>
    BY <1>9 DEF Arrives
  <2>2. CASE p = a /\ q = b
    <3>1. chan'[p][q] = Tail(chan[p][q]) /\ chan[p][q] # <<>>
      BY <2>1, <2>2
    <3>2. i + 1 \in DOMAIN chan[p][q] /\ chan'[p][q][i] = chan[p][q][i + 1]
      <4>1. i \in DOMAIN Tail(chan[p][q])
        BY <3>1
      <4> QED BY <1>3, <3>1, <4>1, TailIndex
    <3> QED BY <1>4, <3>2
  <2>3. CASE ~(p = a /\ q = b)
    <3>1. chan'[p][q] = chan[p][q]
      BY <2>1, <2>3
    <3> QED BY <1>5, <3>1
  <2> QED BY <2>2, <2>3
<1>10. CASE \E r \in Replica :
         Author(r) \/ \E m \in merges[r] : MergeOne(r, m) \/ MergeFails(r, m)
  BY <1>5, <1>10 DEF Author, MergeOne, MergeFails
<1>11. CASE \E l \in Link : Open(l)
  BY <1>5, <1>11 DEF Open
<1>12. CASE \E a, b \in Replica : HandleHello(a, b) \/ HandleEvents(a, b)
  BY <1>9, <1>12 DEF HandleHello, HandleEvents
<1>13. CASE UNCHANGED vars
  BY <1>5, <1>13 DEF vars
<1> QED BY <1>6, <1>7, <1>8, <1>10, <1>11, <1>12, <1>13 DEF Next, Work, Deliver

\* What is being merged is in some store, and what of it is done is in this one.
LEMMA MergesHeldStep ==
  ASSUME TypeOK, SentIsHeld, [Next]_vars
  PROVE  MergesHeld'
<1> USE DEF TypeOK
<1>1. SUFFICES ASSUME NEW q \in Replica, NEW m \in merges'[q]
               PROVE  /\ m.left \subseteq m.batch /\ m.batch \ m.left \subseteq store'[q]
                      /\ \E p \in Replica : m.batch \subseteq store'[p]
  BY DEF MergesHeld
<1> DEFINE Goal == /\ m.left \subseteq m.batch /\ m.batch \ m.left \subseteq store'[q]
                   /\ \E p \in Replica : m.batch \subseteq store'[p]
<1>2. \A p \in Replica : store[p] \subseteq store'[p]
  BY StoreGrows
<1>3. ASSUME NEW n \in merges[q], m.batch = n.batch, m.left = n.left PROVE Goal
  <2>1. /\ n.left \subseteq n.batch /\ n.batch \ n.left \subseteq store[q]
        /\ \E p \in Replica : n.batch \subseteq store[p]
    BY DEF SentIsHeld, MergesHeld
  <2> QED BY <1>2, <1>3, <2>1
<1>4. CASE m \in merges[q]
  BY <1>3, <1>4
<1>5. ASSUME NEW r \in Replica, NEW n \in merges[r], MergeOne(r, n) PROVE Goal
  <2>1. PICK e \in n.left :
          LET k == [n EXCEPT !.left = @ \ {e}, !.new = @ \/ e \notin store[r]]
          IN  /\ store' = [store EXCEPT ![r] = @ \cup {e}]
              /\ merges' = [merges EXCEPT ![r] =
                   (@ \ {n}) \cup IF k.left = {} THEN {} ELSE {k}]
    BY <1>5 DEF MergeOne
  <2>2. CASE m \notin merges[q]
    <3>1. q = r /\ m = [n EXCEPT !.left = @ \ {e}, !.new = @ \/ e \notin store[r]]
      BY <2>1, <2>2
    <3>2. m.batch = n.batch /\ m.left = n.left \ {e}
      <4>1. n \in Merge
        OBVIOUS
      <4> QED BY <3>1, <4>1 DEF Merge
    <3>3. /\ n.left \subseteq n.batch /\ n.batch \ n.left \subseteq store[r]
          /\ \E p \in Replica : n.batch \subseteq store[p]
      BY DEF SentIsHeld, MergesHeld
    <3>4. e \in store'[q]
      BY <2>1, <3>1
    <3> QED BY <1>2, <3>1, <3>2, <3>3, <3>4
  <2> QED BY <1>4, <2>2
<1>6. ASSUME NEW r \in Replica, Restart(r) PROVE Goal
  <2>1. q # r /\ m \in MergesWithout(q, r)
    BY <1>6 DEF Restart
  <2>2. \E n \in merges[q] : m.batch = n.batch /\ m.left = n.left
    BY <2>1, WithoutShapes
  <2> QED BY <1>3, <2>2
<1>7. ASSUME NEW l \in Link, Close(l) PROVE Goal
  <2>1. PICK a, b \in l :
          merges' = [merges EXCEPT ![a] = MergesWithout(a, b), ![b] = MergesWithout(b, a)]
    BY <1>7 DEF Close
  <2>2. a \in Replica /\ b \in Replica
    BY LinkEnds
  <2>3. m \in merges[q] \/ m \in MergesWithout(q, a) \/ m \in MergesWithout(q, b)
    BY <2>1, <2>2
  <2>4. \E n \in merges[q] : m.batch = n.batch /\ m.left = n.left
    BY <2>2, <2>3, WithoutShapes
  <2> QED BY <1>3, <2>4
<1>8. ASSUME NEW a \in Replica, NEW b \in Replica, HandleEvents(a, b) PROVE Goal
  <2> DEFINE batch == Head(chan[a][b]).events
  <2>1. merges' = [merges EXCEPT ![b] = @ \cup
           {[peer |-> a, batch |-> batch, left |-> batch, new |-> FALSE]}]
    BY <1>8 DEF HandleEvents
  <2>2. batch \subseteq store[a]
    <3>1. Head(chan[a][b]).type # "hello" /\ chan[a][b] # <<>>
      BY <1>8 DEF HandleEvents, Arrives
    <3>2. chan[a][b] \in Seq(Message)
      OBVIOUS
    <3>3. 1 \in DOMAIN chan[a][b] /\ Head(chan[a][b]) = chan[a][b][1]
      <4> HIDE DEF Message
      <4> QED BY <3>1, <3>2
    <3> QED BY <3>1, <3>3 DEF SentIsHeld, ChannelsHeld, HeldIn
  <2>3. CASE m \notin merges[q]
    <3>1. m = [peer |-> a, batch |-> batch, left |-> batch, new |-> FALSE]
      BY <2>1, <2>3
    <3>2. m.batch = batch /\ m.left = batch
      BY <3>1
    <3> QED BY <1>2, <2>2, <3>2
  <2> QED BY <1>4, <2>3
<1>9. CASE UNCHANGED merges
  BY <1>4, <1>9
<1>10. CASE \E r \in Replica : Author(r) \/ \E t \in tasks[r] : Send(r, t)
  BY <1>9, <1>10 DEF Author, Send
<1>11. CASE \E l \in Link : Open(l)
  BY <1>9, <1>11 DEF Open
<1>12. CASE \E a, b \in Replica : HandleHello(a, b)
  BY <1>9, <1>12 DEF HandleHello
<1>13. CASE UNCHANGED vars
  BY <1>9, <1>13 DEF vars
<1>14. ASSUME NEW r \in Replica, NEW n \in merges[r], MergeFails(r, n) PROVE Goal
  <2>1. m \in merges[q]
    BY <1>14 DEF MergeFails
  <2> QED BY <1>4, <2>1
<1> QED BY <1>5, <1>6, <1>7, <1>8, <1>10, <1>11, <1>12, <1>13, <1>14
       DEF Next, Work, Deliver

\* Authors keep what they author, and only they author it.
LEMMA AuthoredAndKeptStep ==
  ASSUME TypeOK, SentIsHeld, AuthoredAndKept, [Next]_vars
  PROVE  AuthoredAndKept'
<1> USE DEF TypeOK
<1>1. SUFFICES ASSUME NEW q \in Replica, NEW x \in store'[q]
               PROVE  x.seq <= seq'[x.r] /\ x \in store'[x.r]
  BY DEF AuthoredAndKept
<1>2. \A p \in Replica : store[p] \subseteq store'[p]
  BY StoreGrows
<1>3. \A p \in Replica : \A y \in store[p] :
        y.r \in Replica /\ y.seq \in Nat /\ y.seq <= seq[y.r] /\ y \in store[y.r]
  <2>1. \A y \in Event : y.r \in Replica /\ y.seq \in 1..MaxSeq[y.r]
    BY EventFields
  <2> QED BY <2>1 DEF AuthoredAndKept
<1>4. ASSUME NEW p \in Replica, x \in store[p], UNCHANGED seq
      PROVE  x.seq <= seq'[x.r] /\ x \in store'[x.r]
  BY <1>2, <1>3, <1>4
<1>5. ASSUME NEW r \in Replica, Author(r)
      PROVE  x.seq <= seq'[x.r] /\ x \in store'[x.r]
  <2> DEFINE e == [r |-> r, seq |-> seq[r] + 1]
  <2>1. /\ store' = [store EXCEPT ![r] = @ \cup {e}]
        /\ seq' = [seq EXCEPT ![r] = @ + 1]
    BY <1>5 DEF Author
  <2>2. CASE x \in store[q]
    <3>1. x.r \in Replica /\ x.seq \in Nat /\ x.seq <= seq[x.r] /\ x \in store[x.r]
      BY <1>3, <2>2
    <3>2. seq[x.r] \in Nat /\ seq[x.r] <= seq'[x.r]
      BY <2>1, <3>1
    <3>3. x.seq <= seq'[x.r]
      <4>1. seq'[x.r] \in Nat
        BY <2>1, <3>1
      <4> QED BY <3>1, <3>2, <4>1
    <3> QED BY <1>2, <3>1, <3>3
  <2>3. CASE x \notin store[q]
    <3>1. x = e
      BY <2>1, <2>3
    <3>2. x.r = r /\ x.seq = seq[r] + 1
      BY <3>1
    <3>3. seq'[r] = seq[r] + 1 /\ e \in store'[r]
      BY <2>1
    <3> QED BY <3>1, <3>2, <3>3
  <2> QED BY <2>2, <2>3
<1>6. ASSUME NEW r \in Replica, NEW m \in merges[r], MergeOne(r, m)
      PROVE  x.seq <= seq'[x.r] /\ x \in store'[x.r]
  <2>1. PICK e \in m.left : store' = [store EXCEPT ![r] = @ \cup {e}]
    BY <1>6 DEF MergeOne
  <2>2. PICK p \in Replica : m.left \subseteq store[p]
    BY DEF SentIsHeld, MergesHeld
  <2>3. x \in store[q] \/ x \in store[p]
    BY <2>1, <2>2
  <2>4. UNCHANGED seq
    BY <1>6 DEF MergeOne
  <2> QED BY <1>4, <2>3, <2>4
<1>7. CASE UNCHANGED <<store, seq>>
  BY <1>4, <1>7
<1>8. CASE \E r \in Replica : Restart(r) \/ \E t \in tasks[r] : Send(r, t)
  BY <1>7, <1>8 DEF Restart, Send
<1>9. CASE \E l \in Link : Open(l) \/ Close(l)
  BY <1>7, <1>9 DEF Open, Close
<1>10. CASE \E a, b \in Replica : HandleHello(a, b) \/ HandleEvents(a, b)
  BY <1>7, <1>10 DEF HandleHello, HandleEvents
<1>11. CASE UNCHANGED vars
  BY <1>7, <1>11 DEF vars
<1>12. ASSUME NEW r \in Replica, NEW m \in merges[r], MergeFails(r, m)
       PROVE  x.seq <= seq'[x.r] /\ x \in store'[x.r]
  <2>1. PICK p \in Replica : m.left \subseteq store[p]
    BY DEF SentIsHeld, MergesHeld
  <2>2. x \in store[q] \/ x \in m.left
    BY <1>12 DEF MergeFails
  <2>3. x \in store[q] \/ x \in store[p]
    BY <2>1, <2>2
  <2>4. UNCHANGED seq
    BY <1>12 DEF MergeFails
  <2> QED BY <1>4, <2>3, <2>4
<1> QED BY <1>5, <1>6, <1>8, <1>9, <1>10, <1>11, <1>12 DEF Next, Work, Deliver

------------------------------------------------------------------------------
PeerInv == TypeOK /\ SentIsHeld /\ AuthoredAndKept

\* The initial state satisfies the invariant: nothing is stored or under way.
LEMMA PeerInvInit == Init => PeerInv
<1> SUFFICES ASSUME Init PROVE PeerInv
  OBVIOUS
<1>1. <<>> \in Seq(Message)
  <2> HIDE DEF Message
  <2> QED OBVIOUS
<1>2. chan \in [Replica -> [Replica -> Seq(Message)]]
  BY <1>1 DEF Init
<1>3. \A r \in Replica : 0 <= MaxSeq[r]
  BY BoundAssumption
<1>4. TypeOK
  BY <1>2, <1>3 DEF Init, TypeOK
<1>5. SentIsHeld
  BY DEF Init, SentIsHeld, TasksHeld, ChannelsHeld, MergesHeld
<1>6. AuthoredAndKept
  BY DEF Init, AuthoredAndKept
<1> QED BY <1>4, <1>5, <1>6 DEF PeerInv

\* The inductive invariant of the sessions.
LEMMA PeerInvariant == Spec => []PeerInv
<1>1. PeerInv /\ [Next]_vars => PeerInv'
  BY TypeStep, TasksHeldStep, ChannelsHeldStep, MergesHeldStep, AuthoredAndKeptStep
     DEF PeerInv, SentIsHeld
<1> QED BY <1>1, PeerInvInit, PTL DEF Spec

\* Every variable stays in its range: among others, version vectors are vectors.
THEOREM PeerTypeCorrect == Spec => []TypeOK
<1>1. PeerInv => TypeOK
  BY DEF PeerInv
<1> QED BY <1>1, PeerInvariant, PTL

\* Whatever is lost and however turns interleave, only what is in some store is
\* ever sent, in flight or being merged.
THEOREM PeerSentIsHeld == Spec => []SentIsHeld
<1>1. PeerInv => SentIsHeld
  BY DEF PeerInv
<1> QED BY <1>1, PeerInvariant, PTL

\* No store holds an event that was not authored, or that its author lost.
THEOREM PeerAuthoredAndKept == Spec => []AuthoredAndKept
<1>1. PeerInv => AuthoredAndKept
  BY DEF PeerInv
<1> QED BY <1>1, PeerInvariant, PTL

------------------------------------------------------------------------------
\* Every step of the sessions is a step of the replicated log, or none.
LEMMA LogStep == PeerInv /\ [Next]_vars => [Log!Next]_store
<1> SUFFICES ASSUME PeerInv, [Next]_vars PROVE Log!Next \/ UNCHANGED store
  OBVIOUS
<1> USE DEF PeerInv, TypeOK
<1>1. ASSUME NEW r \in Replica, Author(r) PROVE Log!Next
  <2> DEFINE e == [r |-> r, seq |-> seq[r] + 1]
  <2>1. store' = [store EXCEPT ![r] = @ \cup {e}] /\ seq[r] < MaxSeq[r]
    BY <1>1 DEF Author
  <2>2. e \in EventsBy[r]
    <3>1. MaxSeq[r] \in Nat /\ seq[r] \in Nat
      BY BoundAssumption
    <3>2. seq[r] + 1 \in 1..MaxSeq[r]
      BY <2>1, <3>1
    <3> QED BY <3>2, EventFields
  <2>3. ASSUME NEW q \in Replica PROVE e \notin store[q]
    <3>1. e.r = r /\ e.seq = seq[r] + 1 /\ seq[r] \in Nat
      OBVIOUS
    <3>2. e \in store[q] => seq[r] + 1 <= seq[r]
      BY <3>1 DEF AuthoredAndKept
    <3> QED BY <3>1, <3>2
  <2>4. Log!Author(r)
    BY <2>1, <2>2, <2>3 DEF Log!Author
  <2> QED BY <2>4 DEF Log!Next
<1>2. ASSUME NEW r \in Replica, NEW m \in merges[r], MergeOne(r, m) PROVE Log!Next
  <2>1. PICK e \in m.left : store' = [store EXCEPT ![r] = @ \cup {e}]
    BY <1>2 DEF MergeOne
  <2>2. PICK p \in Replica : m.left \subseteq store[p]
    BY DEF SentIsHeld, MergesHeld
  <2>3. {e} \in SUBSET store[p]
    BY <2>2
  <2>4. Log!Learn(r, p)
    BY <2>1, <2>3 DEF Log!Learn
  <2> QED BY <2>4 DEF Log!Next
<1>3. CASE \E r \in Replica : Restart(r) \/ \E t \in tasks[r] : Send(r, t)
  BY <1>3 DEF Restart, Send
<1>4. CASE \E l \in Link : Open(l) \/ Close(l)
  BY <1>4 DEF Open, Close
<1>5. CASE \E a, b \in Replica : HandleHello(a, b) \/ HandleEvents(a, b)
  BY <1>5 DEF HandleHello, HandleEvents
<1>6. CASE UNCHANGED vars
  BY <1>6 DEF vars
<1>7. ASSUME NEW r \in Replica, NEW m \in merges[r], MergeFails(r, m)
      PROVE  Log!Next \/ UNCHANGED store
  <2>1. CASE UNCHANGED store
    BY <2>1
  <2>2. ASSUME NEW e \in m.left, store' = [store EXCEPT ![r] = @ \cup {e}]
        PROVE  Log!Next
    <3>1. PICK p \in Replica : m.left \subseteq store[p]
      BY DEF SentIsHeld, MergesHeld
    <3>2. {e} \in SUBSET store[p]
      BY <3>1
    <3>3. Log!Learn(r, p)
      BY <2>2, <3>2 DEF Log!Learn
    <3> QED BY <3>3 DEF Log!Next
  <2> QED BY <1>7, <2>1, <2>2 DEF MergeFails
<1> QED BY <1>1, <1>2, <1>3, <1>4, <1>5, <1>6, <1>7 DEF Next, Work, Deliver

\* The sessions implement the replicated grow-only log: over lossy channels and
\* through restarts and failures in the middle of merges, replicas only author and learn.
THEOREM PeersImplementLog == Spec => ImplementsLog
<1>1. Init => Log!Init
  BY DEF Init, Log!Init
<1>2. PeerInv /\ [Next]_vars => [Log!Next]_store
  BY LogStep
<1> QED BY <1>1, <1>2, PeerInvariant, PTL DEF Spec, ImplementsLog, Log!Spec
==============================================================================
