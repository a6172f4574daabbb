---------------------------- MODULE ReplicaProofs ----------------------------
(* Replica, for every set of operations, deliveries, remote events and wall    *)
(* clock readings and any number of crashes.                                   *)
EXTENDS Replica, Orders

\* What a queue of writes of values in T holds.
LEMMA Writes ==
  ASSUME NEW T, NEW q \in Seq(Write(T))
  PROVE  /\ q # <<>> => Head(q).val \in T /\ Tail(q) \in Seq(Write(T))
         /\ \A k \in DOMAIN q : q[k].val \in T
<1>1. \A e \in Write(T) : e.val \in T
  BY DEF Write
<1>2. q # <<>> => Head(q) \in Write(T) /\ Tail(q) \in Seq(Write(T))
  OBVIOUS
<1>3. \A k \in DOMAIN q : q[k] \in Write(T)
  OBVIOUS
<1> QED BY <1>1, <1>2, <1>3

\* Every step keeps every variable in its range, in both families of services.
LEMMA TypeStep == TypeOK /\ [Next]_vars => TypeOK'
<1> SUFFICES ASSUME TypeOK, [Next]_vars PROVE TypeOK'
  OBVIOUS
<1> USE DEF TypeOK
<1>0. /\ \A w \in Wall : Tick(clock, w, Self) \in Stamp
      /\ \A w \in Wall, e \in RemoteEvent : Receive(clock, e.hlc, w, Self) \in Stamp
  <2>1. clock \in Timestamp(Replica)
    BY ReplicaAssumption DEF Timestamp, Stamp
  <2>2. \A e \in RemoteEvent : e.hlc \in Timestamp(Replica)
    BY RemoteAssumption DEF Timestamp
  <2> QED BY <2>1, <2>2, TickAbove, ReceiveAbove, ReplicaAssumption, WallAssumption
          DEF Stamp
<1>1. ASSUME NEW o \in Op, TickSync(o) PROVE TypeOK'
  <2>1. clock' \in Stamp
    BY <1>1, <1>0 DEF TickSync
  <2>2. /\ diskClock' \in Stamp
        /\ stamp' \in [Op -> Stamp]
    BY <1>1, <2>1 DEF TickSync
  <2>3. pc' \in [Op -> OpPc]
    BY <1>1 DEF TickSync, Goto, OpPc
  <2>4. observed' \in [Op -> SUBSET (OwnEvent \cup RemoteEvent)]
    BY <1>1 DEF TickSync, Begin
  <2>5. UNCHANGED <<clockWrites, seq, diskSeq, seqWrites, events, disk, shown, number,
                  mergePc, batch, todo, received, crashes>>
    BY <1>1 DEF TickSync, seqState, storeState, mergeState
  <2> QED BY <2>1, <2>2, <2>3, <2>4, <2>5
<1>2. ASSUME NEW o \in Op, TickCall(o) PROVE TypeOK'
  <2>1. clock' \in Stamp
    BY <1>2, <1>0 DEF TickCall
  <2>2. clockWrites' \in Seq(Write(Stamp))
    BY <1>2, <2>1 DEF TickCall, Write
  <2>3. pc' \in [Op -> OpPc]
    BY <1>2 DEF TickCall, Goto, OpPc
  <2>4. observed' \in [Op -> SUBSET (OwnEvent \cup RemoteEvent)]
    BY <1>2 DEF TickCall, Begin
  <2>5. UNCHANGED <<diskClock, seq, diskSeq, seqWrites, events, disk, shown, stamp, number,
                  mergePc, batch, todo, received, crashes>>
    BY <1>2 DEF TickCall, seqState, storeState, mergeState
  <2> QED BY <2>1, <2>2, <2>3, <2>4, <2>5
<1>3. ASSUME NEW o \in Op, TickReturn(o) PROVE TypeOK'
  <2>1. /\ Head(clockWrites).val \in Stamp
        /\ clockWrites' \in Seq(Write(Stamp))
    BY <1>3, Writes DEF TickReturn
  <2>2. /\ diskClock' \in Stamp
        /\ stamp' \in [Op -> Stamp]
    BY <1>3, <2>1 DEF TickReturn
  <2>3. pc' \in [Op -> OpPc]
    BY <1>3 DEF TickReturn, Goto, OpPc
  <2>4. UNCHANGED <<clock, seq, diskSeq, seqWrites, events, disk, shown, number, observed,
                  mergePc, batch, todo, received, crashes>>
    BY <1>3 DEF TickReturn, seqState, storeState, mergeState
  <2> QED BY <2>1, <2>2, <2>3, <2>4
<1>4. ASSUME NEW o \in Op, NumberSync(o) PROVE TypeOK'
  <2>0. seq' \in Nat
    BY <1>4 DEF NumberSync
  <2>1. /\ seq' \in Nat
        /\ diskSeq' \in Nat
        /\ number' \in [Op -> Nat]
    <3>1. CASE Goto(o, "lost") /\ UNCHANGED <<diskSeq, number>>
      BY <2>0, <3>1
    <3>2. CASE diskSeq' = seq' /\ number' = [number EXCEPT ![o] = seq']
      BY <2>0, <3>2
    <3> QED BY <1>4, <3>1, <3>2 DEF NumberSync
  <2>2. pc' \in [Op -> OpPc]
    BY <1>4 DEF NumberSync, Goto, OpPc
  <2>3. UNCHANGED <<seqWrites, clock, diskClock, clockWrites, events, disk, shown, stamp,
                  observed, mergePc, batch, todo, received, crashes>>
    BY <1>4 DEF NumberSync, clockState, storeState, mergeState
  <2> QED BY <2>1, <2>2, <2>3
<1>5. ASSUME NEW o \in Op, NumberCall(o) PROVE TypeOK'
  <2>1. seq' \in Nat
    BY <1>5 DEF NumberCall
  <2>2. seqWrites' \in Seq(Write(Nat))
    BY <1>5, <2>1 DEF NumberCall, Write
  <2>3. pc' \in [Op -> OpPc]
    BY <1>5 DEF NumberCall, Goto, OpPc
  <2>4. UNCHANGED <<diskSeq, clock, diskClock, clockWrites, events, disk, shown, stamp, number,
                  observed, mergePc, batch, todo, received, crashes>>
    BY <1>5 DEF NumberCall, clockState, storeState, mergeState
  <2> QED BY <2>1, <2>2, <2>3, <2>4
<1>6. ASSUME NEW o \in Op, NumberReturn(o) PROVE TypeOK'
  <2>1. /\ Head(seqWrites).val \in Nat
        /\ seqWrites' \in Seq(Write(Nat))
    BY <1>6, Writes DEF NumberReturn
  <2>2. /\ diskSeq' \in Nat
        /\ number' \in [Op -> Nat]
    BY <1>6, <2>1 DEF NumberReturn
  <2>3. pc' \in [Op -> OpPc]
    BY <1>6 DEF NumberReturn, Goto, OpPc
  <2>4. UNCHANGED <<seq, clock, diskClock, clockWrites, events, disk, shown, stamp, observed,
                  mergePc, batch, todo, received, crashes>>
    BY <1>6 DEF NumberReturn, clockState, storeState, mergeState
  <2> QED BY <2>1, <2>2, <2>3, <2>4
<1>7. ASSUME NEW o \in Op, AppendEvent(o) PROVE TypeOK'
  <2>1. EventOf(o) \in OwnEvent
    BY DEF EventOf, OwnEvent
  <2>2. /\ events' \subseteq OwnEvent \cup RemoteEvent
        /\ disk' \subseteq events'
        /\ shown' \subseteq OwnEvent
    BY <1>7, <2>1 DEF AppendEvent, Stored, NotStored
  <2>3. pc' \in [Op -> OpPc]
    BY <1>7 DEF AppendEvent, Goto, OpPc
  <2>4. UNCHANGED <<clock, diskClock, clockWrites, seq, diskSeq, seqWrites, stamp, number, observed,
                  mergePc, batch, todo, received, crashes>>
    BY <1>7 DEF AppendEvent, clockState, seqState, mergeState
  <2> QED BY <2>1, <2>2, <2>3, <2>4
<1>8. ASSUME NEW o \in Op, Publish(o) PROVE TypeOK'
  <2>1. pc' \in [Op -> OpPc]
    BY <1>8 DEF Publish, Goto, OpPc
  <2>2. UNCHANGED <<clock, diskClock, clockWrites, seq, diskSeq, seqWrites, events, disk, shown, stamp, number,
                  observed, mergePc, batch, todo, received, crashes>>
    BY <1>8 DEF Publish, clockState, seqState, storeState, mergeState
  <2> QED BY <2>1, <2>2
<1>9. ASSUME NEW d \in Delivery, MergeCall(d) PROVE TypeOK'
  <2>1. /\ batch' \in [Delivery -> SUBSET RemoteEvent]
        /\ todo' \in [Delivery -> SUBSET RemoteEvent]
    BY <1>9 DEF MergeCall
  <2>2. mergePc' \in [Delivery -> MergePc]
    BY <1>9 DEF MergeCall, MergeGoto, MergePc
  <2>3. UNCHANGED <<clock, diskClock, clockWrites, seq, diskSeq, seqWrites, events, disk, shown, pc, stamp, number, observed,
                  received, crashes>>
    BY <1>9 DEF MergeCall, clockState, seqState, storeState, opState
  <2> QED BY <2>1, <2>2, <2>3
<1>10. ASSUME NEW d \in Delivery, MergeOne(d) PROVE TypeOK'
  <2>1. /\ events' \subseteq OwnEvent \cup RemoteEvent
        /\ disk' \subseteq events'
        /\ todo' \in [Delivery -> SUBSET RemoteEvent]
    BY <1>10 DEF MergeOne, Stored, NotStored
  <2>2. mergePc' \in [Delivery -> MergePc]
    BY <1>10 DEF MergeOne, MergeGoto, MergePc
  <2>3. UNCHANGED <<clock, diskClock, clockWrites, seq, diskSeq, seqWrites, shown, pc, stamp, number, observed, batch,
                  received, crashes>>
    BY <1>10 DEF MergeOne, clockState, seqState, opState
  <2> QED BY <2>1, <2>2, <2>3
<1>11. ASSUME NEW d \in Delivery, ReceiveSync(d) PROVE TypeOK'
  <2>1. clock' \in Stamp
    BY <1>11, <1>0 DEF ReceiveSync, ClockReceives
  <2>2. /\ diskClock' \in Stamp
        /\ received' \subseteq RemoteEvent
    BY <1>11, <2>1 DEF ReceiveSync
  <2>3. mergePc' \in [Delivery -> MergePc]
    BY <1>11 DEF ReceiveSync, MergeGoto, MergePc
  <2>4. UNCHANGED <<clockWrites, seq, diskSeq, seqWrites, events, disk, shown, pc, stamp, number, observed,
                  batch, todo, crashes>>
    BY <1>11 DEF ReceiveSync, seqState, storeState, opState
  <2> QED BY <2>1, <2>2, <2>3, <2>4
<1>12. ASSUME NEW d \in Delivery, ReceiveCall(d) PROVE TypeOK'
  <2>1. clock' \in Stamp
    BY <1>12, <1>0 DEF ReceiveCall, ClockReceives
  <2>2. clockWrites' \in Seq(Write(Stamp))
    BY <1>12, <2>1 DEF ReceiveCall, Write
  <2>3. mergePc' \in [Delivery -> MergePc]
    BY <1>12 DEF ReceiveCall, MergeGoto, MergePc
  <2>4. UNCHANGED <<diskClock, seq, diskSeq, seqWrites, events, disk, shown, pc, stamp, number, observed,
                  batch, todo, received, crashes>>
    BY <1>12 DEF ReceiveCall, seqState, storeState, opState
  <2> QED BY <2>1, <2>2, <2>3, <2>4
<1>13. ASSUME NEW d \in Delivery, ReceiveReturn(d) PROVE TypeOK'
  <2>1. /\ Head(clockWrites).val \in Stamp
        /\ clockWrites' \in Seq(Write(Stamp))
    BY <1>13, Writes DEF ReceiveReturn
  <2>2. /\ diskClock' \in Stamp
        /\ received' \subseteq RemoteEvent
    BY <1>13, <2>1 DEF ReceiveReturn
  <2>3. mergePc' \in [Delivery -> MergePc]
    BY <1>13 DEF ReceiveReturn, MergeGoto, MergePc
  <2>4. UNCHANGED <<clock, seq, diskSeq, seqWrites, events, disk, shown, pc, stamp, number, observed,
                  batch, todo, crashes>>
    BY <1>13 DEF ReceiveReturn, seqState, storeState, opState
  <2> QED BY <2>1, <2>2, <2>3, <2>4
<1>14. CASE Crash
  <2>1. /\ Applied(clockWrites, diskClock) \subseteq Stamp
        /\ Applied(seqWrites, diskSeq) \subseteq Nat
    BY Writes DEF Applied
  <2>2. /\ clock' \in Stamp /\ diskClock' \in Stamp
        /\ seq' \in Nat /\ diskSeq' \in Nat /\ crashes' \in Nat
    BY <1>14, <2>1 DEF Crash
  <2>3. clockWrites' \in Seq(Write(Stamp)) /\ seqWrites' \in Seq(Write(Nat))
    BY <1>14 DEF Crash
  <2>4. pc' \in [Op -> OpPc] /\ mergePc' \in [Delivery -> MergePc]
    BY <1>14 DEF Crash, Restart, MergeRestart, OpPc, MergePc
  <2>5. events' \subseteq OwnEvent \cup RemoteEvent /\ disk' \subseteq events'
    BY <1>14 DEF Crash
  <2>6. UNCHANGED <<shown, stamp, number, observed, batch, todo, received>>
    BY <1>14 DEF Crash
  <2> QED BY <2>1, <2>2, <2>3, <2>4, <2>5, <2>6
<1>15. CASE UNCHANGED vars
  BY <1>15 DEF vars, clockState, seqState, storeState, opState, mergeState
<1> QED
  BY <1>1, <1>2, <1>3, <1>4, <1>5, <1>6, <1>7, <1>8, <1>9, <1>10, <1>11, <1>12,
     <1>13, <1>14, <1>15 DEF Next, OpStep, MergeStep

\* A new replica's variables are in their ranges.
LEMMA InitType == Init => TypeOK
<1>1. InitialClock(Self) \in Stamp
  BY DEF InitialClock, Stamp, Timestamp
<1> QED BY <1>1 DEF Init, TypeOK, OpPc, MergePc

\* The variables keep their types, in both families of services.
THEOREM TypeCorrect == Spec => []TypeOK
BY InitType, TypeStep, PTL DEF Spec

------------------------------------------------------------------------------
(* From here on the services are the synchronous ones: ~Async.                *)

SyncNext ==
  \/ \E o \in Op : TickSync(o) \/ NumberSync(o) \/ AppendEvent(o) \/ Publish(o)
  \/ \E d \in Delivery : MergeCall(d) \/ MergeOne(d) \/ ReceiveSync(d)
  \/ Crash
  \/ UNCHANGED vars

\* The steps of the asynchronous services are never taken.
LEMMA OnlySyncSteps == ASSUME ~Async, NoWrites, [Next]_vars PROVE SyncNext
<1>1. ASSUME NEW o \in Op, OpStep(o) PROVE SyncNext
  BY <1>1 DEF OpStep, NoWrites, TickCall, TickReturn, NumberCall, NumberReturn,
              SyncNext
<1>2. ASSUME NEW d \in Delivery, MergeStep(d) PROVE SyncNext
  BY <1>2 DEF MergeStep, NoWrites, ReceiveCall, ReceiveReturn, SyncNext
<1> QED BY <1>1, <1>2 DEF Next, SyncNext

\* The order facts in the form the steps use them.
LEMMA StampOrder ==
  ASSUME TypeOK
  PROVE  /\ \A a, b, c \in Timestamp(Replica) :
              /\ ~HlcLess(a, a)
              /\ HlcLeq(a, b) /\ HlcLess(b, c) => HlcLess(a, c)
              /\ HlcLeq(a, b) /\ HlcLeq(b, c) => HlcLeq(a, c)
         /\ Stamp \subseteq Timestamp(Replica)
         /\ \A e \in RemoteEvent : e.hlc \in Timestamp(Replica)
         /\ \A w \in Wall : /\ Tick(clock, w, Self) \in Stamp
                           /\ HlcLess(clock, Tick(clock, w, Self))
         /\ \A w \in Wall, e \in RemoteEvent :
              /\ HlcLess(clock, Receive(clock, e.hlc, w, Self))
              /\ HlcLess(e.hlc, Receive(clock, e.hlc, w, Self))
         /\ \A t \in Stamp : HlcLess(clock, t) => t # InitialClock(Self)
<1>1. Stamp \subseteq Timestamp(Replica) /\ clock \in Timestamp(Replica)
  BY ReplicaAssumption DEF TypeOK, Stamp, Timestamp
<1>2. \A e \in RemoteEvent : e.hlc \in Timestamp(Replica)
  BY RemoteAssumption DEF Timestamp
<1>3. clock.r = Self
  BY DEF TypeOK, Stamp, Timestamp
<1>4. \A w \in Wall : /\ Tick(clock, w, Self) \in Stamp
                     /\ HlcLess(clock, Tick(clock, w, Self))
  BY <1>1, <1>3, TickAbove, ReplicaAssumption, WallAssumption DEF Stamp
<1>5. \A w \in Wall, e \in RemoteEvent :
        /\ HlcLess(clock, Receive(clock, e.hlc, w, Self))
        /\ HlcLess(e.hlc, Receive(clock, e.hlc, w, Self))
  BY <1>1, <1>2, ReceiveAbove, ReplicaAssumption, WallAssumption
<1>6. ASSUME NEW t \in Stamp, HlcLess(clock, t) PROVE t # InitialClock(Self)
  <2>1. clock.pt \in Nat /\ clock.l \in Nat /\ clock.r = Self /\ Self \in Nat
    BY ReplicaAssumption DEF TypeOK, Stamp, Timestamp
  <2> QED BY <2>1, <1>6 DEF HlcLess, InitialClock
<1> QED BY <1>1, <1>2, <1>4, <1>5, <1>6, HlcOrder, HlcMixed, ReplicaAssumption

\* The synchronous services never leave a write under way.
LEMMA NoWritesStep == ASSUME SyncInv, SyncNext PROVE NoWrites'
<1> USE DEF SyncInv, TypeOK, NoWrites
<1>1. ASSUME NEW o \in Op, TickSync(o) PROVE NoWrites'
  BY <1>1 DEF TickSync, Goto, seqState, mergeState
<1>2. ASSUME NEW o \in Op, NumberSync(o) PROVE NoWrites'
  BY <1>2 DEF NumberSync, Goto, clockState, mergeState
<1>3. ASSUME NEW o \in Op, AppendEvent(o) PROVE NoWrites'
  BY <1>3 DEF AppendEvent, Goto, clockState, seqState, mergeState
<1>4. ASSUME NEW o \in Op, Publish(o) PROVE NoWrites'
  BY <1>4 DEF Publish, Goto, clockState, seqState, mergeState
<1>5. ASSUME NEW d \in Delivery, MergeCall(d) PROVE NoWrites'
  BY <1>5 DEF MergeCall, MergeGoto, clockState, seqState, opState
<1>6. ASSUME NEW d \in Delivery, MergeOne(d) PROVE NoWrites'
  BY <1>6 DEF MergeOne, MergeGoto, clockState, seqState, opState
<1>7. ASSUME NEW d \in Delivery, ReceiveSync(d) PROVE NoWrites'
  BY <1>7 DEF ReceiveSync, MergeGoto, seqState, opState
<1>8. CASE Crash
  BY <1>8 DEF Crash, Restart, MergeRestart
<1>9. CASE UNCHANGED vars
  BY <1>9 DEF vars, clockState, seqState, opState, mergeState
<1> QED BY <1>1, <1>2, <1>3, <1>4, <1>5, <1>6, <1>7, <1>8, <1>9 DEF SyncNext

\* A restart finds exactly the durable values: no write was under way.
LEMMA SyncCrash ==
  ASSUME NoWrites, Crash
  PROVE  /\ diskClock' = diskClock /\ clock' = diskClock
         /\ diskSeq' = diskSeq /\ seq' = diskSeq
<1>1. Applied(clockWrites, diskClock) = {diskClock}
  BY DEF Applied, NoWrites
<1>2. Applied(seqWrites, diskSeq) = {diskSeq}
  BY DEF Applied, NoWrites
<1> QED BY <1>1, <1>2 DEF Crash

\* An operation appends its event once: it cannot be in the store before.
LEMMA NotYetStored ==
  ASSUME SyncInv, NEW o \in Op, pc[o] = "numbered" PROVE EventOf(o) \notin events
<1>1. EventOf(o).body = o /\ EventOf(o).hlc = stamp[o]
  BY DEF EventOf
<1>2. EventOf(o) \notin shown
  BY <1>1 DEF SyncInv, ShownIsAuthored
<1>3. stamp[o].r = Self
  BY DEF SyncInv, TypeOK, Stamp, Timestamp
<1>4. \A e \in RemoteEvent : e.hlc.r # Self
  BY RemoteAssumption DEF Timestamp
<1>5. EventOf(o) \notin RemoteEvent
  BY <1>1, <1>3, <1>4
<1> QED BY <1>2, <1>5 DEF SyncInv, ShownIsAuthored

\* Every step leaves an operation with what its place in the code has given it.
LEMMA ProgressStep == ASSUME SyncInv, SyncNext PROVE Progress'
<1> USE DEF SyncInv, TypeOK, Progress, Stamped, Numbered
<1>1. ASSUME NEW o \in Op, TickSync(o) PROVE Progress'
  <2>1. PICK w \in Wall : clock' = Tick(clock, w, Self)
    BY <1>1 DEF TickSync
  <2>2. clock' # InitialClock(Self)
    BY <2>1, StampOrder
  <2>3. UNCHANGED <<number, disk>> /\ pc[o] = "start"
    BY <1>1 DEF TickSync, Begin, storeState
  <2>4. \A q \in Op \ {o} : pc'[q] = pc[q] /\ stamp'[q] = stamp[q]
    BY <1>1 DEF TickSync, Goto
  <2>5. \/ pc'[o] = "ticked" /\ stamp'[o] = clock'
        \/ pc'[o] = "lost"
    BY <1>1 DEF TickSync, Goto
  <2> QED BY <2>2, <2>3, <2>4, <2>5 DEF EventOf
<1>2. ASSUME NEW o \in Op, NumberSync(o) PROVE Progress'
  <2>1. UNCHANGED <<stamp, disk>> /\ pc[o] = "ticked"
    BY <1>2 DEF NumberSync, storeState
  <2>2. \A q \in Op \ {o} : pc'[q] = pc[q] /\ number'[q] = number[q]
    BY <1>2 DEF NumberSync, Goto
  <2>3. \/ pc'[o] = "numbered" /\ number'[o] = seq + 1
        \/ pc'[o] = "lost" /\ number'[o] = number[o]
    BY <1>2 DEF NumberSync, Goto
  <2>4. number'[o] # 0 => pc'[o] \in {"numbered", "lost"}
    BY <2>1, <2>3
  <2>5. seq + 1 # 0
    OBVIOUS
  <2>6. ASSUME NEW q \in Op \ {o}
        PROVE  EventOf(q)' = EventOf(q)
    BY <2>1, <2>2 DEF EventOf
  <2> QED BY <2>1, <2>2, <2>3, <2>4, <2>5, <2>6
<1>3. ASSUME NEW o \in Op, AppendEvent(o) PROVE Progress'
  <2>1. /\ UNCHANGED <<stamp, number>>
        /\ pc[o] = "numbered" /\ disk \subseteq disk'
        /\ \/ EventOf(o) \in disk' /\ pc' = [pc EXCEPT ![o] = "appended"]
           \/ pc' = [pc EXCEPT ![o] = "lost"]
    <3>1. EventOf(o) \notin events
      BY <1>3, NotYetStored DEF AppendEvent
    <3> QED BY <1>3, <3>1 DEF AppendEvent, Goto, Stored, NotStored
  <2> QED BY <2>1 DEF EventOf
<1>4. ASSUME NEW o \in Op, Publish(o) PROVE Progress'
  BY <1>4 DEF Publish, Goto, storeState, EventOf
<1>5. ASSUME NEW d \in Delivery, MergeCall(d) PROVE Progress'
  BY <1>5 DEF MergeCall, opState, storeState, EventOf
<1>6. ASSUME NEW d \in Delivery, MergeOne(d) PROVE Progress'
  <2>1. UNCHANGED <<pc, stamp, number>> /\ disk \subseteq disk'
    BY <1>6 DEF MergeOne, opState, Stored, NotStored
  <2> QED BY <2>1 DEF EventOf
<1>7. ASSUME NEW d \in Delivery, ReceiveSync(d) PROVE Progress'
  BY <1>7 DEF ReceiveSync, opState, storeState, EventOf
<1>8. CASE Crash
  BY <1>8 DEF Crash, Restart, EventOf
<1>9. CASE UNCHANGED vars
  BY <1>9 DEF vars, opState, storeState, EventOf
<1> QED BY <1>1, <1>2, <1>3, <1>4, <1>5, <1>6, <1>7, <1>8, <1>9 DEF SyncNext

\* Every step keeps the durable clock at or above all that was stamped or received:
\* a stamp is handed out, and a batch counts as received, only once persisted.
LEMMA ClockCoversStep == ASSUME SyncInv, TypeOK', SyncNext PROVE ClockCovers'
<1> USE DEF SyncInv, TypeOK, ClockCovers, Stamped
<1> DEFINE T == Timestamp(Replica)
<1>0. /\ clock \in T /\ clock' \in T /\ diskClock \in T /\ diskClock' \in T
      /\ \A o \in Op : stamp[o] \in T
      /\ \A e \in RemoteEvent : e.hlc \in T
  BY StampOrder
<1>1. ASSUME NEW o \in Op, TickSync(o) PROVE ClockCovers'
  <2>1. HlcLess(clock, clock') /\ HlcLeq(clock, clock')
    BY <1>1, StampOrder DEF TickSync, HlcLeq
  <2>2. UNCHANGED received
    BY <1>1 DEF TickSync, mergeState
  <2>3. CASE diskClock' = clock' /\ stamp' = [stamp EXCEPT ![o] = clock']
    <3>1. HlcLeq(diskClock', clock')
      BY <2>3 DEF HlcLeq
    <3>2. \A x \in T : HlcLeq(x, diskClock) => HlcLess(x, clock') /\ HlcLeq(x, diskClock')
      BY <1>0, <2>1, <2>3, StampOrder DEF HlcLeq
    <3>3. \A p \in Op : Stamped(p)' => HlcLeq(stamp[p]', diskClock')
      BY <1>0, <2>3, <3>2 DEF HlcLeq
    <3>4. \A p \in Op : p # o /\ Stamped(p) => stamp[p] # clock'
      BY <1>0, <3>2, StampOrder
    <3>5. \A p, q \in Op : Stamped(p)' /\ stamp[p]' = stamp[q]' => p = q
      BY <2>3, <3>4
    <3> QED BY <1>0, <2>2, <3>1, <3>2, <3>3, <3>5
  <2>4. CASE UNCHANGED <<diskClock, stamp>>
    BY <1>0, <2>1, <2>2, <2>4, StampOrder
  <2> QED BY <1>1, <2>3, <2>4 DEF TickSync
<1>2. ASSUME NEW o \in Op, NumberSync(o) PROVE ClockCovers'
  BY <1>2 DEF NumberSync, clockState, mergeState
<1>3. ASSUME NEW o \in Op, AppendEvent(o) PROVE ClockCovers'
  BY <1>3 DEF AppendEvent, clockState, mergeState
<1>4. ASSUME NEW o \in Op, Publish(o) PROVE ClockCovers'
  BY <1>4 DEF Publish, clockState, mergeState
<1>5. ASSUME NEW d \in Delivery, MergeCall(d) PROVE ClockCovers'
  BY <1>5 DEF MergeCall, clockState, opState
<1>6. ASSUME NEW d \in Delivery, MergeOne(d) PROVE ClockCovers'
  BY <1>6 DEF MergeOne, clockState, opState
<1>7. ASSUME NEW d \in Delivery, ReceiveSync(d) PROVE ClockCovers'
  <2>1. PICK e \in batch[d], w \in Wall :
          /\ \A f \in batch[d] : HlcLeq(f.hlc, e.hlc)
          /\ clock' = Receive(clock, e.hlc, w, Self)
    BY <1>7 DEF ReceiveSync, ClockReceives
  <2>2. HlcLess(clock, clock') /\ HlcLess(e.hlc, clock') /\ batch[d] \subseteq RemoteEvent
    BY <2>1, StampOrder
  <2>3. UNCHANGED stamp
    BY <1>7 DEF ReceiveSync, opState
  <2>4. CASE diskClock' = clock' /\ received' = received \cup batch[d]
    <3>1. HlcLeq(diskClock', clock') /\ HlcLeq(clock, diskClock')
      BY <2>2, <2>4 DEF HlcLeq
    <3>2. \A x \in T : HlcLeq(x, diskClock) => HlcLeq(x, diskClock')
      BY <1>0, <3>1, StampOrder
    <3>3. \A f \in batch[d] : HlcLeq(f.hlc, diskClock')
      BY <1>0, <2>1, <2>2, <2>4, StampOrder DEF HlcLeq
    <3> QED BY <1>0, <2>3, <2>4, <3>1, <3>2, <3>3
  <2>5. CASE UNCHANGED <<diskClock, received>>
    <3>1. HlcLeq(diskClock', clock')
      BY <1>0, <2>2, <2>5, StampOrder DEF HlcLeq
    <3> QED BY <2>3, <2>5, <3>1
  <2> QED BY <1>7, <2>4, <2>5 DEF ReceiveSync
<1>8. CASE Crash
  <2>1. UNCHANGED <<diskClock, stamp, received>> /\ clock' = diskClock'
    BY <1>8, SyncCrash DEF Crash
  <2> QED BY <2>1 DEF HlcLeq
<1>9. CASE UNCHANGED vars
  BY <1>9 DEF vars, clockState, opState, mergeState
<1> QED BY <1>1, <1>2, <1>3, <1>4, <1>5, <1>6, <1>7, <1>8, <1>9 DEF SyncNext

\* Every step keeps the durable number at or above all that was handed out.
LEMMA NumberCoversStep == ASSUME SyncInv, SyncNext PROVE NumberCovers'
<1> USE DEF SyncInv, TypeOK, NumberCovers, Numbered
<1>1. ASSUME NEW o \in Op, TickSync(o) PROVE NumberCovers'
  <2>1. UNCHANGED <<seq, diskSeq, number>> /\ pc[o] = "start"
    BY <1>1 DEF TickSync, Begin, seqState
  <2>2. \A q \in Op : pc'[q] # "lost" => pc[q] # "lost"
    BY <1>1, <2>1 DEF TickSync, Goto
  <2> QED BY <2>1, <2>2
<1>2. ASSUME NEW o \in Op, NumberSync(o) PROVE NumberCovers'
  <2>1. seq' = seq + 1 /\ pc[o] = "ticked"
    BY <1>2 DEF NumberSync
  <2>2. CASE diskSeq' = seq' /\ number' = [number EXCEPT ![o] = seq'] /\ pc' = [pc EXCEPT ![o] = "numbered"]
    BY <2>1, <2>2
  <2>3. CASE UNCHANGED <<diskSeq, number>> /\ pc' = [pc EXCEPT ![o] = "lost"]
    BY <2>1, <2>3
  <2> QED BY <1>2, <2>2, <2>3 DEF NumberSync, Goto
<1>3. ASSUME NEW o \in Op, AppendEvent(o) PROVE NumberCovers'
  <2>1. UNCHANGED <<seq, diskSeq, number>> /\ pc[o] = "numbered"
    BY <1>3 DEF AppendEvent, seqState
  <2>2. \A q \in Op : pc'[q] # "lost" => pc[q] # "lost"
    BY <1>3, <2>1 DEF AppendEvent, Goto
  <2> QED BY <2>1, <2>2
<1>4. ASSUME NEW o \in Op, Publish(o) PROVE NumberCovers'
  <2>1. UNCHANGED <<seq, diskSeq, number>> /\ pc[o] = "appended"
    BY <1>4 DEF Publish, seqState
  <2>2. \A q \in Op : pc'[q] # "lost" => pc[q] # "lost"
    BY <1>4, <2>1 DEF Publish, Goto
  <2> QED BY <2>1, <2>2
<1>5. ASSUME NEW d \in Delivery, MergeCall(d) PROVE NumberCovers'
  BY <1>5 DEF MergeCall, seqState, opState
<1>6. ASSUME NEW d \in Delivery, MergeOne(d) PROVE NumberCovers'
  BY <1>6 DEF MergeOne, seqState, opState
<1>7. ASSUME NEW d \in Delivery, ReceiveSync(d) PROVE NumberCovers'
  BY <1>7 DEF ReceiveSync, seqState, opState
<1>8. CASE Crash
  <2>1. UNCHANGED <<diskSeq, number>> /\ seq' = diskSeq'
    BY <1>8, SyncCrash DEF Crash
  <2> QED BY <2>1
<1>9. CASE UNCHANGED vars
  BY <1>9 DEF vars, seqState, opState
<1> QED BY <1>1, <1>2, <1>3, <1>4, <1>5, <1>6, <1>7, <1>8, <1>9 DEF SyncNext

\* No step shows an own event other than that of an operation that drew its stamp
\* and number, and neither is drawn again by that operation.
LEMMA ShownIsAuthoredStep == ASSUME SyncInv, SyncNext PROVE ShownIsAuthored'
<1> USE DEF SyncInv, TypeOK, ShownIsAuthored
\* It is enough that what an operation drew stays, once its event was shown.
<1>0. ASSUME shown \subseteq shown', received \subseteq received',
             events' \subseteq shown' \cup RemoteEvent,
             \A q \in Op : pc[q] \in {"appended", "done", "lost"} =>
               /\ stamp'[q] = stamp[q] /\ number'[q] = number[q]
               /\ pc'[q] \in {"appended", "done", "lost"},
             \A e \in shown' \ shown :
               /\ e.body \in Op /\ e = EventOf(e.body)'
               /\ number'[e.body] # 0 /\ pc'[e.body] \in {"appended", "done", "lost"},
             \A q \in Op : observed'[q] \in {observed[q], shown \cup received}
      PROVE  ShownIsAuthored'
  <2>1. ASSUME NEW e \in shown
        PROVE  /\ e.body \in Op /\ e = EventOf(e.body)'
               /\ Numbered(e.body)' /\ pc'[e.body] \in {"appended", "done", "lost"}
    <3>1. /\ e.body \in Op /\ e = EventOf(e.body) /\ Numbered(e.body)
          /\ pc[e.body] \in {"appended", "done", "lost"}
      OBVIOUS
    <3>2. stamp'[e.body] = stamp[e.body] /\ number'[e.body] = number[e.body]
      BY <1>0, <3>1
    <3>3. EventOf(e.body)' = EventOf(e.body)
      BY <3>2 DEF EventOf
    <3> QED BY <1>0, <3>1, <3>2, <3>3 DEF Numbered
  <2>2. ASSUME NEW q \in Op PROVE observed'[q] \subseteq shown' \cup received'
    <3>1. observed'[q] = observed[q] \/ observed'[q] = shown \cup received
      BY <1>0
    <3>2. observed[q] \subseteq shown \cup received
      OBVIOUS
    <3> QED BY <1>0, <3>1, <3>2
  <2> QED BY <1>0, <2>1, <2>2 DEF Numbered
<1>1. ASSUME NEW o \in Op, TickSync(o) PROVE ShownIsAuthored'
  <2>1. UNCHANGED <<events, shown, received, number>> /\ pc[o] = "start"
    BY <1>1 DEF TickSync, Begin, storeState, mergeState
  <2>2. \A q \in Op \ {o} : pc'[q] = pc[q] /\ stamp'[q] = stamp[q] /\ observed'[q] = observed[q]
    BY <1>1 DEF TickSync, Goto, Begin
  <2>3. observed'[o] = shown \cup received
    BY <1>1 DEF TickSync, Begin
  <2> QED BY <1>0, <2>1, <2>2, <2>3
<1>2. ASSUME NEW o \in Op, NumberSync(o) PROVE ShownIsAuthored'
  <2>1. UNCHANGED <<events, shown, received, stamp, observed>> /\ pc[o] = "ticked"
    BY <1>2 DEF NumberSync, storeState, mergeState
  <2>2. \A q \in Op \ {o} : pc'[q] = pc[q] /\ number'[q] = number[q]
    BY <1>2 DEF NumberSync, Goto
  <2> QED BY <1>0, <2>1, <2>2
<1>3. ASSUME NEW o \in Op, AppendEvent(o) PROVE ShownIsAuthored'
  <2>1. UNCHANGED <<received, stamp, number, observed>> /\ pc[o] = "numbered"
    BY <1>3 DEF AppendEvent, mergeState
  <2>2. /\ \A q \in Op \ {o} : pc'[q] = pc[q]
        /\ pc'[o] \in {"appended", "lost"}
    BY <1>3 DEF AppendEvent, Goto
  <2>3. shown \subseteq shown' /\ shown' \ shown \subseteq {EventOf(o)}
    BY <1>3 DEF AppendEvent
  <2>4. number[o] # 0
    BY <2>1 DEF Progress, Numbered
  <2>5. EventOf(o)' = EventOf(o) /\ EventOf(o).body = o
    BY <2>1 DEF EventOf
  <2>6. events' \subseteq shown' \cup RemoteEvent
    BY <1>3 DEF AppendEvent, Stored, NotStored
  <2> QED BY <1>0, <2>1, <2>2, <2>3, <2>4, <2>5, <2>6
<1>4. ASSUME NEW o \in Op, Publish(o) PROVE ShownIsAuthored'
  <2>1. UNCHANGED <<events, shown, received, stamp, number, observed>>
    BY <1>4 DEF Publish, storeState, mergeState
  <2>2. \A q \in Op : pc'[q] = pc[q] \/ pc'[q] = "done"
    BY <1>4 DEF Publish, Goto
  <2> QED BY <1>0, <2>1, <2>2
<1>5. ASSUME NEW d \in Delivery, MergeCall(d) PROVE ShownIsAuthored'
  BY <1>0, <1>5 DEF MergeCall, opState, storeState
<1>6. ASSUME NEW d \in Delivery, MergeOne(d) PROVE ShownIsAuthored'
  <2>1. UNCHANGED <<shown, received, pc, stamp, number, observed>>
    BY <1>6 DEF MergeOne, opState
  <2>2. events' \subseteq shown' \cup RemoteEvent
    BY <1>6 DEF MergeOne, Stored, NotStored
  <2> QED BY <1>0, <2>1, <2>2
<1>7. ASSUME NEW d \in Delivery, ReceiveSync(d) PROVE ShownIsAuthored'
  <2>1. UNCHANGED <<events, shown, pc, stamp, number, observed>> /\ received \subseteq received'
    BY <1>7 DEF ReceiveSync, opState, storeState
  <2> QED BY <1>0, <2>1
<1>8. CASE Crash
  <2>1. UNCHANGED <<shown, received, stamp, number, observed>> /\ events' \subseteq events
    BY <1>8 DEF Crash
  <2>2. \A q \in Op : pc[q] \in {"appended", "done", "lost"} => pc'[q] \in {"done", "lost"}
    BY <1>8 DEF Crash, Restart
  <2> QED BY <1>0, <2>1, <2>2
<1>9. CASE UNCHANGED vars
  BY <1>0, <1>9 DEF vars, opState, storeState, mergeState
<1> QED BY <1>1, <1>2, <1>3, <1>4, <1>5, <1>6, <1>7, <1>8, <1>9 DEF SyncNext

\* A tick leaves every event shown or received below the new stamp: they are below
\* the durable clock, hence below the clock.
LEMMA StampAboveObservedStep ==
  ASSUME SyncInv, TypeOK', SyncNext PROVE StampAboveObserved'
<1> USE DEF SyncInv, TypeOK, StampAboveObserved, Stamped
<1>1. ASSUME NEW o \in Op, TickSync(o) PROVE StampAboveObserved'
  <2>1. pc[o] = "start" /\ ~Stamped(o)
    BY <1>1 DEF TickSync, Begin, Progress
  <2>2. \A q \in Op \ {o} : stamp'[q] = stamp[q] /\ observed'[q] = observed[q]
    BY <1>1 DEF TickSync, Begin
  <2>3. observed'[o] = shown \cup received
    BY <1>1 DEF TickSync, Begin
  <2>4. stamp'[o] \in {stamp[o], clock'}
    BY <1>1 DEF TickSync
  <2>5. HlcLess(clock, clock')
    BY <1>1, StampOrder DEF TickSync
  <2>6. ASSUME NEW e \in shown \cup received PROVE HlcLess(e.hlc, clock')
    <3>1. /\ clock \in Timestamp(Replica) /\ clock' \in Timestamp(Replica)
          /\ diskClock \in Timestamp(Replica)
      BY StampOrder
    <3>2. e.hlc \in Timestamp(Replica) /\ HlcLeq(e.hlc, diskClock)
      <4>1. CASE e \in shown
        BY <4>1, StampOrder, SMTT(30) DEF ShownIsAuthored, EventOf, Progress, ClockCovers
      <4>2. CASE e \in received
        BY <4>2, StampOrder DEF ClockCovers
      <4> QED BY <4>1, <4>2
    <3>3. HlcLeq(diskClock, clock)
      BY DEF ClockCovers
    <3>4. HlcLeq(e.hlc, clock)
      BY <3>1, <3>2, <3>3, StampOrder
    <3> QED BY <3>1, <3>2, <3>4, <2>5, StampOrder
  <2> QED BY <2>1, <2>2, <2>3, <2>4, <2>6
<1>2. ASSUME NEW o \in Op, NumberSync(o) PROVE StampAboveObserved'
  BY <1>2 DEF NumberSync
<1>3. ASSUME NEW o \in Op, AppendEvent(o) PROVE StampAboveObserved'
  BY <1>3 DEF AppendEvent
<1>4. ASSUME NEW o \in Op, Publish(o) PROVE StampAboveObserved'
  BY <1>4 DEF Publish
<1>5. ASSUME NEW d \in Delivery, MergeCall(d) PROVE StampAboveObserved'
  BY <1>5 DEF MergeCall, opState
<1>6. ASSUME NEW d \in Delivery, MergeOne(d) PROVE StampAboveObserved'
  BY <1>6 DEF MergeOne, opState
<1>7. ASSUME NEW d \in Delivery, ReceiveSync(d) PROVE StampAboveObserved'
  BY <1>7 DEF ReceiveSync, opState
<1>8. CASE Crash
  BY <1>8 DEF Crash
<1>9. CASE UNCHANGED vars
  BY <1>9 DEF vars, opState
<1> QED BY <1>1, <1>2, <1>3, <1>4, <1>5, <1>6, <1>7, <1>8, <1>9 DEF SyncNext

\* A number drawn is larger than those of all own events shown.
LEMMA NumberAboveOwnStep == ASSUME SyncInv, SyncNext PROVE NumberAboveOwn'
<1> USE DEF SyncInv, TypeOK, NumberAboveOwn, Numbered
<1>1. ASSUME NEW o \in Op, TickSync(o) PROVE NumberAboveOwn'
  <2>1. UNCHANGED number /\ ~Numbered(o)
    BY <1>1 DEF TickSync, Begin, Progress
  <2>2. \A q \in Op \ {o} : observed'[q] = observed[q]
    BY <1>1 DEF TickSync, Begin
  <2> QED BY <2>1, <2>2
<1>2. ASSUME NEW o \in Op, NumberSync(o) PROVE NumberAboveOwn'
  <2>1. UNCHANGED observed
    BY <1>2 DEF NumberSync
  <2>2. \A q \in Op \ {o} : number'[q] = number[q]
    BY <1>2 DEF NumberSync
  <2>3. number'[o] \in {number[o], seq + 1}
    BY <1>2 DEF NumberSync
  <2>4. ASSUME NEW e \in observed[o] \ RemoteEvent PROVE e.seq < seq + 1
    <3>1. e \in shown
      BY DEF ShownIsAuthored
    <3>2. e.body \in Op /\ e.seq = number[e.body]
      BY <3>1 DEF ShownIsAuthored, EventOf
    <3> QED BY <3>2 DEF NumberCovers
  <2> QED BY <2>1, <2>2, <2>3, <2>4
<1>3. ASSUME NEW o \in Op, AppendEvent(o) PROVE NumberAboveOwn'
  BY <1>3 DEF AppendEvent
<1>4. ASSUME NEW o \in Op, Publish(o) PROVE NumberAboveOwn'
  BY <1>4 DEF Publish
<1>5. ASSUME NEW d \in Delivery, MergeCall(d) PROVE NumberAboveOwn'
  BY <1>5 DEF MergeCall, opState
<1>6. ASSUME NEW d \in Delivery, MergeOne(d) PROVE NumberAboveOwn'
  BY <1>6 DEF MergeOne, opState
<1>7. ASSUME NEW d \in Delivery, ReceiveSync(d) PROVE NumberAboveOwn'
  BY <1>7 DEF ReceiveSync, opState
<1>8. CASE Crash
  BY <1>8 DEF Crash
<1>9. CASE UNCHANGED vars
  BY <1>9 DEF vars, opState
<1> QED BY <1>1, <1>2, <1>3, <1>4, <1>5, <1>6, <1>7, <1>8, <1>9 DEF SyncNext

\* Only a step that loses an operation can leave a number without an event.
LEMMA NoGapStep == ASSUME SyncInv, SyncNext PROVE NoGapWithoutFailure'
<1> USE DEF SyncInv, TypeOK
<1> DEFINE Explained(n) ==
      \E q \in Op : /\ number[q] = n
                    /\ pc[q] \in {"numbered", "appended", "done"}
                    /\ pc[q] # "numbered" => EventOf(q) \in disk
<1>1. SUFFICES ASSUME \A q \in Op : pc'[q] # "lost", NEW n \in 1..seq'
               PROVE  Explained(n)'
  BY DEF NoGapWithoutFailure
\* A step that loses no operation starts from a state without a lost one, and
\* keeps the explanation of every number drawn before it.
<1>2. ASSUME n \in 1..seq, \A q \in Op : pc[q] # "lost",
             disk \subseteq disk',
             \A q \in Op : pc[q] \in {"numbered", "appended", "done"} =>
               /\ stamp'[q] = stamp[q] /\ number'[q] = number[q]
               /\ pc'[q] \in {"numbered", "appended", "done"}
               /\ pc'[q] # "numbered" => pc[q] # "numbered" \/ EventOf(q) \in disk'
      PROVE  Explained(n)'
  <2>1. PICK q \in Op : /\ number[q] = n
                        /\ pc[q] \in {"numbered", "appended", "done"}
                        /\ pc[q] # "numbered" => EventOf(q) \in disk
    BY <1>2 DEF NoGapWithoutFailure
  <2>2. EventOf(q)' = EventOf(q)
    BY <1>2, <2>1 DEF EventOf
  <2> QED BY <1>2, <2>1, <2>2
<1>3. ASSUME NEW o \in Op, TickSync(o) PROVE Explained(n)'
  <2>1. UNCHANGED <<seq, number, disk>> /\ pc[o] = "start"
    BY <1>3 DEF TickSync, Begin, seqState, storeState
  <2>2. \A q \in Op \ {o} : pc'[q] = pc[q] /\ stamp'[q] = stamp[q]
    BY <1>3 DEF TickSync, Goto
  <2> QED BY <1>1, <1>2, <2>1, <2>2
<1>4. ASSUME NEW o \in Op, NumberSync(o) PROVE Explained(n)'
  <2>1. UNCHANGED <<stamp, disk>> /\ pc[o] = "ticked" /\ seq' = seq + 1
    BY <1>4 DEF NumberSync, storeState
  <2>2. \A q \in Op \ {o} : pc'[q] = pc[q] /\ number'[q] = number[q]
    BY <1>4 DEF NumberSync, Goto
  <2>3. number'[o] = seq + 1 /\ pc'[o] = "numbered"
    BY <1>1, <1>4 DEF NumberSync, Goto
  <2>4. CASE n = seq + 1
    BY <2>3, <2>4
  <2>5. CASE n # seq + 1
    <3>1. n \in 1..seq
      BY <2>1, <2>5
    <3> QED BY <1>1, <1>2, <2>1, <2>2, <3>1
  <2> QED BY <2>4, <2>5
<1>5. ASSUME NEW o \in Op, AppendEvent(o) PROVE Explained(n)'
  <2>1. UNCHANGED <<seq, stamp, number>> /\ pc[o] = "numbered" /\ disk \subseteq disk'
    BY <1>5 DEF AppendEvent, seqState, Stored, NotStored
  <2>2. \A q \in Op \ {o} : pc'[q] = pc[q]
    BY <1>5 DEF AppendEvent, Goto
  <2>3. pc'[o] = "appended" /\ EventOf(o) \in disk'
    <3>1. EventOf(o) \notin events
      BY <1>5, NotYetStored DEF AppendEvent
    <3> QED BY <1>1, <1>5, <3>1 DEF AppendEvent, Goto, Stored
  <2> QED BY <1>1, <1>2, <2>1, <2>2, <2>3
<1>6. ASSUME NEW o \in Op, Publish(o) PROVE Explained(n)'
  <2>1. UNCHANGED <<seq, stamp, number, disk>> /\ pc[o] = "appended" /\ pc'[o] = "done"
    BY <1>6 DEF Publish, Goto, seqState, storeState
  <2>2. \A q \in Op \ {o} : pc'[q] = pc[q]
    BY <1>6 DEF Publish, Goto
  <2> QED BY <1>1, <1>2, <2>1, <2>2
<1>7. ASSUME NEW d \in Delivery, MergeCall(d) PROVE Explained(n)'
  <2>1. UNCHANGED <<seq, stamp, number, disk, pc>>
    BY <1>7 DEF MergeCall, seqState, storeState, opState
  <2> QED BY <1>1, <1>2, <2>1
<1>8. ASSUME NEW d \in Delivery, MergeOne(d) PROVE Explained(n)'
  <2>1. UNCHANGED <<seq, stamp, number, pc>> /\ disk \subseteq disk'
    BY <1>8 DEF MergeOne, Stored, NotStored, seqState, opState
  <2> QED BY <1>1, <1>2, <2>1
<1>9. ASSUME NEW d \in Delivery, ReceiveSync(d) PROVE Explained(n)'
  <2>1. UNCHANGED <<seq, stamp, number, disk, pc>>
    BY <1>9 DEF ReceiveSync, seqState, storeState, opState
  <2> QED BY <1>1, <1>2, <2>1
<1>10. CASE Crash
  <2>1. UNCHANGED <<stamp, number, disk>> /\ seq' = diskSeq
    BY <1>10, SyncCrash DEF Crash
  <2>2. \A q \in Op : pc'[q] = Restart(q)
    BY <1>10 DEF Crash
  <2>3. \A q \in Op : pc'[q] = pc[q]
    BY <1>1, <2>2 DEF Restart
  <2>4. diskSeq = seq
    BY <1>1, <2>3 DEF NumberCovers
  <2> QED BY <1>1, <1>2, <2>1, <2>3, <2>4
<1>11. CASE UNCHANGED vars
  <2>1. UNCHANGED <<seq, stamp, number, disk, pc>>
    BY <1>11 DEF vars, seqState, storeState, opState
  <2> QED BY <1>1, <1>2, <2>1
<1> QED
  BY <1>3, <1>4, <1>5, <1>6, <1>7, <1>8, <1>9, <1>10, <1>11 DEF SyncNext

\* The inductive invariant of the synchronous services.
LEMMA SyncInvariant == ASSUME ~Async PROVE Spec => []SyncInv
<1>1. Init => SyncInv
  <2> SUFFICES ASSUME Init PROVE SyncInv
    OBVIOUS
  <2>1. TypeOK
    BY InitType
  <2>2. NoWrites /\ Progress
    BY DEF Init, NoWrites, Progress, Stamped, Numbered
  <2>3. ClockCovers /\ NumberCovers
    BY DEF Init, ClockCovers, NumberCovers, Stamped, Numbered, HlcLeq
  <2>4. ShownIsAuthored /\ StampAboveObserved /\ NumberAboveOwn
    BY DEF Init, ShownIsAuthored, StampAboveObserved, NumberAboveOwn
  <2>5. NoGapWithoutFailure
    BY DEF Init, NoGapWithoutFailure
  <2> QED BY <2>1, <2>2, <2>3, <2>4, <2>5 DEF SyncInv
<1>2. SyncInv /\ [Next]_vars => SyncInv'
  <2> SUFFICES ASSUME SyncInv, [Next]_vars PROVE SyncInv'
    OBVIOUS
  <2>1. TypeOK'
    BY TypeStep DEF SyncInv
  <2>2. SyncNext
    BY OnlySyncSteps DEF SyncInv
  <2> QED
    BY <2>1, <2>2, NoWritesStep, ProgressStep, ClockCoversStep, NumberCoversStep,
       ShownIsAuthoredStep, StampAboveObservedStep, NumberAboveOwnStep, NoGapStep
       DEF SyncInv
<1> QED BY <1>1, <1>2, PTL DEF Spec

\* No timestamp and no sequence number is ever given to two events of a replica,
\* for any number of overlapping, failing and interrupted calls: what version
\* vectors and the order of conflict resolution take for granted.
THEOREM StampsUnique == ASSUME ~Async PROVE Spec => []UniqueStamps
<1>1. SyncInv => UniqueStamps
  <2> SUFFICES ASSUME SyncInv, NEW a \in shown, NEW b \in shown,
                      a.hlc = b.hlc \/ a.seq = b.seq
               PROVE  a = b
    BY DEF UniqueStamps
  <2>1. /\ a.body \in Op /\ b.body \in Op
        /\ a = EventOf(a.body) /\ b = EventOf(b.body)
        /\ Numbered(a.body) /\ Numbered(b.body)
    BY DEF SyncInv, ShownIsAuthored
  <2>2. /\ a.hlc = stamp[a.body] /\ a.seq = number[a.body]
        /\ b.hlc = stamp[b.body] /\ b.seq = number[b.body]
    BY <2>1 DEF EventOf
  <2>3. Stamped(a.body)
    BY <2>1 DEF SyncInv, Progress
  <2>4. a.body = b.body
    BY <2>1, <2>2, <2>3 DEF SyncInv, ClockCovers, NumberCovers
  <2> QED BY <2>1, <2>4
<1> QED BY <1>1, SyncInvariant, PTL

\* An operation is stamped above everything its replica had shown and every merge
\* it had completed, and numbered above all its own events, across restarts.
THEOREM StampsAboveObserved ==
  ASSUME ~Async PROVE Spec => [](StampAboveObserved /\ NumberAboveOwn)
<1>1. SyncInv => StampAboveObserved /\ NumberAboveOwn
  BY DEF SyncInv
<1> QED BY <1>1, SyncInvariant, PTL

\* Every number drawn belongs to a call in flight or to a stored event as long as no
\* call failed: holes in a replica's own numbers come only from calls that failed.
THEOREM HolesComeFromFailures == ASSUME ~Async PROVE Spec => []NoGapWithoutFailure
<1>1. SyncInv => NoGapWithoutFailure
  BY DEF SyncInv
<1> QED BY <1>1, SyncInvariant, PTL

------------------------------------------------------------------------------
(* What both families keep *)

\* A row store has nothing in memory that is not in storage.
Persisted == \A o \in Op : pc[o] \in {"appended", "done"} => EventOf(o) \in disk

AsyncInv == TypeOK /\ events = disk /\ Persisted

\* What an operation is given and what is stored stays: its stamp and number do not
\* change once it is numbered, and nothing is removed from storage.
LEMMA KeptEvents ==
  ASSUME TypeOK, [Next]_vars, NEW o \in Op, pc'[o] \in {"appended", "done"}
  PROVE  /\ disk \subseteq disk'
         /\ \/ pc[o] \in {"appended", "done"} /\ EventOf(o)' = EventOf(o)
            \/ /\ pc[o] = "numbered" /\ EventOf(o)' = EventOf(o)
               /\ Stored(EventOf(o))
<1> USE DEF TypeOK, EventOf
<1>1. ASSUME NEW p \in Op,
             \/ Goto(p, "ticking") \/ Goto(p, "ticked") \/ Goto(p, "numbering")
             \/ Goto(p, "numbered") \/ Goto(p, "lost")
      PROVE  p # o /\ pc'[o] = pc[o]
  <2>1. pc'[p] \in {"ticking", "ticked", "numbering", "numbered", "lost"}
    BY <1>1 DEF Goto
  <2>2. p # o
    BY <2>1
  <2> QED BY <1>1, <2>2 DEF Goto
<1>2. ASSUME NEW p \in Op, TickSync(p) \/ TickCall(p) \/ TickReturn(p)
      PROVE  disk' = disk /\ pc'[o] = pc[o] /\ stamp'[o] = stamp[o] /\ number'[o] = number[o]
  <2>1. Goto(p, "ticked") \/ Goto(p, "lost") \/ Goto(p, "ticking")
    BY <1>2 DEF TickSync, TickCall, TickReturn
  <2>2. p # o /\ pc'[o] = pc[o]
    BY <1>1, <2>1
  <2>3. disk' = disk /\ number' = number
    BY <1>2 DEF TickSync, TickCall, TickReturn, storeState
  <2>4. stamp' = stamp \/ \E x : stamp' = [stamp EXCEPT ![p] = x]
    BY <1>2 DEF TickSync, TickCall, TickReturn
  <2> QED BY <2>2, <2>3, <2>4
<1>3. ASSUME NEW p \in Op, NumberSync(p) \/ NumberCall(p) \/ NumberReturn(p)
      PROVE  disk' = disk /\ pc'[o] = pc[o] /\ stamp'[o] = stamp[o] /\ number'[o] = number[o]
  <2>1. Goto(p, "numbered") \/ Goto(p, "lost") \/ Goto(p, "numbering")
    BY <1>3 DEF NumberSync, NumberCall, NumberReturn
  <2>2. p # o /\ pc'[o] = pc[o]
    BY <1>1, <2>1
  <2>3. disk' = disk /\ stamp' = stamp
    BY <1>3 DEF NumberSync, NumberCall, NumberReturn, storeState
  <2>4. number' = number \/ \E x : number' = [number EXCEPT ![p] = x]
    BY <1>3 DEF NumberSync, NumberCall, NumberReturn
  <2> QED BY <2>2, <2>3, <2>4
<1>4. ASSUME NEW p \in Op, AppendEvent(p)
      PROVE  /\ disk \subseteq disk' /\ stamp' = stamp /\ number' = number
             /\ \/ pc'[o] = pc[o]
                \/ pc[o] = "numbered" /\ Stored(EventOf(o))
  <2>1. disk \subseteq disk' /\ stamp' = stamp /\ number' = number
    BY <1>4 DEF AppendEvent, Stored, NotStored
  <2>2. CASE Stored(EventOf(p)) /\ Goto(p, "appended")
    <3>1. pc' = [pc EXCEPT ![p] = "appended"]
      BY <2>2 DEF Goto
    <3>2. pc[p] = "numbered"
      BY <1>4 DEF AppendEvent
    <3>3. p = o => Stored(EventOf(o))
      BY <2>2
    <3>4. p # o => pc'[o] = pc[o]
      BY <3>1
    <3> HIDE DEF EventOf
    <3> QED BY <2>1, <3>2, <3>3, <3>4
  <2>3. CASE Goto(p, "lost")
    <3>1. pc'[o] = pc[o]
      BY <1>1, <2>3
    <3> HIDE DEF EventOf
    <3> QED BY <2>1, <3>1
  <2> QED BY <1>4, <2>2, <2>3 DEF AppendEvent
<1>5. ASSUME NEW p \in Op, Publish(p)
      PROVE  /\ disk' = disk /\ stamp' = stamp /\ number' = number
             /\ pc'[o] = pc[o] \/ pc[o] = "appended"
  BY <1>5 DEF Publish, Goto, storeState
<1>6. ASSUME NEW d \in Delivery, MergeStep(d)
      PROVE  disk \subseteq disk' /\ pc' = pc /\ stamp' = stamp /\ number' = number
  <2>1. pc' = pc /\ stamp' = stamp /\ number' = number
    BY <1>6 DEF MergeStep, MergeCall, MergeOne, ReceiveSync, ReceiveCall, ReceiveReturn, opState
  <2>2. disk \subseteq disk'
    BY <1>6 DEF MergeStep, MergeCall, MergeOne, ReceiveSync, ReceiveCall, ReceiveReturn,
                storeState, Stored, NotStored
  <2> QED BY <2>1, <2>2
<1>7. CASE Crash
  <2>1. disk' = disk /\ stamp' = stamp /\ number' = number /\ pc'[o] = Restart(o)
    BY <1>7 DEF Crash
  <2>2. pc[o] = "done"
    BY <2>1 DEF Restart
  <2> QED BY <2>1, <2>2
<1>8. CASE UNCHANGED vars
  BY <1>8 DEF vars, storeState, opState
<1>9. CASE \E p \in Op : OpStep(p)
  BY <1>2, <1>3, <1>4, <1>5, <1>9 DEF OpStep
<1>10. CASE \E d \in Delivery : MergeStep(d)
  BY <1>6, <1>10
<1> QED BY <1>7, <1>8, <1>9, <1>10 DEF Next

\* With the services that write rows, memory is never ahead of storage.
LEMMA AsyncInvariant == ASSUME Async PROVE Spec => []AsyncInv
<1>1. Init => AsyncInv
  <2> SUFFICES ASSUME Init PROVE AsyncInv
    OBVIOUS
  <2> QED BY InitType DEF Init, AsyncInv, Persisted
<1>2. AsyncInv /\ [Next]_vars => AsyncInv'
  <2> SUFFICES ASSUME AsyncInv, [Next]_vars PROVE AsyncInv'
    OBVIOUS
  <2>1. TypeOK'
    BY TypeStep DEF AsyncInv
  <2>2. events' = disk'
    BY DEF AsyncInv, Next, OpStep, MergeStep, TickSync, TickCall, TickReturn, NumberSync,
           NumberCall, NumberReturn, AppendEvent, Publish, MergeCall, MergeOne, ReceiveSync,
           ReceiveCall, ReceiveReturn, Crash, Stored, NotStored, storeState, vars
  <2>3. ASSUME NEW o \in Op, pc'[o] \in {"appended", "done"} PROVE EventOf(o)' \in disk'
    <3>1. /\ disk \subseteq disk'
          /\ \/ pc[o] \in {"appended", "done"} /\ EventOf(o)' = EventOf(o)
             \/ EventOf(o)' = EventOf(o) /\ Stored(EventOf(o))
      BY <2>3, KeptEvents DEF AsyncInv
    <3> QED BY <3>1 DEF AsyncInv, Persisted, Stored
  <2> QED BY <2>1, <2>2, <2>3 DEF AsyncInv, Persisted
<1> QED BY <1>1, <1>2, PTL DEF Spec

\* An event handed to the transport is never lost by its own replica, with the services
\* that write their whole state as with those that write rows.
THEOREM PublishedIsDurable == Spec => []PublishedDurable
<1>1. CASE Async
  <2>1. AsyncInv => PublishedDurable
    BY DEF AsyncInv, Persisted, PublishedDurable
  <2> QED BY <1>1, <2>1, AsyncInvariant, PTL
<1>2. CASE ~Async
  <2>1. SyncInv => PublishedDurable
    BY DEF SyncInv, Progress, PublishedDurable
  <2> QED BY <1>2, <2>1, SyncInvariant, PTL
<1> QED BY <1>1, <1>2
==============================================================================
