------------------------------- MODULE Replica -------------------------------
(****************************************************************************)
(* One replica of the runtime: the local operations and the merges that run  *)
(* concurrently over its clock, its sequencer and its event store, with      *)
(* failing storage and crashes.                                              *)
(*                                                                           *)
(*   applyOperation  (packages/runtime/src/operations.ts)                    *)
(*     hlc = await clock.tick(); seq = await sequencer.next();               *)
(*     await store.append(event); await transport.publish([event])           *)
(*   mergeFrom       (same file)                                             *)
(*     await store.merge(batch), one append per event;                       *)
(*     await clock.receive(the largest hlc of the batch)                     *)
(*                                                                           *)
(* Every await is a point where another call may run, so each step of a call *)
(* is an action of its own.  Two families of services implement the clock,   *)
(* the sequencer and the store:                                              *)
(*                                                                           *)
(*   Async = FALSE  LocalClock, LocalSequencer, LocalEventStore of           *)
(*                  packages/runtime/src/local.ts: change memory, persist    *)
(*                  and return in one turn; if persisting throws, memory     *)
(*                  keeps the change and the caller gets the error.          *)
(*   Async = TRUE   NodeSqlite* of packages/node/src/index.ts (NodePostgres*, *)
(*                  AsyncLocalClock and AsyncLocalSequencer are written      *)
(*                  alike): the clock and the sequencer change in memory,    *)
(*                  await the write, then return what the object holds by    *)
(*                  then; the store looks for the row and inserts it.        *)
(* AsyncLocalEventStore is of neither family: it changes memory, which scan() *)
(* shows, and awaits the write of the whole map.                             *)
(*                                                                           *)
(* The content of an event is the operation that made it, and the event id,  *)
(* a hash of content and hlc, is the event itself.                           *)
(****************************************************************************)
EXTENDS Hlc, Sequences

CONSTANTS
  Replica,      \* replica ids; only their order is used
  Self,         \* this replica
  Op,           \* the applyOperation calls made on this replica
  Delivery,     \* the mergeFrom calls made on this replica
  RemoteEvent,  \* what other replicas authored
  Wall,         \* what Date.now() may read; it may also step back
  Async,        \* which family of services
  MaxCrash      \* bound on crashes

ASSUME ReplicaAssumption == Replica \subseteq Nat /\ Self \in Replica
ASSUME RemoteAssumption ==
  \A e \in RemoteEvent : e.hlc \in Timestamp(Replica \ {Self})
ASSUME WallAssumption == Wall \subseteq Nat
ASSUME AsyncAssumption == Async \in BOOLEAN
ASSUME CrashAssumption == MaxCrash \in Nat

VARIABLES
  clock, diskClock,        \* the clock object and its durable copy
  seq, diskSeq,            \* the sequencer object and its durable copy
  clockWrites, seqWrites,  \* writes asked of the storage, not acknowledged yet
  events, disk,            \* the event store: what scan() returns, what is durable
  pc, stamp, number,       \* of an operation: where it is, its hlc, its seq
  mergePc, batch, todo,    \* of a merge: where it is, its events, those left
  shown,                   \* history: own events that scan() has ever returned
  received,                \* history: remote events clock.receive() has covered
  observed,                \* history: the events the clock should cover when an
                           \* operation began
  crashes                  \* number of crashes so far

clockState == <<clock, diskClock, clockWrites>>
seqState   == <<seq, diskSeq, seqWrites>>
storeState == <<events, disk, shown>>
opState    == <<pc, stamp, number, observed>>
mergeState == <<mergePc, batch, todo, received>>
vars == <<clockState, seqState, storeState, opState, mergeState, crashes>>

Stamp == Timestamp({Self})
OwnEvent == [hlc : Stamp, seq : Nat, body : Op]
Write(T) == [by : Op \cup Delivery, val : T]

OpPc == {"start", "ticking", "ticked", "numbering", "numbered",
         "appended", "done", "lost"}
MergePc == {"idle", "merging", "receiving", "done", "lost"}

\* The values the variables range over.
TypeOK ==
  /\ clock \in Stamp /\ diskClock \in Stamp
  /\ seq \in Nat /\ diskSeq \in Nat
  /\ clockWrites \in Seq(Write(Stamp)) /\ seqWrites \in Seq(Write(Nat))
  /\ events \subseteq OwnEvent \cup RemoteEvent
  /\ disk \subseteq events
  /\ pc \in [Op -> OpPc] /\ stamp \in [Op -> Stamp] /\ number \in [Op -> Nat]
  /\ mergePc \in [Delivery -> MergePc]
  /\ batch \in [Delivery -> SUBSET RemoteEvent]
  /\ todo \in [Delivery -> SUBSET RemoteEvent]
  /\ observed \in [Op -> SUBSET (OwnEvent \cup RemoteEvent)]
  /\ shown \subseteq OwnEvent
  /\ received \subseteq RemoteEvent
  /\ crashes \in Nat

Init ==
  /\ clock = InitialClock(Self) /\ diskClock = InitialClock(Self)
  /\ seq = 0 /\ diskSeq = 0
  /\ clockWrites = <<>> /\ seqWrites = <<>>
  /\ events = {} /\ disk = {}
  /\ pc = [o \in Op |-> "start"]
  /\ stamp = [o \in Op |-> InitialClock(Self)]
  /\ number = [o \in Op |-> 0]
  /\ observed = [o \in Op |-> {}]
  /\ mergePc = [d \in Delivery |-> "idle"]
  /\ batch = [d \in Delivery |-> {}]
  /\ todo = [d \in Delivery |-> {}]
  /\ shown = {} /\ received = {}
  /\ crashes = 0

------------------------------------------------------------------------------
(* applyOperation *)

Goto(o, label) == pc' = [pc EXCEPT ![o] = label]

\* The call begins: record what it could know.
Begin(o) ==
  /\ pc[o] = "start"
  /\ observed' = [observed EXCEPT ![o] = shown \cup received]

\* clock.tick() of LocalClock: new clock, durable copy and result in one turn.
\* When persisting throws, the clock has moved and the operation fails.
TickSync(o) ==
  /\ ~Async /\ Begin(o)
  /\ \E w \in Wall : clock' = Tick(clock, w, Self)
  /\ \/ /\ diskClock' = clock'
        /\ stamp' = [stamp EXCEPT ![o] = clock']
        /\ Goto(o, "ticked")
     \/ Goto(o, "lost") /\ UNCHANGED <<diskClock, stamp>>
  /\ UNCHANGED <<clockWrites, seqState, storeState, number, mergeState, crashes>>

\* NodeSqliteClock.tick() up to its await: the new clock is in memory only.
TickCall(o) ==
  /\ Async /\ Begin(o)
  /\ \E w \in Wall : clock' = Tick(clock, w, Self)
  /\ clockWrites' = Append(clockWrites, [by |-> o, val |-> clock'])
  /\ Goto(o, "ticking")
  /\ UNCHANGED <<diskClock, seqState, storeState, stamp, number, mergeState,
                 crashes>>

\* The storage answers writes in the order asked.  After a rejected write the
\* call fails; after an acknowledged one it returns this.clock, which later calls
\* may have moved on.
TickReturn(o) ==
  /\ pc[o] = "ticking"
  /\ clockWrites # <<>> /\ Head(clockWrites).by = o
  /\ clockWrites' = Tail(clockWrites)
  /\ \/ /\ diskClock' = Head(clockWrites).val
        /\ stamp' = [stamp EXCEPT ![o] = clock]
        /\ Goto(o, "ticked")
     \/ Goto(o, "lost") /\ UNCHANGED <<diskClock, stamp>>
  /\ UNCHANGED <<clock, seqState, storeState, number, observed, mergeState,
                 crashes>>

\* Mutant of NumberSync: the new number is not persisted.
NumberUnsaved(o) ==
  /\ ~Async /\ pc[o] = "ticked"
  /\ seq' = seq + 1 /\ number' = [number EXCEPT ![o] = seq']
  /\ Goto(o, "numbered")
  /\ UNCHANGED <<diskSeq, seqWrites, clockState, storeState, stamp, observed,
                 mergeState, crashes>>

\* sequencer.next() of LocalSequencer, with the same two outcomes.
NumberSync(o) ==
  /\ ~Async /\ pc[o] = "ticked"
  /\ seq' = seq + 1
  /\ \/ /\ diskSeq' = seq'
        /\ number' = [number EXCEPT ![o] = seq']
        /\ Goto(o, "numbered")
     \/ Goto(o, "lost") /\ UNCHANGED <<diskSeq, number>>
  /\ UNCHANGED <<seqWrites, clockState, storeState, stamp, observed,
                 mergeState, crashes>>

\* NodeSqliteSequencer.next() up to its await, and its return.
NumberCall(o) ==
  /\ Async /\ pc[o] = "ticked"
  /\ seq' = seq + 1
  /\ seqWrites' = Append(seqWrites, [by |-> o, val |-> seq'])
  /\ Goto(o, "numbering")
  /\ UNCHANGED <<diskSeq, clockState, storeState, stamp, number, observed,
                 mergeState, crashes>>

NumberReturn(o) ==
  /\ pc[o] = "numbering"
  /\ seqWrites # <<>> /\ Head(seqWrites).by = o
  /\ seqWrites' = Tail(seqWrites)
  /\ \/ /\ diskSeq' = Head(seqWrites).val
        /\ number' = [number EXCEPT ![o] = seq]
        /\ Goto(o, "numbered")
     \/ Goto(o, "lost") /\ UNCHANGED <<diskSeq, number>>
  /\ UNCHANGED <<seq, clockState, storeState, stamp, observed, mergeState,
                 crashes>>

EventOf(o) == [hlc |-> stamp[o], seq |-> number[o], body |-> o]

\* Mutants of Stored: only memory, only storage changes.
StoredInMemory(e) == events' = events \cup {e} /\ disk' = disk
StoredOnDisk(e) == disk' = disk \cup {e} /\ events' = events

\* store.append() of an event: into memory, then to storage, where LocalEventStore
\* writes its whole map.  An event the store already holds is not written.
Stored(e) ==
  /\ events' = events \cup {e}
  /\ disk' = IF e \in events THEN disk ELSE events'

\* store.append() that throws: LocalEventStore keeps the event in memory, a row
\* store keeps nothing.  The one writes, and can fail, only when it did not hold the
\* event; the other awaits between looking for the row and inserting it, and fails
\* also when another append of the event came in between.
NotStored(e) ==
  /\ Async \/ e \notin events
  /\ events' = IF Async THEN events ELSE events \cup {e}
  /\ UNCHANGED disk

AppendEvent(o) ==
  /\ pc[o] = "numbered"
  /\ \/ Stored(EventOf(o)) /\ Goto(o, "appended")
     \/ NotStored(EventOf(o)) /\ Goto(o, "lost")
  /\ shown' = shown \cup (events' \cap {EventOf(o)})
  /\ UNCHANGED <<clockState, seqState, stamp, number, observed, mergeState,
                 crashes>>

\* transport.publish(): the event leaves the replica and the call is done.
Publish(o) ==
  /\ pc[o] = "appended"
  /\ Goto(o, "done")
  /\ UNCHANGED <<clockState, seqState, storeState, stamp, number, observed,
                 mergeState, crashes>>

------------------------------------------------------------------------------
(* mergeFrom *)

MergeGoto(d, label) == mergePc' = [mergePc EXCEPT ![d] = label]

\* mergeFrom is called with a batch from the transport (an empty one changes
\* nothing).
MergeCall(d) ==
  /\ mergePc[d] = "idle"
  /\ \E b \in (SUBSET RemoteEvent) \ {{}} :
       /\ batch' = [batch EXCEPT ![d] = b]
       /\ todo' = [todo EXCEPT ![d] = b]
  /\ MergeGoto(d, "merging")
  /\ UNCHANGED <<clockState, seqState, storeState, opState, received, crashes>>

\* One turn of store.merge()'s loop: append one event, await.  When an append
\* throws, the events before it stay and clock.receive() is never reached.
MergeOne(d) ==
  /\ mergePc[d] = "merging"
  /\ \E e \in todo[d] :
       \/ /\ Stored(e)
          /\ todo' = [todo EXCEPT ![d] = @ \ {e}]
          /\ UNCHANGED mergePc
       \/ /\ NotStored(e)
          /\ MergeGoto(d, "lost")
          /\ UNCHANGED todo
  /\ UNCHANGED <<clockState, seqState, shown, opState, batch, received, crashes>>

\* The clock after observing the largest timestamp of the batch of merge d.
ClockReceives(d) ==
  \E e \in batch[d], w \in Wall :
    /\ \A f \in batch[d] : HlcLeq(f.hlc, e.hlc)
    /\ clock' = Receive(clock, e.hlc, w, Self)

\* clock.receive() of LocalClock, once the whole batch is in the store.
ReceiveSync(d) ==
  /\ ~Async /\ mergePc[d] = "merging" /\ todo[d] = {}
  /\ ClockReceives(d)
  /\ \/ /\ diskClock' = clock'
        /\ received' = received \cup batch[d]
        /\ MergeGoto(d, "done")
     \/ MergeGoto(d, "lost") /\ UNCHANGED <<diskClock, received>>
  /\ UNCHANGED <<clockWrites, seqState, storeState, opState, batch, todo, crashes>>

\* NodeSqliteClock.receive() up to its await, and its return.
ReceiveCall(d) ==
  /\ Async /\ mergePc[d] = "merging" /\ todo[d] = {}
  /\ ClockReceives(d)
  /\ clockWrites' = Append(clockWrites, [by |-> d, val |-> clock'])
  /\ MergeGoto(d, "receiving")
  /\ UNCHANGED <<diskClock, seqState, storeState, opState, batch, todo, received,
                 crashes>>

ReceiveReturn(d) ==
  /\ mergePc[d] = "receiving"
  /\ clockWrites # <<>> /\ Head(clockWrites).by = d
  /\ clockWrites' = Tail(clockWrites)
  /\ \/ /\ diskClock' = Head(clockWrites).val
        /\ received' = received \cup batch[d]
        /\ MergeGoto(d, "done")
     \/ MergeGoto(d, "lost") /\ UNCHANGED <<diskClock, received>>
  /\ UNCHANGED <<clock, seqState, storeState, opState, batch, todo, crashes>>

------------------------------------------------------------------------------
(* Crash and restart: the process dies between two steps, and the services   *)
(* are created again from storage.  Of the writes not acknowledged, those up *)
(* to some point have been applied.                                          *)

Applied(writes, value) == {value} \cup {writes[k].val : k \in DOMAIN writes}

\* Mutant of Restart: calls that were cut off start again.
RestartRetries(o) == IF pc[o] = "done" THEN "done" ELSE "start"

Restart(o) == IF pc[o] \in {"start", "done"} THEN pc[o] ELSE "lost"

MergeRestart(d) == IF mergePc[d] \in {"idle", "done"} THEN mergePc[d] ELSE "lost"

Crash ==
  /\ crashes < MaxCrash
  /\ crashes' = crashes + 1
  /\ diskClock' \in Applied(clockWrites, diskClock) /\ clock' = diskClock'
  /\ diskSeq' \in Applied(seqWrites, diskSeq) /\ seq' = diskSeq'
  /\ clockWrites' = <<>> /\ seqWrites' = <<>>
  /\ events' = disk
  /\ pc' = [o \in Op |-> Restart(o)]
  /\ mergePc' = [d \in Delivery |-> MergeRestart(d)]
  /\ UNCHANGED <<disk, shown, stamp, number, observed, batch, todo, received>>

OpStep(o) ==
  \/ TickSync(o) \/ TickCall(o) \/ TickReturn(o)
  \/ NumberSync(o) \/ NumberCall(o) \/ NumberReturn(o)
  \/ AppendEvent(o) \/ Publish(o)

MergeStep(d) ==
  \/ MergeCall(d) \/ MergeOne(d)
  \/ ReceiveSync(d) \/ ReceiveCall(d) \/ ReceiveReturn(d)

Next ==
  \/ \E o \in Op : OpStep(o)
  \/ \E d \in Delivery : MergeStep(d)
  \/ Crash

Spec == Init /\ [][Next]_vars

------------------------------------------------------------------------------
(* Properties *)

Stamped(o) == stamp[o] # InitialClock(Self)
Numbered(o) == number[o] # 0

\* Two events of this replica that a scan has ever returned have different
\* timestamps and different sequence numbers, whatever calls overlap, whichever
\* of them fail, and across restarts (protocol.md 3.2, 3.4; the hello/delta
\* exchange identifies what a peer has by the largest number alone).
UniqueStamps ==
  \A a, b \in shown : a.hlc = b.hlc \/ a.seq = b.seq => a = b

\* Two different events of this replica that a scan has returned do not share both
\* timestamp and sequence number: the least that "per-replica strictly-increasing"
\* (protocol.md:155) asks of the services.  It says less than UniqueStamps.
DistinctStamps ==
  \A a, b \in shown : a.hlc = b.hlc /\ a.seq = b.seq => a = b

\* An operation is stamped above every own event shown before it began and every
\* remote event whose merge had completed by then, also when the process crashed
\* in between.  It does not speak of remote events that a merge under way has put
\* in the store and the clock has not received yet: their timestamps may be above
\* those of an author who reads them (operations.ts:231).
StampAboveObserved ==
  \A o \in Op : Stamped(o) => \A e \in observed[o] : HlcLess(e.hlc, stamp[o])

\* An operation that began after an own event was shown gets a larger number.
NumberAboveOwn ==
  \A o \in Op : Numbered(o) =>
    \A e \in observed[o] \ RemoteEvent : e.seq < number[o]

\* An event that was handed to the transport survives every crash.
PublishedDurable == \A o \in Op : pc[o] = "done" => EventOf(o) \in disk

\* As long as no call failed or was cut off, every number drawn belongs to a call
\* still in flight or to an event in the store: the holes in a replica's own
\* numbers come from failures alone.
NoGapWithoutFailure ==
  (\A o \in Op : pc[o] # "lost") =>
    \A n \in 1..seq : \E o \in Op :
      /\ number[o] = n
      /\ pc[o] \in {"numbered", "appended", "done"}
      /\ pc[o] # "numbered" => EventOf(o) \in disk

------------------------------------------------------------------------------
(* Why the properties hold for LocalClock and LocalSequencer: the durable copy *)
(* covers everything that was handed out, so neither a failed call nor a       *)
(* restart can hand it out again.                                              *)

\* The synchronous family never has a write under way.
NoWrites ==
  /\ clockWrites = <<>> /\ seqWrites = <<>>
  /\ \A o \in Op : pc[o] \notin {"ticking", "numbering"}
  /\ \A d \in Delivery : mergePc[d] # "receiving"

\* How far an operation is says what it has been given.
Progress ==
  \A o \in Op :
    /\ pc[o] = "start" => ~Stamped(o)
    /\ pc[o] = "ticked" => Stamped(o)
    /\ pc[o] \in {"start", "ticked"} => ~Numbered(o)
    /\ pc[o] \in {"numbered", "appended", "done"} => Numbered(o)
    /\ Numbered(o) => Stamped(o)
    /\ pc[o] \in {"appended", "done"} => EventOf(o) \in disk

\* The durable clock covers every stamp and every received event; no two
\* operations share a stamp.
ClockCovers ==
  /\ HlcLeq(diskClock, clock)
  /\ \A o \in Op : Stamped(o) => HlcLeq(stamp[o], diskClock)
  /\ \A e \in received : HlcLeq(e.hlc, diskClock)
  /\ \A o, p \in Op : Stamped(o) /\ stamp[o] = stamp[p] => o = p

\* The same for the sequencer.
NumberCovers ==
  /\ diskSeq <= seq
  /\ \A o \in Op : number[o] <= diskSeq
  /\ \A o, p \in Op : Numbered(o) /\ number[o] = number[p] => o = p
  /\ (\A o \in Op : pc[o] # "lost") => diskSeq = seq

\* What has been shown is the event of an operation that drew both values, the store
\* holds nothing else of this replica, and operations observe nothing else of it.
ShownIsAuthored ==
  /\ events \subseteq shown \cup RemoteEvent
  /\ \A e \in shown :
       /\ e.body \in Op /\ e = EventOf(e.body)
       /\ Numbered(e.body) /\ pc[e.body] \in {"appended", "done", "lost"}
  /\ \A o \in Op : observed[o] \subseteq shown \cup received

SyncInv ==
  /\ TypeOK /\ NoWrites /\ Progress /\ ClockCovers /\ NumberCovers
  /\ ShownIsAuthored /\ StampAboveObserved /\ NumberAboveOwn
  /\ NoGapWithoutFailure
==============================================================================
