------------------------------- MODULE PeerSync -------------------------------
(****************************************************************************)
(* PeerDataChannelTransport (packages/runtime/src/p2p.ts) between replicas:  *)
(* anti-entropy by version vectors when a channel opens, live events         *)
(* afterwards, and gossip of what was new.                                   *)
(*                                                                           *)
(* A link is a pair of replicas that may hold a data channel; a channel is   *)
(* reliable and ordered while it is open, and what is in flight when it      *)
(* closes is gone.  Every send of the transport follows an await of the      *)
(* event store, so what is to be sent is fixed in one turn and sent in a     *)
(* later one: tasks[r] holds the sends replica r has computed and not done.  *)
(* A merge appends one event per turn, so other turns see part of a batch:   *)
(* merges[r] holds the merges replica r is in the middle of.  Merging is     *)
(* idempotent: of identical sends or merges due at once, one is kept.        *)
(*                                                                           *)
(* An event is identified by its origin and sequence number; Replica shows   *)
(* that LocalClock and LocalSequencer make that an identification.  The event*)
(* stores write rows: what an append stored is durable, and an append that   *)
(* throws stores nothing.  LocalEventStore does so while its writes succeed. *)
(****************************************************************************)
EXTENDS Integers, Sequences

CONSTANTS
  Replica,
  Link,        \* the pairs {a, b} of replicas that may connect
  Announces,   \* replicas whose transport has the option announceOnConnect
  MaxSeq,      \* MaxSeq[r]: how many events replica r authors
  MaxLoss      \* bound on channel closings, restarts and failing merges

ASSUME LinkAssumption ==
  \A l \in Link : \E a, b \in Replica : a # b /\ l = {a, b}
ASSUME AnnounceAssumption == Announces \subseteq Replica
ASSUME BoundAssumption == MaxSeq \in [Replica -> Nat] /\ MaxLoss \in Nat

VARIABLES
  store,       \* store[r]: the events replica r holds, durably
  seq,         \* seq[r]: the last sequence number replica r used
  open,        \* the links with an open channel
  chan,        \* chan[a][b]: messages sent by a on its way to b
  tasks,       \* tasks[r]: sends computed and not done
  merges,      \* merges[r]: batches of which part is in the store
  failed,      \* history: the open channels of replicas on which a merge has
               \* failed since the channel opened
  losses       \* closings, restarts and failed merges so far

vars == <<store, seq, open, chan, tasks, merges, failed, losses>>

EventsBy == [o \in Replica |-> [r : {o}, seq : 1..MaxSeq[o]]]
Event == UNION {EventsBy[o] : o \in Replica}
Vector == [Replica -> Nat]

Message ==
  [type : {"hello"}, vv : Vector] \cup [type : {"delta", "events"}, events : SUBSET Event]

\* A send goes to one channel ("only" peer), or to every open one but that of
\* peer; the replica itself stands for "no exception".
Task == [scope : {"only", "except"}, peer : Replica, msg : Message]

\* A merge of what came from peer: the batch, what is left of it, whether any of it
\* was new so far.  The replica itself stands for a peer that is gone.
Merge == [peer : Replica, batch : SUBSET Event, left : SUBSET Event, new : BOOLEAN]

\* The values the variables range over.
TypeOK ==
  /\ store \in [Replica -> SUBSET Event]
  /\ seq \in [Replica -> Nat] /\ \A r \in Replica : seq[r] <= MaxSeq[r]
  /\ open \subseteq Link
  /\ chan \in [Replica -> [Replica -> Seq(Message)]]
  /\ tasks \in [Replica -> SUBSET Task]
  /\ merges \in [Replica -> SUBSET Merge]
  /\ failed \subseteq open
  /\ losses \in Nat

Init ==
  /\ store = [r \in Replica |-> {}]
  /\ seq = [r \in Replica |-> 0]
  /\ open = {}
  /\ chan = [a \in Replica |-> [b \in Replica |-> <<>>]]
  /\ tasks = [r \in Replica |-> {}]
  /\ merges = [r \in Replica |-> {}]
  /\ failed = {}
  /\ losses = 0

------------------------------------------------------------------------------
(* packages/runtime/src/sync.ts *)

\* The highest sequence number of each replica among the events.
versionVector(S) ==
  [o \in Replica |->
    LET seqs == {0} \cup {e.seq : e \in {f \in S : f.r = o}}
    IN  CHOOSE n \in seqs : \A m \in seqs : m <= n]

\* Mutant of deltaSince: off by one.
deltaAfter(S, vv) == {e \in S : e.seq > vv[e.r] + 1}

\* The events a peer with vector vv is sent.
deltaSince(S, vv) == {e \in S : e.seq > vv[e.r]}

------------------------------------------------------------------------------
Hello(r) == [type |-> "hello", vv |-> versionVector(store[r])]
Only(b, m) == [scope |-> "only", peer |-> b, msg |-> m]
Except(b, m) == [scope |-> "except", peer |-> b, msg |-> m]

\* Mutants of Author: the event gets the number of the one before; the sequencer
\* does not advance.
AuthorStale(r) ==
  LET e == [r |-> r, seq |-> seq[r]] IN
    /\ seq[r] < MaxSeq[r]
    /\ seq' = [seq EXCEPT ![r] = @ + 1]
    /\ store' = [store EXCEPT ![r] = @ \cup {e}]
    /\ UNCHANGED <<open, chan, tasks, merges, failed, losses>>
AuthorUncounted(r) ==
  LET e == [r |-> r, seq |-> seq[r] + 1] IN
    /\ seq[r] < MaxSeq[r]
    /\ store' = [store EXCEPT ![r] = @ \cup {e}]
    /\ UNCHANGED <<seq, open, chan, tasks, merges, failed, losses>>

\* applyOperation on replica r, one call at a time, which succeeds: the event is in
\* the store and its publication to every channel is due.
Author(r) ==
  LET e == [r |-> r, seq |-> seq[r] + 1] IN
    /\ seq[r] < MaxSeq[r]
    /\ seq' = [seq EXCEPT ![r] = @ + 1]
    /\ store' = [store EXCEPT ![r] = @ \cup {e}]
    /\ tasks' = [tasks EXCEPT
         ![r] = @ \cup {Except(r, [type |-> "events", events |-> {e}])}]
    /\ UNCHANGED <<open, chan, merges, failed, losses>>

\* connect() / onOpen: a channel opens, and its ends announce their vectors.
Open(l) ==
  /\ l \in Link \ open
  /\ open' = open \cup {l}
  /\ tasks' = [r \in Replica |-> tasks[r] \cup
       IF r \in l \cap Announces THEN {Only(b, Hello(r)) : b \in l \ {r}} ELSE {}]
  /\ UNCHANGED <<store, seq, chan, merges, failed, losses>>

\* Mutant of Recipients: every send goes to its peer alone.
RecipientsOnly(r, t) == {b \in Replica : b # r /\ {r, b} \in open /\ b = t.peer}

\* #send: the open channels the task is for, in one turn.
Recipients(r, t) ==
  {b \in Replica :
    /\ b # r /\ {r, b} \in open
    /\ IF t.scope = "only" THEN b = t.peer ELSE b # t.peer}

Send(r, t) ==
  /\ t \in tasks[r]
  /\ tasks' = [tasks EXCEPT ![r] = @ \ {t}]
  /\ chan' = [chan EXCEPT ![r] = [b \in Replica |->
       IF b \in Recipients(r, t) THEN Append(@[b], t.msg) ELSE @[b]]]
  /\ UNCHANGED <<store, seq, open, merges, failed, losses>>

Arrives(a, b, type) ==
  /\ chan[a][b] # <<>>
  /\ Head(chan[a][b]).type \in type
  /\ chan' = [chan EXCEPT ![a][b] = Tail(@)]

\* #handle of a hello: the delta for the peer's vector is due, unless it is empty.
HandleHello(a, b) ==
  /\ Arrives(a, b, {"hello"})
  /\ LET delta == deltaSince(store[b], Head(chan[a][b]).vv) IN
       tasks' = [tasks EXCEPT ![b] = @ \cup
         (IF delta = {} THEN {} ELSE {Only(a, [type |-> "delta", events |-> delta])})]
  /\ UNCHANGED <<store, seq, open, merges, failed, losses>>

\* #handle of events or of a delta: the merge of the batch begins.
HandleEvents(a, b) ==
  /\ Arrives(a, b, {"delta", "events"})
  /\ LET batch == Head(chan[a][b]).events IN
       merges' = [merges EXCEPT ![b] = @ \cup
         {[peer |-> a, batch |-> batch, left |-> batch, new |-> FALSE]}]
  /\ UNCHANGED <<store, seq, open, tasks, failed, losses>>

\* Mutants of MergeOne: the batch is passed on with its first new event; with every
\* batch, new or not; the event takes the place of the store.
MergeOnePasses(r, m, passes) ==
  /\ m \in merges[r]
  /\ \E e \in m.left :
       LET n == [m EXCEPT !.left = @ \ {e}, !.new = @ \/ e \notin store[r]] IN
       /\ store' = [store EXCEPT ![r] = @ \cup {e}]
       /\ merges' = [merges EXCEPT ![r] =
            (@ \ {m}) \cup IF n.left = {} THEN {} ELSE {n}]
       /\ tasks' = [tasks EXCEPT ![r] = @ \cup
            IF passes[n.left = {}, n.new]
              THEN {Except(m.peer, [type |-> "events", events |-> m.batch])}
              ELSE {}]
  /\ UNCHANGED <<seq, open, chan, failed, losses>>
MergeOneEager(r, m) == MergeOnePasses(r, m, [done, new \in BOOLEAN |-> new])
MergeOneAlways(r, m) == MergeOnePasses(r, m, [done, new \in BOOLEAN |-> done])
MergeOneReplaces(r, m) ==
  /\ m \in merges[r]
  /\ \E e \in m.left : store' = [store EXCEPT ![r] = {e}]
  /\ merges' = [merges EXCEPT ![r] = @ \ {m}]
  /\ UNCHANGED <<seq, open, chan, tasks, failed, losses>>

\* One append of merge m.  After the last one the whole batch is to be passed on
\* if any of it was new.
MergeOne(r, m) ==
  /\ m \in merges[r]
  /\ \E e \in m.left :
       LET n == [m EXCEPT !.left = @ \ {e}, !.new = @ \/ e \notin store[r]]
           done == n.left = {}
       IN
       /\ store' = [store EXCEPT ![r] = @ \cup {e}]
       /\ merges' = [merges EXCEPT ![r] =
            (@ \ {m}) \cup IF done THEN {} ELSE {n}]
       /\ tasks' = [tasks EXCEPT ![r] = @ \cup
            IF done /\ n.new
              THEN {Except(m.peer, [type |-> "events", events |-> m.batch])}
              ELSE {}]
  /\ UNCHANGED <<seq, open, chan, failed, losses>>

------------------------------------------------------------------------------
(* Losing batches and channels *)

\* mergeFrom throws: an append fails, which stores nothing, or clock.receive() after
\* the last one does.  The rest of the batch and its gossip are dropped and the
\* channel stays open, so no hello asks for them until it opens again.
MergeFails(r, m) ==
  /\ losses < MaxLoss /\ losses' = losses + 1
  /\ m \in merges[r]
  /\ merges' = [merges EXCEPT ![r] = @ \ {m}]
  /\ \/ UNCHANGED store
     \/ \E e \in Event :
          m.left = {e} /\ store' = [store EXCEPT ![r] = @ \cup {e}]
  /\ failed' = failed \cup {l \in open : r \in l}
  /\ UNCHANGED <<seq, open, chan, tasks>>

\* What is left of r's work when its channel to b is gone: a send to that channel
\* finds it closed, and a later channel to b is not the one to skip.
Parted(x, r, b) == IF x.peer = b THEN [x EXCEPT !.peer = r] ELSE x
TasksWithout(r, b) ==
  {Parted(t, r, b) : t \in {s \in tasks[r] : ~(s.scope = "only" /\ s.peer = b)}}
MergesWithout(r, b) == {Parted(m, r, b) : m \in merges[r]}

\* onClose at both ends.
Close(l) ==
  /\ losses < MaxLoss /\ losses' = losses + 1
  /\ l \in open
  /\ open' = open \ {l} /\ failed' = failed \ {l}
  /\ \E a, b \in l :
       /\ a # b
       /\ chan' = [chan EXCEPT ![a][b] = <<>>, ![b][a] = <<>>]
       /\ tasks' = [tasks EXCEPT ![a] = TasksWithout(a, b), ![b] = TasksWithout(b, a)]
       /\ merges' = [merges EXCEPT ![a] = MergesWithout(a, b),
                                  ![b] = MergesWithout(b, a)]
  /\ UNCHANGED <<store, seq>>

\* The process of replica r dies and starts again with its durable store and
\* sequencer: its channels are gone at both ends, and so is the work it had left.
Restart(r) ==
  /\ losses < MaxLoss /\ losses' = losses + 1
  /\ open' = {l \in open : r \notin l} /\ failed' = failed \cap open'
  /\ chan' = [a \in Replica |-> [b \in Replica |->
       IF r \in {a, b} THEN <<>> ELSE chan[a][b]]]
  /\ tasks' = [q \in Replica |-> IF q = r THEN {} ELSE TasksWithout(q, r)]
  /\ merges' = [q \in Replica |-> IF q = r THEN {} ELSE MergesWithout(q, r)]
  /\ UNCHANGED <<store, seq>>

Work(r) ==
  \/ \E t \in tasks[r] : Send(r, t)
  \/ \E m \in merges[r] : MergeOne(r, m)

Deliver(a, b) == HandleHello(a, b) \/ HandleEvents(a, b)

Next ==
  \/ \E r \in Replica : Author(r) \/ Work(r) \/ Restart(r)
  \/ \E r \in Replica : \E m \in merges[r] : MergeFails(r, m)
  \/ \E l \in Link : Open(l) \/ Close(l)
  \/ \E a, b \in Replica : Deliver(a, b)

Spec == Init /\ [][Next]_vars

\* The event loop of every replica runs its turns, an open channel delivers, and a
\* link that may connect eventually does.  Authoring and losses are never forced.
Fairness ==
  /\ \A l \in Link : WF_vars(Open(l))
  /\ \A r \in Replica : WF_vars(Work(r))
  /\ \A a, b \in Replica : WF_vars(Deliver(a, b))

FairSpec == Spec /\ Fairness

------------------------------------------------------------------------------
(* Properties *)

\* Whatever the transport does, including losing channels and processes in the
\* middle of a merge, replicas only ever author events and learn events another
\* replica holds: the sessions implement the replicated grow-only log.
Log == INSTANCE EventLog WITH log <- store
ImplementsLog == Log!Spec

\* What a message carries.
HeldIn(msg, S) == msg.type # "hello" => msg.events \subseteq S

TasksHeld == \A r \in Replica : \A t \in tasks[r] : HeldIn(t.msg, store[r])
ChannelsHeld ==
  \A p, q \in Replica : \A i \in DOMAIN chan[p][q] : HeldIn(chan[p][q][i], store[p])
MergesHeld ==
  \A r \in Replica : \A m \in merges[r] :
    /\ m.left \subseteq m.batch /\ m.batch \ m.left \subseteq store[r]
    /\ \E q \in Replica : m.batch \subseteq store[q]

\* Nothing is sent, in flight or being merged that no replica has in its store: a
\* replica passes a batch on only when all of it, not a part, is in its own.
SentIsHeld == TasksHeld /\ ChannelsHeld /\ MergesHeld

\* Every event in any store was authored, and its author still has it.
AuthoredAndKept ==
  \A r \in Replica : \A e \in store[r] : e.seq <= seq[e.r] /\ e \in store[e.r]

Quiet ==
  \A r \in Replica :
    tasks[r] = {} /\ merges[r] = {} /\ \A q \in Replica : chan[r][q] = <<>>

\* Gossip dies out, in cyclic networks too: a replica passes on only what was new
\* to it (p2p.ts 253), so finitely many events cause finitely many messages.
Quiescence == <>[]Quiet

\* In the end every replica's version vector names the last event of every
\* replica, also when channels closed, processes restarted or merges failed on the
\* way, as long as links open again; where a merge failed, its replica's channels
\* have to be opened anew, since nothing else makes the peers say hello.
VectorsConverge ==
  <>[](failed = {} => \A r, o \in Replica : versionVector(store[r])[o] = seq[o])

\* While no channel, process or batch was lost, the stores themselves become equal,
\* though what a vector says of a half-merged batch is not what the store holds.
ConvergeWithoutLoss == <>[](losses = 0 => \A r, q \in Replica : store[r] = store[q])

\* Whatever was lost, links that open again make the stores equal in the end.
EventualConvergence == <>[](failed = {} => \A r, q \in Replica : store[r] = store[q])
==============================================================================
