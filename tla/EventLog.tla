------------------------------- MODULE EventLog -------------------------------
(****************************************************************************)
(* What a replicated log promises, whatever carries the events: every        *)
(* replica keeps a grow-only set (packages/core/src/log.ts), an event enters *)
(* the system at the replica that authored it, and a replica learns events   *)
(* only from replicas that hold them.                                        *)
(****************************************************************************)
CONSTANTS
  Replica,
  EventsBy      \* EventsBy[r]: the events replica r may author

VARIABLE log    \* log[r]: the events replica r holds

Event == UNION {EventsBy[r] : r \in Replica}

TypeOK == log \in [Replica -> SUBSET Event]

Init == log = [r \in Replica |-> {}]

\* A fresh event enters the log of the replica that authors it.
Author(r) ==
  \E e \in EventsBy[r] :
    /\ \A q \in Replica : e \notin log[q]
    /\ log' = [log EXCEPT ![r] = @ \cup {e}]

\* Replica r merges events that some replica q holds.
Learn(r, q) ==
  \E S \in SUBSET log[q] : log' = [log EXCEPT ![r] = @ \cup S]

Next ==
  \/ \E r \in Replica : Author(r)
  \/ \E r, q \in Replica : Learn(r, q)

Spec == Init /\ [][Next]_log

\* No replica holds an event whose author does not hold it: nothing is invented,
\* and no author forgets what it let go.
HeldByAuthor == \A r, q \in Replica : log[q] \cap EventsBy[r] \subseteq log[r]

\* A replica never loses an event.
NeverForgets == [][\A r \in Replica : log[r] \subseteq log'[r]]_log
==============================================================================
