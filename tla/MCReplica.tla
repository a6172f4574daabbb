------------------------------ MODULE MCReplica ------------------------------
(* Instances of Replica: replica 1 with a peer, replica 2, whose clock runs    *)
(* ahead of what replica 1 reads from its own.                                 *)
EXTENDS Replica, TLC

CONSTANTS r1, r2   \* bodies of the remote events

MCReplica == {1, 2}
MCSelf == 1
MCWall == {0, 1}

MCRemoteEvent ==
  { [hlc |-> [pt |-> 1, l |-> 1, r |-> 2], seq |-> 1, body |-> r1],
    [hlc |-> [pt |-> 2, l |-> 0, r |-> 2], seq |-> 2, body |-> r2] }

Symmetry == Permutations(Op) \cup Permutations(Delivery)
==============================================================================
