------------------------------ MODULE MCPeerSync ------------------------------
(* Small networks for PeerSync: a pair and a triangle; a authors one or two    *)
(* events.                                                                     *)
EXTENDS PeerSync, TLC

CONSTANTS a, b, c

MCPair == {{a, b}}
MCTriangle == {{a, b}, {b, c}, {a, c}}

MCTwoEvents == (a :> 2) @@ (b :> 0)
MCOneEvent == (a :> 1) @@ (b :> 0) @@ (c :> 0)
==============================================================================
