----------------------------- MODULE MCOperations -----------------------------
(* One collection with an expiry tick and one run with two wait steps. *)
EXTENDS Operations, TLC

CONSTANTS c1, r1, e1, w1, w2

MCStepOf == (w1 :> "sleep") @@ (w2 :> "pause")
MCPhaseOf == e1 :> "expire"
MCFireAt == (e1 :> 1) @@ (w1 :> 1) @@ (w2 :> 0)
MCExpiresAt == c1 :> 1
==============================================================================
