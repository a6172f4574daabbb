--------------------------------- MODULE Hlc ---------------------------------
(****************************************************************************)
(* The hybrid logical clock of packages/core/src/hlc.ts.  A timestamp is a   *)
(* record [pt, l, r]: wall-clock milliseconds, a logical counter, and the    *)
(* replica that made it.  The code compares replica ids as strings; only     *)
(* their order matters, so here they are natural numbers.  The functions are *)
(* pure in the code as well: the wall clock is an argument.                  *)
(****************************************************************************)
EXTENDS Integers

Timestamp(R) == [pt : Nat, l : Nat, r : R]

Larger(x, y) == IF x >= y THEN x ELSE y

\* compareHlc(a, b) < 0: lexicographic on pt, then l, then r.
HlcLess(a, b) ==
  \/ a.pt < b.pt
  \/ a.pt = b.pt /\ a.l < b.l
  \/ a.pt = b.pt /\ a.l = b.l /\ a.r < b.r

HlcLeq(a, b) == a = b \/ HlcLess(a, b)

InitialClock(self) == [pt |-> 0, l |-> 0, r |-> self]

\* The stamp of a locally authored event, and the clock after it.
Tick(clock, wall, self) ==
  LET pt == Larger(clock.pt, wall) IN
    [pt |-> pt, l |-> IF pt = clock.pt THEN clock.l + 1 ELSE 0, r |-> self]

\* Mutant of Receive: the remote timestamp is not looked at.
ReceiveIgnores(clock, incoming, wall, self) == Tick(clock, wall, self)

\* The clock after a remote timestamp has been observed.
Receive(clock, incoming, wall, self) ==
  LET pt == Larger(Larger(clock.pt, incoming.pt), wall)
      l  == IF pt = clock.pt /\ pt = incoming.pt THEN Larger(clock.l, incoming.l) + 1
            ELSE IF pt = clock.pt    THEN clock.l + 1
            ELSE IF pt = incoming.pt THEN incoming.l + 1
            ELSE 0
  IN  [pt |-> pt, l |-> l, r |-> self]
==============================================================================
