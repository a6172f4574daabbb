-------------------------------- MODULE MCFold --------------------------------
(* Two replicas' events: two asserts of one entity's attribute "status" at one  *)
(* time, one of them retracted later, and the declaration that "status" has      *)
(* cardinality one, tombstoned twice and untombstoned between and at the time of *)
(* the second.                                                                   *)
EXTENDS Fold

At(pt, l, r) == [pt |-> pt, l |-> l, r |-> r]

MCAssert(id, actor, hlc, e, a, v, from, to) ==
  [id |-> id, kind |-> "assert", actor |-> actor, hlc |-> hlc, e |-> e, a |-> a,
   v |-> v, validFrom |-> from, validTo |-> to]
MCAct(id, kind, hlc, target) ==
  [id |-> id, kind |-> kind, actor |-> 1, hlc |-> hlc, target |-> target]

MCEvent ==
  { MCAssert(2, 1, At(1, 1, 2), "x", "status", "v2", 1, Forever),
    MCAssert(1, 2, At(1, 1, 2), "x", "status", "v1", 1, 2),
    MCAct(7, "retract",     At(2, 1, 1), 1),
    MCAssert(3, 1, At(1, 0, 1), "attr:status", "cardinality", "one", 1, Forever),
    MCAct(4, "tombstone",   At(2, 0, 1), 3),
    MCAct(5, "untombstone", At(3, 0, 2), 3),
    MCAct(6, "tombstone",   At(3, 0, 1), 3) }

MCTxTime == 1..3
MCValidTime == 1..2
MCAttrId == [a \in {"status", "cardinality"} |->
               IF a = "status" THEN "attr:status" ELSE "attr:cardinality"]
MCBuiltInOne == {"cardinality"}
==============================================================================
