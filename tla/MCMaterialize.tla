----------------------------- MODULE MCMaterialize -----------------------------
(* Edges of a reports-to relation with one of them asserted twice, an exemption of *)
(* cardinality one, and rules over both.                                           *)
EXTENDS Materialize, TLC

CONSTANTS ab, ab2, bc, yes, no, local, skip, fixed

E(x, y) == <<x, "reports", y>>
X(v) == <<"a", "exempt", v>>

MCTriple == (ab :> E("a", "b")) @@ (ab2 :> E("a", "b")) @@ (bc :> E("b", "c"))
              @@ (yes :> X("yes")) @@ (no :> X("no"))
MCStamp == (ab :> 1) @@ (ab2 :> 2) @@ (bc :> 3) @@ (yes :> 5) @@ (no :> 4)

\* local: an exempt entity; skip: an entity two below another, or the
\* last of a chain; fixed: a constant.
MCScope == (local :> "local") @@ (skip :> "scoped") @@ (fixed :> "constant")
MCBindings ==
  (local :> {[out |-> "a", needs |-> {X("yes")}, absent |-> {}]})
  @@ (skip :> {[out |-> "a", needs |-> {E("a", "b"), E("b", "c")}, absent |-> {}],
               [out |-> "b", needs |-> {E("a", "b")}, absent |-> {E("b", "c")}]})
  @@ (fixed :> {[out |-> "a", needs |-> {X("no")}, absent |-> {}]})

MCDependsOn == (local :> {"exempt"}) @@ (skip :> {"reports"}) @@ (fixed :> {"exempt"})

\* A cross-entity rule over the attribute of cardinality one.
MCBindingsOne == (skip :> {[out |-> "c", needs |-> {X("no")}, absent |-> {}]})
MCDependsOnOne == (skip :> {"exempt"})
==============================================================================
