------------------------------ MODULE MCFlowRuns ------------------------------
(* Two runs of one subject; one flow with the demo's shape (collect, branch,     *)
(* action) and a wait on the other branch, a redefinition that drops the wait,   *)
(* and a definition with a cycle.                                                *)
EXTENDS FlowRuns, TLC

CONSTANTS r1, r2

Collect(form, scope, next) ==
  [type |-> "collect", form |-> form, scope |-> scope, expires |-> FALSE, next |-> next]
Wait(next) == [type |-> "wait", next |-> next]
Act(attr, next) == [type |-> "action", attr |-> attr, next |-> next]
Mark(attr, value, next) == [type |-> "assert", attr |-> attr, value |-> value, next |-> next]
Notify(next) == [type |-> "notify", next |-> next]
Branch(attr, yes, no) ==
  [type |-> "branch", attr |-> attr, ifTrue |-> yes, ifFalse |-> no, next |-> ""]
Done == [type |-> "done", next |-> ""]

MCOnboarding ==
  [start |-> "i9",
   steps |-> ("i9" :> Collect("i9", "context", "alien?")) @@ ("alien?" :> Branch("alien", "everify", "pause"))
             @@ ("everify" :> Act("verified", "mark")) @@ ("mark" :> Mark("alien", "given", "done"))
             @@ ("pause" :> Wait("note")) @@ ("note" :> Mark("alien", "context", "done"))
             @@ ("done" :> Done)]

MCShorter ==
  [start |-> "i9",
   steps |-> ("i9" :> Collect("i9", "context", "alien?")) @@ ("alien?" :> Branch("alien", "everify", "again?"))
             @@ ("again?" :> Branch("verified", "everify", "mark"))
             @@ ("everify" :> Act("verified", "mark")) @@ ("mark" :> Mark("alien", "given", "ping"))
             @@ ("ping" :> Notify("done")) @@ ("done" :> Done)]

MCCycle ==
  [start |-> "ping",
   steps |-> ("ping" :> Notify("pong")) @@ ("pong" :> Notify("ping"))]

MCFlows == {MCOnboarding, MCShorter, MCCycle}
==============================================================================
