CONSTANTS
  ab = ab
  ab2 = ab2
  bc = bc
  yes = yes
  no = no
  local = local
  skip = skip
  fixed = fixed
  Fact = {ab, ab2, bc, yes, no}
  Triple <- MCTriple
  Stamp <- MCStamp
  OneAttr = {"exempt"}
  MaxWrites = 3
  Rule = {local, skip, fixed}
  Scope <- MCScope
  Bindings <- MCBindings
  DependsOnAttributes <- MCDependsOn
  Base = "reports"
  MaxDepth = 3
  Reflexive = FALSE
SPECIFICATION FairSpec
INVARIANTS TypeOK CurrentIsVisible OneValue NoLostUpdate UnfoundedIsStale ClosureComplete
PROPERTIES RulesCatchUp
CHECK_DEADLOCK FALSE
