CONSTANTS
  ab = ab
  ab2 = ab2
  bc = bc
  yes = yes
  no = no
  local = local
  skip = skip
  fixed = fixed
  Fact = {yes, no}
  Triple <- MCTriple
  Stamp <- MCStamp
  OneAttr = {"exempt"}
  MaxWrites = 2
  Rule = {skip}
  Scope <- MCScope
  Bindings <- MCBindingsOne
  DependsOnAttributes <- MCDependsOnOne
  Base = "reports"
  MaxDepth = 3
  Reflexive = FALSE
SPECIFICATION FairSpec
PROPERTIES RulesCatchUp
CHECK_DEADLOCK FALSE
