SPECIFICATION Spec
CONSTANTS
  p1 = p1
  p2 = p2
  c1 = c1
  w1 = w1
  w2 = w2
  n1 = n1
  r1 = r1
  r2 = r2
  Principals <- TwoPrincipals
  Collections <- OneCollection
  SourceWorkflows <- TwoWorkflows
  Nodes <- OneNode
  Families <- FourFamilies
  ChunkCount = 1
  MaxDecisions = 5
  MaxProposals = 4
  MaxInFlight = 2
  Calls = {k1, k2, k3}
  Operations = {a}
  MaxCrashes = 1
  LastIndex = 3
  MaxRestarts = 2
  Serves <- TwoLeaders
  Chunks = 2
  Oversized = {"large"}
  Corrupt = {"corrupt"}
  MaxReceives = 4
  Reporters = {r1, r2}
  MaxIncarnation = 2
  MaxWindow = 2
  MaxEpoch = 3
  Configurations <- FourConfigurations
  TierInputs <- TwoFragments
SYMMETRY Interchangeable
INVARIANTS TypeOK  PlanFits InstallsOnlyItsImage LogExplainsStore  RecoveryAccepts 
PROPERTIES FenceIsFinal
CHECK_DEADLOCK FALSE
