SPECIFICATION FairSpec
CONSTANTS
  Node = {"s", "r", "j", "x"}
  Link = {"in", "sj", "sx", "rj", "jx", "j", "x"}
  Net = "net"
  From <- MixedFrom
  Inputs <- MixedInputs
  OutputPort = {"j", "x"}
  Tunable = {"s", "j"}
  Threaded = {}
  NoLink = "none"
  MaxCalls = 5
  SourceLength = 1
  LateAttributes = FALSE
INVARIANTS ConfiguredUpstream WorksConfigured AttributesCurrent
PROPERTIES PullReturns
