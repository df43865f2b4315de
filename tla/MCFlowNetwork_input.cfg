SPECIFICATION Spec
CONSTANTS
  Node = {"r", "x", "y", "j"}
  Link = {"in", "rx", "ry", "xj", "yj", "j", "x"}
  Net = "net"
  From <- InputFrom
  Inputs <- InputInputs
  OutputPort = {"j", "x"}
  Tunable = {}
  Threaded = {"x"}
  NoLink = "none"
  MaxCalls = 7
  SourceLength = 0
  LateAttributes = FALSE
INVARIANTS TypeOK SlotOrQueue
PROPERTIES StreamOK
