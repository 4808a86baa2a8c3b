SPECIFICATION Spec
CONSTANTS
  Agents = {parent, stage}
  MaxAsks = 2
  MaxChunks = 2
  Slots = 2
  Resends = 0
VIEW View
SYMMETRY AgentSymmetry
INVARIANT
  PairedInTurn
PROPERTY
  StreamSpec
CHECK_DEADLOCK FALSE
