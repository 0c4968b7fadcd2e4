SPECIFICATION Spec
CONSTANTS
  Turns = {u1, u2}
  Agents = {a1, a2}
  Speakers = {s1}
  Offers <- Everything
  ReplayKey = ReplayKey
  NoTurn = NoTurn
  NoAgent = NoAgent
SYMMETRY Symmetry
INVARIANTS FloorInv OneVoice
PROPERTIES MuteCutsItsAgent
CHECK_DEADLOCK FALSE
