SPECIFICATION AgentSpec
CONSTANTS
  MaxRounds = 2
  Faces = {1, 2}
INVARIANTS MeteredOnce
CHECK_DEADLOCK FALSE
