\* No window, one of 6 slots and one of 8; a prompt of 3 leaves the smaller one
\* just the room of the longest chunk, one of 8 fits neither.
CONSTANTS
  d1 = d1
  d2 = d2
  Decoders = {d1, d2}
  Windows = {0, 5, 7}
  Prompts = {1, 3, 8}
  Suffixes = {2, 3}
  InitialSteps = 4
  GrowthStep = 2
  StreamSteps = 4
  ModelSteps = 9
  LastPosition = 20
SPECIFICATION Spec
INVARIANTS TypeOK HoldsHistory CausalUntilFull StreamGoesOn
PROPERTY IsHistoryWindow
