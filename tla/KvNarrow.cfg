\* A window of 4 slots, of which a prompt of 3 leaves one to a chunk.
CONSTANTS
  d1 = d1
  d2 = d2
  Decoders = {d1, d2}
  Windows = {3}
  Prompts = {3}
  Suffixes = {2, 3}
  InitialSteps = 4
  GrowthStep = 2
  StreamSteps = 4
  ModelSteps = 9
  LastPosition = 20
SPECIFICATION Spec
INVARIANT MostRecentSteps
