SPECIFICATION Spec
CONSTANTS
  NFiles = 2
  Locks = {"q4", "mixed"}
  MaxEdits = 1
  MaxRuns = 1
  Tensors <- MCTensors
  Chunks = 1
  MaxTensorEdits = 0
  MaxDeaths = 0
  Align = 4
  Group = 2
  MaxPayload = 1
  MaxTensors = 1
  Elements = {2}
  SourceContents = {0}
  MaxSourceEdits = 0
  MaxEditedFiles = 0
INVARIANT ComparedIsPinned
CHECK_DEADLOCK FALSE
