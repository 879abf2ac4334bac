SPECIFICATION Spec
CONSTANTS
  NFiles = 2
  Locks = {"q4", "mixed"}
  MaxEdits = 2
  MaxRuns = 2
  Tensors <- MCTensors
  Chunks = 2
  MaxTensorEdits = 1
  MaxDeaths = 2
  Align = 4
  Group = 2
  MaxPayload = 4
  MaxTensors = 3
  Elements = {2, 4, 6}
  SourceContents = {0, 1}
  MaxSourceEdits = 2
  MaxEditedFiles = 1
INVARIANTS
  ReceiptTruthful
  SealedPreparationFaithful
  SidecarDerived
  HeaderTilesPayload
  LayoutsAgree
  ProducerFaithful
PROPERTIES
  DownloadKeepsFound
  ComparisonOfOneState
  ExtractionEnds
CHECK_DEADLOCK FALSE
