CONSTANTS
  Campaigns <- MCCampaigns
  MaxFaults = 1
SPECIFICATION ExpSpec
INVARIANTS
  ExpTypeOK
  PositiveEarned
  NoPromiseFromFailure
  ChainUnbroken
  AuditAgrees
PROPERTIES
  StageEnds
