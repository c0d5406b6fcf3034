SPECIFICATION FairSpec
CONSTANTS
  Attempts = {a1, a2, a3}
  Volumes = {v1, v2}
  NoName = NoName
  MaxFaults = 2
INVARIANTS TypeOK StagesKeepInput ExportDescends
PROPERTIES ImplementsCleanup RuntimeRecovers
