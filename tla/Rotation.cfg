CONSTANTS
  execution = execution
  heartbeat = heartbeat
  Requesters <- Goroutines
  Heartbeat <- heartbeat
  KeepsOld = FALSE
  MaxCert = 3
  MaxFaults = 2
SPECIFICATION FairSpec
INVARIANTS PinsInv Connectable
PROPERTIES PromotionRemovesOldPin AnnouncementIsStaged
