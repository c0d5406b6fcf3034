CONSTANTS
  execution = execution
  heartbeat = heartbeat
  Requesters <- Goroutines
  Heartbeat <- heartbeat
  KeepsOld = TRUE
  MaxCert = 1
  MaxFaults = 0
SPECIFICATION Spec
PROPERTIES PromotionRemovesOldPin
