CONSTANTS
  s1 = s1
  s2 = s2
  NoServer = NoServer
  Servers <- OneServer
  MaxFaults = 0
SPECIFICATION FairSpec
PROPERTIES ExpiredOfferEnds
