CONSTANTS
  s1 = s1
  s2 = s2
  NoServer = NoServer
  Servers <- TwoServers
  MaxFaults = 2
SPECIFICATION FairSpec
INVARIANTS ConfirmedIsDurable CompletionIsConfirmed ConfirmedNeverRefused AnswerInv
PROPERTY CompletionReached
