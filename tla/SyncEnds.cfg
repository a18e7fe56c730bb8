SPECIFICATION FairSpec
CONSTANTS
  Client = Client
  Server = Server
  MaxServes = 1
  MaxSession = 1
  MaxGen = 2
  MaxBreaks = 1
PROPERTY
  EveryExchangeEnds
