SPECIFICATION Spec
CONSTANTS
  Client = Client
  Server = Server
  MaxServes = 1
  MaxSession = 2
  MaxGen = 2
  MaxBreaks = 0
INVARIANTS
  BothEndsAgree
PROPERTY ImplementsExchange
