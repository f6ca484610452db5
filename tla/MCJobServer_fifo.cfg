SPECIFICATION FairSpec
CONSTANTS
  a = a
  b = b
  Clients <- MCClients
  N = 3
  MaxJobs = 2
  MaxLeaks = 2
INVARIANTS TokensAccounted

PROPERTIES AllEnd
