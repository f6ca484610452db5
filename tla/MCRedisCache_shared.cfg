SPECIFICATION FairSpec
CONSTANTS
  c1 = c1
  c2 = c2
  p = p
  q = q
  r = r
  Clients <- MCClients
  Versions <- MCVersions
  VersionOf <- MCDiffer
  Progs <- MCProgs
  MaxQueries = 2
  MaxCrashes = 1
  AllowMismatch = TRUE
  AlwaysVerify = FALSE
INVARIANTS SkipOnlyRepeated
PROPERTIES SkippedGetsVerified
