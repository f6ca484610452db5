SPECIFICATION Spec
CONSTANTS
  c1 = c1
  c2 = c2
  p = p
  q = q
  r = r
  Clients <- MCClients
  Versions <- MCVersions
  VersionOf <- MCSame
  Progs <- MCProgs
  MaxQueries = 2
  MaxCrashes = 0
  AllowMismatch = FALSE
  AlwaysVerify = TRUE
INVARIANTS SkipOnlyRepeated
