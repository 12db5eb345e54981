CONSTANTS
  Lead <- MCLead
  Trail <- MCTrail
  Rank <- MCRank
  Disk <- MCDisk
  Config <- MCConfig
  DefaultMax = 1
  RootId = {"absent", "R", "A", "none"}
  Cwd <- MCCwd
  Path <- MCPath
  Fuel = 8
SPECIFICATION Spec
INVARIANTS ListingIsTrue PathsLeadBack DocumentIsText ErrorsAreTrue
CHECK_DEADLOCK FALSE
