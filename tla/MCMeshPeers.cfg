CONSTANTS
  Conns = {i1, s1}
  Inbound = {i1}
  Seeds = {"seed"}
  Identities = {A, B}
  SeedOf <- MCSeedOf
  NoSeed = "noseed"
  None = None
  BondRequired = TRUE
SPECIFICATION FairSpec
INVARIANTS EntriesKeyed EntriesOwned HandledBonded
PROPERTIES CleanupRemovesOwn DeadConnectionsLeave SeedRedialled
