CONSTANTS
  PoolSize = 4
  MaxMinted = 6
  MaxRunning = 2
SPECIFICATION PoolFairSpec
INVARIANTS PoolBounded NoncesDistinct
PROPERTY MintingReleased
