CONSTANTS
  Blocks <- MCBlocks
  Genesis = "g"
  Prev <- MCPrev
  NoBlock = "none"
  ValidPoW <- MCValidPoW
  Work <- MCWork
  Root <- MCRoot
  Roots = {"r"}
  Batches <- MCBatches
  Heights = {}
  Depth <- MCDepth
  ChainWork <- MCChainWork
  Nodes <- MCNodes
  Mined <- MCMined
  Faulty = {"n2"}
  IOFailures = {"dial", "read", "write"}
  MaxHeaders = 2
  LocatorMax = 4
  LocatorDense = 2
  MaxStops = 1
SPECIFICATION SyncSpec
INVARIANTS SyncReachesPeer LocatorUsable
PROPERTIES SyncNeverShortens StartupCompletes
