CONSTANTS
  Blocks <- MCBlocks
  Genesis = "g"
  Prev <- MCPrev
  NoBlock = "none"
  ValidPoW <- MCValidPoW
  Work <- MCWork
  Root <- MCRoot
  Roots <- MCRoots
  Batches <- MCBatches
  Heights <- MCHeights
  Depth <- MCDepth
  ChainWork <- MCChainWork
  MaxBatch = 3
SPECIFICATION Spec
INVARIANTS StoreConsistent MemoryMatchesDatabase
PROPERTY RefinesChain
