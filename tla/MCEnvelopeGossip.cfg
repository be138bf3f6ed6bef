CONSTANTS
  Nodes = {"A", "B"}
  Links <- MCLinks
  Topics = {"t"}
  Interests <- MCInterests
  CatchUp <- MCCatchUp
  Envelopes = {"x", "p", "q", "r"}
  Idents = {"i", "j"}
  Ident <- MCIdent
  Topic <- MCTopic
  Ingestible <- MCIngestible
  NoGossip <- MCNoGossip
  Local <- MCLocal
  Posts <- MCPosts
  Strays <- MCStrays
  Outside = "outside"
  Client = "client"
  Warnings = {"w"}
  MaxSeen = 4
  CatchUpLimit = 1
  Room = 1
  MaxUpsets = 2
SPECIFICATION FairSpec
INVARIANTS SeenBounded AccusationsSound OnlySignedSpread
PROPERTY NeighboursGetIt
CHECK_DEADLOCK FALSE
