CONSTANTS
  Nodes = {"A", "B", "C"}
  Meshes <- LineAndRing
  Identities = {"a1", "a2", "b", "c"}
  NodeOf <- MCNodeOf
  Tokens = {"a1", "a2"}
  Registering = {"A"}
  TTL = 2
  Interval = 1
  Prompt = TRUE
  MaxUpsets = 1
SPECIFICATION FairSpec
INVARIANT OneIdentityPerDomain
PROPERTIES GossipQuiesces 
