SPECIFICATION Spec
CONSTANTS
  Envelopes <- MCEnvelopes
  Topics <- MCTopics
  Keys <- MCKeys
  Under <- MCUnder
  Arrives <- MCArrives
  Clients = {c1}
  Queries <- MCQueries
  Deletes <- MCDeletes
  Subscriptions = {"a"}
  Writers = {w1}
  Deleters = {d1}
  ChannelSize = 1
  MaxEphemeralTTL = 1
  MaxDurableSize = 1
  MaxClock = 1
INVARIANTS
  NoGap
  LimitKeepsNewest
  DeleteLeavesNothing
