CONSTANTS
  Txs = {"f", "s", "b"}
  Outs <- MCOuts
  Ins <- MCIns
  Covered = {"f", "s"}
  Oversized = {"b"}
  Unsolicited = {"b"}
  Addresses = {"A"}
  NoAddr = "-"
  Shard <- MCShard
  LastShard = 0
  TTL = 0
  MaxGetData = 1
  HasDB = TRUE
  Subscribers = {"c"}
  ChannelSize = 1
  Filter <- MCFilter
  MaxClock = 1
  MaxBatch = 2
SPECIFICATION Spec
INVARIANTS RestartGoesOn HitsInHistory IndexCounted PendingAccounted
