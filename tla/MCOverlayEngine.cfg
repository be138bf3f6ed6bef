CONSTANTS
  Submitters = {a, b}
  Txs = {"p", "q", "r"}
  Outs <- MCOuts
  Ins <- MCIns
  NoContent = ""
  Topics = {"tm_uhrp"}
  TopicLists <- MCTopicLists
SPECIFICATION EngineSpec
SYMMETRY Symmetric
INVARIANTS SteakTrue UpdateLeavesNoGap ReconcileHeals
