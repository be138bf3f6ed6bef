CONSTANTS
  Handlers = {h1, h2, h3}
  Requests = {"get"}
  Path <- MCPath
  Topic <- MCTopic
  PostRequests = {"post"}
  InfraPaths = {"/content/"}
  Topics = {"t"}
  NoTopic = ""
  PriceSats = 2
  EndpointPrices <- MCEndpointPrices
  MaxAppPriceSats = 3
  NodeScript = "node"
  NoScript = ""
  AllowPassthrough = TRUE
  AllowSplit = TRUE
  AllowTokenGating = FALSE
  RequireMempool = TRUE
  HasARC = TRUE
  DevNonces = FALSE
  ChallengeTTL = 1
  Monetizations <- MCMonetizations
  Txs = {"a", "b", "c", "o"}
  Spends <- MCSpends
  Outputs <- MCOutputs
  Orphans = {"o"}
  Credentials = {"none"}
  PaymentHeaders <- MCHeaders
  MaxNonces = 2
  MaxClock = 2
SPECIFICATION Spec
SYMMETRY Symmetric
INVARIANTS OneTxPerChallenge UsedChallengeGone UnusedChallengeKept
