CONSTANTS
  Handlers = {h1, h2}
  Requests = {"get", "post", "free"}
  Path <- MCPath
  Topic <- MCTopic
  PostRequests = {"post"}
  InfraPaths = {"/content/"}
  Topics = {"t"}
  NoTopic = ""
  PriceSats = 2
  EndpointPrices <- MCEndpointPrices
  MaxAppPriceSats = 3
  NodeScript = "node"
  NoScript = ""
  AllowPassthrough = TRUE
  AllowSplit = TRUE
  AllowTokenGating = TRUE
  RequireMempool = TRUE
  HasARC = TRUE
  DevNonces = FALSE
  ChallengeTTL = 0
  Monetizations <- MCTokenOrApp
  Txs = {"a", "s"}
  Spends <- MCSpends
  Outputs <- MCOutputs
  Orphans = {"s"}
  Credentials = {"none", "valid"}
  PaymentHeaders <- MCMixedHeaders
  MaxNonces = 1
  MaxClock = 1
SPECIFICATION FairSpec
INVARIANT QuoteHonoured
PROPERTY RequestsAnswered
