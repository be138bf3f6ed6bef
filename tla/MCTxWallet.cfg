SPECIFICATION Spec
CONSTANTS
  Handlers = {h1, h2}
  Beefs <- MCBeefs
  Posted <- MCPosted
  Fetched <- MCFetched
  NoBeef = NoBeef
  UTXOs = {"u1", "u2"}
  Confirmed = {"u1"}
  MaxTip = 1
  MaxInvoices = 2
SYMMETRY HandlerSymmetry
INVARIANTS
  ServedVerified
  InvoiceOnce
