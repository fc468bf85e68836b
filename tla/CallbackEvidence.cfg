CONSTANTS
  None = None
  Tenants = {x1}
  Keys = {k1}
  Hashes = {h1}
  TransferIDs = {t1}
  Tokens = {g1}
  Codes = {ok}
  Clients = {c1}
  Workers = {w1}
  Reviewers = {}
  Providers = {p1}
  ClaimTTL = 1
  RetryDelay = 1
SPECIFICATION Spec
PROPERTY CallbackLeavesEvidence
