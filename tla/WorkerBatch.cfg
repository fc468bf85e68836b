CONSTANTS
  None = None
  Tenants = {x1}
  Keys = {k1, k2}
  Hashes = {h1}
  TransferIDs = {t1, t2}
  Tokens = {g1, g2, g3}
  Codes = {ok}
  Clients = {c1}
  Workers = {w1}
  Reviewers = {}
  Providers = {}
  ClaimTTL = 1
  RetryDelay = 1
  Refused = {t1}
  BatchSize = 2
SPECIFICATION LiveSpec
PROPERTY AcceptedIsSubmitted
