CONSTANTS
  None = None
  Tenants = {x1}
  Keys = {k1}
  Hashes = {h1}
  TransferIDs = {t1}
  Tokens = {g1, g2, g3}
  Codes = {ok}
  Clients = {c1}
  Workers = {w1, w2}
  Reviewers = {r1}
  Providers = {}
  ClaimTTL = 2
  RetryDelay = 1
  Refused = {}
  BatchSize = 1
SPECIFICATION LiveSpec
PROPERTY AcceptedIsSubmitted
