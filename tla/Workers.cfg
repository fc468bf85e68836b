CONSTANTS
  None = None
  Tenants = {x1}
  Keys = {k1, k2}
  Hashes = {h1}
  TransferIDs = {t1, t2}
  Tokens = {g1, g2, g3, g4}
  Codes = {ok}
  Clients = {c1, c2}
  Workers = {w1, w2}
  Reviewers = {}
  Providers = {p1}
  ClaimTTL = 2
  RetryDelay = 1
SPECIFICATION Spec
SYMMETRY Symmetry
INVARIANTS WorkerFacts SubmissionSafety LeaseExclusive ClaimOnlyWhileAccepted
