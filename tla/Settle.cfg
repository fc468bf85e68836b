CONSTANTS
  None = None
  Tenants = {x1, x2}
  Keys = {k1}
  Hashes = {h1}
  TransferIDs = {t1, t2}
  Tokens = {g1, g2}
  Codes = {ok, no}
  Clients = {c1}
  Workers = {w1}
  Reviewers = {r1, r2}
  Providers = {p1, p2}
  ClaimTTL = 1
  RetryDelay = 1
SPECIFICATION Spec
SYMMETRY Symmetry
INVARIANTS OutboxMatchesStatus CallbackFacts SettlementAgrees
PROPERTY ImplementsLifecycle
