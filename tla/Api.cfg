CONSTANTS
  None = None
  Malformed = Malformed
  x1 = x1
  x2 = x2
  k1 = k1
  s1 = s1
  s2 = s2
  s3 = s3
  hook = hook
  plain = plain
  mule = mule
  gone = gone
  Tenants = {x1, x2}
  Keys = {k1}
  Hashes <- HashSet
  TransferIDs = {t1, t2}
  Tokens = {g1, g2}
  Codes = {ok}
  Clients = {c1, c2}
  Workers = {w1}
  Reviewers = {r1}
  Providers = {p1}
  ClaimTTL = 1
  RetryDelay = 1
  MissingKeys = {gone}
  TimeoutKeys = {}
  RiskKeys = {mule}
  Digest <- DigestOf
  Environments <- EnvironmentSet
  Payloads <- PayloadSet
  Secrets = {s1, s2, s3, hook}
  Signatures <- SignatureSet
SPECIFICATION ApiSpec
SYMMETRY Symmetry
VIEW View
INVARIANTS CallerFacts RiskFacts RiskPolicy ClientFacts RepliesAgree IndexMatchesRows
PROPERTIES TenantScoped RoleGates CreatedMeansInserted EventsCounted
