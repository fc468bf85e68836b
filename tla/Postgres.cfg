SPECIFICATION Spec
CONSTANTS
  None = None
  Tenants = {a}
  Keys = {k1, k2}
  TransferIDs = {t1, t2}
  Hashes = {h1}
  Tokens = {c1}
  Codes = {ok}
  ClaimTTL = 1
  RetryDelay = 1
  Sessions = {s1, s2}
  MaxSequence = 4
INVARIANTS DecidedRowIsCurrent DecisionStands LocksAndRowsAgree OneCallbackPerMessage SequenceFollowsCommits
PROPERTY ImplementsContract
SYMMETRY Symmetry
