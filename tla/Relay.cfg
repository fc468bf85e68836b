SPECIFICATION LiveSpec
CONSTANTS
  None = None
  Relays = {r1, r2}
  Accounts = {a1}
  Tokens = {t1, t2}
  Driver = "postgres"
  MaxSkew = 1
  MaxRecords = 2
  Limit = 2
  ClaimTTL = 1
  InitialBackoff = 1
  MaxBackoff = 1
INVARIANTS RelayFacts PublishedWasDelivered BatchExclusive
PROPERTIES PublishedIsFinal EventuallyPublished
