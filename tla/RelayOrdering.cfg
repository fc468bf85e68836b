SPECIFICATION Spec
CONSTANTS
  None = None
  Relays = {r1}
  Accounts = {a1}
  Tokens = {t1, t2}
  Driver = "memory"
  MaxSkew = 0
  MaxRecords = 2
  Limit = 2
  ClaimTTL = 2
  InitialBackoff = 1
  MaxBackoff = 2
PROPERTY PayerLocalOrdering
