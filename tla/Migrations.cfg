SPECIFICATION LiveSpec
CONSTANTS
  None = None
  old = old
  new = new
  edited = edited
  twin = twin
  c = c
  e = e
  Migrators = {old, new, edited, twin}
  Versions = {1, 2, 3}
  Checksums = {c, e}
  Release <- ReleaseOf
INVARIANTS AppliedOnce InVersionOrder MigratorFacts
PROPERTY EventuallyMigrated
