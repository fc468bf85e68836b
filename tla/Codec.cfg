CONSTANTS
  None = None
  Names = {"word"}
  Events <- EventSet
  Profiles <- ProfileSet
  ExtraBytes = {0, 2, 8, 10, 24, 127, 128, 143, 150, 160, 255}
  Losses = {1, 3, 224}
SPECIFICATION Spec
CHECK_DEADLOCK FALSE
INVARIANTS RoundTrip DamageNoticed CutEventIsPrefix
