\* Two requests at once, one person besides the owner, four acts of the owner.
CONSTANTS
  ann = ann
  bob = bob
  Person = {ann, bob}
  Owner = ann
  Request = {1, 2}
  NoKey = 0
  Body <- SmallBody
  MaxActs = 4
  Null = Null
  MaxBatch = 2
  MaxMessage = 16384
  MaxContext = 98304
  MaxSdk = 4096
  MaxCorrelation = 64
  MaxColumn = 255
  Cut = 12
  Note = 42
  Levels = {"debug", "info", "notice", "warning", "error", "critical", "alert", "emergency"}
SPECIFICATION FairSpec
INVARIANT AccessInv
INVARIANT BatchKept
PROPERTY AccessIsOffered
PROPERTY AccessDrains
