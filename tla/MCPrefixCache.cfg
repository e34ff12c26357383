\* The default of two entries, a token budget that binds, two requests at a time.
SPECIFICATION Spec
CONSTANTS
  Requests = {r1, r2}
  Prompts <- NestedPrompts
  Images = {noimage, cat}
  NoImage = noimage
  max_entries = 2
  max_tokens = 4
  min_tokens = 2
  MaxDecoded = 1
SYMMETRY Symmetry
INVARIANTS
  TypeOK
  WithinLimits
  CachedStateIntact
  CacheIsInvisible
  EvictsLeastRecentlyUsed
