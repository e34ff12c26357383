\* Three entries: a lookup disturbs the order of the other two.
SPECIFICATION Spec
CONSTANTS
  Requests = {r1}
  Prompts <- ShortPrompts
  Images = {noimage}
  NoImage = noimage
  max_entries = 3
  max_tokens = 9
  min_tokens = 1
  MaxDecoded = 0
INVARIANTS
  EvictsLeastRecentlyUsed
