CONSTANTS
  uk = uk
  UK = UK
  us = us
  target = target
  unknown = unknown
  Years = {70, 71, 72, 99, 100, 101, 123, 124, 199, 200, 201, 298, 299, 300}
  MaxID = 4
  IDs <- ShortIDs
  Counters = {0, 9, 10, 999, 1000, 9999, 10000}
  KeyCounts = {0, 15, 16, 1048575}
  Size = 3
  Invalid = Invalid
  Spellings = {uk, UK, us, target, unknown}
  Capitals <- InCapitals
  Library = {1, 2, 3}
  MaxParts = 5
SPECIFICATION Spec
CHECK_DEADLOCK FALSE
INVARIANTS
  DatesPrinted
  IDsLeadBack
  RangesReduced
  CalendarsAsAsked
