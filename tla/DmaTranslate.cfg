\* Three-bit addresses.
SPECIFICATION TranslateSpec
CONSTANTS
  Top = 7
  Bases = {"b1", "b2", "b3"}
  SegmentLists <- MCSegmentLists
  Ranges <- MCRanges
INVARIANTS NoAliases PartsTile TranslatesMappedRanges
CHECK_DEADLOCK FALSE
