\* Rows in any order, up to and beyond the width of a u64 and the most nodes.
SPECIFICATION Spec
CONSTANTS
  alice = alice
  bob = bob
  carol = carol
  Claimants <- MCClaimants
  CsvEntries <- MCCsvEntries
  Unreadable = Unreadable
  MaxEntries = 3
  U64Max = 6
  TokenUnit = 2
  MaxNodes = 2
INVARIANTS
  RowsCombined
  CapsExact
  RefusalsJustified
CHECK_DEADLOCK FALSE
