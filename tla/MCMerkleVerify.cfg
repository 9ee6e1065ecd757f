\* Any proof against trees of up to five leaves.
SPECIFICATION Spec
CONSTANTS
  Widths = {1, 2, 3, 4, 5}
  Outsiders = {0}
  NoItem = NoItem
  Items <- MCItems
  Inputs <- MCInputs
  ForeignHashes <- MCForeignHashes
  MaxProofLen = 4
INVARIANTS
  ProofsSound
CHECK_DEADLOCK FALSE
