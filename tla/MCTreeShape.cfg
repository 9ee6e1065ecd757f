\* The shape of the trees and their paths, for every width up to 17.
SPECIFICATION TestSpec
CONSTANTS
  Widths = {0, 1, 2, 3, 4, 5, 6, 7, 8, 9, 10, 11, 12, 13, 16, 17}
  Outsiders = {}
  NoItem = NoItem
  Items <- MCItems
  Inputs <- MCInputs
  ForeignHashes <- MCForeignHashes
  MaxProofLen = 0
INVARIANTS
  LevelsInPlace
  ProofsComplete
  PathsExact
  ClimbReachesRoot
  ProofServesOneEntry
  TestProofsVerify
  RootsAgreeWhenPaired
CHECK_DEADLOCK FALSE
