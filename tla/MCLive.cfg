\* Claimants and clawback in the set-up the tools prepare, with an admin who keeps
\* changing the receiver; no key is readable by claim_locked.
SPECIFICATION LiveSpec
CONSTANTS
  alice = alice
  bob = bob
  drop = drop
  vault = vault
  side = side
  aliceAta = aliceAta
  bobAta = bobAta
  otherAta = otherAta
  mint = mint
  otherMint = otherMint
  tree = tree
  otherTree = otherTree
  U64Max = 6
  I64Max = 6
  SecondsPerDay = 2
  NoAccount = NoAccount
  LamportsOnly = LamportsOnly
  Wallets <- MCWallets
  Distributors <- MCDistributors
  TokenAccounts <- MCTokenAccounts
  VaultOf <- MCVaultOf
  OwnerOf <- MCOwnerOf
  MintOf <- MCMintOf
  InitialBalance <- MCInitialBalance
  Roots <- MCRoots
  Provable <- HonestProvable
  NewDistributorArgs <- HonestArgs
  IdleKeys = {idle}
  ReadableWallets = {}
  TransferAmounts = {5}
  ClosableAccounts = {bobAta}
INVARIANTS
  ClaimsAffordable
  ClawbackPayable
PROPERTIES
  ReclaimedInTheEnd
  ClaimedInTheEnd
CHECK_DEADLOCK FALSE
