\* What the clawback leaves in the vault.
SPECIFICATION Spec
CONSTANTS
  alice = alice
  bob = bob
  drop = drop
  vault = vault
  side = side
  aliceAta = aliceAta
  bobAta = bobAta
  otherAta = otherAta
  mint = mint
  otherMint = otherMint
  tree = tree
  otherTree = otherTree
  U64Max = 6
  I64Max = 6
  SecondsPerDay = 2
  NoAccount = NoAccount
  LamportsOnly = LamportsOnly
  Wallets <- MCWallets
  Distributors <- MCDistributors
  TokenAccounts <- MCTokenAccounts
  VaultOf <- MCVaultOf
  OwnerOf <- MCOwnerOf
  MintOf <- MCMintOf
  InitialBalance <- MCInitialBalance
  Roots <- MCRoots
  Provable <- HonestProvable
  NewDistributorArgs <- HonestArgs
  IdleKeys = {}
  ReadableWallets = {}
  TransferAmounts = {5}
  ClosableAccounts = {}
PROPERTY ClawbackEmptiesVault
CHECK_DEADLOCK FALSE
