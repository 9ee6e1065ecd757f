\* One airdrop with every operation; alice's key is one claim_locked can read.
SPECIFICATION Spec
CONSTANTS
  alice = alice
  bob = bob
  drop = drop
  vault = vault
  side = side
  aliceAta = aliceAta
  bobAta = bobAta
  otherAta = otherAta
  mint = mint
  otherMint = otherMint
  tree = tree
  otherTree = otherTree
  U64Max = 6
  I64Max = 6
  SecondsPerDay = 2
  NoAccount = NoAccount
  LamportsOnly = LamportsOnly
  Wallets <- MCWallets
  Distributors <- MCDistributors
  TokenAccounts <- MCTokenAccounts
  VaultOf <- MCVaultOf
  OwnerOf <- MCOwnerOf
  MintOf <- MCMintOf
  InitialBalance <- MCInitialBalance
  Roots <- MCRoots
  Provable <- MCProvable
  NewDistributorArgs <- MCArgs
  IdleKeys = {}
  ReadableWallets = {alice}
  TransferAmounts = {2, 5}
  ClosableAccounts = {}
INVARIANTS
  TypeOK
  NodesCounted
  AmountsCounted
  ClaimBackedByLeaf
  VestingRespected
  ClawbackWaited
PROPERTIES
  EscrowKept
  GrantsKept
  OutflowAccounted
  SolvencyKept
CHECK_DEADLOCK FALSE
