\* What one distributor's claims and clawback do to another of the same mint.
SPECIFICATION Spec
CONSTANTS
  alice = alice
  drop1 = drop1
  drop2 = drop2
  vault1 = vault1
  vault2 = vault2
  aliceAta = aliceAta
  mint = mint
  tree1 = tree1
  tree2 = tree2
  U64Max = 6
  I64Max = 5
  SecondsPerDay = 1
  NoAccount = NoAccount
  LamportsOnly = LamportsOnly
  Wallets = {alice}
  Distributors <- TwoDistributors
  TokenAccounts <- TwoTokenAccounts
  VaultOf <- TwoVaultOf
  OwnerOf <- TwoOwnerOf
  MintOf <- TwoMintOf
  InitialBalance <- TwoInitialBalance
  Roots <- TwoRoots
  Provable <- TwoProvable
  NewDistributorArgs <- TwoArgs
  IdleKeys = {}
  ReadableWallets = {alice}
  TransferAmounts = {1, 3}
  ClosableAccounts = {}
INVARIANTS
  ClaimBackedByLeaf
PROPERTIES
  OutflowAccounted
  SolvencyKept
CHECK_DEADLOCK FALSE
