\* The launch goes on and everyone with a row is served, whoever takes versions first.
SPECIFICATION LaunchLiveSpec
CONSTANTS
  launcher = launcher
  bob = bob
  drop1 = drop1
  drop2 = drop2
  vault1 = vault1
  vault2 = vault2
  treasury = treasury
  bobAta = bobAta
  mint = mint
  NoAccount = NoAccount
  LamportsOnly = LamportsOnly
  NoVersion = NoVersion
  Unreadable = Unreadable
  U64Max = 6
  I64Max = 3
  SecondsPerDay = 1
  MaxEntries = 2
  TokenUnit = 2
  MaxNodes = 2
  Wallets = {launcher, bob}
  Distributors <- MCVersions
  TokenAccounts <- FewTokenAccounts
  VaultOf <- MCVaultOf
  OwnerOf <- FewOwnerOf
  MintOf <- MCMintOf
  InitialBalance <- MCInitialBalance
  Roots <- TreesPerClaimant
  Provable <- MCProvable
  NewDistributorArgs = {}
  IdleKeys = {}
  ReadableWallets = {}
  TransferAmounts = {}
  LamportsSentTo = {bob}
  ClosableAccounts = {}
  CsvEntries <- RowPerClaimant
  Schedules <- OneSchedule
  LaunchSchedule <- ShortSchedule
INVARIANT
  RowsAffordable
PROPERTIES
  LaunchSettled
  RowsServed
CHECK_DEADLOCK FALSE
