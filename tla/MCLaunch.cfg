\* From the rows to the last token, with other wallets in between at every step.
SPECIFICATION LaunchSpec
CONSTANTS
  launcher = launcher
  bob = bob
  drop1 = drop1
  drop2 = drop2
  vault1 = vault1
  vault2 = vault2
  treasury = treasury
  bobAta = bobAta
  mint = mint
  NoAccount = NoAccount
  LamportsOnly = LamportsOnly
  NoVersion = NoVersion
  Unreadable = Unreadable
  U64Max = 6
  I64Max = 5
  SecondsPerDay = 1
  MaxEntries = 2
  TokenUnit = 2
  MaxNodes = 2
  Wallets = {launcher, bob}
  Distributors <- MCVersions
  TokenAccounts <- MCTokenAccounts
  VaultOf <- MCVaultOf
  OwnerOf <- MCOwnerOf
  MintOf <- MCMintOf
  InitialBalance <- MCInitialBalance
  Roots <- BobsTrees
  Provable <- MCProvable
  NewDistributorArgs <- MCLateArgs
  IdleKeys = {}
  ReadableWallets = {bob}
  TransferAmounts = {2}
  LamportsSentTo = {}
  ClosableAccounts = {}
  CsvEntries <- BobsRows
  Schedules <- MCSchedules
  LaunchSchedule <- MCLaunchSchedule
INVARIANTS
  LaunchTypeOK
  RowsRecorded
  TreasuryAccounted
CHECK_DEADLOCK FALSE
