---------------------------- MODULE LaunchProofs ----------------------------
(***************************************************************************)
(* The whole airdrop, for any number of rows, versions and wallets: the    *)
(* launch is a behaviour of the on-chain program, so that everything shown *)
(* of the program holds in it; no token of the launcher is diverted; and a *)
(* claim pays what the rows say.  What the builder does to the rows is     *)
(* proved in AirdropTreeProofs, once for every set of claimants.           *)
(***************************************************************************)
EXTENDS Launch, DistributorProofs, Sequences

(* Others may call the program with any terms and move any amount, and      *)
(* every set of leaves has a root.                                          *)
AnythingGoes ==
  /\ NewDistributorArgs = Arguments
  /\ TransferAmounts = U64
  /\ Roots = SUBSET Leaf

-----------------------------------------------------------------------------
(* The builder's theorems are those of its own module; its definitions      *)
(* there are the definitions of the launch's Builder.                       *)

BuilderProofs == INSTANCE AirdropTreeProofs WITH Claimants <- Wallets

BuilderInv == BuilderProofs!BuilderInv

(* What it assumes of rows and limits holds in a launch. *)
LEMMA LimitsKept == BuilderProofs!EntriesAssumption
BY BuilderAssumption, WidthAssumption
DEF BuilderProofs!EntriesAssumption, BuilderProofs!CsvEntry, BuilderProofs!U64,
    BuilderProofs!AirdropCategory, Builder!CsvEntry, Builder!U64, Builder!AirdropCategory, U64

LEMMA SameMin == ASSUME NEW S PROVE Builder!Min(S) = BuilderProofs!Min(S)
BY DEF Builder!Min, BuilderProofs!Min

LEMMA SameAdd ==
  ASSUME NEW a, NEW b PROVE Builder!CheckedAdd(a, b) = BuilderProofs!CheckedAdd(a, b)
BY SameMin
DEF Builder!CheckedAdd, BuilderProofs!CheckedAdd,
    Builder!Overflow, BuilderProofs!Overflow

LEMMA SameToken == ASSUME NEW a PROVE Builder!TokenAmount(a) = BuilderProofs!TokenAmount(a)
BY SameMin
DEF Builder!TokenAmount, BuilderProofs!TokenAmount,
    Builder!Overflow, BuilderProofs!Overflow

LEMMA SameSums ==
  ASSUME NEW node
  PROVE  /\ Builder!AmountUnlocked(node) = BuilderProofs!AmountUnlocked(node)
         /\ Builder!AmountLocked(node) = BuilderProofs!AmountLocked(node)
         /\ Builder!TotalAmount(node) = BuilderProofs!TotalAmount(node)
BY SameAdd
DEF Builder!AmountUnlocked, BuilderProofs!AmountUnlocked,
    Builder!AmountLocked, BuilderProofs!AmountLocked,
    Builder!TotalAmount, BuilderProofs!TotalAmount,
    Builder!SumOfCategories, BuilderProofs!SumOfCategories

LEMMA SameNode ==
  ASSUME NEW entry PROVE Builder!NodeOf(entry) = BuilderProofs!NodeOf(entry)
BY SameToken
DEF Builder!NodeOf, BuilderProofs!NodeOf,
    Builder!AirdropCategory, BuilderProofs!AirdropCategory

LEMMA SameCombined ==
  ASSUME NEW n, NEW node PROVE Builder!Combined(n, node) = BuilderProofs!Combined(n, node)
BY SameAdd, Zenon
DEF Builder!Combined, BuilderProofs!Combined,
    Builder!AirdropCategory, BuilderProofs!AirdropCategory

LEMMA SameAddNode ==
  ASSUME NEW nodes, NEW node
  PROVE  Builder!AddNode(nodes, node) = BuilderProofs!AddNode(nodes, node)
BY SameCombined DEF Builder!AddNode, BuilderProofs!AddNode

LEMMA SameFields ==
  ASSUME NEW node PROVE Builder!FieldsFit(node) <=> BuilderProofs!FieldsFit(node)
BY DEF Builder!FieldsFit, BuilderProofs!FieldsFit,
    Builder!U64, BuilderProofs!U64,
    Builder!AirdropCategory, BuilderProofs!AirdropCategory

(* The recursive function inside GetMaxTotalClaim. *)
LaunchClaimRec(nodes) ==
  CHOOSE it : it = [s \in SUBSET DOMAIN nodes |->
    IF s = {} THEN 0
    ELSE Builder!CheckedAdd(it[s \ {Builder!Max(s)}],
                            Builder!TotalAmount(nodes[Builder!Max(s)]))]

LEMMA SameTotal ==
  ASSUME NEW nodes
  PROVE  Builder!GetMaxTotalClaim(nodes) = BuilderProofs!GetMaxTotalClaim(nodes)
<1>1. Builder!GetMaxTotalClaim(nodes) = LaunchClaimRec(nodes)[DOMAIN nodes]
  BY DEF Builder!GetMaxTotalClaim, Builder!FoldLeft, Builder!MapThenFoldSet, LaunchClaimRec
<1>2. LaunchClaimRec(nodes) = BuilderProofs!ClaimRec(nodes)
  BY DEF LaunchClaimRec, BuilderProofs!ClaimRec, BuilderProofs!LastOf,
    Builder!Max, BuilderProofs!Max,
    Builder!CheckedAdd, BuilderProofs!CheckedAdd,
    Builder!Min, BuilderProofs!Min,
    Builder!Overflow, BuilderProofs!Overflow,
    Builder!TotalAmount, BuilderProofs!TotalAmount,
    Builder!AmountUnlocked, BuilderProofs!AmountUnlocked,
    Builder!AmountLocked, BuilderProofs!AmountLocked,
    Builder!SumOfCategories, BuilderProofs!SumOfCategories
<1> QED
  BY LimitsKept, <1>1, <1>2, BuilderProofs!ClaimIsRec

LEMMA SameFit ==
  ASSUME NEW nodes PROVE Builder!SumsFit(nodes) <=> BuilderProofs!SumsFit(nodes)
BY SameTotal, SameSums
DEF Builder!SumsFit, BuilderProofs!SumsFit,
    Builder!U64, BuilderProofs!U64

LEMMA SameValid ==
  ASSUME NEW nodes, NEW num, NEW total
  PROVE  Builder!Valid(nodes, num, total) <=> BuilderProofs!Valid(nodes, num, total)
BY SameTotal
DEF Builder!Valid, BuilderProofs!Valid,
    Builder!Cardinality, BuilderProofs!Cardinality

LEMMA SameInit == Builder!Init <=> BuilderProofs!Init
BY DEF Builder!Init, BuilderProofs!Init

LEMMA SameNext == Builder!Next <=> BuilderProofs!Next
<1>1. ASSUME NEW entry
      PROVE  Builder!AddEntry(entry) <=> BuilderProofs!AddEntry(entry)
  BY SameNode, SameAddNode, SameFields DEF Builder!AddEntry, BuilderProofs!AddEntry
<1>2. Builder!OpenFails <=> BuilderProofs!OpenFails
  BY DEF Builder!OpenFails, BuilderProofs!OpenFails
<1>3. Builder!AddUnreadable <=> BuilderProofs!AddUnreadable
  BY DEF Builder!AddUnreadable, BuilderProofs!AddUnreadable
<1>4. Builder!Finish <=> BuilderProofs!Finish
  BY SameFit, SameValid, SameTotal DEF Builder!Finish, BuilderProofs!Finish
<1> QED
  BY <1>1, <1>2, <1>3, <1>4 DEF Builder!Next, BuilderProofs!Next

LEMMA SameRows ==
  ASSUME NEW rows
  PROVE  /\ Builder!UnlockedOf(rows) = BuilderProofs!UnlockedOf(rows)
         /\ Builder!LockedOf(rows) = BuilderProofs!LockedOf(rows)
BY DEF Builder!UnlockedOf, BuilderProofs!UnlockedOf,
    Builder!LockedOf, BuilderProofs!LockedOf,
    Builder!SumFunctionOnSet, BuilderProofs!SumFunctionOnSet,
    Builder!FoldFunctionOnSet, BuilderProofs!FoldFunctionOnSet,
    Builder!MapThenFoldSet, BuilderProofs!MapThenFoldSet

(* What the launch takes from a built tree. *)
LEMMA BuiltTree ==
  ASSUME BuilderInv, status = "built"
  PROVE  /\ max_total_claim \in U64 /\ max_num_nodes \in U64
         /\ \A i \in DOMAIN tree_nodes :
              LET k == tree_nodes[i].claimant
              IN  /\ k \in Wallets
                  /\ Builder!AmountUnlocked(tree_nodes[i]) \in U64
                  /\ Builder!AmountLocked(tree_nodes[i]) \in U64
                  /\ Builder!AmountUnlocked(tree_nodes[i]) = AmountOf(k, Builder!UnlockedOf)
                  /\ Builder!AmountLocked(tree_nodes[i]) = AmountOf(k, Builder!LockedOf)
BY LimitsKept, BuilderProofs!BuiltTree, SameSums, SameRows
DEF BuilderInv, AmountOf, BuilderProofs!RowsOfNode, BuilderProofs!U64, U64

LEMMA SameCount == ASSUME NEW S PROVE BuilderProofs!Cardinality(S) = Cardinality(S)
BY DEF BuilderProofs!Cardinality, Cardinality

LEMMA SameSum == ASSUME NEW g, NEW S PROVE BuilderProofs!Total(g, S) = Total(g, S)
BY DEF BuilderProofs!Total, Total,
    BuilderProofs!SumFunctionOnSet, SumFunctionOnSet,
    BuilderProofs!FoldFunctionOnSet, FoldFunctionOnSet,
    BuilderProofs!MapThenFoldSet, MapThenFoldSet

(* What a node hashes into its leaf. *)
NodeAmounts ==
  [i \in DOMAIN tree_nodes |->
     Builder!AmountUnlocked(tree_nodes[i]) + Builder!AmountLocked(tree_nodes[i])]

(* Its caps are those of its nodes, one for each claimant of the file.      *)
LEMMA BuiltCaps ==
  ASSUME BuilderInv, status = "built"
  PROVE  /\ IsFiniteSet(DOMAIN tree_nodes)
         /\ max_num_nodes = Cardinality(DOMAIN tree_nodes)
         /\ max_total_claim = Total(NodeAmounts, DOMAIN tree_nodes)
         /\ \A i, j \in DOMAIN tree_nodes :
              tree_nodes[i].claimant = tree_nodes[j].claimant => i = j
         /\ {tree_nodes[i].claimant : i \in DOMAIN tree_nodes} = InFile
<1> DEFINE S == DOMAIN tree_nodes
<1>1. /\ max_num_nodes = BuilderProofs!Cardinality(S)
      /\ max_total_claim = BuilderProofs!Total(BuilderProofs!NodeAmounts, S)
      /\ \A i, j \in S : tree_nodes[i].claimant = tree_nodes[j].claimant => i = j
      /\ {tree_nodes[i].claimant : i \in S}
           = {csv_entries[r].claimant : r \in DOMAIN csv_entries}
  BY LimitsKept, BuilderProofs!BuiltCaps DEF BuilderInv
<1>2. BuilderProofs!NodeAmounts = NodeAmounts
  BY SameSums DEF BuilderProofs!NodeAmounts, NodeAmounts
<1>3. IsFiniteSet(S)
  <2> DEFINE f == [i \in S |-> tree_nodes[i].claimant]
  <2>1. \A i \in S : tree_nodes[i].claimant \in Wallets
    BY BuiltTree
  <2>2. f \in Injection(S, Wallets)
    BY <1>1, <2>1 DEF Injection, IsInjective
  <2> QED
    BY <2>2, AddressAssumption, FS_Injection
<1> QED
  BY <1>1, <1>2, <1>3, SameCount, SameSum DEF InFile

LEMMA BuilderStep ==
  ASSUME BuilderInv, Builder!Next \/ UNCHANGED builder_vars
  PROVE  BuilderInv'
<1>1. BuilderProofs!Next \/ UNCHANGED BuilderProofs!vars
  BY SameNext DEF builder_vars, BuilderProofs!vars
<1> QED
  BY LimitsKept, <1>1, BuilderProofs!BuilderStep, BuilderProofs!BuilderStutters DEF BuilderInv

-----------------------------------------------------------------------------
(* Every step of the launch is one of the program's, or of nobody's *)

LEMMA BuiltArgs ==
  ASSUME AnythingGoes, BuilderInv, status = "built", NEW s \in Schedules
  PROVE  LaunchArgs(s) \in Arguments
<1>1. /\ s.start_ts \in I64 /\ s.end_ts \in I64 /\ s.clawback_start_ts \in I64
  BY LaunchAssumption
<1>2. TreeRoot \subseteq Leaf
  <2>1. ASSUME NEW i \in DOMAIN tree_nodes
        PROVE  /\ tree_nodes[i].claimant \in Wallets
               /\ Builder!AmountUnlocked(tree_nodes[i]) \in U64
               /\ Builder!AmountLocked(tree_nodes[i]) \in U64
    BY BuiltTree
  <2> QED
    BY <2>1 DEF TreeRoot, Leaf
<1>3. TreeRoot \in Roots /\ max_total_claim \in U64 /\ max_num_nodes \in U64
  BY <1>2, BuiltTree DEF AnythingGoes
<1> QED
  BY <1>1, <1>3 DEF LaunchArgs, Arguments

(* Seeding the vault is a transfer of a wallet. *)
LEMMA FundIsTransfer ==
  ASSUME AnythingGoes, BuilderInv, verified \in Distributors, status = "built", Fund
  PROVE  /\ WalletTransfer(treasury, VaultOf[verified], max_total_claim)
         /\ max_total_claim \in TransferAmounts
         /\ treasury # VaultOf[verified]
<1>1. OwnerOf[treasury] = launcher /\ launcher \in Wallets
  BY LaunchAssumption
<1>2. treasury # VaultOf[verified]
  BY <1>1, AddressAssumption
<1>3. max_total_claim \in TransferAmounts
  BY BuiltTree DEF AnythingGoes
<1> QED
  BY <1>1, <1>2, <1>3 DEF Fund, WalletTransfer

LEMMA OthersStep ==
  ASSUME AnythingGoes, BuilderInv, status = "built", Others
  PROVE  Next
<1>1. OthersArgs \subseteq NewDistributorArgs
  BY BuiltArgs DEF OthersArgs, AnythingGoes
<1>2. PICK w \in Wallets \ {launcher}, d \in Distributors :
        \/ \E receiver \in TokenAccounts, args \in OthersArgs : NewDistributor(d, w, receiver, args)
        \/ \E a \in TokenAccounts : SetClawbackReceiver(d, w, a)
        \/ \E new_admin \in Keys : SetAdmin(d, w, new_admin)
        \/ \E k \in LamportsSentTo : Prefund(d, k)
  BY DEF Others
<1>3. CASE \E receiver \in TokenAccounts, args \in OthersArgs :
             NewDistributor(d, w, receiver, args)
  BY <1>1, <1>3 DEF Next, Instruction
<1>4. CASE \E a \in TokenAccounts : SetClawbackReceiver(d, w, a)
  BY <1>4 DEF Next, Instruction
<1>5. CASE \E new_admin \in Keys : SetAdmin(d, w, new_admin)
  BY <1>5 DEF Next, Instruction
<1>6. CASE \E k \in LamportsSentTo : Prefund(d, k)
  BY <1>6, LaunchAssumption DEF Next, Environment
<1> QED
  BY <1>2, <1>3, <1>4, <1>5, <1>6

LEMMA ClaimIsInstruction ==
  ASSUME NEW k \in Wallets, Claim(k)
  PROVE  Next
<1>1. \A d \in Distributors : VaultOf[d] \in TokenAccounts
  BY AddressAssumption
<1> QED
  BY <1>1 DEF Claim, Next, Instruction

(* What the launcher relies on once it has read a version back.             *)
VerifiedInv ==
  /\ verified \in Distributors \cup {NoVersion}
  /\ verified # NoVersion =>
       /\ status = "built"
       /\ Exists(verified)
       /\ distributor[verified].admin = launcher
       /\ distributor[verified].clawback_receiver = treasury
       /\ distributor[verified].start_ts = LaunchSchedule.start_ts
       /\ distributor[verified].root = TreeRoot

LEMMA ChainStep ==
  ASSUME AnythingGoes, BuilderInv, VerifiedInv, LaunchNext
  PROVE  Next \/ UNCHANGED vars
<1>1. CASE Build
  BY <1>1 DEF Build
<1>2. CASE LauncherStep
  <2>1. CASE Fund
    <3>1. verified \in Distributors /\ status = "built"
      BY <2>1 DEF Fund, VerifiedInv
    <3>2. VaultOf[verified] \in TokenAccounts /\ treasury \in TokenAccounts
      BY <3>1, AddressAssumption, LaunchAssumption
    <3> QED
      BY <2>1, <3>1, <3>2, FundIsTransfer DEF Next, Environment
  <2>2. ASSUME NEW d \in Distributors, Create(d) PROVE Next
    <3>1. LaunchArgs(LaunchSchedule) \in NewDistributorArgs
      BY <2>2, BuiltArgs, LaunchAssumption DEF Create, AnythingGoes
    <3>2. NewDistributor(d, launcher, treasury, LaunchArgs(LaunchSchedule))
      BY <2>2 DEF Create
    <3> QED
      BY <3>1, <3>2, LaunchAssumption DEF Next, Instruction
  <2>3. ASSUME NEW d \in Distributors, ReadBack(d) PROVE UNCHANGED vars
    BY <2>3 DEF ReadBack
  <2> QED
    BY <1>2, <2>1, <2>2, <2>3 DEF LauncherStep
<1>3. CASE OnChain(Others)
  BY <1>3, OthersStep DEF OnChain
<1>4. ASSUME NEW k \in Wallets, OnChain(Claim(k)) PROVE Next
  BY <1>4, ClaimIsInstruction DEF OnChain
<1>5. ASSUME NEW d \in Distributors, OnChain(Clawback(d)) PROVE Next
  BY <1>5 DEF OnChain, Next, Instruction
<1>6. CASE OnChain(Tick)
  BY <1>6 DEF OnChain, Next, Environment
<1>7. ASSUME NEW a \in Vaults, OnChain(CreateAccount(a)) PROVE Next
  <2>1. a \in TokenAccounts
    BY AddressAssumption DEF Vaults
  <2> QED
    BY <1>7, <2>1 DEF OnChain, Next, Environment
<1>8. ASSUME NEW from \in TokenAccounts \ {treasury}, NEW to \in TokenAccounts,
             NEW amount \in TransferAmounts, OnChain(WalletTransfer(from, to, amount))
      PROVE  Next
  BY <1>8 DEF OnChain, Next, Environment
<1> QED
  BY <1>1, <1>2, <1>3, <1>4, <1>5, <1>6, <1>7, <1>8 DEF LaunchNext

-----------------------------------------------------------------------------
(* What nobody but the launcher can do *)

TreasuryGrows == balance[treasury] <= balance'[treasury]

(* The terms the launcher relies on stay, and clawed_back is set by clawback.*)
VersionKept(v) ==
  /\ distributor'[v].admin = distributor[v].admin
  /\ distributor'[v].clawback_receiver = distributor[v].clawback_receiver
  /\ distributor'[v].clawed_back = distributor[v].clawed_back \/ Clawback(v)

(* A version the launcher administers. *)
OwnVersion(v) == v \in Distributors /\ Exists(v) /\ distributor[v].admin = launcher

Spares(v) == TreasuryGrows /\ (OwnVersion(v) => VersionKept(v))

LEMMA TreasuryOwner ==
  /\ treasury \in TokenAccounts
  /\ OwnerOf[treasury] = launcher
  /\ launcher \in Wallets
  /\ \A d \in Distributors : VaultOf[d] \in TokenAccounts /\ VaultOf[d] # treasury
BY LaunchAssumption, AddressAssumption

(* A distributor signs for its own accounts only. *)
LEMMA DistributorsSpare ==
  ASSUME TypeOK, NEW d \in Distributors,
         NEW from \in TokenAccounts, NEW to \in TokenAccounts, NEW amount \in U64,
         TransferAllowed(d, from, to, amount),
         balance' = Transferred(from, to, amount)
  PROVE  TreasuryGrows
<1>1. ~(balance'[treasury] < balance[treasury])
  <2> SUFFICES ASSUME balance'[treasury] < balance[treasury] PROVE FALSE
    OBVIOUS
  <2>1. OwnerOf[treasury] = d
    BY TransferSource, TreasuryOwner
  <2> QED
    BY <2>1, TreasuryOwner, AddressAssumption
<1>2. balance[treasury] \in U64 /\ balance'[treasury] \in U64
  <2>1. balance \in [TokenAccounts -> U64]
    BY DEF TypeOK
  <2>2. Transferred(from, to, amount) \in [TokenAccounts -> U64]
    BY TransferredType
  <2> QED
    BY <2>1, <2>2, TreasuryOwner
<1> QED
  BY <1>1, <1>2, WidthAssumption DEF TreasuryGrows, U64

LEMMA Unchanged ==
  ASSUME TypeOK, balance' = balance PROVE TreasuryGrows
<1>1. balance[treasury] \in U64
  BY TreasuryOwner DEF TypeOK
<1> QED
  BY <1>1, WidthAssumption DEF TreasuryGrows, U64

LEMMA ClaimSpares ==
  ASSUME TypeOK, NEW k \in Wallets, Claim(k), NEW v
  PROVE  Spares(v)
<1>1. ASSUME NEW d \in Distributors, NEW to \in TokenAccounts, NEW leaf \in AllLeaves,
             NewClaim(d, leaf, VaultOf[d], to)
      PROVE  Spares(v)
  <2>1. leaf.unlocked \in U64
    BY <1>1, NewClaimContinues, TreasuryOwner DEF Leaf
  <2>2. TreasuryGrows
    BY <1>1, <2>1, DistributorsSpare, TreasuryOwner DEF NewClaim
  <2>3. OwnVersion(v) => distributor[v] \in MerkleDistributor
    BY ExistsType DEF OwnVersion
  <2>4. OwnVersion(v) => VersionKept(v)
    BY <1>1, <2>3 DEF VersionKept, OwnVersion, NewClaim, TypeOK, MerkleDistributor
  <2> QED
    BY <2>2, <2>4 DEF Spares
<1>2. ASSUME NEW d \in Distributors, NEW to \in TokenAccounts, ClaimLocked(d, k, to)
      PROVE  Spares(v)
  <2>1. Withdrawable(d, k) \in U64
    BY <1>2, ClaimLockedContinues
  <2>2. TreasuryGrows
    BY <1>2, <2>1, DistributorsSpare, TreasuryOwner DEF ClaimLocked
  <2>3. OwnVersion(v) => distributor[v] \in MerkleDistributor
    BY ExistsType DEF OwnVersion
  <2>4. OwnVersion(v) => VersionKept(v)
    BY <1>2, <2>3 DEF VersionKept, OwnVersion, ClaimLocked, TypeOK, MerkleDistributor
  <2> QED
    BY <2>2, <2>4 DEF Spares
<1> QED
  BY <1>1, <1>2 DEF Claim

LEMMA ClawbackSpares ==
  ASSUME TypeOK, NEW d \in Distributors, Clawback(d), NEW v
  PROVE  Spares(v)
<1>1. distributor[d] \in MerkleDistributor
  BY ExistsType DEF Clawback
<1>2. /\ distributor[d].clawback_receiver \in TokenAccounts
      /\ balance[VaultOf[d]] \in U64
  BY <1>1, TreasuryOwner DEF TypeOK, MerkleDistributor
<1>3. TreasuryGrows
  BY <1>2, DistributorsSpare, TreasuryOwner DEF Clawback
<1>4. OwnVersion(v) => distributor[v] \in MerkleDistributor
  BY ExistsType DEF OwnVersion
<1>5. OwnVersion(v) => VersionKept(v)
  BY <1>1, <1>4 DEF VersionKept, OwnVersion, Clawback, TypeOK, MerkleDistributor
<1> QED
  BY <1>3, <1>5 DEF Spares

(* Whoever is not its admin cannot change the terms of a version.           *)
LEMMA OthersSpare ==
  ASSUME TypeOK, Others, NEW v
  PROVE  Spares(v)
<1>1. PICK w \in Wallets \ {launcher}, d \in Distributors :
        \/ \E receiver \in TokenAccounts, args \in OthersArgs : NewDistributor(d, w, receiver, args)
        \/ \E a \in TokenAccounts : SetClawbackReceiver(d, w, a)
        \/ \E new_admin \in Keys : SetAdmin(d, w, new_admin)
        \/ \E k \in LamportsSentTo : Prefund(d, k)
  BY DEF Others
<1>2. balance' = balance
  BY <1>1 DEF NewDistributor, SetClawbackReceiver, SetAdmin, Prefund
<1>3. ASSUME OwnVersion(v) PROVE distributor'[v] = distributor[v]
  <2>1. ASSUME NEW receiver, NEW args, NewDistributor(d, w, receiver, args)
        PROVE  distributor'[v] = distributor[v]
    BY <1>3, <2>1 DEF OwnVersion, NewDistributor, Exists, TypeOK
  <2>2. ASSUME NEW a, SetClawbackReceiver(d, w, a) \/ SetAdmin(d, w, a)
        PROVE  distributor'[v] = distributor[v]
    BY <1>3, <2>2 DEF OwnVersion, SetClawbackReceiver, SetAdmin, TypeOK
  <2>3. ASSUME NEW k, Prefund(d, k) PROVE distributor'[v] = distributor[v]
    BY <2>3 DEF Prefund
  <2> QED
    BY <1>1, <2>1, <2>2, <2>3
<1> QED
  BY <1>2, <1>3, Unchanged DEF Spares, VersionKept

(* But for the launcher's own transfer, no step takes tokens out of the     *)
(* treasury or changes the terms of a version of the launcher.              *)
LEMMA LaunchSpares ==
  ASSUME TypeOK, LaunchNext, ~Fund, NEW v
  PROVE  Spares(v)
<1>1. distributor' = distributor => VersionKept(v)
  BY DEF VersionKept
<1>2. CASE Build
  BY <1>1, <1>2, Unchanged DEF Build, vars, Spares
<1>3. ASSUME NEW d \in Distributors, Create(d) PROVE Spares(v)
  <2>1. OwnVersion(v) => distributor'[v] = distributor[v]
    BY <1>3 DEF OwnVersion, Create, NewDistributor, Exists, TypeOK
  <2>2. balance' = balance
    BY <1>3 DEF Create, NewDistributor
  <2> QED
    BY <2>1, <2>2, Unchanged DEF VersionKept, Spares
<1>4. ASSUME NEW d \in Distributors, ReadBack(d) PROVE Spares(v)
  BY <1>1, <1>4, Unchanged DEF ReadBack, vars, Spares
<1>5. CASE OnChain(Others)
  BY <1>5, OthersSpare DEF OnChain
<1>6. ASSUME NEW k \in Wallets, OnChain(Claim(k)) PROVE Spares(v)
  BY <1>6, ClaimSpares DEF OnChain
<1>7. ASSUME NEW d \in Distributors, OnChain(Clawback(d)) PROVE Spares(v)
  BY <1>7, ClawbackSpares DEF OnChain
<1>8. CASE OnChain(Tick)
  BY <1>1, <1>8, Unchanged DEF OnChain, Tick, Spares
<1>9. ASSUME NEW a \in Vaults, OnChain(CreateAccount(a)) PROVE Spares(v)
  BY <1>1, <1>9, Unchanged DEF OnChain, CreateAccount, Spares
<1>10. ASSUME NEW from \in TokenAccounts \ {treasury}, NEW to \in TokenAccounts,
              NEW amount \in TransferAmounts, OnChain(WalletTransfer(from, to, amount))
       PROVE  Spares(v)
  <2>1. WalletTransfer(from, to, amount)
    BY <1>10 DEF OnChain
  <2>2. VersionKept(v)
    BY <1>1, <2>1 DEF WalletTransfer
  <2>3. amount \in U64
    BY DataAssumption
  <2>4. ~(balance'[treasury] < balance[treasury])
    BY <2>1, <2>3, TransferSource, TreasuryOwner DEF WalletTransfer
  <2>5. balance'[treasury] \in U64 /\ balance[treasury] \in U64
    <3>1. Transferred(from, to, amount) \in [TokenAccounts -> U64]
      BY <2>1, <2>3, TransferredType DEF WalletTransfer
    <3> QED
      BY <2>1, <3>1, TreasuryOwner DEF WalletTransfer, TypeOK
  <2>6. TreasuryGrows
    BY <2>4, <2>5, WidthAssumption DEF TreasuryGrows, U64
  <2> QED
    BY <2>2, <2>6 DEF Spares
<1> QED
  BY <1>2, <1>3, <1>4, <1>5, <1>6, <1>7, <1>8, <1>9, <1>10 DEF LaunchNext, LauncherStep

-----------------------------------------------------------------------------
(* The invariant of the launch *)

(* As TreasuryAccounted, with the counter of the version for the sum of its *)
(* claim statuses.                                                          *)
TreasuryCounted ==
  IF verified = NoVersion
  THEN InitialBalance[treasury] <= balance[treasury]
  ELSE InitialBalance[treasury]
         <= balance[treasury]
              + (IF distributor[verified].clawed_back THEN 0 ELSE balance[VaultOf[verified]])
              + distributor[verified].total_amount_claimed

ChainInv == Inv /\ AmountsCounted

LaunchInv == BuilderInv /\ VerifiedInv /\ ChainInv /\ TreasuryCounted

LEMMA InitLaunch == LaunchInit => LaunchInv
<1> SUFFICES ASSUME LaunchInit PROVE LaunchInv
  OBVIOUS
<1>1. BuilderInv
  BY LimitsKept, SameInit, BuilderProofs!BuilderInit DEF LaunchInit, BuilderInv
<1>2. VerifiedInv
  BY DEF LaunchInit, VerifiedInv
<1>3. ChainInv
  BY InitInv DEF LaunchInit, ChainInv, AmountsCounted, Init, Exists
<1>4. TreasuryCounted
  <2>1. verified = NoVersion /\ balance = InitialBalance
    BY DEF LaunchInit, Init
  <2>2. InitialBalance[treasury] \in Nat
    BY DataAssumption, WidthAssumption, TreasuryOwner DEF U64
  <2> QED
    BY <2>1, <2>2 DEF TreasuryCounted
<1> QED
  BY <1>1, <1>2, <1>3, <1>4 DEF LaunchInv

LEMMA VerifiedStep ==
  ASSUME AnythingGoes, LaunchInv, LaunchNext
  PROVE  VerifiedInv'
<1>1. TypeOK /\ VerifiedInv /\ BuilderInv
  BY DEF LaunchInv, ChainInv, Inv
<1>2. ASSUME NEW d \in Distributors, ReadBack(d) PROVE VerifiedInv'
  <2>1. /\ status' = status /\ distributor' = distributor /\ verified' = d
        /\ Exists(d) /\ AsExpected(d) /\ status = "built"
    BY <1>2 DEF ReadBack, vars, builder_vars
  <2>2. /\ distributor[d].start_ts = LaunchSchedule.start_ts
        /\ distributor[d].root = TreeRoot
    BY <2>1 DEF AsExpected, LaunchArgs
  <2>3. TreeRoot' = TreeRoot
    BY <1>2 DEF ReadBack, builder_vars, TreeRoot
  <2> QED
    BY <2>1, <2>2, <2>3 DEF VerifiedInv, AsExpected, Exists
<1>3. ASSUME verified' = verified PROVE VerifiedInv'
  <2>1. CASE verified = NoVersion
    BY <1>3, <2>1 DEF VerifiedInv
  <2>2. CASE verified # NoVersion
    <3> DEFINE v == verified
    <3>1. /\ v \in Distributors /\ Exists(v) /\ status = "built"
          /\ distributor[v].admin = launcher
          /\ distributor[v].clawback_receiver = treasury
          /\ distributor[v].start_ts = LaunchSchedule.start_ts
          /\ distributor[v].root = TreeRoot
      BY <1>1, <2>2 DEF VerifiedInv
    <3>2. status' = "built" /\ tree_nodes' = tree_nodes
      BY <3>1 DEF LaunchNext, Build, LauncherStep, OnChain, Fund, Create, ReadBack,
                  builder_vars, Builder!Next, Builder!OpenFails, Builder!AddUnreadable,
                  Builder!AddEntry, Builder!Finish
    <3>3. CASE Fund
      BY <1>3, <3>1, <3>2, <3>3 DEF Fund, VerifiedInv, Exists, TreeRoot
    <3>4. CASE ~Fund
      <4>1. VersionKept(v)
        BY <1>1, <3>1, <3>4, LaunchSpares DEF Spares, OwnVersion
      <4>2. Next \/ UNCHANGED vars
        BY <1>1, ChainStep
      <4>3. /\ distributor'[v] # NoAccount
            /\ distributor'[v].start_ts = distributor[v].start_ts
            /\ distributor'[v].root = distributor[v].root
        <5>1. CASE Next
          BY <1>1, <3>1, <5>1, DistributorContinues, AccountAssumption DEF Continues, Exists
        <5>2. CASE UNCHANGED vars
          BY <3>1, <5>2 DEF vars, Exists
        <5> QED
          BY <4>2, <5>1, <5>2
      <4> QED
        BY <1>3, <3>1, <3>2, <4>1, <4>3 DEF VersionKept, VerifiedInv, Exists, TreeRoot
    <3> QED
      BY <3>3, <3>4
  <2> QED
    BY <2>1, <2>2
<1> QED
  BY <1>2, <1>3
  DEF LaunchNext, Build, LauncherStep, OnChain, Fund, Create, launch_vars

(* The chain's own invariants: every step is one of the program's.          *)
LEMMA ChainInvStep ==
  ASSUME AnythingGoes, LaunchInv, LaunchNext
  PROVE  ChainInv'
<1>1. Next \/ UNCHANGED vars
  BY ChainStep DEF LaunchInv
<1>2. Inv /\ AmountsCounted
  BY DEF LaunchInv, ChainInv
<1>3. Inv'
  BY <1>1, <1>2, InvStep
<1>4. AmountsCounted'
  <2>1. CASE Next
    BY <1>2, <2>1, AmountsCountedStep
  <2>2. CASE UNCHANGED vars
    BY <1>2, <2>2 DEF AmountsCounted, PaidTo, Claimed, Exists, vars
  <2> QED
    BY <1>1, <2>1, <2>2
<1> QED
  BY <1>3, <1>4 DEF ChainInv

(* The vault is seeded before anybody can claw it back, and the transfer    *)
(* loses nothing.                                                           *)
LEMMA FundCounted ==
  ASSUME AnythingGoes, LaunchInv, Fund
  PROVE  TreasuryCounted'
<1> DEFINE v == verified
           vault == VaultOf[v]
           total == distributor[v].total_amount_claimed
<1>1. /\ v \in Distributors /\ v # NoVersion /\ Exists(v) /\ status = "built"
      /\ distributor[v].start_ts = LaunchSchedule.start_ts
      /\ distributor[v] \in MerkleDistributor
      /\ Inv
  BY ExistsType DEF Fund, LaunchInv, VerifiedInv, ChainInv, Inv
<1>2. treasury # vault /\ vault \in TokenAccounts /\ treasury \in TokenAccounts
  BY <1>1, TreasuryOwner
<1>3. ~distributor[v].clawed_back
  <2>1. /\ distributor[v].start_ts \in Int /\ distributor[v].end_ts \in Int
        /\ distributor[v].clawback_start_ts \in Int /\ now \in Int
        /\ SecondsPerDay \in Nat
    BY <1>1, DataAssumption, WidthAssumption DEF Inv, TypeOK, MerkleDistributor, UnixTime, I64
  <2>2. /\ distributor[v].start_ts < distributor[v].end_ts
        /\ distributor[v].end_ts + SecondsPerDay <= distributor[v].clawback_start_ts
    BY <1>1 DEF Inv, ScheduleAccepted, Schedule
  <2>3. now < distributor[v].start_ts
    BY <1>1 DEF Fund, InTimeToFund
  <2>4. distributor[v].clawed_back => now >= distributor[v].clawback_start_ts
    BY <1>1 DEF Inv, ClawbackWasDue, ClawbackOpen
  <2> QED
    BY <2>1, <2>2, <2>3, <2>4
<1>4. /\ balance[treasury] \in Nat /\ balance[vault] \in Nat /\ max_total_claim \in Nat
      /\ InitialBalance[treasury] \in Nat /\ total \in Nat
      /\ balance \in [TokenAccounts -> U64]
  BY <1>1, <1>2, BuiltTree, DataAssumption, WidthAssumption
  DEF Inv, TypeOK, LaunchInv, MerkleDistributor, U64
<1>5. /\ balance'[treasury] = balance[treasury] - max_total_claim
      /\ balance'[vault] = balance[vault] + max_total_claim
  BY <1>2, <1>4 DEF Fund, Transferred
<1>6. distributor' = distributor /\ verified' = verified
  BY DEF Fund
<1>7. InitialBalance[treasury] <= balance[treasury] + balance[vault] + total
  BY <1>1, <1>3 DEF LaunchInv, TreasuryCounted
<1>8. InitialBalance[treasury] <= balance'[treasury] + balance'[vault] + total
  <2> HIDE DEF v, vault, total
  <2> QED
    BY <1>4, <1>5, <1>7
<1> QED
  BY <1>1, <1>3, <1>6, <1>8 DEF TreasuryCounted

(* What leaves the vault of the version is counted by it, or comes back to  *)
(* the treasury as its clawback; the treasury itself is spared.             *)
LEMMA ChainCounted ==
  ASSUME TypeOK, Next, NEW v \in Distributors, Exists(v), TreasuryGrows, VersionKept(v),
         distributor[v].clawback_receiver = treasury
  PROVE  balance[treasury]
           + (IF distributor[v].clawed_back THEN 0 ELSE balance[VaultOf[v]])
           + distributor[v].total_amount_claimed
         <= balance'[treasury]
              + (IF distributor'[v].clawed_back THEN 0 ELSE balance'[VaultOf[v]])
              + distributor'[v].total_amount_claimed
<1> DEFINE vault == VaultOf[v]
           total == distributor[v].total_amount_claimed
           totall == distributor'[v].total_amount_claimed
           b == balance[vault]
           bb == balance'[vault]
           t == balance[treasury]
           tt == balance'[treasury]
           clawed == distributor[v].clawed_back
           clawedd == distributor'[v].clawed_back
<1>1. /\ vault \in TokenAccounts /\ treasury \in TokenAccounts /\ vault # treasury
      /\ OwnerOf[vault] = v
  BY TreasuryOwner, AddressAssumption
<1>2. /\ Continues(distributor[v], distributor'[v])
      /\ distributor[v] \in MerkleDistributor
      /\ TypeOK'
  BY DistributorContinues, ExistsType, NextType
<1>3. /\ total \in Nat /\ totall \in Nat /\ total <= totall
      /\ b \in Nat /\ bb \in Nat /\ t \in Nat /\ tt \in Nat /\ t <= tt
      /\ clawed \in BOOLEAN /\ clawedd \in BOOLEAN /\ clawed => clawedd
  <2>1. /\ total \in Nat /\ totall \in Nat /\ total <= totall
        /\ clawed \in BOOLEAN /\ clawedd \in BOOLEAN /\ clawed => clawedd
    BY <1>2, WidthAssumption DEF Continues, MerkleDistributor, U64
  <2>2. b \in Nat /\ bb \in Nat /\ t \in Nat /\ tt \in Nat
    BY <1>1, <1>2, WidthAssumption DEF TypeOK, U64
  <2>3. t <= tt
    BY DEF TreasuryGrows
  <2> QED
    BY <2>1, <2>2, <2>3
<1>4. bb < b => /\ ~clawed
                /\ ~clawedd => b - bb = totall - total
  BY <1>1, OutflowStep DEF AccountsOutflow
<1>5. clawedd # clawed => tt = t + b
  <2> SUFFICES ASSUME Clawback(v) PROVE tt = t + b
    BY DEF VersionKept
  <2>1. balance' = Transferred(vault, treasury, b)
    BY DEF Clawback
  <2>2. balance \in [TokenAccounts -> U64]
    BY DEF TypeOK
  <2> QED
    BY <1>1, <2>1, <2>2 DEF Transferred
<1> HIDE DEF vault, total, totall, b, bb, t, tt, clawed, clawedd
<1>6. t + (IF clawed THEN 0 ELSE b) + total <= tt + (IF clawedd THEN 0 ELSE bb) + totall
  <2>1. CASE clawed
    <3>1. t + 0 + total <= tt + 0 + totall
      BY <1>3
    <3> QED
      BY <1>3, <2>1, <3>1
  <2>2. CASE ~clawed /\ clawedd
    <3>1. clawedd # clawed
      BY <2>2
    <3>2. tt = t + b
      BY <1>5, <3>1
    <3>3. t + b + total <= tt + 0 + totall
      BY <1>3, <3>2
    <3> QED
      BY <2>2, <3>3
  <2>3. CASE ~clawed /\ ~clawedd
    <3>1. t + b + total <= tt + bb + totall
      BY <1>3, <1>4, <2>3
    <3> QED
      BY <2>3, <3>1
  <2> QED
    BY <1>3, <2>1, <2>2, <2>3
<1> QED
  BY <1>6 DEF vault, total, totall, b, bb, t, tt, clawed, clawedd

LEMMA CountedFurther ==
  ASSUME TypeOK, Next, NEW v \in Distributors, Exists(v), TreasuryGrows, VersionKept(v),
         distributor[v].clawback_receiver = treasury,
         InitialBalance[treasury]
           <= balance[treasury]
                + (IF distributor[v].clawed_back THEN 0 ELSE balance[VaultOf[v]])
                + distributor[v].total_amount_claimed
  PROVE  InitialBalance[treasury]
           <= balance'[treasury]
                + (IF distributor'[v].clawed_back THEN 0 ELSE balance'[VaultOf[v]])
                + distributor'[v].total_amount_claimed
<1>1. /\ distributor[v] \in MerkleDistributor
      /\ Continues(distributor[v], distributor'[v])
      /\ TypeOK'
  BY DistributorContinues, ExistsType, NextType
<1>2. /\ distributor[v].total_amount_claimed \in Nat
      /\ distributor'[v].total_amount_claimed \in Nat
  BY <1>1, WidthAssumption DEF Continues, MerkleDistributor, U64
<1>3. /\ balance[treasury] \in Nat /\ balance'[treasury] \in Nat
      /\ balance[VaultOf[v]] \in Nat /\ balance'[VaultOf[v]] \in Nat
      /\ InitialBalance[treasury] \in Nat
  BY <1>1, TreasuryOwner, DataAssumption, WidthAssumption DEF TypeOK, U64
<1> DEFINE before == balance[treasury]
                       + (IF distributor[v].clawed_back THEN 0 ELSE balance[VaultOf[v]])
                       + distributor[v].total_amount_claimed
           after == balance'[treasury]
                      + (IF distributor'[v].clawed_back THEN 0 ELSE balance'[VaultOf[v]])
                      + distributor'[v].total_amount_claimed
<1>4. before \in Nat /\ after \in Nat
  BY <1>2, <1>3
<1>5. before <= after
  BY ChainCounted
<1>6. InitialBalance[treasury] <= before
  OBVIOUS
<1> HIDE DEF before, after
<1>7. InitialBalance[treasury] <= after
  BY <1>3, <1>4, <1>5, <1>6
<1> QED
  BY <1>7 DEF after

LEMMA TreasuryCountedStep ==
  ASSUME AnythingGoes, LaunchInv, LaunchNext
  PROVE  TreasuryCounted'
<1>1. /\ TypeOK /\ TypeOK' /\ VerifiedInv /\ TreasuryCounted
      /\ Next \/ UNCHANGED vars
  BY ChainStep, ChainInvStep DEF LaunchInv, ChainInv, Inv
<1>2. CASE Fund
  BY <1>2, FundCounted
<1>3. ASSUME NEW d \in Distributors, ReadBack(d) PROVE TreasuryCounted'
  <2>1. /\ verified = NoVersion /\ verified' = d /\ d # NoVersion
        /\ balance' = balance /\ distributor' = distributor
        /\ Exists(d)
    BY <1>3, LaunchAssumption DEF ReadBack, vars
  <2>2. /\ balance[treasury] \in Nat /\ balance[VaultOf[d]] \in Nat
        /\ distributor[d].total_amount_claimed \in Nat
        /\ InitialBalance[treasury] \in Nat
    BY <1>1, <2>1, ExistsType, TreasuryOwner, DataAssumption, WidthAssumption
    DEF TypeOK, MerkleDistributor, U64
  <2>3. InitialBalance[treasury] <= balance[treasury]
    BY <1>1, <2>1 DEF TreasuryCounted
  <2>4. \A n \in {0, balance[VaultOf[d]]} :
          InitialBalance[treasury]
            <= balance[treasury] + n + distributor[d].total_amount_claimed
    BY <2>2, <2>3
  <2> QED
    BY <2>1, <2>4 DEF TreasuryCounted
<1>4. ASSUME verified' = verified, ~Fund PROVE TreasuryCounted'
  <2>1. Spares(verified)
    BY <1>1, <1>4, LaunchSpares DEF LaunchInv, ChainInv, Inv
  <2>2. CASE verified = NoVersion
    <3>1. balance[treasury] \in Nat /\ balance'[treasury] \in Nat /\ InitialBalance[treasury] \in Nat
      BY <1>1, TreasuryOwner, DataAssumption, WidthAssumption DEF TypeOK, U64
    <3>2. balance[treasury] <= balance'[treasury]
      BY <2>1 DEF Spares, TreasuryGrows
    <3>3. InitialBalance[treasury] <= balance[treasury]
      BY <1>1, <2>2 DEF TreasuryCounted
    <3> QED
      BY <1>4, <2>2, <3>1, <3>2, <3>3 DEF TreasuryCounted
  <2>3. CASE verified # NoVersion
    <3>1. /\ OwnVersion(verified)
          /\ verified \in Distributors
          /\ distributor[verified].clawback_receiver = treasury
      BY <1>1, <2>3 DEF VerifiedInv, OwnVersion
    <3>2. TreasuryGrows /\ VersionKept(verified)
      BY <2>1, <3>1 DEF Spares
    <3>3. CASE Next
      BY <1>1, <1>4, <2>3, <3>1, <3>2, <3>3, CountedFurther DEF TreasuryCounted, OwnVersion
    <3>4. CASE UNCHANGED vars
      BY <1>1, <1>4, <2>3, <3>4 DEF TreasuryCounted, vars
    <3> QED
      BY <1>1, <3>3, <3>4
  <2> QED
    BY <2>2, <2>3
<1> QED
  BY <1>2, <1>3, <1>4
  DEF LaunchNext, Build, LauncherStep, OnChain, Create, launch_vars

LEMMA OutsideBuilder == LaunchNext => Build \/ UNCHANGED builder_vars
BY DEF LaunchNext, LauncherStep, Fund, Create, ReadBack, OnChain

LEMMA LaunchStep ==
  ASSUME AnythingGoes, LaunchInv, [LaunchNext]_all_vars
  PROVE  LaunchInv'
<1>1. CASE LaunchNext
  <2>1. BuilderInv'
    BY <1>1, OutsideBuilder, BuilderStep DEF Build, LaunchInv
  <2> QED
    BY <1>1, <2>1, VerifiedStep, ChainInvStep, TreasuryCountedStep DEF LaunchInv
<1>2. CASE UNCHANGED all_vars
  <2>1. UNCHANGED <<vars, builder_vars, launch_vars>>
    BY <1>2 DEF all_vars
  <2>2. BuilderInv'
    BY <2>1, BuilderStep DEF LaunchInv
  <2>3. VerifiedInv'
    BY <2>1 DEF LaunchInv, VerifiedInv, vars, builder_vars, launch_vars, Exists, TreeRoot
  <2>4. Inv'
    BY <2>1, InvStep DEF LaunchInv, ChainInv
  <2>5. AmountsCounted'
    BY <2>1 DEF LaunchInv, ChainInv, AmountsCounted, PaidTo, Claimed, Exists, vars
  <2>6. TreasuryCounted'
    BY <2>1 DEF LaunchInv, TreasuryCounted, vars, launch_vars
  <2> QED
    BY <2>2, <2>3, <2>4, <2>5, <2>6 DEF LaunchInv, ChainInv
<1> QED
  BY <1>1, <1>2

(* The invariant of the launch: what the builder hands over, what the       *)
(* launcher relies on, the program's own invariant and the tokens.          *)
THEOREM LaunchInvHolds == ASSUME AnythingGoes PROVE LaunchSpec => []LaunchInv
<1>1. LaunchInv /\ [LaunchNext]_all_vars => LaunchInv'
  BY LaunchStep
<1> QED
  BY <1>1, InitLaunch, PTL DEF LaunchSpec

(* Every state of a launch, the builder's output and the launcher's choice  *)
(* of a version included, has its type.                                     *)
THEOREM LaunchTypeCorrect == ASSUME AnythingGoes PROVE LaunchSpec => []LaunchTypeOK
<1> DEFINE Funded == funded \in BOOLEAN
<1>1. LaunchInit => Funded
  BY DEF LaunchInit
<1>2. Funded /\ [LaunchNext]_all_vars => Funded'
  BY DEF LaunchNext, Build, LauncherStep, Fund, Create, ReadBack, OnChain,
         launch_vars, all_vars
<1>3. LaunchInv /\ Funded => LaunchTypeOK
  BY DEF LaunchInv, ChainInv, Inv, VerifiedInv, LaunchTypeOK
<1> HIDE DEF Funded
<1> QED
  BY <1>1, <1>2, <1>3, LaunchInvHolds, PTL DEF LaunchSpec

(* Whatever the files, the launcher and everybody else do, the chain sees a *)
(* behaviour of the on-chain program: the launch adds no step to it, and    *)
(* what is proved of the program holds in every launch.                     *)
THEOREM LaunchIsDistributor == ASSUME AnythingGoes PROVE LaunchSpec => Spec
<1>1. LaunchInit => Init
  BY DEF LaunchInit
<1>2. LaunchInv /\ [LaunchNext]_all_vars => [Next]_vars
  <2> SUFFICES ASSUME LaunchInv, [LaunchNext]_all_vars PROVE [Next]_vars
    OBVIOUS
  <2>1. CASE LaunchNext
    BY <2>1, ChainStep DEF LaunchInv
  <2>2. CASE UNCHANGED all_vars
    BY <2>2 DEF all_vars
  <2> QED
    BY <2>1, <2>2
<1> QED
  BY <1>1, <1>2, LaunchInvHolds, PTL DEF LaunchSpec, Spec

LEMMA AccountedWhenCounted ==
  ASSUME LaunchInv
  PROVE  TreasuryAccounted
<1>1. TypeOK /\ VerifiedInv /\ AmountsCounted /\ TreasuryCounted
  BY DEF LaunchInv, ChainInv, Inv
<1>2. balance[treasury] \in Nat /\ InitialBalance[treasury] \in Nat
  BY <1>1, TreasuryOwner, DataAssumption, WidthAssumption DEF TypeOK, U64
<1>3. CASE verified = NoVersion
  <2>1. InitialBalance[treasury] - balance[treasury] <= 0
    BY <1>1, <1>2, <1>3 DEF TreasuryCounted
  <2> QED
    BY <1>3, <2>1 DEF TreasuryAccounted
<1>4. CASE verified # NoVersion
  <2> DEFINE inVault == IF distributor[verified].clawed_back
                        THEN 0 ELSE balance[VaultOf[verified]]
             paid == distributor[verified].total_amount_claimed
  <2>1. /\ verified \in Distributors /\ Exists(verified)
        /\ distributor[verified] \in MerkleDistributor
    BY <1>1, <1>4, ExistsType DEF VerifiedInv
  <2>2. paid = SumFunctionOnSet(PaidTo(verified), Claimed(verified))
    BY <1>1, <2>1 DEF AmountsCounted
  <2>3. paid \in Nat /\ inVault \in Nat
    <3>1. paid \in Nat
      BY <2>1, WidthAssumption DEF MerkleDistributor, U64
    <3>2. balance[VaultOf[verified]] \in Nat
      BY <1>1, <2>1, TreasuryOwner, WidthAssumption DEF TypeOK, U64
    <3> QED
      BY <3>1, <3>2
  <2>4. InitialBalance[treasury] <= balance[treasury] + inVault + paid
    BY <1>1, <1>4 DEF TreasuryCounted
  <2> HIDE DEF inVault, paid
  <2>5. InitialBalance[treasury] - balance[treasury] <= inVault + paid
    BY <1>2, <2>3, <2>4
  <2> QED
    BY <1>4, <2>2, <2>5 DEF TreasuryAccounted, inVault
<1> QED
  BY <1>3, <1>4

(* Every token the launcher has spent is in the vault of its own version,   *)
(* or was paid to claimants of that version, for any rows, any number of    *)
(* versions, and whatever everybody else does meanwhile.                    *)
THEOREM TreasuryIsAccounted == ASSUME AnythingGoes PROVE LaunchSpec => []TreasuryAccounted
<1>1. LaunchInv => TreasuryAccounted
  BY AccountedWhenCounted
<1> QED
  BY <1>1, LaunchInvHolds, PTL

LEMMA PaidAsCombined ==
  ASSUME LaunchInv
  PROVE  RowsRecorded
<1> SUFFICES ASSUME verified # NoVersion, NEW k \in Claimed(verified)
             PROVE  /\ claim_status[verified][k].at40 = AmountOf(k, Builder!UnlockedOf)
                    /\ claim_status[verified][k].at32 = AmountOf(k, Builder!LockedOf)
  BY DEF RowsRecorded
<1>1. /\ verified \in Distributors /\ Exists(verified) /\ status = "built"
      /\ distributor[verified].root = TreeRoot
      /\ distributor[verified] \in MerkleDistributor
  BY ExistsType DEF LaunchInv, VerifiedInv, ChainInv, Inv
<1>2. PICK leaf \in TreeRoot :
        /\ leaf.claimant = k
        /\ leaf.locked = claim_status[verified][k].at32
        /\ leaf.unlocked = claim_status[verified][k].at40
  <2>1. TreeRoot \in Roots
    BY <1>1 DEF MerkleDistributor
  <2>2. Provable[TreeRoot] = TreeRoot
    BY <2>1, LaunchAssumption
  <2> QED
    BY <1>1, <2>2 DEF LaunchInv, ChainInv, Inv, ClaimBackedByLeaf
<1>3. PICK i \in DOMAIN tree_nodes :
        /\ leaf.claimant = tree_nodes[i].claimant
        /\ leaf.unlocked = Builder!AmountUnlocked(tree_nodes[i])
        /\ leaf.locked = Builder!AmountLocked(tree_nodes[i])
  BY DEF TreeRoot
<1>4. /\ leaf.unlocked = AmountOf(k, Builder!UnlockedOf)
      /\ leaf.locked = AmountOf(k, Builder!LockedOf)
  BY <1>1, <1>2, <1>3, BuiltTree DEF LaunchInv
<1> QED
  BY <1>2, <1>4

(* Every claim status under the launcher's version holds what the rows of   *)
(* its claimant add up to: through the conversion to token units, the       *)
(* combination of rows, the sums of the categories, the tree, the program's *)
(* proof check and its two ways of writing the account.                     *)
THEOREM RowsAreRecorded == ASSUME AnythingGoes PROVE LaunchSpec => []RowsRecorded
<1>1. LaunchInv => RowsRecorded
  BY PaidAsCombined
<1> QED
  BY <1>1, LaunchInvHolds, PTL

-----------------------------------------------------------------------------
(* From the funding to the clawback there is enough for everyone: the caps  *)
(* read back are the builder's, and so cover its tree, and the vault keeps  *)
(* covering the caps.                                                       *)

CapsVerified ==
  verified # NoVersion =>
    /\ distributor[verified].max_num_nodes = max_num_nodes
    /\ distributor[verified].max_total_claim = max_total_claim

Covered ==
  funded =>
    /\ verified # NoVersion
    /\ \/ distributor[verified].clawed_back
       \/ Outstanding(verified) <= balance[VaultOf[verified]]

ServedInv == UnreadableUntouched /\ LedgerInv /\ CapsVerified /\ Covered

LEMMA InitServed == LaunchInit => ServedInv
BY InitUntouched, InitLedger DEF LaunchInit, ServedInv, CapsVerified, Covered

(* A version once read back is the launcher's for good. *)
LEMMA VersionStays ==
  ASSUME AnythingGoes, LaunchInv, LaunchNext, verified # NoVersion
  PROVE  /\ verified' = verified
         /\ UNCHANGED builder_vars
         /\ Continues(distributor[verified], distributor'[verified])
<1>1. /\ verified \in Distributors /\ Exists(verified) /\ status = "built"
      /\ TypeOK /\ VerifiedInv /\ BuilderInv
  BY DEF LaunchInv, VerifiedInv, ChainInv, Inv
<1>2. verified' = verified
  BY DEF LaunchNext, Build, LauncherStep, OnChain, Fund, Create, ReadBack, launch_vars
<1>3. UNCHANGED builder_vars
  BY <1>1, OutsideBuilder
  DEF Build, Builder!Next, Builder!OpenFails, Builder!AddUnreadable,
      Builder!AddEntry, Builder!Finish
<1>4. Continues(distributor[verified], distributor'[verified])
  <2>1. CASE Next
    BY <1>1, <2>1, DistributorContinues
  <2>2. CASE UNCHANGED vars
    <3>1. distributor[verified] \in MerkleDistributor
      BY <1>1, ExistsType
    <3>2. distributor'[verified] = distributor[verified]
      BY <2>2 DEF vars
    <3> QED
      BY <3>1, <3>2, ContinuesSelf
  <2> QED
    BY <1>1, <2>1, <2>2, ChainStep
<1> QED
  BY <1>2, <1>3, <1>4

LEMMA CapsVerifiedStep ==
  ASSUME AnythingGoes, LaunchInv, CapsVerified, LaunchNext
  PROVE  CapsVerified'
<1>1. CASE verified # NoVersion
  BY <1>1, VersionStays DEF CapsVerified, Continues, builder_vars
<1>2. ASSUME NEW d \in Distributors, ReadBack(d) PROVE CapsVerified'
  <2>1. /\ distributor[d].max_num_nodes = max_num_nodes
        /\ distributor[d].max_total_claim = max_total_claim
    BY <1>2 DEF ReadBack, AsExpected, LaunchArgs
  <2> QED
    BY <1>2, <2>1 DEF ReadBack, CapsVerified, vars, builder_vars
<1>3. CASE verified' = NoVersion
  BY <1>3 DEF CapsVerified
<1> QED
  BY <1>1, <1>2, <1>3
  DEF LaunchNext, Build, LauncherStep, OnChain, Fund, Create, launch_vars

(* The vault is seeded with the whole of max_total_claim. *)
LEMMA FundCovers ==
  ASSUME LaunchInv, CapsVerified, Fund
  PROVE  Covered'
<1> DEFINE vault == VaultOf[verified]
           total == distributor[verified].total_amount_claimed
<1>1. /\ verified \in Distributors /\ verified # NoVersion
      /\ distributor[verified] \in MerkleDistributor
      /\ distributor[verified].max_total_claim = max_total_claim
      /\ status = "built" /\ TypeOK
  BY ExistsType DEF Fund, LaunchInv, VerifiedInv, ChainInv, Inv, CapsVerified
<1>2. treasury # vault /\ vault \in TokenAccounts /\ treasury \in TokenAccounts
  BY <1>1, TreasuryOwner
<1>3. /\ total \in Nat /\ balance[vault] \in Nat /\ max_total_claim \in Nat
      /\ balance \in [TokenAccounts -> U64]
  BY <1>1, <1>2, BuiltTree, WidthAssumption DEF LaunchInv, TypeOK, MerkleDistributor, U64
<1>4. balance'[vault] = balance[vault] + max_total_claim
  BY <1>2, <1>3 DEF Fund, Transferred
<1>5. max_total_claim - total <= balance'[vault]
  <2> HIDE DEF vault, total
  <2> QED
    BY <1>3, <1>4
<1>6. distributor' = distributor /\ verified' = verified
  BY DEF Fund
<1> QED
  BY <1>1, <1>5, <1>6 DEF Covered, Outstanding

LEMMA CoveredStep ==
  ASSUME AnythingGoes, LaunchInv, CapsVerified, Covered, LaunchNext
  PROVE  Covered'
<1>1. CASE Fund
  BY <1>1, FundCovers
<1>2. CASE ~Fund
  <2> SUFFICES ASSUME funded'
               PROVE  /\ verified' # NoVersion
                      /\ \/ distributor'[verified'].clawed_back
                         \/ (Outstanding(verified) <= balance[VaultOf[verified]])'
    BY DEF Covered
  <2>1. funded
    BY <1>2 DEF LaunchNext, Build, LauncherStep, OnChain, Create, ReadBack, launch_vars
  <2>2. /\ verified # NoVersion
        /\ \/ distributor[verified].clawed_back
           \/ Outstanding(verified) <= balance[VaultOf[verified]]
    BY <2>1 DEF Covered
  <2>3. /\ verified' = verified
        /\ Continues(distributor[verified], distributor'[verified])
    BY <2>2, VersionStays
  <2>4. verified \in Distributors /\ Exists(verified) /\ TypeOK
    BY <2>2 DEF LaunchInv, VerifiedInv, ChainInv, Inv
  <2>5. CASE distributor[verified].clawed_back
    BY <2>2, <2>3, <2>5 DEF Continues
  <2>6. CASE /\ Outstanding(verified) <= balance[VaultOf[verified]]
             /\ ~distributor'[verified].clawed_back
    <3>1. CASE Next
      BY <2>2, <2>3, <2>4, <2>6, <3>1, SolvencyStep DEF KeepsSolvency, Outstanding
    <3>2. CASE UNCHANGED vars
      BY <2>2, <2>3, <2>6, <3>2 DEF vars, Outstanding
    <3> QED
      BY <3>1, <3>2, ChainStep DEF LaunchInv
  <2> QED
    BY <2>2, <2>3, <2>5, <2>6
<1> QED
  BY <1>1, <1>2

LEMMA ServedStep ==
  ASSUME AnythingGoes, LaunchInv, ServedInv, [LaunchNext]_all_vars
  PROVE  ServedInv'
<1>1. CASE LaunchNext
  <2>1. UnreadableUntouched'
    <3>1. TypeOK /\ ClaimsHaveDistributor /\ UnreadableUntouched
      BY DEF LaunchInv, ChainInv, Inv, ServedInv
    <3>2. CASE UNCHANGED vars
      BY <3>1, <3>2 DEF UnreadableUntouched, Claimed, vars
    <3> QED
      BY <1>1, <3>1, <3>2, UntouchedStep, ChainStep DEF LaunchInv
  <2>2. LedgerInv'
    <3>1. TypeOK /\ LedgerInv
      BY DEF LaunchInv, ChainInv, Inv, ServedInv
    <3> QED
      BY <1>1, <3>1, LedgerStep, ChainStep DEF LaunchInv
  <2> QED
    BY <1>1, <2>1, <2>2, CapsVerifiedStep, CoveredStep DEF ServedInv
<1>2. CASE UNCHANGED all_vars
  <2>1. UnreadableUntouched'
    BY <1>2 DEF ServedInv, UnreadableUntouched, Claimed, vars, all_vars
  <2>2. LedgerInv'
    BY <1>2, LedgerStep DEF LaunchInv, ChainInv, Inv, ServedInv, all_vars
  <2>3. CapsVerified' /\ Covered'
    BY <1>2 DEF ServedInv, CapsVerified, Covered, Outstanding,
                vars, builder_vars, launch_vars, all_vars
  <2> QED
    BY <2>1, <2>2, <2>3 DEF ServedInv
<1> QED
  BY <1>1, <1>2

(* The caps the builder computes cover the leaves it computes. *)
LEMMA TreeCovered ==
  ASSUME LaunchInv, CapsVerified, verified # NoVersion
  PROVE  CapsCoverTree(verified) /\ Provable[distributor[verified].root] = TreeRoot
<1> DEFINE S == DOMAIN tree_nodes
           P == TreeRoot
           totals == LeafTotals(TreeRoot)
<1>1. /\ verified \in Distributors /\ status = "built" /\ BuilderInv
      /\ distributor[verified].root = TreeRoot
      /\ distributor[verified] \in MerkleDistributor
      /\ distributor[verified].max_num_nodes = max_num_nodes
      /\ distributor[verified].max_total_claim = max_total_claim
  BY ExistsType DEF LaunchInv, VerifiedInv, ChainInv, Inv, CapsVerified
<1>2. Provable[TreeRoot] = TreeRoot
  <2>1. TreeRoot \in Roots
    BY <1>1 DEF MerkleDistributor
  <2> QED
    BY <2>1, LaunchAssumption
<1>3. /\ IsFiniteSet(S)
      /\ max_num_nodes = Cardinality(S)
      /\ max_total_claim = Total(NodeAmounts, S)
      /\ \A i, j \in S : tree_nodes[i].claimant = tree_nodes[j].claimant => i = j
  BY <1>1, BuiltCaps
<1>4. \A l \in P : \E i \in S :
        /\ l.claimant = tree_nodes[i].claimant
        /\ l.unlocked = Builder!AmountUnlocked(tree_nodes[i])
        /\ l.locked = Builder!AmountLocked(tree_nodes[i])
        /\ l = [claimant |-> l.claimant, unlocked |-> l.unlocked, locked |-> l.locked]
  BY DEF TreeRoot
<1>5. \A l, m \in P : l.claimant = m.claimant => l = m
  BY <1>3, <1>4
<1> DEFINE f == [l \in P |-> CHOOSE i \in S : l.claimant = tree_nodes[i].claimant]
<1>6. /\ f \in [P -> S]
      /\ \A l \in P :
           /\ l.claimant = tree_nodes[f[l]].claimant
           /\ l.unlocked = Builder!AmountUnlocked(tree_nodes[f[l]])
           /\ l.locked = Builder!AmountLocked(tree_nodes[f[l]])
  <2>1. \A l \in P : f[l] \in S /\ l.claimant = tree_nodes[f[l]].claimant
    BY <1>4
  <2> HIDE DEF f
  <2>2. f \in [P -> S]
    BY <2>1 DEF f
  <2> QED
    BY <1>3, <1>4, <2>1, <2>2
<1> HIDE DEF f
<1>7. \A l, m \in P : f[l] = f[m] => l = m
  BY <1>5, <1>6
<1>8. /\ IsFiniteSet(P)
      /\ Cardinality(P) <= Cardinality(S)
  <2>1. f \in Injection(P, S)
    BY <1>6, <1>7 DEF Injection, IsInjective
  <2> HIDE DEF P, S
  <2> QED
    BY <1>3, <2>1, FS_Injection
<1>9. /\ \A i \in S : NodeAmounts[i] \in Nat
      /\ \A l \in P : totals[l] \in Nat /\ totals[l] <= NodeAmounts[f[l]]
  <2>1. \A i \in S :
          /\ Builder!AmountUnlocked(tree_nodes[i]) \in Nat
          /\ Builder!AmountLocked(tree_nodes[i]) \in Nat
          /\ NodeAmounts[i] = Builder!AmountUnlocked(tree_nodes[i])
                                + Builder!AmountLocked(tree_nodes[i])
    BY <1>1, BuiltTree, WidthAssumption DEF NodeAmounts, U64
  <2>2. \A l \in P : totals[l] = l.unlocked + l.locked
    BY <1>2 DEF LeafTotals
  <2> HIDE DEF P, S, totals
  <2> QED
    BY <1>6, <2>1, <2>2
<1>10. Total(totals, P) <= Total(NodeAmounts, S)
  <2> HIDE DEF P, S, totals
  <2> QED
    BY <1>3, <1>6, <1>7, <1>8, <1>9, SumInto
<1> QED
  BY <1>1, <1>2, <1>3, <1>5, <1>8, <1>10 DEF CapsCoverTree, Total

LEMMA AffordableRows ==
  ASSUME LaunchInv, ServedInv
  PROVE  RowsAffordable
<1> SUFFICES ASSUME funded, ~distributor[verified].clawed_back,
                    Claimed(verified) \cap ReadableWallets = {},
                    NEW k \in InFile \ Claimed(verified)
             PROVE  \E leaf \in Provable[distributor[verified].root] :
                      /\ leaf.claimant = k
                      /\ leaf.unlocked = AmountOf(k, Builder!UnlockedOf)
                      /\ leaf.locked = AmountOf(k, Builder!LockedOf)
                      /\ NodeSlotFree(verified)
                      /\ UnderMaxTotal(verified, leaf.unlocked)
                      /\ \A to \in open :
                           TransferAllowed(verified, VaultOf[verified], to, leaf.unlocked)
  BY DEF RowsAffordable
<1>1. /\ verified # NoVersion
      /\ Outstanding(verified) <= balance[VaultOf[verified]]
      /\ CapsVerified
  BY DEF ServedInv, Covered
<1>2. /\ verified \in Distributors /\ Exists(verified)
      /\ status = "built" /\ BuilderInv
  BY <1>1 DEF LaunchInv, VerifiedInv
<1>3. CapsCoverTree(verified) /\ Provable[distributor[verified].root] = TreeRoot
  BY <1>1, TreeCovered
<1>4. ClaimsAffordable
  BY AffordableWhenCounted DEF LaunchInv, ChainInv, ServedInv
<1>5. PICK i \in DOMAIN tree_nodes : tree_nodes[i].claimant = k
  BY <1>2, BuiltCaps
<1> DEFINE leaf == [claimant |-> tree_nodes[i].claimant,
                    unlocked |-> Builder!AmountUnlocked(tree_nodes[i]),
                    locked   |-> Builder!AmountLocked(tree_nodes[i])]
<1>6. leaf \in TreeRoot
  BY DEF TreeRoot
<1>7. /\ leaf.claimant = k
      /\ leaf.unlocked = AmountOf(k, Builder!UnlockedOf)
      /\ leaf.locked = AmountOf(k, Builder!LockedOf)
  BY <1>2, <1>5, BuiltTree
<1> HIDE DEF leaf
<1>8. /\ NodeSlotFree(verified)
      /\ UnderMaxTotal(verified, leaf.unlocked)
      /\ \A to \in open \cap SameMint(VaultOf[verified]) :
           TransferAllowed(verified, VaultOf[verified], to, leaf.unlocked)
  BY <1>1, <1>2, <1>3, <1>4, <1>6, <1>7 DEF ClaimsAffordable
<1>9. open \subseteq SameMint(VaultOf[verified])
  <2>1. open \subseteq TokenAccounts /\ VaultOf[verified] \in TokenAccounts
    BY <1>2, AddressAssumption DEF LaunchInv, ChainInv, Inv, TypeOK
  <2>2. \A a \in TokenAccounts : MintOf[a] = MintOf[treasury]
    BY LaunchAssumption
  <2> QED
    BY <2>1, <2>2 DEF SameMint
<1> QED
  BY <1>3, <1>6, <1>7, <1>8, <1>9

(* Everyone with a row who has not claimed finds, from the funding to the   *)
(* clawback, a leaf of what the rows add up to, a slot, room under the cap  *)
(* and the tokens: what RowsServed needs at every moment, for any file, any *)
(* number of versions, and whatever everybody else does.                    *)
THEOREM RowsAreAffordable == ASSUME AnythingGoes PROVE LaunchSpec => []RowsAffordable
<1>1. LaunchInv /\ ServedInv /\ [LaunchNext]_all_vars => ServedInv'
  BY ServedStep
<1>2. LaunchInv /\ ServedInv => RowsAffordable
  BY AffordableRows
<1> QED
  BY <1>1, <1>2, InitServed, LaunchInvHolds, PTL DEF LaunchSpec
=============================================================================
