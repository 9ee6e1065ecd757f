----------------------------- MODULE Distributor -----------------------------
(***************************************************************************)
(* The on-chain program (programs/merkle-distributor): every distributor,  *)
(* the claim statuses under it, and the token accounts they pay from and   *)
(* to.  One action is one instruction.  An instruction runs alone and      *)
(* either commits every effect or none, so its account constraints, its    *)
(* require!s and the checks of the programs it calls are all guards, and   *)
(* an instruction that would fail is a disabled action.                    *)
(*                                                                         *)
(* Token accounts, mints and wallets are opaque.  The set of leaves that   *)
(* some proof connects to a root is the constant Provable; a claim status  *)
(* is kept as the words stored at its byte offsets, because the            *)
(* instruction that writes it and the one that reads it disagree on them.  *)
(***************************************************************************)
EXTENDS ClaimStatus, FiniteSets, FiniteSetsExt, Functions

CONSTANTS
  Wallets,            \* keys that can sign
  IdleKeys,           \* keys an admin may hand over to and that never sign
  Distributors,       \* addresses of distributors, one per mint and version
  TokenAccounts,      \* SPL token accounts
  VaultOf,            \* a distributor's associated token account
  OwnerOf,            \* the authority over a token account
  MintOf,             \* the mint of a token account
  InitialBalance,     \* what the token accounts hold at the start
  Roots,              \* merkle roots
  Provable,           \* the leaves that have a valid proof under a root
  ReadableWallets,    \* wallets whose key starts with ClaimStatus' discriminator
  NewDistributorArgs, \* the argument tuples new_distributor is called with
  TransferAmounts,    \* amounts wallets send to each other and to the vaults
  ClosableAccounts,   \* token accounts their wallets may close
  SecondsPerDay,
  NoAccount,          \* nothing is stored at the address
  LamportsOnly        \* the address holds lamports but no data

Leaf == [claimant : Wallets, unlocked : U64, locked : U64]

Arguments ==
  [root : Roots, max_total_claim : U64, max_num_nodes : U64,
   start_ts : I64, end_ts : I64, clawback_start_ts : I64]

(* The ledger does not let a program own two accounts at one address, and   *)
(* an associated token account belongs to the PDA it is derived from.       *)
ASSUME AddressAssumption ==
  /\ IsFiniteSet(Wallets)
  /\ Wallets \cap Distributors = {}
  /\ VaultOf \in [Distributors -> TokenAccounts]
  /\ OwnerOf \in [TokenAccounts -> Wallets \cup Distributors]
  /\ \A d \in Distributors : OwnerOf[VaultOf[d]] = d
  /\ DOMAIN MintOf = TokenAccounts
  /\ ClosableAccounts \subseteq {a \in TokenAccounts : OwnerOf[a] \in Wallets}

ASSUME DataAssumption ==
  /\ SecondsPerDay \in Nat \ {0}
  /\ InitialBalance \in [TokenAccounts -> U64]
  /\ \A d \in Distributors : InitialBalance[VaultOf[d]] = 0
  /\ Provable \in [Roots -> SUBSET Leaf]
  /\ ReadableWallets \subseteq Wallets
  /\ NewDistributorArgs \subseteq Arguments
  /\ TransferAmounts \subseteq U64

SameMint(a) == {b \in TokenAccounts : MintOf[b] = MintOf[a]}

(* The token program keeps the supply of a mint in a u64. *)
ASSUME SupplyAssumption ==
  /\ IsFiniteSet(TokenAccounts)
  /\ \A a \in TokenAccounts : SumFunctionOnSet(InitialBalance, SameMint(a)) <= U64Max

VARIABLES
  now,           \* the cluster's clock
  distributor,   \* the MerkleDistributor account at each address
  claim_status,  \* the ClaimStatus account of each distributor and wallet
  open,          \* the token accounts that exist
  balance        \* the tokens each of them holds

vars == <<now, distributor, claim_status, open, balance>>

Keys == Wallets \cup IdleKeys

MerkleDistributor ==
  [root : Roots, max_total_claim : U64, max_num_nodes : U64,
   total_amount_claimed : U64, num_nodes_claimed : U64,
   start_ts : I64, end_ts : I64, clawback_start_ts : I64,
   clawback_receiver : TokenAccounts, admin : Keys, clawed_back : BOOLEAN]

(* The u64 words of a claim status from byte 32 on.  new_claim writes the   *)
(* locked amount at 32, the unlocked one at 40 and a zero at 48; read as a  *)
(* ClaimStatus, with its 8-byte discriminator first, locked_amount is at 40 *)
(* and locked_amount_withdrawn at 48.                                       *)
ClaimWords == [at32 : U64, at40 : U64, at48 : U64]

ASSUME AccountAssumption ==
  /\ NoAccount # LamportsOnly
  /\ NoAccount \notin MerkleDistributor
  /\ {NoAccount, LamportsOnly} \cap ClaimWords = {}

UnixTime == 0 .. I64Max

TypeOK ==
  /\ now \in UnixTime
  /\ distributor \in [Distributors -> MerkleDistributor \cup {NoAccount}]
  /\ claim_status \in
       [Distributors -> [Wallets -> ClaimWords \cup {NoAccount, LamportsOnly}]]
  /\ open \subseteq TokenAccounts
  /\ balance \in [TokenAccounts -> U64]

Vaults == {VaultOf[d] : d \in Distributors}

Init ==
  /\ now \in UnixTime
  /\ distributor = [d \in Distributors |-> NoAccount]
  /\ claim_status = [d \in Distributors |-> [k \in Wallets |-> NoAccount]]
  /\ open = TokenAccounts \ Vaults
  /\ balance = InitialBalance

Exists(d) == distributor[d] # NoAccount
Claimed(d) == {k \in Wallets : claim_status[d][k] \notin {NoAccount, LamportsOnly}}

-----------------------------------------------------------------------------
(***************************************************************************)
(* The token program, as the instructions call it.  A transfer to the same *)
(* account passes the same checks and moves nothing.                       *)
(***************************************************************************)
\* Mutant: any program signer may draw on any account.
TransferAllowedUnsigned(authority, from, to, amount) ==
  /\ {from, to} \subseteq open
  /\ MintOf[from] = MintOf[to]
  /\ amount <= balance[from]
  /\ from # to => balance[to] + amount <= U64Max

\* Mutant: the balance of the source is not checked.
TransferAllowedOverdrawn(authority, from, to, amount) ==
  /\ {from, to} \subseteq open
  /\ OwnerOf[from] = authority
  /\ MintOf[from] = MintOf[to]
  /\ from # to => balance[to] + amount <= U64Max

TransferAllowed(authority, from, to, amount) ==
  /\ {from, to} \subseteq open
  /\ OwnerOf[from] = authority
  /\ MintOf[from] = MintOf[to]
  /\ amount <= balance[from]
  /\ from # to => balance[to] + amount <= U64Max

Transferred(from, to, amount) ==
  IF from = to THEN balance
  ELSE [balance EXCEPT ![from] = @ - amount, ![to] = @ + amount]

-----------------------------------------------------------------------------
(* new_distributor *)

\* Mutant: the day between the end of vesting and the clawback is not asked for.
TimestampsAcceptedWithoutDelay(args) ==
  /\ args.start_ts < args.end_ts
  /\ now < args.start_ts /\ now < args.end_ts /\ now < args.clawback_start_ts
  /\ args.end_ts < args.clawback_start_ts

\* Mutant: a delay of exactly a day is refused.
TimestampsAcceptedLater(args) ==
  /\ args.start_ts < args.end_ts
  /\ now < args.start_ts /\ now < args.end_ts /\ now < args.clawback_start_ts
  /\ args.end_ts + SecondsPerDay <= I64Max
  /\ args.end_ts + SecondsPerDay < args.clawback_start_ts

TimestampsAccepted(args) ==
  /\ args.start_ts < args.end_ts
  /\ now < args.start_ts /\ now < args.end_ts /\ now < args.clawback_start_ts
  /\ args.end_ts < args.clawback_start_ts
  /\ args.end_ts + SecondsPerDay <= I64Max
  /\ args.end_ts + SecondsPerDay <= args.clawback_start_ts

NewDistributor(d, admin, clawback_receiver, args) ==
  /\ ~Exists(d)
  /\ VaultOf[d] \notin open
  /\ clawback_receiver \in open
  /\ TimestampsAccepted(args)
  /\ distributor' = [distributor EXCEPT ![d] =
       [root |-> args.root,
        max_total_claim |-> args.max_total_claim,
        max_num_nodes |-> args.max_num_nodes,
        total_amount_claimed |-> 0,
        num_nodes_claimed |-> 0,
        start_ts |-> args.start_ts,
        end_ts |-> args.end_ts,
        clawback_start_ts |-> args.clawback_start_ts,
        clawback_receiver |-> clawback_receiver,
        admin |-> admin,
        clawed_back |-> FALSE]]
  /\ open' = open \cup {VaultOf[d]}
  /\ UNCHANGED <<now, claim_status, balance>>

-----------------------------------------------------------------------------
(* new_claim *)

\* Mutant: a proof for any known root will do.
ProofVerifiesUnderAnyRoot(leaf, root) == \E r \in Roots : leaf \in Provable[r]

ProofVerifies(leaf, root) == leaf \in Provable[root]

\* Mutant: off by one.
NodeSlotFreeStrict(d) ==
  distributor[d].num_nodes_claimed + 1 < distributor[d].max_num_nodes

NodeSlotFree(d) ==
  distributor[d].num_nodes_claimed + 1 <= distributor[d].max_num_nodes

\* Mutant: the payment is not added to the total.
NewTotalUncounted(d, amount) == distributor[d].total_amount_claimed

NewTotal(d, amount) == distributor[d].total_amount_claimed + amount

\* Mutant: the cap is tested before the payment is added.
UnderMaxTotalBefore(d, amount) ==
  distributor[d].total_amount_claimed <= distributor[d].max_total_claim

UnderMaxTotal(d, amount) == NewTotal(d, amount) <= distributor[d].max_total_claim

\* Mutant: a status account that exists is written again.
StatusAddressReusable(d, k) == claim_status[d][k] # LamportsOnly

(* create_account refuses an address that already holds lamports. *)
StatusAddressFree(d, k) == claim_status[d][k] = NoAccount

\* Mutant: the two amounts change places.
WrittenStatusSwapped(leaf) ==
  [at32 |-> leaf.unlocked, at40 |-> leaf.locked, at48 |-> 0]

WrittenStatus(leaf) == [at32 |-> leaf.locked, at40 |-> leaf.unlocked, at48 |-> 0]

NewClaim(d, leaf, from, to) ==
  /\ Exists(d)
  /\ ~distributor[d].clawed_back
  /\ NodeSlotFree(d)
  /\ ProofVerifies(leaf, distributor[d].root)
  /\ StatusAddressFree(d, leaf.claimant)
  /\ TransferAllowed(d, from, to, leaf.unlocked)
  /\ UnderMaxTotal(d, leaf.unlocked)
  /\ claim_status' = [claim_status EXCEPT ![d][leaf.claimant] = WrittenStatus(leaf)]
  /\ balance' = Transferred(from, to, leaf.unlocked)
  /\ distributor' = [distributor EXCEPT
       ![d].num_nodes_claimed = @ + 1,
       ![d].total_amount_claimed = NewTotal(d, leaf.unlocked)]
  /\ UNCHANGED <<now, open>>

-----------------------------------------------------------------------------
(* claim_locked *)

(* Deserialising a ClaimStatus compares its first eight bytes with the      *)
(* discriminator; in an account new_claim wrote they are the claimant's key.*)
StatusReadable(d, k) == k \in Claimed(d) /\ k \in ReadableWallets

LockedAmount(d, k) == claim_status[d][k].at40
LockedAmountWithdrawn(d, k) == claim_status[d][k].at48

\* Mutant: what was withdrawn before is not subtracted.
WithdrawableAgain(d, k) ==
  UnlockedAmount(LockedAmount(d, k), now, distributor[d].start_ts, distributor[d].end_ts)

Withdrawable(d, k) ==
  AmountWithdrawable(LockedAmount(d, k), LockedAmountWithdrawn(d, k),
                     now, distributor[d].start_ts, distributor[d].end_ts)

ClaimLocked(d, k, to) ==
  LET amount == Withdrawable(d, k)
  IN  /\ Exists(d)
      /\ StatusReadable(d, k)
      /\ OwnerOf[to] = k
      /\ ~distributor[d].clawed_back
      /\ amount # ArithmeticError
      /\ amount > 0
      /\ TransferAllowed(d, VaultOf[d], to, amount)
      /\ LockedAmountWithdrawn(d, k) + amount <= LockedAmount(d, k)
      /\ UnderMaxTotal(d, amount)
      /\ claim_status' = [claim_status EXCEPT ![d][k].at48 = @ + amount]
      /\ balance' = Transferred(VaultOf[d], to, amount)
      /\ distributor' = [distributor EXCEPT ![d].total_amount_claimed = NewTotal(d, amount)]
      /\ UNCHANGED <<now, open>>

-----------------------------------------------------------------------------
(* clawback: anyone may call it. *)

ClawbackOpen(d) == now >= distributor[d].clawback_start_ts

\* Mutant: the distributor is not marked as clawed back.
ClawbackUnmarked(d) ==
  /\ Exists(d)
  /\ ~distributor[d].clawed_back
  /\ ClawbackOpen(d)
  /\ TransferAllowed(d, VaultOf[d], distributor[d].clawback_receiver, balance[VaultOf[d]])
  /\ balance' = Transferred(VaultOf[d], distributor[d].clawback_receiver, balance[VaultOf[d]])
  /\ UNCHANGED <<now, distributor, claim_status, open>>

Clawback(d) ==
  /\ Exists(d)
  /\ ~distributor[d].clawed_back
  /\ ClawbackOpen(d)
  /\ TransferAllowed(d, VaultOf[d], distributor[d].clawback_receiver, balance[VaultOf[d]])
  /\ balance' = Transferred(VaultOf[d], distributor[d].clawback_receiver, balance[VaultOf[d]])
  /\ distributor' = [distributor EXCEPT ![d].clawed_back = TRUE]
  /\ UNCHANGED <<now, claim_status, open>>

-----------------------------------------------------------------------------
(* set_clawback_receiver and set_admin *)

\* Mutant: an account of any mint is accepted.
ReceiverAcceptedOfAnyMint(d, a) == a \in open /\ a # distributor[d].clawback_receiver

ReceiverAccepted(d, a) ==
  /\ a \in open
  /\ MintOf[a] = MintOf[VaultOf[d]]
  /\ a # distributor[d].clawback_receiver

\* Mutant: the signer is not compared with the admin.
SetClawbackReceiverByAnyone(d, signer, new_clawback_account) ==
  /\ Exists(d)
  /\ ReceiverAccepted(d, new_clawback_account)
  /\ distributor' = [distributor EXCEPT ![d].clawback_receiver = new_clawback_account]
  /\ UNCHANGED <<now, claim_status, open, balance>>

SetClawbackReceiver(d, signer, new_clawback_account) ==
  /\ Exists(d)
  /\ signer = distributor[d].admin
  /\ ReceiverAccepted(d, new_clawback_account)
  /\ distributor' = [distributor EXCEPT ![d].clawback_receiver = new_clawback_account]
  /\ UNCHANGED <<now, claim_status, open, balance>>

SetAdmin(d, signer, new_admin) ==
  /\ Exists(d)
  /\ signer = distributor[d].admin
  /\ new_admin # signer
  /\ distributor' = [distributor EXCEPT ![d].admin = new_admin]
  /\ UNCHANGED <<now, claim_status, open, balance>>

-----------------------------------------------------------------------------
(* What the ledger and its users do besides: time passes, owners move their *)
(* tokens and close accounts they have emptied, anyone may create an        *)
(* associated account, a vault's before its distributor included, or send   *)
(* lamports to a claim status address.                                      *)

Tick ==
  /\ now < I64Max
  /\ now' \in now + 1 .. I64Max
  /\ UNCHANGED <<distributor, claim_status, open, balance>>

WalletTransfer(from, to, amount) ==
  /\ OwnerOf[from] \in Wallets
  /\ from # to
  /\ TransferAllowed(OwnerOf[from], from, to, amount)
  /\ balance' = Transferred(from, to, amount)
  /\ UNCHANGED <<now, distributor, claim_status, open>>

CreateAccount(a) ==
  /\ a \notin open
  /\ open' = open \cup {a}
  /\ UNCHANGED <<now, distributor, claim_status, balance>>

CloseAccount(a) ==
  /\ a \in open
  /\ balance[a] = 0
  /\ open' = open \ {a}
  /\ UNCHANGED <<now, distributor, claim_status, balance>>

Prefund(d, k) ==
  /\ claim_status[d][k] = NoAccount
  /\ claim_status' = [claim_status EXCEPT ![d][k] = LamportsOnly]
  /\ UNCHANGED <<now, distributor, open, balance>>

-----------------------------------------------------------------------------
AllLeaves == UNION {Provable[r] : r \in Roots}

Instruction ==
  \E d \in Distributors :
    \/ \E admin \in Wallets, receiver \in TokenAccounts, args \in NewDistributorArgs :
         NewDistributor(d, admin, receiver, args)
    \/ \E leaf \in AllLeaves, from \in TokenAccounts, to \in TokenAccounts :
         NewClaim(d, leaf, from, to)
    \/ \E k \in Wallets, to \in TokenAccounts : ClaimLocked(d, k, to)
    \/ Clawback(d)
    \/ \E signer \in Wallets, a \in TokenAccounts : SetClawbackReceiver(d, signer, a)
    \/ \E signer \in Wallets, new_admin \in Keys : SetAdmin(d, signer, new_admin)

Environment ==
  \/ Tick
  \/ \E from \in TokenAccounts, to \in TokenAccounts, amount \in TransferAmounts :
       WalletTransfer(from, to, amount)
  \/ \E a \in TokenAccounts : CreateAccount(a)
  \/ \E a \in ClosableAccounts : CloseAccount(a)
  \/ \E d \in Distributors, k \in Wallets : Prefund(d, k)

Next == Instruction \/ Environment

Spec == Init /\ [][Next]_vars

-----------------------------------------------------------------------------
(* Safety *)

(* Every distributor counts exactly the claim statuses created under it,    *)
(* and never more than max_num_nodes: no wallet is counted twice however    *)
(* often it tries (new_claim's counter against the account it creates).     *)
NodesCounted ==
  \A d \in Distributors :
    IF Exists(d)
    THEN /\ distributor[d].num_nodes_claimed = Cardinality(Claimed(d))
         /\ distributor[d].num_nodes_claimed <= distributor[d].max_num_nodes
    ELSE Claimed(d) = {}

(* What the claim statuses of a distributor say was paid: the amount        *)
(* new_claim paid and the withdrawals of claim_locked.                      *)
PaidTo(d) == [k \in Claimed(d) |-> claim_status[d][k].at40 + claim_status[d][k].at48]

(* total_amount_claimed is what all claim statuses together say was paid,   *)
(* and stays within max_total_claim.                                        *)
AmountsCounted ==
  \A d \in Distributors : Exists(d) =>
    /\ distributor[d].total_amount_claimed = SumFunctionOnSet(PaidTo(d), Claimed(d))
    /\ distributor[d].total_amount_claimed <= distributor[d].max_total_claim

(* A claim status holds the two amounts of a leaf of its own claimant under *)
(* its own distributor's root, whatever instructions came since.            *)
ClaimBackedByLeaf ==
  \A d \in Distributors : \A k \in Claimed(d) :
    \E leaf \in Provable[distributor[d].root] :
      /\ leaf.claimant = k
      /\ leaf.locked = claim_status[d][k].at32
      /\ leaf.unlocked = claim_status[d][k].at40

(* No sequence of claim_locked calls has withdrawn more than the schedule   *)
(* has released so far of the amount claim_locked reads as locked; so the   *)
(* checked subtraction of amount_withdrawable never fails.                  *)
VestingRespected ==
  \A d \in Distributors : \A k \in Claimed(d) :
    LockedAmountWithdrawn(d, k) <=
      UnlockedAmount(LockedAmount(d, k), now,
                     distributor[d].start_ts, distributor[d].end_ts)

(* When a distributor has been clawed back, its vesting has been over for a *)
(* day: no claimant loses an amount that was still being released.          *)
ClawbackWaited ==
  \A d \in Distributors :
    Exists(d) /\ distributor[d].clawed_back
      => distributor[d].end_ts + SecondsPerDay <= now

(* An existing distributor is never created again, keeps its root, caps and *)
(* schedule; what it counts only grows and a clawback is never undone; a    *)
(* claim status is never written a second time, and its withdrawals only    *)
(* grow.                                                                    *)
KeepsGrants ==
  \A d \in Distributors : Exists(d) =>
    LET old == distributor[d]
        new == distributor'[d]
    IN  /\ new.root = old.root
        /\ new.max_total_claim = old.max_total_claim
        /\ new.max_num_nodes = old.max_num_nodes
        /\ new.start_ts = old.start_ts
        /\ new.end_ts = old.end_ts
        /\ new.clawback_start_ts = old.clawback_start_ts
        /\ old.total_amount_claimed <= new.total_amount_claimed
        /\ old.num_nodes_claimed <= new.num_nodes_claimed
        /\ old.clawed_back => new.clawed_back
        /\ \A k \in Claimed(d) :
             /\ claim_status'[d][k].at32 = claim_status[d][k].at32
             /\ claim_status'[d][k].at40 = claim_status[d][k].at40
             /\ claim_status[d][k].at48 <= claim_status'[d][k].at48

GrantsKept == [][KeepsGrants]_vars

(* The paths by which tokens leave an account of a distributor: a payment   *)
(* counted in that distributor's total_amount_claimed, or, once, the        *)
(* clawback of the whole vault after which nothing is ever paid again.      *)
AccountsOutflow ==
  \A d \in Distributors, a \in TokenAccounts :
    OwnerOf[a] = d /\ balance'[a] < balance[a] =>
      /\ Exists(d)
      /\ ~distributor[d].clawed_back
      /\ IF distributor'[d].clawed_back
         THEN a = VaultOf[d] /\ balance'[a] = 0
         ELSE balance[a] - balance'[a] =
                distributor'[d].total_amount_claimed
                  - distributor[d].total_amount_claimed

OutflowAccounted == [][AccountsOutflow]_vars

(* What may still be claimed. *)
Outstanding(d) == distributor[d].max_total_claim - distributor[d].total_amount_claimed

(* A vault that covers every claim still to be made covers them until the   *)
(* clawback: neither claims nor withdrawals, of this or another distributor *)
(* of the mint, make it insolvent.                                          *)
KeepsSolvency ==
  \A d \in Distributors :
    /\ Exists(d)
    /\ Outstanding(d) <= balance[VaultOf[d]]
    /\ ~distributor'[d].clawed_back
    => (Outstanding(d) <= balance[VaultOf[d]])'

SolvencyKept == [][KeepsSolvency]_vars

(* The caps leave room for the whole tree: one leaf per claimant, as many   *)
(* nodes as leaves, and max_total_claim no less than all the amounts.       *)
LeafTotals(root) == [leaf \in Provable[root] |-> leaf.unlocked + leaf.locked]

CapsCoverTree(d) ==
  LET root == distributor[d].root
  IN  /\ \A l, m \in Provable[root] : l.claimant = m.claimant => l = m
      /\ Cardinality(Provable[root]) <= distributor[d].max_num_nodes
      /\ SumFunctionOnSet(LeafTotals(root), Provable[root])
           <= distributor[d].max_total_claim

(* Caps that cover the tree and a vault that covers the caps are enough for *)
(* everyone: whoever has claimed, and whatever else was done to the vault,  *)
(* each leaf not claimed yet finds a slot, room under max_total_claim and   *)
(* its amount in the vault, and it fits any account it may be paid to.  A   *)
(* key that claim_locked can read has to be left out: it is paid its        *)
(* unlocked amount twice.                                                   *)
ClaimsAffordable ==
  \A d \in Distributors :
    /\ Exists(d)
    /\ CapsCoverTree(d)
    /\ Outstanding(d) <= balance[VaultOf[d]]
    /\ Claimed(d) \cap ReadableWallets = {}
    => \A leaf \in Provable[distributor[d].root] :
         leaf.claimant \notin Claimed(d) =>
           /\ NodeSlotFree(d)
           /\ UnderMaxTotal(d, leaf.unlocked)
           /\ \A to \in open \cap SameMint(VaultOf[d]) :
                TransferAllowed(d, VaultOf[d], to, leaf.unlocked)

(* The transfer of a clawback never fails for the vault, which nobody can   *)
(* close, nor for a receiver filled until the tokens no longer fit, whatever*)
(* was paid to whom: only a receiver that is closed or of another mint      *)
(* stops it.                                                                *)
ClawbackPayable ==
  \A d \in Distributors :
    /\ Exists(d)
    /\ distributor[d].clawback_receiver \in open \cap SameMint(VaultOf[d])
    => TransferAllowed(d, VaultOf[d], distributor[d].clawback_receiver, balance[VaultOf[d]])

-----------------------------------------------------------------------------
(* Liveness.  Anyone may send clawback, so it is assumed to be sent once it *)
(* succeeds; a claimant is assumed to keep trying to claim and to withdraw. *)
(* Time may stand still: nothing is granted for the wait alone.             *)

LiveSpec ==
  /\ Spec
  /\ \A d \in Distributors : WF_vars(Clawback(d))
  /\ \A d \in Distributors, k \in Wallets :
       /\ WF_vars(\E leaf \in AllLeaves, to \in TokenAccounts :
                    leaf.claimant = k /\ NewClaim(d, leaf, VaultOf[d], to))
       /\ WF_vars(\E to \in TokenAccounts : ClaimLocked(d, k, to))

(* A distributor whose clawback is due, to a receiver of its mint, is       *)
(* clawed back in the end, whatever its admin does with the receiver and    *)
(* the claimants with the vault.  Nothing looks at the receiver again once  *)
(* it is set, so its owner may close it: that delays the clawback until it  *)
(* is open again or the admin has named another, and does no more.          *)
ReclaimedInTheEnd ==
  \A d \in Distributors :
    <>[](Exists(d) => distributor[d].clawback_receiver \in open)
      => ((/\ Exists(d)
           /\ now >= distributor[d].clawback_start_ts
           /\ MintOf[distributor[d].clawback_receiver] = MintOf[VaultOf[d]])
            ~> (Exists(d) /\ distributor[d].clawed_back))

(* Under caps that cover the tree and a vault that covers the caps, a       *)
(* claimant of the tree gets a claim status unless the distributor is       *)
(* clawed back first or somebody sent lamports to the status address: no    *)
(* order of the others' claims can use up the caps or the vault.            *)
ClaimedInTheEnd ==
  \A d \in Distributors, k \in Wallets :
    (/\ Exists(d)
     /\ CapsCoverTree(d)
     /\ Outstanding(d) <= balance[VaultOf[d]]
     /\ \E leaf \in Provable[distributor[d].root] : leaf.claimant = k)
      ~> (\/ k \in Claimed(d)
          \/ Exists(d) /\ distributor[d].clawed_back
          \/ claim_status[d][k] = LamportsOnly)

-----------------------------------------------------------------------------
(* What the documentation says and the program does not do *)

(* claim_locked.rs:59 "Claim locked tokens as they become unlocked": once   *)
(* vesting is over, a claimant who keeps calling claim_locked has withdrawn *)
(* what its leaf locked, unless the clawback came first.                    *)
LockedReleased ==
  \A d \in Distributors, k \in Wallets :
    (/\ Exists(d)
     /\ k \in Claimed(d)
     /\ now >= distributor[d].end_ts
     /\ Outstanding(d) <= balance[VaultOf[d]])
      ~> (/\ Exists(d)
          /\ \/ k \in Claimed(d) /\ claim_status[d][k].at48 = claim_status[d][k].at32
             \/ distributor[d].clawed_back)

(* new_claim.rs:62 "The claimant is the owner of the to account".           *)
PaidToOwner ==
  [][\A d \in Distributors, k \in Wallets, a \in TokenAccounts :
       /\ k \in Claimed(d)' \ Claimed(d)
       /\ balance'[a] > balance[a]
       => OwnerOf[a] = k]_vars

(* clawback.rs:44 "Transferring remaining funds from the vault to the       *)
(* clawback receiver": the vault is empty after the clawback.               *)
ClawbackEmptiesVault ==
  [][\A d \in Distributors :
       /\ Exists(d)
       /\ distributor'[d].clawed_back # distributor[d].clawed_back
       => balance'[VaultOf[d]] = 0]_vars
=============================================================================
