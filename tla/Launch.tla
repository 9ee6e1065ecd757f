------------------------------- MODULE Launch -------------------------------
(***************************************************************************)
(* An airdrop from its CSV file to the last token: the builder of          *)
(* AirdropTree turns the rows into a root and its caps, a distributor is   *)
(* created with them, and the program of Distributor serves its claims.    *)
(*                                                                         *)
(* The launcher follows what lib.rs:52-56 and new_distributor.rs:58-59 ask *)
(* of it: it reads the distributor back before it relies on it, and seeds  *)
(* the vault with max_total_claim tokens.  Everyone else may create a      *)
(* version first with terms of their own, change the terms of the versions *)
(* they administer, create the vaults' accounts and send lamports to claim *)
(* status addresses.                                                       *)
(*                                                                         *)
(* A root stands for the set of leaves of its tree, so that a leaf has a   *)
(* proof exactly when it is in the set (MerkleTree shows when that is so). *)
(***************************************************************************)
EXTENDS Distributor

CONSTANTS
  CsvEntries, Unreadable, MaxEntries, TokenUnit, MaxNodes,  \* of AirdropTree
  launcher,        \* the wallet that launches the airdrop
  treasury,        \* its token account, the clawback receiver it asks for
  Schedules,       \* schedules distributors are created with
  LaunchSchedule,  \* the one the launcher asks for
  LamportsSentTo,  \* wallets to whose status addresses others send lamports
  NoVersion        \* no version has been read back

ASSUME LaunchAssumption ==
  /\ launcher \in Wallets
  /\ treasury \in TokenAccounts
  /\ OwnerOf[treasury] = launcher
  /\ MintOf = [a \in TokenAccounts |-> MintOf[treasury]]
  /\ LamportsSentTo \subseteq Wallets
  /\ LaunchSchedule \in Schedules
  /\ Schedules \subseteq [start_ts : I64, end_ts : I64, clawback_start_ts : I64]
  /\ Roots \subseteq SUBSET Leaf
  /\ Provable = [r \in Roots |-> r]
  /\ NoVersion \notin Distributors

VARIABLES
  csv_entries, tree_nodes, status, max_num_nodes, max_total_claim,
  verified,   \* the version the launcher has read back
  funded      \* whether it has seeded that version's vault

Builder == INSTANCE AirdropTree WITH Claimants <- Wallets

ASSUME BuilderAssumption ==
  /\ CsvEntries \subseteq Builder!CsvEntry
  /\ Unreadable \notin CsvEntries
  /\ TokenUnit \in U64
  /\ MaxNodes \in U64

builder_vars == <<csv_entries, tree_nodes, status, max_num_nodes, max_total_claim>>
launch_vars == <<verified, funded>>
all_vars == <<vars, builder_vars, launch_vars>>

LaunchTypeOK ==
  /\ TypeOK
  /\ verified \in Distributors \cup {NoVersion}
  /\ funded \in BOOLEAN

LaunchInit ==
  /\ Init
  /\ now = 0
  /\ Builder!Init
  /\ verified = NoVersion
  /\ funded = FALSE

-----------------------------------------------------------------------------
(* The arguments new_distributor takes from the tree. *)
TreeRoot ==
  {[claimant |-> tree_nodes[i].claimant,
    unlocked |-> Builder!AmountUnlocked(tree_nodes[i]),
    locked   |-> Builder!AmountLocked(tree_nodes[i])] : i \in DOMAIN tree_nodes}

LaunchArgs(schedule) ==
  [root |-> TreeRoot, max_total_claim |-> max_total_claim, max_num_nodes |-> max_num_nodes,
   start_ts |-> schedule.start_ts, end_ts |-> schedule.end_ts,
   clawback_start_ts |-> schedule.clawback_start_ts]

Build ==
  /\ Builder!Next
  /\ UNCHANGED <<vars, launch_vars>>

-----------------------------------------------------------------------------
(* The launcher *)

Create(d) ==
  /\ status = "built"
  /\ NewDistributor(d, launcher, treasury, LaunchArgs(LaunchSchedule))
  /\ UNCHANGED <<builder_vars, launch_vars>>

AsExpected(d) ==
  LET asked == LaunchArgs(LaunchSchedule)
  IN  /\ \A field \in DOMAIN asked : distributor[d][field] = asked[field]
      /\ distributor[d].admin = launcher
      /\ distributor[d].clawback_receiver = treasury

(* "after your transaction succeeds, read back the state ...": whoever      *)
(* created the version.                                                     *)
ReadBack(d) ==
  /\ status = "built"
  /\ verified = NoVersion
  /\ Exists(d)
  /\ AsExpected(d)
  /\ verified' = d
  /\ UNCHANGED <<vars, builder_vars, funded>>

InTimeToFund == now < LaunchSchedule.start_ts

(* "the token_vault should be seeded with max_total_claim tokens": before   *)
(* vesting starts, and so before anybody can claw the vault back.           *)
Fund ==
  /\ verified # NoVersion
  /\ ~funded
  /\ InTimeToFund
  /\ TransferAllowed(launcher, treasury, VaultOf[verified], max_total_claim)
  /\ balance' = Transferred(treasury, VaultOf[verified], max_total_claim)
  /\ funded' = TRUE
  /\ UNCHANGED <<now, distributor, claim_status, open, builder_vars, verified>>

-----------------------------------------------------------------------------
(* Everyone: the arguments of others are the tree's with another schedule,  *)
(* or NewDistributorArgs.                                                   *)
OthersArgs == {LaunchArgs(s) : s \in Schedules} \cup NewDistributorArgs

Others ==
  \E w \in Wallets \ {launcher}, d \in Distributors :
    \/ \E receiver \in TokenAccounts, args \in OthersArgs : NewDistributor(d, w, receiver, args)
    \/ \E a \in TokenAccounts : SetClawbackReceiver(d, w, a)
    \/ \E new_admin \in Keys : SetAdmin(d, w, new_admin)
    \/ \E k \in LamportsSentTo : Prefund(d, k)

Claim(k) ==
  \E d \in Distributors, to \in TokenAccounts :
    \/ \E leaf \in AllLeaves : leaf.claimant = k /\ NewClaim(d, leaf, VaultOf[d], to)
    \/ ClaimLocked(d, k, to)

(* The program and the ledger, with the tree built and its root known. *)
OnChain(A) ==
  /\ status = "built"
  /\ A
  /\ UNCHANGED <<builder_vars, launch_vars>>

LauncherStep == Fund \/ \E d \in Distributors : Create(d) \/ ReadBack(d)

LaunchNext ==
  \/ Build
  \/ LauncherStep
  \/ OnChain(Others)
  \/ \E k \in Wallets : OnChain(Claim(k))
  \/ \E d \in Distributors : OnChain(Clawback(d))
  \/ OnChain(Tick)
  \/ \E a \in Vaults : OnChain(CreateAccount(a))
  \/ \E from \in TokenAccounts \ {treasury}, to \in TokenAccounts, amount \in TransferAmounts :
       OnChain(WalletTransfer(from, to, amount))

LaunchSpec == LaunchInit /\ [][LaunchNext]_all_vars

-----------------------------------------------------------------------------
(* Safety *)

AmountOf(k, Of(_)) == Of({r \in DOMAIN csv_entries : csv_entries[r].claimant = k})

(* A claim status under the version the launcher has read back holds what   *)
(* the claimant's rows of the CSV file add up to, wherever they are in the  *)
(* file and whatever was created before or instead of that version.         *)
RowsRecorded ==
  verified # NoVersion =>
    \A k \in Claimed(verified) :
      /\ claim_status[verified][k].at40 = AmountOf(k, Builder!UnlockedOf)
      /\ claim_status[verified][k].at32 = AmountOf(k, Builder!LockedOf)

(* Every token that has left the treasury is in the vault of the version    *)
(* read back, from which the clawback returns it, or was paid as a claim    *)
(* status of that version says: no other version, nobody who changes admins *)
(* or receivers, and no clawback that comes first, costs the launcher one.  *)
TreasuryAccounted ==
  LET left == InitialBalance[treasury] - balance[treasury]
  IN  IF verified = NoVersion
      THEN left <= 0
      ELSE left <= (IF distributor[verified].clawed_back
                    THEN 0 ELSE balance[VaultOf[verified]])
                     + SumFunctionOnSet(PaidTo(verified), Claimed(verified))

(* Who has a row. *)
InFile == {csv_entries[r].claimant : r \in DOMAIN csv_entries}

(* From the funding to the clawback everyone with a row who has not claimed *)
(* yet has a leaf of these amounts in the version's tree, and there are a   *)
(* slot, room under its cap and the tokens for it, to be paid to any token  *)
(* account, whatever the others have claimed and whoever created the        *)
(* version: the caps the builder computes are the caps the program needs.   *)
RowsAffordable ==
  /\ funded
  /\ ~distributor[verified].clawed_back
  /\ Claimed(verified) \cap ReadableWallets = {}
  => \A k \in InFile \ Claimed(verified) :
       \E leaf \in Provable[distributor[verified].root] :
         /\ leaf.claimant = k
         /\ leaf.unlocked = AmountOf(k, Builder!UnlockedOf)
         /\ leaf.locked = AmountOf(k, Builder!LockedOf)
         /\ NodeSlotFree(verified)
         /\ UnderMaxTotal(verified, leaf.unlocked)
         /\ \A to \in open : TransferAllowed(verified, VaultOf[verified], to, leaf.unlocked)

-----------------------------------------------------------------------------
(* Liveness.  The launcher carries on, and while claims succeed some are    *)
(* sent.  Time may stand still, and nobody need claw back, so that nothing  *)
(* is granted for the wait alone.                                           *)

LaunchLiveSpec ==
  /\ LaunchSpec
  /\ WF_all_vars(LauncherStep)
  /\ WF_all_vars(\E k \in Wallets : OnChain(Claim(k)))

(* Lost to the launcher: the vault is there, and not under its terms. *)
Taken(d) == VaultOf[d] \in open /\ ~(Exists(d) /\ AsExpected(d))

(* A built tree that the treasury can pay for is funded under some version, *)
(* unless every version is lost before the launcher has read one back, or   *)
(* the vesting it asked for starts: a version or a vault created by somebody*)
(* else costs the launcher that version only.                               *)
LaunchSettled ==
  (status = "built" /\ max_total_claim <= balance[treasury])
    ~> (\/ funded
        \/ verified = NoVersion /\ \A d \in Distributors : Taken(d)
        \/ now >= LaunchSchedule.start_ts)

(* Who has a row of the CSV file gets a claim status under the funded       *)
(* version, unless it is clawed back first or somebody sent lamports to the *)
(* status address.                                                          *)
RowsServed ==
  \A k \in Wallets :
    (funded /\ k \in InFile)
      ~> (/\ verified # NoVersion
          /\ \/ k \in Claimed(verified)
             \/ distributor[verified].clawed_back
             \/ claim_status[verified][k] = LamportsOnly)
=============================================================================
