-------------------------- MODULE DistributorEscrow --------------------------
(***************************************************************************)
(* The on-chain program as an Escrow.  A grant is a distributor, an award  *)
(* is a claim status; the ledger, the lamports at claim status addresses,  *)
(* the admin and the receiver are not part of the promise.                 *)
(***************************************************************************)
EXTENDS Distributor

TermsOf(r) ==
  [root |-> r.root, budget |-> r.max_total_claim, slots |-> r.max_num_nodes,
   start |-> r.start_ts, end |-> r.end_ts, reclaim |-> r.clawback_start_ts]

EscrowTerms ==
  [root : Roots, budget : U64, slots : U64, start : I64, end : I64, reclaim : I64]

ASSUME TermsAssumption == NoAccount \notin EscrowTerms

(* What a leaf promises its claimant: the unlocked amount with the claim,   *)
(* and the locked one as it vests (claim_status.rs:11 and 35).              *)
OfferOf(leaf) ==
  [claimant |-> leaf.claimant, at_once |-> leaf.unlocked, vesting |-> leaf.locked]

(* The amounts new_claim wrote, and what claim_locked says it has paid.     *)
AwardOf(words) == [at_once |-> words.at40, vesting |-> words.at32, released |-> words.at48]

GrantTerms == [d \in Distributors |-> IF Exists(d) THEN TermsOf(distributor[d]) ELSE NoAccount]
GrantClosed == [d \in Distributors |-> Exists(d) /\ distributor[d].clawed_back]
GrantAward ==
  [d \in Distributors |-> [k \in Claimed(d) |-> AwardOf(claim_status[d][k])]]

Grant == INSTANCE Escrow WITH
  Grants  <- Distributors,
  Terms   <- {TermsOf(args) : args \in NewDistributorArgs},
  Offers  <- [r \in Roots |-> {OfferOf(leaf) : leaf \in Provable[r]}],
  Delay   <- SecondsPerDay,
  NoTerms <- NoAccount,
  clock   <- now,
  terms   <- GrantTerms,
  closed  <- GrantClosed,
  award   <- GrantAward

(* The writer and the reader of a claim status disagree about which word is *)
(* the locked amount.  That is harmless where the two amounts are equal, or *)
(* where the reader is never let in.                                        *)
LayoutsAgree ==
  \A r \in Roots : \A leaf \in Provable[r] :
    leaf.claimant \in ReadableWallets => leaf.unlocked = leaf.locked

(* Every behaviour of the program, with its counters, its hand-written      *)
(* statuses, its machine arithmetic and everything others may do to its     *)
(* accounts, is one the Escrow allows: claims and withdrawals are paid in   *)
(* exactly the amounts, at the times and within the limits it states.  It   *)
(* holds under LayoutsAgree; without it, a withdrawal is computed from the  *)
(* unlocked amount where the locked one was promised (claim_status.rs:35).  *)
EscrowKept == Grant!Spec
=============================================================================
