# TLA+ models of merkle-distribution

This directory specifies the token distributor of this repository: a Solana
program that pays the leaves of a merkle tree (`programs/merkle-distributor`),
the proof check it uses (`verify`), and the tools that build the tree
(`merkle-tree`). The modules are written from the source; the README files, the
comments and the TypeScript tests were read as statements of what the program is
meant to do, and several of them turned out to disagree with it (section *Findings*).

    tlc -config MCDistributor.cfg MCDistributor      model-check one airdrop
    tlapm DistributorProofs.tla                      check the proofs about the program

## The system

| Component | State | Operations | Interacts with |
|---|---|---|---|
| `MerkleDistributor` account (`state/merkle_distributor.rs`) | root, the two caps, the two counters, the three timestamps, receiver, admin, `clawed_back` | written by all six instructions | one per (mint, version) address |
| `ClaimStatus` account (`state/claim_status.rs`) | claimant, locked, withdrawn, unlocked | `unlocked_amount`, `amount_withdrawable` | created by `new_claim`, read and written by `claim_locked`; one per (wallet, distributor) address |
| Instructions (`instructions/*.rs`, `lib.rs`) | none of their own | `new_distributor`, `new_claim`, `claim_locked`, `clawback`, `set_clawback_receiver`, `set_admin` | token program, system program, clock, `verify` |
| Token program, system program, clock | token balances and owners, which addresses are in use, the time | transfer, create account | called by the instructions; also used directly by any wallet |
| `verify` | none | folds a proof into a root | called by `new_claim` and by the tree builder |
| `MerkleTree` (`merkle_tree.rs`) | the levels of hashes in one vector | `new`, `get_root`, `find_path`, `Proof::verify` | called by the tree builder |
| `CsvEntry`, `AirdropMerkleTree`, `TreeNode`, `utils` | the tree nodes with their proofs, root and caps | `new_from_csv`, `new`, `validate`, `verify_proof`, `get_max_total_claim` | its root and caps are `new_distributor`'s arguments |
| The tree's file (`airdrop_merkle_tree.rs`) | one JSON file at a path | `write_to_file`, `new_from_file` | hands the tree on between runs of the tools; not modelled |
| The launcher (doc comments of `lib.rs` and `new_distributor.rs`) | which version it relies on, whether it has seeded it | create, read back, seed the vault | builder, program, token program |
| `MerkleTree` of the TypeScript tests (`tests/merkle-tree.ts`) | layers of hashes | constructor, `getProof`, `getRoot` | its root and proofs are what the tests give the program |
| Events, error codes, IDL, migration, test scenarios | | | not modelled (see the end) |

A distributor is created with a root and two caps, and somebody funds its vault
with an ordinary transfer. A claimant sends `new_claim` with a leaf and its
proof: the unlocked part is paid and a claim status is stored. `claim_locked`
is to pay out the locked part linearly between `start_ts` and `end_ts`. From
`clawback_start_ts` on, at least a day after the end, anyone may send
`clawback`, which moves the vault to the receiver and closes the distributor.

### What is hard about it

* **Order.** Instructions of unrelated users arrive in any order and share
  counters, caps and a vault. Anyone may send a clawback; the admin may change
  the receiver at any moment; an account a payment goes to or comes from can be
  almost any account of the mint, the vaults of other distributors included.
* **Two layouts of one account.** `new_claim` serialises the claim status by
  hand, `claim_locked` deserialises it with the framework.
* **Numbers.** Checked `u64`/`i64`/`u128` operations, a truncating cast, a
  division by the length of a schedule, caps met exactly, first and last second.
* **Liveness.** The last claimant must still find room under the caps and
  tokens in the vault; a clawback must stay possible.
* **Trees of odd width,** and two implementations that treat them differently.
* **Who comes first.** Anyone may create a version, or its vault, before the
  launcher does, with terms of their own; what the launcher has read must still
  hold when it relies on it.
* **Leftovers.** A receiver closed before the clawback, tokens that arrive after it.

`PROJECT.json` lists each hazard at its line with the properties aimed at it.

### What makes each part correct

* *Counters and caps:* every distributor counts exactly the claims and the
  amounts paid under it and never exceeds its caps (`NodesCounted`,
  `AmountsCounted`).
* *Claims:* only leaves of the distributor's root are paid, once per wallet, and
  never rewritten (`ClaimBackedByLeaf`, `GrantsKept`).
* *Vesting:* never ahead of the schedule, and no arithmetic error that locks the
  rest (`VestingRespected`, `UnlockedWithinLocked`, `UnlockedMonotone`).
* *Clawback:* not before the schedule ended a day ago; nothing is paid
  afterwards; its transfer always possible, and made in the end (`ClawbackWaited`,
  `OutflowAccounted`, `ClawbackPayable`, `ReclaimedInTheEnd`).
* *Tokens:* every token that leaves is accounted for; a funded vault stays
  sufficient; every claimant of a well-prepared airdrop finds room and tokens at
  every moment and is served (`OutflowAccounted`, `SolvencyKept`, `ClaimsAffordable`,
  `ClaimedInTheEnd`).
* *Trees:* each leaf's proof verifies (`ClimbReachesRoot`,
  `ProofsComplete`) and serves nobody else (`ProofServesOneEntry`, `ProofsSound`,
  `PathsExact`), in levels laid out right (`LevelsInPlace`);
  the builder's caps are the tree's size and sum (`RowsCombined`, `CapsExact`,
  `RefusalsJustified`).
* *The whole program:* what it does, described without accounts, counters or
  machine words, is what `Escrow` allows, except where the two layouts of a claim
  status bite (`EscrowKept`).
* *The whole airdrop:* claim statuses record what the rows of the file say and no token
  of the launcher is diverted or stranded (`RowsRecorded`, `TreasuryAccounted`); a built
  tree is funded, its caps suffice for everyone with a row, and everyone is served
  (`LaunchSettled`, `RowsAffordable`, `RowsServed`).
* *The tests' tree:* its proofs verify under its own root, and its root is the
  tools' exactly when no level has an unpaired hash (`TestProofsVerify`,
  `RootsAgreeWhenPaired`).

## Modules

| Module | What it is |
|---|---|
| `ClaimStatus` | the vesting arithmetic as functions, widths as constants |
| `Distributor` | the program on its ledger: state, one action per instruction, the outside world, all properties |
| `Escrow` | what a distributor promises, on unbounded numbers: open, award, release, close |
| `DistributorEscrow` | the refinement mapping from `Distributor` to `Escrow` |
| `Launch` | the composition of `AirdropTree` and `Distributor` with a launcher and everyone else |
| `MerkleTree` | `MerkleTree::new` as a machine that pushes one hash per step, `find_path`, `get_proof` and `Proof::verify` as operators, `verify` as a machine that folds in any proof element |
| `AirdropTree` | the tree builder: rows to nodes, combination, sums, caps, `validate` |
| `MerklePath` | `find_path` as the loop of the code, fused with `get_proof` and with the on-chain loop |
| `TestTree` | the tree of `tests/merkle-tree.ts`, beside the tree and the paths of `MerklePath` |
| `MCDistributor`, `MCTwoDistributors`, `MCLaunch`, `MCMerkleTree`, `MCTreeShape`, `MCAirdropTree` | instances for TLC, with one `.cfg` per run |
| `FiniteSums` | lemmas on sums over finite sets |
| `DistributorProofs` | the arithmetic; type correctness; the inductive invariant, the safety and action properties; the amounts counter is the sum of the claims; caps that cover the tree suffice |
| `EscrowProofs` | `Distributor` implements `Escrow` where the layouts of a claim status agree |
| `AirdropTreeProofs` | rows are combined exactly, caps are exact, refusals have a reason |
| `LaunchProofs` | the launch is a behaviour of `Distributor`; rows are recorded and can be afforded; the launcher's tokens are accounted for |
| `MerkleTreeProofs` | layout of the tree's vector; every leaf's proof verifies, its path for no other leaf; soundness of proof verification |
| `MerklePathProofs` | the loop of `find_path`: its proof reaches the root, for its claimant and nobody else |
| `TestTreeProofs` | the proofs of the tests' tree verify; its root is the tools' for powers of two only |

### How `Distributor` corresponds to the code

An instruction runs alone and commits all of its effects or none. So an action
is a whole instruction: its account constraints (`#[derive(Accounts)]`), its
`require!`s and the checks of the programs it calls are guards, whatever their
order in the code, and an instruction that fails is a disabled action. That `new_claim` checks
its caps after it has paid makes no difference for this reason; it is taken from the
ledger and not shown.

| Variable | Code |
|---|---|
| `now` | `Clock::get()?.unix_timestamp` |
| `distributor[d]` | the `MerkleDistributor` at the PDA of a mint and version; `NoAccount` before `new_distributor` |
| `claim_status[d][k]` | the account at the PDA of wallet and distributor: `NoAccount`, `LamportsOnly` (somebody sent lamports there), or the words stored in it |
| `open` | the token accounts that exist; a vault exists once `new_distributor`, or anyone through the associated-token program, has created it |
| `balance` | the amount of each token account |

* **`ClaimWords`.** The status is kept as the 64-bit words at byte offsets 32, 40
  and 48, because writer and reader disagree: `new_claim` writes claimant, locked
  (32), unlocked (40), 0 (48) from byte 0, while an `Account<ClaimStatus>` begins
  with an 8-byte discriminator, so that claimant, `locked_amount` and
  `locked_amount_withdrawn` are read at 8, 40 and 48. Deserialising requires the
  discriminator where the writer put the first eight bytes of the claimant's key.
  `ReadableWallets` is the set of wallets whose key happens to begin with it. It
  is empty for the keys of a deployment; the safety runs take one such wallet,
  so that `ClaimLocked` is exercised, and the theorems hold for any set.
* **`Provable`** maps a root to the leaves that have a valid proof. It stands for
  the hashing of leaf and path (`verify`), which `MerkleTree` expands.
  Nothing is assumed about it beyond its type: a tree may hold two leaves of a
  wallet, and the safety properties hold for it.
* **`NewClaim(d, leaf, from, to)`** leaves `from` and `to` as free as the code
  does: `from` is any token account of the distributor, `to` any of the mint.
* **`Clawback`** has no signer argument, and a receiver that is the vault itself
  makes it a transfer that moves nothing: both are in the code.
* **`SetClawbackReceiver`** compares mints; `NewDistributor` does not. A receiver
  of another mint makes the clawback fail until the admin changes it, which is
  the premise of `ReclaimedInTheEnd`.
* **`SetAdmin`** accepts any key as the new admin, `IdleKeys` included, which never sign:
  from then on nobody changes the receiver.
* **`new_claim`** has no time condition: its documentation speaks of a claim
  window, and what ends the window is `clawed_back`.
* **Environment.** `Tick` advances the clock by any amount. `WalletTransfer` funds
  vaults and moves what claimants received. `CreateAccount` creates a token
  account that does not exist, a vault's before its distributor included (after
  which `new_distributor` fails for good); `CloseAccount` closes an empty account
  of a wallet (`ClosableAccounts`), after which nothing can be paid to it;
  `Prefund` sends lamports to a claim status address (after which
  `create_account` fails for good). All are things any user can do; the
  specification records what they block.

Abstracted away: rent and the size of accounts, compute budget, PDA bumps and
version numbers (an address is a model value), events and log messages, error
codes; frozen token accounts, to and from which the token program refuses a transfer.
Only the freeze authority of a mint freezes accounts; the mints of the tests have
none, but the program does not check. The clock is non-negative, as the cluster's is.

### `Escrow`, and how `Distributor` implements it

`Escrow` knows grants, terms, awards and a clock. A grant is opened once, before
its start; `Award` gives a claimant of the grant's root one of the offers, once;
`Release` brings what was released of an award to what is due at the moment, by
one formula on unbounded integers; `Close` is for good and not before its time;
and after every step the awards fit the slots and the budget of the terms. There
are no counters: the sums are taken over the awards themselves.

`DistributorEscrow` maps a distributor to a grant and the words of a claim status
to an award: what vests is the leaf's locked amount, as the comments of
`claim_status.rs` say, and as `new_claim` stored it (`OfferOf`, `AwardOf`). `claim_locked`
computes a release from another word, that of the unlocked amount (Finding 1). So the
refinement fails for a key it can read whose leaf has two different amounts (run
`escrow_broken`), and holds when there is none: `LayoutsAgree`, the hypothesis of the
theorem and a choice of constants in the run `airdrop`. With ordinary keys it holds
because nothing is ever released; `Escrow` says how much may be released when, and
`LockedReleased` that something must be.
Receivers, admins, lamports and the ledger are not part of the promise, so
instructions that touch nothing else are stutters. The checks
that the refinement needs are spread over the code: the counters stand for the
sums (`AmountsCounted`, `NodesCounted`), and the checked `u64` and `u128` arithmetic
of `unlocked_amount` for the formula of `Due`.

### How `Launch` corresponds to the code

`Launch` runs `AirdropTree` (by `INSTANCE`) and `Distributor` (by `EXTENDS`) in one
state. Until a tree is built nothing happens on the chain that matters here, so
the chain's actions wait for it (`OnChain`); this merges interleavings of steps
that share no variable. A root stands for the set of leaves of its tree
(`TreeRoot`), so a leaf has a proof exactly when it is in the set, which is what
`MerkleTree` and `MerklePath` are about.

The launcher is external: it does what `lib.rs:52-56` and `new_distributor.rs:58-59`
ask. It creates a version with the tree's root and caps (`LaunchArgs`), reads a
version back and compares every field, admin and receiver included, whoever
created it (`ReadBack`), and seeds the vault with `max_total_claim` before vesting
starts (`Fund`). `Others` lets every other wallet create versions with the tree's or
with other terms, change receivers and admins where they may, and block claim
status addresses. All instructions of `Distributor` take part. The launcher does
not change the receiver or the admin after it has asked for them.

### How the tree modules correspond to the code

`MerkleTree` keeps the vector `nodes` and the four loop variables of
`MerkleTree::new`; the index `i` of the inner loop is the number of hashes pushed
on the level (`Pushed`). `PushParent` is one iteration of the inner loop,
`NextLevel` the assignments after it. A hash is the term that was hashed, tagged
`"leaf"` or `"intermediate"` for the prefixes 0 and 1: SHA-256 is taken to be
injective and nothing else. Sorting two siblings before hashing forgets their
order, so the preimage of a sorted hash is a set; the ordered hashes that
`MerkleTree::new(.., false)` and `Proof::verify` use keep a pair. `StartVerify` and
`FoldProofElement` are `new_claim`'s leaf hash and the loop of `verify`; the
element may be any hash of the tree or any `ForeignHashes`. Airdrops use sorted
trees; ordered ones occur in the crate's tests only. A tree of one leaf has an
empty path, which `Proof::verify` accepts for any candidate, so `PathsExact` is
about larger trees; the on-chain loop compares with the root and has no such
exception. The capacity estimate of the vector is left out.

`MerklePath` has a step for each turn of `find_path`'s loop. The loop pushes the
entry whose siblings it found a turn earlier; `proof` and `climb_hash` take what
`get_proof` and `verify` make of that entry at once. `LoopMakesProof` (`MerklePathProofs`)
states that the finished `proof` is `GetProof` of `MerkleTree`, its recursive form.

`TestTree` adds one step per layer of the TypeScript constructor over the same leaf
hashes (trees of sorted hashes only; `internalHash` sorts). Its `internalHash` carries
an unpaired hash up (`tests/merkle-tree.ts:36`) where `MerkleTree::new` pairs it with
itself. `verify` does not ask how long a proof is and accepts the proofs of each tree
under its own root (`TestProofsVerify`), but the roots are equal for widths that are
powers of two only (`RootsAgreeWhenPaired`): for the three entries of
`tests/merkle-distribution.ts` the tests run under a root the tools would not compute
(Findings 5 and 6).

`AirdropTree` takes one row per step (`AddEntry`) and computes caps and outcome in
`Finish`. `OpenFails` and `AddUnreadable` are the two ways `CsvEntry::new_from_file` and
the conversion of a key end the tool: an error for the file, a panic for a row. A
failed checked operation is the outcome `"panic"`; the other ends are
the errors of `new`. Unlike `new`, `new_from_file` does not call `validate`: what is
shown of the caps is shown of built trees, not of loaded files.

## Runs

| Run | Specification | Shows |
|---|---|---|
| `airdrop` (`MCDistributor.cfg`) | `Spec` | nine safety and action properties of one airdrop with every instruction and every outside action in any order, and that every behaviour is one of `Escrow` where the two layouts of a claim status make no difference; 157 004 states |
| `two_distributors` | `Spec` | distributors of one mint neither spend nor weaken each other, although a claim or a clawback may be paid into the other's vault; 150 249 states |
| `live` (`MCLive.cfg`) | `LiveSpec` | a due clawback happens in the end, against an admin who keeps changing the receiver and claimants who drain the vault, a closed receiver only delaying it, and its transfer stays possible; every claimant of an honest set-up gets its claim, for which there is enough at every moment; 18 597 states |
| `launch` (`MCLaunch.cfg`) | `LaunchSpec` | two versions, either of which another wallet may take: claim statuses record what the rows say, no token of the launcher is diverted or stranded; 132 204 states |
| `launch_live` | `LaunchLiveSpec` | a built tree is funded under one version or the other, and everyone with a row finds enough and is served; 44 108 states |
| `tree_shape` (`MCTreeShape.cfg`) | `TestSpec` | layout of the vector, every claimant's proof, looked for by the code's loop, reaches the root and serves nobody else, paths accept their leaf only, the tests' tree beside it; every width from 0 to 13, 16, 17, and repeated entries; 3 957 states |
| `tree_verify` (`MCMerkleVerify.cfg`) | `MerkleTree!Spec` | no proof of up to four elements makes `verify` accept an outsider or other amounts; 328 886 states |
| `tree_builder` (`MCAirdropTree.cfg`) | `AirdropTree!Spec` | rows are combined exactly, caps are exact, files are refused only for a reason; 103 819 states |
| `locked_released` | `LiveSpec` | counterexample to a comment of `claim_locked.rs` |
| `escrow_broken` | `Spec` | counterexample to a comment of `claim_status.rs` |
| `paid_to_owner`, `vault_emptied` | `Spec` | counterexamples to comments of `new_claim.rs` and `clawback.rs` |

**Bounds.** `U64Max = 6` and a supply of 5 let every cap be met exactly and by one
too many, and let the `u64` additions overflow. `I64Max = 6` with schedules of
two seconds and a delay of two has a second before, inside and after every
boundary, and one schedule whose delay overflows an `i64`. Five argument tuples
cover roomy caps, each cap tight alone, a delay one second short, and that
overflow. Two wallets (one the admin, with two leaves in the tree), a second
tree, a second account of the distributor, and an account of another mint are
the smallest sets in which each guard decides between two outcomes; transfers of
2 and 5 fund a vault partly and fully. No state is cut off by a constraint:
each bound is a constant of the model.

For the trees: widths up to 13 and 16, 17 contain every pattern of odd and even
levels of a tree of up to five levels. Proofs of four elements against trees of
at most three levels above the leaves are longer than any genuine one. Three rows
let three claimants have a row each or one claimant three, in one category or in
all; with `U64Max = 6` and a token unit of 2, sums meet the limit exactly, and pass
it in the product, in a node's field, in a node's total and in the grand total.
`MaxNodes = 2` makes the size check of `validate` fail for three claimants.

In `airdrop` the leaves of the readable key hold 1 and 1, or 2 and 2, so that half way a
release is rounded down or exact, and the other key's leaf has two different amounts;
in `two_distributors` the readable key's leaf of the second tree has, too.

In `live` the caps are the tree's, one leaf per claimant, and transfers of 5 fund the
vault at once; `bobAta` may be closed.

For the launch: rows of one token in a unit of two, one or two of them: in `launch`
of one claimant in two categories, which is where rows are combined, in
`launch_live` of two claimants, the launcher being one, which is where caps and
vault are shared. Every file of these rows, in either order and with repetitions,
occurs, and its tree has one leaf or two; a treasury of 5 pays for the largest
tree once and not twice. Two versions are the least for which the launcher can
lose one and go on. The schedules of `launch` are the launcher's, one that ends a
second earlier, so that a version of somebody else may be clawed back while the
launcher's is not, and a tuple of terms with the launcher's schedule and another
root. `launch_live` has one schedule of three seconds, the treasury and the vaults as its token
accounts, and no transfers but the launcher's; versions of others there differ
from the launcher's in receiver or admin. `launch` has a wallet whose key `claim_locked` can
read; the liveness run has none, for the reason given under Finding 1.

**Deadlock** is not checked: trees end, and in `Distributor` the bounded
clock stops, and when tokens sit in
accounts nothing moves, nothing is left to do. On the chain time goes on.

**Fairness.** `LiveSpec` assumes that a clawback that stays possible is sent, and
that each claimant keeps trying to claim from the vault and to withdraw. The
former is justified because clawback is permissionless: the code checks no
signer, so any one interested party suffices. Weak fairness is enough: once due it
stays enabled until it happens, and the run checks exactly that, since a receiver
change that disabled it again would break the property (its mutant does). Time
may stand still: `ReclaimedInTheEnd` has the due time in its premise, and a
claimant is not served by waiting for the clawback. The receiver is
checked when it is set and not looked at again, so an owner who closes it stops the
clawback; the premise that it is open from some moment on (the owner opens it again, or
the admin has named another) is all that `ReclaimedInTheEnd` asks for besides the mint.
The alternatives that `ClaimedInTheEnd` leaves open are limits of the code: a clawback,
and lamports at a claim status address, which nothing recovers.

`LaunchLiveSpec` assumes that the launcher carries on and that, while claims
succeed, some are sent. It does not assume that time passes or that anybody claws
back, so neither `LaunchSettled` nor `RowsServed` is met by waiting for its
time-dependent alternative. Nor is `LaunchSettled` met by what the launcher itself
creates: a version is lost (`Taken`) only if its vault is there and it is not under the
terms the launcher asks for, and all of them must be lost with none read back.

## Findings

1. **Locked tokens are never released** (`LockedReleased`). For the reason given
   under `ClaimWords`, `claim_locked` fails in deserialisation for every ordinary
   key, and the word it would read as `locked_amount` is the unlocked amount. The
   locked part stays in the vault until the clawback. `claim_locked.rs:59` says
   "Claim locked tokens as they become unlocked."
   The other side of the same mismatch (`EscrowKept`, run `escrow_broken`): for a key that
   does begin with the discriminator, `claim_locked` pays the unlocked amount a second
   time, and nothing of the locked one; in the run, a claimant whose leaf locks nothing.
   `claim_status.rs:35` says of the amount released: "Equal to (time_into_unlock /
   total_unlock_time) * locked_amount". The counters stay right and the caps hold, but the
   amount paid is not the tree's, and another claimant may find the cap used up:
   with `ReadableWallets = {bob}`, `RowsServed` does not hold. Such keys are one in 2^64.
2. **The destination need not be the claimant's** (`PaidToOwner`), against
   `new_claim.rs:62`; the claimant signs, so it chooses the account itself.
3. **A claim need not be paid from the vault**, against `new_claim.rs:36`: any token
   account the distributor owns will do, and is a choice of `NewClaim` (`from`). The
   counters stay right, as `OutflowAccounted` shows for every such choice; this has no run
   of its own.
4. **A clawback may leave everything in the vault** (`ClawbackEmptiesVault`),
   against `clawback.rs:44`, when the admin has made the vault the receiver; the
   distributor is closed and the tokens stay.
5. **The tests' root is not the tools'**: an unpaired hash is carried up
   (`tests/merkle-tree.ts:36`), not duplicated. `tests/merkle-distribution.ts:198` says
   "Build Merkle tree using jito's implementation", of a tree of three entries;
   `RootsAgreeWhenPaired` (run `tree_shape`) has that width among those whose roots differ.
6. **One of three proofs is shorter**: the third entry's proof under the tests' tree is one
   hash, as `TestProof` skips the layer without a sibling. `TEST_RESULTS.md:148` says
   "Proof for 3 leaves: 2 sibling hashes required". No run of its own.

Two documents write the leaf hash with an index in it: `POC_SUMMARY.md:65`,
"hash(index || pubkey || unlocked || locked)", and `TEST_RESULTS.md:101`. The leaf that
`new_claim.rs:89-93`, `tree_node.rs` and the tests hash has none (`LeafHash`).
`TEST_RESULTS.md:54-82` reports that every `new_claim` crashes with one toolchain, for a
stack frame that is too large: that is a matter of the build and outside the model, in
which a claim that meets its conditions succeeds.

## Proofs

The theorems hold for all widths, any finite set of wallets, any sets of
distributors, token accounts and leaves, under the assumptions named in
`ClaimStatus` (`WidthAssumption`) and `Distributor` (`AddressAssumption`: vaults
belong to their distributor and no distributor can sign as a wallet;
`DataAssumption`: types of the constants; `AccountAssumption`: the markers for
absent accounts differ from data; `SupplyAssumption`: the accounts of one mint start
with no more than fits a `u64`, in which the token program keeps a supply);
those on the builder under `EntriesAssumption`; the refinement also under `LayoutsAgree`.
TLC evaluates them in every run.

*Arithmetic* (`DistributorProofs`). A quotient `t * locked \div total` with
`t <= total` lies between 0 and `locked`, hence the cast drops nothing and the
checked product fits (`ProRataExact`); so the released amount never exceeds the
locked one (`UnlockedWithinLocked`) and never shrinks as time passes
(`UnlockedMonotone`). The hypothesis is `Schedule`: start before end, both `i64`
and non-negative, which `new_distributor` establishes.

*Types* (`DistributorProofs` too). `TypeCorrect` goes by itself: every increment is
bounded by a guard of the same action.

*Safety* (`DistributorProofs` too). The inductive invariant is

    Inv == TypeOK /\ ScheduleAccepted /\ ClawbackWasDue /\ ClaimsHaveDistributor
           /\ ClaimBackedByLeaf /\ VestingRespected /\ NodesCounted

`VestingRespected` alone is not inductive: that a later moment releases no less
needs `UnlockedMonotone`, which needs a schedule that starts before it ends, and
that is what `ScheduleAccepted` keeps of `new_distributor`'s checks. `ClawbackWasDue`
relates `clawed_back` to `clawback_start_ts`, from which `ClawbackWaited` follows
with the accepted delay. `ClaimsHaveDistributor` (no claim status without a
distributor) is needed when a distributor is created, which must find its counter
and its statuses at zero. Each action is a lemma; actions that leave distributor
and statuses alone share the `Continues` lemmas, which say what a step must
preserve for each part to survive. From `Inv` follow `NodesAreCounted`,
`ClaimsAreBacked`, `VestingIsRespected`, `ClawbackWaits`; the action properties
`GrantsAreKept`, `OutflowIsAccounted` and `SolvencyIsKept` follow step by step
from type correctness.

*Amounts* (`DistributorProofs`, with `FiniteSums`). `AmountsAreCounted`:
`total_amount_claimed` is the sum over all claim statuses. That a sum over a
finite set grows by what one element grows by needs an induction on the set; it
is done on the set of cardinalities for which the fact holds, so that no
operator has to be instantiated. A claim adds one element to the sum, a
withdrawal changes one, every other action leaves `PaidTo` alone.

*Enough for everyone* (`DistributorProofs` too). `ClaimsAreAffordable` is what
`ClaimedInTheEnd` needs at every moment, and the part of it a proof can reach: if the
caps cover the tree and the vault covers what is outstanding, a leaf not claimed yet
finds a slot, room and its amount, for any open account of the mint to receive.
`ClaimBackedByLeaf` gives each claim a leaf of its
wallet, and the new claimant has one too; since no two leaves share a claimant, claims
and newcomer go one to one into the leaves (`LeavesOfClaims`). So there are at most as
many as leaves, which bounds the counter (`NodesCounted`), and their unlocked amounts
add up to no more than the leaves do (`SumInto`, on sums along an injection), which
bounds the total (`AmountsCounted`). The total counts what `claim_locked` paid as well,
and that is nothing for a key it cannot read (`UnreadableUntouched`): without this
premise the property is false (Finding 1).

*Ledger* (`DistributorProofs`, with `FiniteSums`). A transfer can fail for a closed end,
a short sender, or a receiver whose balance would no longer fit a `u64`. `LedgerInv`
rules these out for a vault: the accounts of a mint hold together no more than its
supply (`SupplyFits`), since both ends of every transfer have one mint and what leaves
one arrives at the other (`SumMoved`); and the vault of a distributor is open
(`VaultsOpen`), since only a wallet closes accounts. The vault and a receiver of its
mint are two of those accounts, so they fit the supply together (`SumOfTwo`), and the
vault can pay all it holds to it (`VaultCanPay`). `ClawbackIsPayable` follows, and
the transfers in `ClaimsAffordable` and `RowsAffordable`. A receiver of another mint or
closed by its owner is left out because the code allows both.

*Refinement* (`EscrowProofs`). `DistributorIsEscrow`: initial states map to initial
states, and each action to `Open`, `Award`, `Release`, `Close`, `Pass` or a stutter. The
hypothesis is `LayoutsAgree`, and the strengthening is `Inv` together with `AmountsCounted`: they turn the comparisons of
two counters with two caps into `WithinTerms`. A withdrawal's amount is the release
so far minus what was withdrawn, so by `ProRataExact` it brings `released` to `Due`
of the word `claim_locked` reads; that this is the locked amount of a leaf is where
`ClaimBackedByLeaf` and the hypothesis come in (`LayoutsDoNotMatter`).

*Soundness* (`MerkleTreeProofs`). `VerifiedIsInTree`: whatever the inputs and whatever
values a proof is made of, `verify` accepts only an entry of the tree, amounts
included. While the tree is built, every hash in the vector is that of an entry
or of two hashes in the vector (`LeafOrParent`); so if what `verify` has computed is
not in the vector, neither is what it computes next (`StaysOutside`), and an entry
that is not in the tree starts outside. This is what justifies `Provable` as the
set of a tree's own leaves. `LevelsStayInPlace`: every index of `MerkleTree::new`
is in range and every node gets a parent. Both rest on `InputAssumption` and on
hashes being terms.

*Levels* (`MerkleTreeProofs` too). What the remaining tree theorems rest on: there is a
set of pairs `<<start, length>>`, one per level laid out so far, such that on each but
the last every parent is in place in the next (`AreLevels`), and on the level of one
node that node is the root (`TopIsRoot`). The set is bound by a quantifier inside the
invariant (`LevelsInv`): it belongs to the proof and not to the program.

*Completeness* (`MerkleTreeProofs` too). `EveryLeafHasProof`: for any entries and any
width, `verify` accepts every leaf with the proof made from its path. One turn of
`find_path` names the parent of its node and the sibling on the side where it is, by
cases on left, right and unpaired (`EntryHasParent`); so what a check has computed
on a level, it computes from the parent with the rest of the path (`OneLevelUp`),
and, by induction on the length of the level, arrives at the root
(`EveryNodeLeadsToRoot`). Two recursive definitions stand in between. `FindPath` is a
function of the level's length; that a function satisfying its equation exists, and
its value on every level, is shown by an induction on the length (`PathRecDefined`). A
fold of the community modules is a recursive function of sets of indices; it is
compared with the list of its partial results (`FoldAlong`), for one element put in
front (`HashFoldCons`) or behind (`HashFoldAppend`). `PathsAreExact`: `OneLevelUp` covers
`Proof::verify` on trees of ordered hashes, which gives the acceptance; a different
entry fails on the first turn already, since a leaf has one ordered hash with its
sibling (`OtherLeafStops`), and a check that has failed stays so.

*The loop* (`MerklePathProofs`). `EveryPathReachesRoot` and `EveryProofServesOne`, for every
claimant and every width. `find_path` stands on one of the levels, and `climb_hash`,
hashed with the sibling just found, equals the node it stands on (`OnPath`); one turn
goes to the next level (`SiblingGivesParent`). On every turn `climb_hash` is the fold of
`verify` over what was pushed, and that is the beginning of the proof that the recursive
definition makes (`ProofSoFar`, whence `LoopMakesProof`). The second theorem follows from
the first: two different hashes stay different along any proof (`FoldInjective`), so at
most one entry reaches the root by it.

*The tests' tree* (`TestTreeProofs`). The layers of the TypeScript tree have the lengths of
the levels of the other (`EveryLayerBeside`). `TestProofsPass`: the ancestor of a leaf on a
layer is found by halving its index (`AtHalves`), the pieces of its proof are a sibling
or nothing, and each leads from the hash on one layer to the hash on the next
(`PieceLeadsUp`). `RootsAgree`: level and layer are the same hash by hash as long as
nothing was unpaired, and then the number of leaves is a power of two times the
length of the layer (`Alike`). At the first unpaired hash that length is odd and more
than one, so the number of leaves is no power of two (`OddFactor`); and from there on the
two differ for good (`Apart`): all leaves of `MerkleTree` have the same depth (`Deep`), those
under the last hash of a layer do not, and a hash has one depth only (`DeepOnce`). Powers
of two are the recursive function `TwoTo`, since the provers do not know `^`.

*Launch* (`LaunchProofs`). Besides the assumptions above these theorems have
`LaunchAssumption` (the launcher owns its treasury and a root is the set of its
leaves; all token accounts are of one mint), `BuilderAssumption` (`EntriesAssumption` for
the launch's rows), and the hypothesis `AnythingGoes`: others may create versions with any arguments of the right type and
move any amount, and every set of leaves has a root. That is the most general
environment; the run's smaller sets are for TLC. `LaunchIsDistributor`: every step
of a launch is a step of `Distributor` or leaves its variables alone, so every
theorem about the program holds in a launch. For this the builder must hand over
arguments of the right type, which `SumsFit`, its checked sums, give (`BuilderInv`).
`TreasuryIsAccounted` needs, beyond that, `VerifiedInv` (what was read back stays
true: nobody but its admin changes a version's receiver or admin, and the launcher
does not) and `TreasuryCounted`, the property with the program's counter for the
sum, which `AmountsAreCounted` replaces. Its one delicate step is `Fund`: the vault
is not yet clawed back when it is seeded, because `ClawbackWasDue` would put the
clock past the end of a schedule whose start is still ahead.

*Rows* (`AirdropTreeProofs`). Theorems of the builder's own `Spec`, for files of any
length, any claimants and any widths. `EntriesAssumption` gives the types: rows,
`u64` limits, a mark of an unreadable row that is not a row. `RowsInv` relates the
nodes to the rows read so far (`Combines`: one node per claimant, category sums equal
to the rows' sums) and the total of the nodes to that of the rows. A row more is a
step of both sides: the node of the row adds what the sum over the rows grows by
(`NodeAdds`), the other claimants' sums stay (`OthersStay`). The checked operations are
capped values here, so equality needs that a result which fits has not been capped
(`NotCapped`). From this `EveryRowIsCombined`. For `CapsAreExact` the fold of
`GetMaxTotalClaim` is written as a recursive function (`ClaimRec`) and compared with
the plain total index by index, by an induction on a set of indices
(`CheckedTotal`). `RefusalsAreJustified` is the converse: a checked result is never
above the plain one (`AtMost`), so one that passes `U64Max` means that the rows, of
which the nodes are the sums, add up to more; and the one thing left for `validate`
to refuse is the number of claimants (`ClaimantsCounted`).

*Rows recorded* (`LaunchProofs`). The builder's theorems come by `INSTANCE AirdropTreeProofs
WITH Claimants <- Wallets`, whose assumption follows from that of the launch
(`LimitsKept`). `RowsAreRecorded` closes the chain: `ClaimBackedByLeaf` gives a leaf of the
version's root, `VerifiedInv` that this root is `TreeRoot`, whose leaves are the nodes'
sums over the categories, and these are the claimant's rows, since categories are
disjoint (`ClaimantSum`).

*Rows afforded* (`LaunchProofs` too). `RowsAreAffordable` composes the two sides. The
builder's caps are one node for each claimant of the file and the sum of the amounts it
hashes into the leaves (`BuiltCaps`, in both proof modules); the leaves go one to one
into the nodes, so these caps cover the tree (`TreeCovered`), which is the premise of
`ClaimsAffordable`. Two invariants carry them to the chain: the caps of the version read
back are the builder's (`CapsVerified`), and from the funding to the clawback its vault
covers what is outstanding (`Covered`), which `Fund` establishes and the program keeps
(`SolvencyStep`).

*Only model-checked:* liveness (`ReclaimedInTheEnd`, `ClaimedInTheEnd`, `RowsServed`,
`LaunchSettled`), which is out of the prover's reach, and the counterexamples. Of
`ClaimedInTheEnd` and `RowsServed` the safety part is proved, that the numbers of a
claim never stand in its way, and of `ReclaimedInTheEnd` that its transfer is possible;
that they are then sent and succeed is left to TLC. Every
invariant and every action property of a run is also a theorem. The tree theorems speak
of hashes as terms: that SHA-256 is injective is an assumption of the model.

## Plan

1. *(done)* `ClaimStatus`, `Distributor`, their runs and proofs: the money.
2. *(done)* `MerkleTree` with `verify`, and its soundness proof; `AirdropTree`.
3. *(done)* `Escrow`, refined by `Distributor`, checked and proved; `AmountsCounted`.
4. *(done)* `Launch`: rows, tree, distributor and claims end to end.
5. *(done)* `MerklePath`, with completeness as an invariant, proved.
6. *(done)* `TestTree`.
7. *(done)* `LaunchProofs`: the composition, proved for any rows, versions and wallets.
8. *(done)* `AirdropTreeProofs`: `RowsCombined`, `CapsExact`, `RefusalsJustified`; and
   `RowsRecorded` from them in `LaunchProofs`.
9. *(done)* `MerkleTreeProofs`, `MerklePathProofs`, `TestTreeProofs`: `ProofsComplete`, `PathsExact`,
   `ProofServesOneEntry`, `TestProofsVerify`, `RootsAgreeWhenPaired`, for every width.
10. *(done)* `ClaimsAffordable`, `RowsAffordable` and `ClawbackPayable`, the safety part of the liveness
    properties, checked and proved.

## Not modelled

* `claimed_event.rs`, `error.rs`, log messages: output no instruction reads. An
  error is a disabled action whatever its code.
* `get_node`, `convert_to_hashmap`: look-ups in the list of nodes that `RowsCombined`
  describes. `get_merkle_distributor_pda`, `get_claim_status_pda`: address
  derivations; an address is a model value.
* Minting and burning: no instruction of the program does either. The supply of a mint
  is therefore fixed in the model; the token program would keep a changing one in a
  `u64` as well.
* The text of a CSV file: the csv crate's business.
* `write_to_file`, `new_from_file`: `File::create` empties the file, `serde_json` writes
  one text, and a text cut short does not parse, so a tool that dies while it
  writes leaves a file that fails to load. Note that `new_from_file` does not call
  `validate`: what is shown of built trees is shown of a loaded file only if nobody
  has edited it.
* `verifyProof` of `tests/merkle-tree.ts`, `verify`'s loop again, which
  `tests/merkle-distribution.ts:291` calls; the test scenarios, read as documentation.
* `idl/`, `migrations/`, `Cargo.*`, `Anchor.toml`: generated or configuration.
