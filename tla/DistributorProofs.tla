-------------------------- MODULE DistributorProofs --------------------------
(***************************************************************************)
(* What every instance of Distributor guarantees: any number of wallets,   *)
(* distributors, token accounts and leaves, any widths of the integers.    *)
(* First the vesting arithmetic of ClaimStatus and the types; then what a  *)
(* single step may do (action properties), the invariant that holds        *)
(* because of it, and the counter of the amounts.                          *)
(***************************************************************************)
EXTENDS Distributor, FiniteSums, FiniteSetTheorems, TLAPS

-----------------------------------------------------------------------------
(* What the vesting arithmetic guarantees for every machine width. *)

(* The quotient the schedule computes, and the two inequalities that        *)
(* characterise it.                                                         *)
LEMMA QuotientBounds ==
  ASSUME NEW n \in Nat, NEW d \in Nat \ {0}
  PROVE  /\ n \div d \in Nat
         /\ d * (n \div d) <= n
         /\ n < d * (n \div d) + d
BY SMT

LEMMA ProductMonotone ==
  ASSUME NEW a \in Nat, NEW b \in Nat, NEW c \in Nat, a <= b
  PROVE  /\ a * c \in Nat
         /\ a * c <= b * c
BY SMT

LEMMA QuotientMonotone ==
  ASSUME NEW m \in Nat, NEW n \in Nat, NEW d \in Nat \ {0}, m <= n
  PROVE  m \div d <= n \div d
<1> DEFINE p == m \div d
           q == n \div d
<1>1. p \in Nat /\ q \in Nat /\ d * p <= m /\ n < d * q + d
  BY QuotientBounds
<1>2. SUFFICES ASSUME q + 1 <= p PROVE FALSE
  BY <1>1
<1>3. d * (q + 1) <= d * p
  BY <1>1, <1>2, SMT
<1>4. d * (q + 1) = d * q + d
  BY <1>1, SMT
<1>5. QED
  BY <1>1, <1>3, <1>4, SMT
(* A schedule starts after the epoch and lasts at least a second; the      *)
(* arguments new_distributor accepts satisfy it at a clock that is not     *)
(* negative.                                                               *)
Schedule(start_ts, end_ts) ==
  /\ start_ts \in 0 .. I64Max
  /\ end_ts \in 0 .. I64Max
  /\ start_ts < end_ts

(* Inside the schedule no checked operation fails and the cast to u64 drops *)
(* nothing: the amount is the exact pro rata share, rounded down.           *)
LEMMA ProRataExact ==
  ASSUME NEW locked \in U64, NEW total \in 1 .. I64Max, NEW t \in 0 .. total
  PROVE  /\ ProRata(locked, t, total) = (t * locked) \div total
         /\ ProRata(locked, t, total) \in 0 .. locked
<1> DEFINE product == t * locked
           quotient == product \div total
<1>1. /\ U64Max \in Nat /\ I64Max \in Nat /\ I64Max <= U64Max
      /\ locked \in Nat /\ locked <= U64Max
      /\ t \in Nat /\ total \in Nat \ {0} /\ t <= total /\ total <= I64Max
  BY WidthAssumption DEF U64
<1>2. product \in Nat /\ product <= total * locked
  BY <1>1, ProductMonotone
<1>3. total * locked <= (U64Max + 1) * locked
  BY <1>1, ProductMonotone
<1>4. locked * (U64Max + 1) <= (U64Max + 1) * (U64Max + 1) - (U64Max + 1)
  <2>1. locked * (U64Max + 1) <= U64Max * (U64Max + 1)
    BY <1>1, ProductMonotone
  <2>2. U64Max * (U64Max + 1) = (U64Max + 1) * (U64Max + 1) - (U64Max + 1)
    BY <1>1, SMT
  <2> QED
    BY <1>1, <2>1, <2>2, SMT
<1>5. product \in U128
  <2>1. total * locked \in Int /\ (U64Max + 1) * locked \in Int
        /\ (U64Max + 1) * locked = locked * (U64Max + 1)
        /\ (U64Max + 1) * (U64Max + 1) \in Int
    BY <1>1, SMT
  <2>2. product <= (U64Max + 1) * (U64Max + 1) - 1
    <3> HIDE DEF product
    <3> QED BY <1>1, <1>2, <1>3, <1>4, <2>1, SMT
  <2> QED
    BY <1>2, <2>1, <2>2 DEF U128
<1>6. /\ quotient \in Nat
      /\ total * quotient <= product
  BY <1>1, <1>2, QuotientBounds
<1>7. quotient <= locked
  <2>1. SUFFICES ASSUME locked + 1 <= quotient PROVE FALSE
    BY <1>1, <1>6
  <2>2. (locked + 1) * total <= quotient * total
    <3> HIDE DEF quotient
    <3> QED BY <1>1, <1>6, <2>1, ProductMonotone
  <2>3. (locked + 1) * total = total * locked + total /\ quotient * total = total * quotient
    <3> HIDE DEF quotient
    <3> QED BY <1>1, <1>6, SMT
  <2>4. total * locked \in Nat /\ total * quotient \in Nat
    <3> HIDE DEF quotient
    <3> QED BY <1>1, <1>6, SMT
  <2> HIDE DEF quotient, product
  <2> QED
    BY <1>1, <1>2, <1>6, <2>2, <2>3, <2>4, SMT
<1>8. quotient % (U64Max + 1) = quotient
  <2> HIDE DEF quotient
  <2> QED BY <1>1, <1>6, <1>7, SMT
<1>9. t \in I64 /\ total \in I64 \ {0}
  BY <1>1, SMT DEF I64
<1>10. ProRata(locked, t, total) = quotient
  BY <1>5, <1>8, <1>9 DEF ProRata
<1> HIDE DEF quotient
<1> QED
  BY <1>1, <1>6, <1>7, <1>10 DEF quotient

(* amount_withdrawable works with an amount between zero and the locked    *)
(* amount, whatever the clock shows.                                       *)
THEOREM UnlockedWithinLocked ==
  ASSUME NEW locked \in U64, NEW curr_ts \in 0 .. I64Max,
         NEW start_ts, NEW end_ts, Schedule(start_ts, end_ts)
  PROVE  UnlockedAmount(locked, curr_ts, start_ts, end_ts) \in 0 .. locked
<1>1. locked \in Nat /\ curr_ts \in Int /\ start_ts \in Int /\ end_ts \in Int /\ I64Max \in Nat
  BY WidthAssumption DEF U64, Schedule
<1>2. CASE curr_ts < start_ts
  BY <1>1, <1>2 DEF UnlockedAmount
<1>3. CASE curr_ts >= start_ts /\ curr_ts >= end_ts
  BY <1>1, <1>3 DEF UnlockedAmount
<1>4. CASE curr_ts >= start_ts /\ curr_ts < end_ts
  <2>1. /\ end_ts - start_ts \in 1 .. I64Max
        /\ curr_ts - start_ts \in 0 .. (end_ts - start_ts)
    BY <1>1, <1>4 DEF Schedule
  <2>2. ProRata(locked, curr_ts - start_ts, end_ts - start_ts) \in 0 .. locked
    BY <2>1, ProRataExact
  <2> QED
    BY <1>1, <1>4, <2>2 DEF UnlockedAmount
<1> QED
  BY <1>1, <1>2, <1>3, <1>4

(* What is unlocked never shrinks as time passes, so what was withdrawable  *)
(* once and has been withdrawn never makes the checked subtraction fail.    *)
THEOREM UnlockedMonotone ==
  ASSUME NEW locked \in U64, NEW early \in 0 .. I64Max, NEW late \in 0 .. I64Max,
         early <= late,
         NEW start_ts, NEW end_ts, Schedule(start_ts, end_ts)
  PROVE  UnlockedAmount(locked, early, start_ts, end_ts)
           <= UnlockedAmount(locked, late, start_ts, end_ts)
<1>1. locked \in Nat /\ early \in Int /\ late \in Int
      /\ start_ts \in Int /\ end_ts \in Int /\ I64Max \in Nat
  BY WidthAssumption DEF U64, Schedule
<1>2. /\ UnlockedAmount(locked, early, start_ts, end_ts) \in 0 .. locked
      /\ UnlockedAmount(locked, late, start_ts, end_ts) \in 0 .. locked
  BY UnlockedWithinLocked
<1>3. CASE early < start_ts
  <2>1. UnlockedAmount(locked, early, start_ts, end_ts) = 0
    BY <1>1, <1>3 DEF UnlockedAmount
  <2> QED
    BY <1>1, <1>2, <2>1
<1>4. CASE late >= start_ts /\ late >= end_ts
  <2>1. UnlockedAmount(locked, late, start_ts, end_ts) = locked
    BY <1>1, <1>4 DEF UnlockedAmount
  <2> QED
    BY <1>1, <1>2, <2>1
<1>5. CASE early >= start_ts /\ late < end_ts
  <2> DEFINE total == end_ts - start_ts
  <2>1. /\ total \in 1 .. I64Max /\ total \in Nat \ {0}
        /\ early - start_ts \in 0 .. total /\ early - start_ts \in Nat
        /\ late - start_ts \in 0 .. total /\ late - start_ts \in Nat
        /\ early - start_ts <= late - start_ts
    BY <1>1, <1>5 DEF Schedule
  <2>2. /\ UnlockedAmount(locked, early, start_ts, end_ts)
             = ProRata(locked, early - start_ts, total)
        /\ UnlockedAmount(locked, late, start_ts, end_ts)
             = ProRata(locked, late - start_ts, total)
    BY <1>1, <1>5 DEF UnlockedAmount
  <2> HIDE DEF total
  <2>3. /\ ProRata(locked, early - start_ts, total)
             = ((early - start_ts) * locked) \div total
        /\ ProRata(locked, late - start_ts, total)
             = ((late - start_ts) * locked) \div total
    BY <2>1, ProRataExact
  <2>4. /\ (early - start_ts) * locked \in Nat
        /\ (late - start_ts) * locked \in Nat
        /\ (early - start_ts) * locked <= (late - start_ts) * locked
    BY <1>1, <2>1, ProductMonotone
  <2>5. ((early - start_ts) * locked) \div total <= ((late - start_ts) * locked) \div total
    BY <2>1, <2>4, QuotientMonotone
  <2> QED
    BY <2>2, <2>3, <2>5
<1> QED
  BY <1>1, <1>3, <1>4, <1>5 DEF Schedule

-----------------------------------------------------------------------------
(* Types *)

(* A transfer the token program allows leaves every balance a u64.          *)
LEMMA TransferredType ==
  ASSUME TypeOK,
         NEW authority, NEW from \in TokenAccounts, NEW to \in TokenAccounts,
         NEW amount \in U64,
         TransferAllowed(authority, from, to, amount)
  PROVE  Transferred(from, to, amount) \in [TokenAccounts -> U64]
<1>1. /\ balance \in [TokenAccounts -> U64]
      /\ amount <= balance[from]
      /\ from # to => balance[to] + amount <= U64Max
  BY DEF TypeOK, TransferAllowed
<1>2. U64Max \in Nat
  BY WidthAssumption
<1>3. CASE from = to
  BY <1>1, <1>3 DEF Transferred
<1>4. CASE from # to
  <2>1. balance[from] - amount \in U64 /\ balance[to] + amount \in U64
    BY <1>1, <1>2, <1>4 DEF U64
  <2> QED
    BY <1>1, <1>4, <2>1 DEF Transferred
<1> QED
  BY <1>3, <1>4

(* An address that holds anything else than nothing holds the record.       *)
LEMMA ExistsType ==
  ASSUME TypeOK, NEW d \in Distributors, Exists(d)
  PROVE  distributor[d] \in MerkleDistributor
BY DEF TypeOK, Exists

LEMMA ClaimedType ==
  ASSUME TypeOK, NEW d \in Distributors, NEW k \in Claimed(d)
  PROVE  k \in Wallets /\ claim_status[d][k] \in ClaimWords
BY DEF TypeOK, Claimed

(* What claim_locked computes is a u64 or the error: an unlocked amount     *)
(* outside the schedule is zero or everything, inside it is a quotient      *)
(* reduced to the width of a u64.                                           *)
LEMMA UnlockedAmountType ==
  ASSUME NEW locked \in U64, NEW curr_ts \in I64, NEW start_ts \in I64, NEW end_ts \in I64
  PROVE  UnlockedAmount(locked, curr_ts, start_ts, end_ts) \in U64 \cup {ArithmeticError}
<1>1. U64Max \in Nat /\ I64Max \in Nat
  BY WidthAssumption
<1>2. ASSUME NEW p \in U128, NEW q \in I64 \ {0}, q > 0
      PROVE  (p \div q) % (U64Max + 1) \in U64
  <2>1. p \in Nat /\ q \in Nat \ {0}
    BY <1>1, <1>2 DEF U128, I64
  <2>2. p \div q \in Nat
    BY <2>1, QuotientBounds
  <2> QED
    BY <1>1, <2>2 DEF U64
<1>3. CASE curr_ts < start_ts \/ (curr_ts >= start_ts /\ curr_ts >= end_ts)
  BY <1>1, <1>3 DEF UnlockedAmount, U64, I64
<1>4. CASE curr_ts >= start_ts /\ curr_ts < end_ts
  <2> DEFINE t == curr_ts - start_ts
             total == end_ts - start_ts
  <2>1. UnlockedAmount(locked, curr_ts, start_ts, end_ts) = ProRata(locked, t, total)
    BY <1>1, <1>4 DEF UnlockedAmount, I64
  <2>2. total \in I64 \ {0} => total > 0
    BY <1>1, <1>4 DEF I64
  <2> HIDE DEF t, total
  <2>3. ProRata(locked, t, total) \in U64 \cup {ArithmeticError}
    BY <1>2, <2>2 DEF ProRata
  <2> QED
    BY <2>1, <2>3
<1> QED
  BY <1>1, <1>3, <1>4 DEF I64

LEMMA WithdrawableBounds ==
  ASSUME TypeOK, NEW d \in Distributors, NEW k \in Wallets,
         distributor[d] \in MerkleDistributor,
         claim_status[d][k] \in ClaimWords,
         Withdrawable(d, k) # ArithmeticError
  PROVE  /\ Withdrawable(d, k) \in U64
         /\ Withdrawable(d, k) =
              UnlockedAmount(LockedAmount(d, k), now,
                             distributor[d].start_ts, distributor[d].end_ts)
                - LockedAmountWithdrawn(d, k)
<1> DEFINE unlocked == UnlockedAmount(LockedAmount(d, k), now,
                                      distributor[d].start_ts, distributor[d].end_ts)
<1>1. /\ LockedAmount(d, k) \in U64
      /\ LockedAmountWithdrawn(d, k) \in U64
      /\ now \in I64
      /\ distributor[d].start_ts \in I64
      /\ distributor[d].end_ts \in I64
  BY WidthAssumption
     DEF TypeOK, MerkleDistributor, ClaimWords, LockedAmount, LockedAmountWithdrawn,
         UnixTime, I64
<1>2. unlocked \in U64 \cup {ArithmeticError}
  BY <1>1, UnlockedAmountType
<1>3. Withdrawable(d, k) =
        IF unlocked = ArithmeticError \/ unlocked < LockedAmountWithdrawn(d, k)
        THEN ArithmeticError ELSE unlocked - LockedAmountWithdrawn(d, k)
  BY DEF Withdrawable, AmountWithdrawable
<1> HIDE DEF unlocked
<1>4. /\ unlocked \in U64
      /\ unlocked >= LockedAmountWithdrawn(d, k)
      /\ Withdrawable(d, k) = unlocked - LockedAmountWithdrawn(d, k)
  BY <1>1, <1>2, <1>3, WidthAssumption DEF U64
<1> QED
  BY <1>1, <1>4, WidthAssumption DEF U64, unlocked

LEMMA InitType == Init => TypeOK
<1> SUFFICES ASSUME Init PROVE TypeOK
  OBVIOUS
<1>1. now \in UnixTime /\ open \subseteq TokenAccounts
  BY DEF Init
<1>2. balance \in [TokenAccounts -> U64]
  BY DataAssumption DEF Init
<1>3. distributor \in [Distributors -> MerkleDistributor \cup {NoAccount}]
  BY DEF Init
<1>4. claim_status \in
        [Distributors -> [Wallets -> ClaimWords \cup {NoAccount, LamportsOnly}]]
  BY DEF Init
<1> QED
  BY <1>1, <1>2, <1>3, <1>4 DEF TypeOK

LEMMA NewDistributorType ==
  ASSUME TypeOK,
         NEW d \in Distributors, NEW admin \in Wallets, NEW receiver \in TokenAccounts,
         NEW args \in NewDistributorArgs,
         NewDistributor(d, admin, receiver, args)
  PROVE  TypeOK'
<1>1. args \in Arguments
  BY DataAssumption
<1>2. 0 \in U64
  BY WidthAssumption DEF U64
<1>3. distributor' \in [Distributors -> MerkleDistributor \cup {NoAccount}]
  BY <1>1, <1>2 DEF TypeOK, NewDistributor, MerkleDistributor, Keys, Arguments
<1>4. open' \subseteq TokenAccounts
  <2>1. VaultOf[d] \in TokenAccounts
    BY AddressAssumption
  <2> QED
    BY <2>1 DEF TypeOK, NewDistributor
<1> QED
  BY <1>3, <1>4 DEF TypeOK, NewDistributor

LEMMA NewClaimType ==
  ASSUME TypeOK,
         NEW d \in Distributors, NEW leaf \in AllLeaves,
         NEW from \in TokenAccounts, NEW to \in TokenAccounts,
         NewClaim(d, leaf, from, to)
  PROVE  TypeOK'
<1>1. leaf \in Leaf
  BY DataAssumption DEF AllLeaves
<1>2. distributor[d] \in MerkleDistributor
  BY ExistsType DEF NewClaim
<1>3. /\ distributor[d].num_nodes_claimed + 1 \in U64
      /\ NewTotal(d, leaf.unlocked) \in U64
  BY <1>1, <1>2, WidthAssumption
     DEF NewClaim, NodeSlotFree, UnderMaxTotal, NewTotal, MerkleDistributor, Leaf, U64
<1>4. distributor' \in [Distributors -> MerkleDistributor \cup {NoAccount}]
  BY <1>2, <1>3 DEF TypeOK, NewClaim, MerkleDistributor
<1>5. WrittenStatus(leaf) \in ClaimWords
  BY <1>1, WidthAssumption DEF WrittenStatus, ClaimWords, Leaf, U64
<1>6. claim_status' \in
        [Distributors -> [Wallets -> ClaimWords \cup {NoAccount, LamportsOnly}]]
  BY <1>1, <1>5 DEF TypeOK, NewClaim, Leaf
<1>7. balance' \in [TokenAccounts -> U64]
  BY <1>1, TransferredType DEF NewClaim, Leaf
<1> QED
  BY <1>4, <1>6, <1>7 DEF TypeOK, NewClaim

LEMMA ClaimLockedType ==
  ASSUME TypeOK,
         NEW d \in Distributors, NEW k \in Wallets, NEW to \in TokenAccounts,
         ClaimLocked(d, k, to)
  PROVE  TypeOK'
<1> DEFINE amount == Withdrawable(d, k)
<1>1. /\ distributor[d] \in MerkleDistributor
      /\ claim_status[d][k] \in ClaimWords
      /\ VaultOf[d] \in TokenAccounts
  BY ExistsType, ClaimedType, AddressAssumption DEF ClaimLocked, StatusReadable
<1>2. amount \in U64
  BY <1>1, WithdrawableBounds DEF ClaimLocked
<1> HIDE DEF amount
<1>3. claim_status[d][k].at48 + amount \in U64
  BY <1>1, <1>2, WidthAssumption
     DEF ClaimLocked, ClaimWords, LockedAmount, LockedAmountWithdrawn, U64, amount
<1>4. NewTotal(d, amount) \in U64
  BY <1>1, <1>2, WidthAssumption
     DEF ClaimLocked, UnderMaxTotal, NewTotal, MerkleDistributor, U64, amount
<1>5. distributor' \in [Distributors -> MerkleDistributor \cup {NoAccount}]
  BY <1>1, <1>4 DEF TypeOK, ClaimLocked, MerkleDistributor, amount
<1>6. claim_status' \in
        [Distributors -> [Wallets -> ClaimWords \cup {NoAccount, LamportsOnly}]]
  BY <1>1, <1>3 DEF TypeOK, ClaimLocked, ClaimWords, amount
<1>7. balance' \in [TokenAccounts -> U64]
  BY <1>1, <1>2, TransferredType DEF ClaimLocked, amount
<1> QED
  BY <1>5, <1>6, <1>7 DEF TypeOK, ClaimLocked

LEMMA ClawbackType ==
  ASSUME TypeOK, NEW d \in Distributors, Clawback(d)
  PROVE  TypeOK'
<1>1. /\ distributor[d] \in MerkleDistributor
      /\ distributor[d].clawback_receiver \in TokenAccounts
      /\ VaultOf[d] \in TokenAccounts
  BY ExistsType, AddressAssumption DEF Clawback, MerkleDistributor
<1>2. balance[VaultOf[d]] \in U64
  BY <1>1 DEF TypeOK
<1>3. balance' \in [TokenAccounts -> U64]
  BY <1>1, <1>2, TransferredType DEF Clawback
<1>4. distributor' \in [Distributors -> MerkleDistributor \cup {NoAccount}]
  BY <1>1 DEF TypeOK, Clawback, MerkleDistributor
<1> QED
  BY <1>3, <1>4 DEF TypeOK, Clawback

LEMMA SetClawbackReceiverType ==
  ASSUME TypeOK,
         NEW d \in Distributors, NEW signer \in Wallets, NEW a \in TokenAccounts,
         SetClawbackReceiver(d, signer, a)
  PROVE  TypeOK'
<1>1. distributor[d] \in MerkleDistributor
  BY ExistsType DEF SetClawbackReceiver
<1> QED
  BY <1>1 DEF TypeOK, SetClawbackReceiver, MerkleDistributor

LEMMA SetAdminType ==
  ASSUME TypeOK,
         NEW d \in Distributors, NEW signer \in Wallets, NEW new_admin \in Keys,
         SetAdmin(d, signer, new_admin)
  PROVE  TypeOK'
<1>1. distributor[d] \in MerkleDistributor
  BY ExistsType DEF SetAdmin
<1> QED
  BY <1>1 DEF TypeOK, SetAdmin, MerkleDistributor

LEMMA EnvironmentType ==
  ASSUME TypeOK, Environment
  PROVE  TypeOK'
<1>1. CASE Tick
  BY <1>1, WidthAssumption DEF TypeOK, Tick, UnixTime
<1>2. ASSUME NEW from \in TokenAccounts, NEW to \in TokenAccounts,
             NEW amount \in TransferAmounts,
             WalletTransfer(from, to, amount)
      PROVE  TypeOK'
  <2>1. amount \in U64
    BY DataAssumption
  <2>2. balance' \in [TokenAccounts -> U64]
    BY <1>2, <2>1, TransferredType DEF WalletTransfer
  <2> QED
    BY <1>2, <2>2 DEF TypeOK, WalletTransfer
<1>3. ASSUME NEW a \in TokenAccounts, CreateAccount(a) \/ CloseAccount(a)
      PROVE  TypeOK'
  BY <1>3 DEF TypeOK, CreateAccount, CloseAccount
<1>4. ASSUME NEW d \in Distributors, NEW k \in Wallets, Prefund(d, k)
      PROVE  TypeOK'
  BY <1>4 DEF TypeOK, Prefund
<1> QED
  BY <1>1, <1>2, <1>3, <1>4, AddressAssumption DEF Environment

(* Every value the program keeps stays in the range of its field: no        *)
(* counter, amount or balance ever wraps, in any sequence of instructions.  *)
THEOREM TypeCorrect == Spec => []TypeOK
<1>1. TypeOK /\ [Next]_vars => TypeOK'
  <2> SUFFICES ASSUME TypeOK, [Next]_vars PROVE TypeOK'
    OBVIOUS
  <2>1. CASE Instruction
    BY <2>1, NewDistributorType, NewClaimType, ClaimLockedType, ClawbackType,
       SetClawbackReceiverType, SetAdminType DEF Instruction
  <2>2. CASE Environment
    BY <2>2, EnvironmentType
  <2>3. CASE UNCHANGED vars
    BY <2>3 DEF TypeOK, vars
  <2> QED
    BY <2>1, <2>2, <2>3 DEF Next
<1> QED
  BY <1>1, InitType, PTL DEF Spec

-----------------------------------------------------------------------------
(* Steps *)

(* The step that Next takes is one instruction or one environment action,   *)
(* and after it the state is typed again.                                   *)
LEMMA NextType == ASSUME TypeOK, Next PROVE TypeOK'
BY NewDistributorType, NewClaimType, ClaimLockedType, ClawbackType,
   SetClawbackReceiverType, SetAdminType, EnvironmentType DEF Next, Instruction

-----------------------------------------------------------------------------
(* What is kept *)

(* new is old but for what the instructions may change.                     *)
Continues(old, new) ==
  /\ new \in MerkleDistributor
  /\ new.root = old.root
  /\ new.max_total_claim = old.max_total_claim
  /\ new.max_num_nodes = old.max_num_nodes
  /\ new.start_ts = old.start_ts
  /\ new.end_ts = old.end_ts
  /\ new.clawback_start_ts = old.clawback_start_ts
  /\ old.total_amount_claimed <= new.total_amount_claimed
  /\ old.num_nodes_claimed <= new.num_nodes_claimed
  /\ old.clawed_back => new.clawed_back

LEMMA ContinuesSelf ==
  ASSUME NEW r \in MerkleDistributor PROVE Continues(r, r)
BY WidthAssumption DEF Continues, MerkleDistributor, U64

LEMMA NewClaimContinues ==
  ASSUME TypeOK, NEW d \in Distributors, NEW leaf \in AllLeaves,
         NEW from \in TokenAccounts, NEW to \in TokenAccounts,
         NewClaim(d, leaf, from, to)
  PROVE  /\ leaf \in Leaf
         /\ distributor'[d] = [distributor[d] EXCEPT
              !.num_nodes_claimed = distributor[d].num_nodes_claimed + 1,
              !.total_amount_claimed = distributor[d].total_amount_claimed + leaf.unlocked]
         /\ Continues(distributor[d], distributor'[d])
<1>1. leaf \in Leaf /\ distributor[d] \in MerkleDistributor
  BY ExistsType, DataAssumption DEF AllLeaves, NewClaim
<1>2. distributor'[d] = [distributor[d] EXCEPT
        !.num_nodes_claimed = distributor[d].num_nodes_claimed + 1,
        !.total_amount_claimed = distributor[d].total_amount_claimed + leaf.unlocked]
  BY <1>1 DEF TypeOK, NewClaim, NewTotal, MerkleDistributor
<1>3. /\ distributor[d].num_nodes_claimed + 1 \in U64
      /\ distributor[d].total_amount_claimed + leaf.unlocked \in U64
  BY <1>1, WidthAssumption
     DEF NewClaim, NodeSlotFree, UnderMaxTotal, NewTotal, MerkleDistributor, Leaf, U64
<1>4. Continues(distributor[d], distributor'[d])
  <2> DEFINE old == distributor[d]
             new == distributor'[d]
  <2>1. new \in MerkleDistributor
    BY <1>1, <1>2, <1>3 DEF MerkleDistributor
  <2>2. /\ old.total_amount_claimed <= old.total_amount_claimed + leaf.unlocked
        /\ old.num_nodes_claimed <= old.num_nodes_claimed + 1
    BY <1>1, WidthAssumption DEF MerkleDistributor, Leaf, U64
  <2>3. /\ new.total_amount_claimed = old.total_amount_claimed + leaf.unlocked
        /\ new.num_nodes_claimed = old.num_nodes_claimed + 1
        /\ new.root = old.root
        /\ new.max_total_claim = old.max_total_claim
        /\ new.max_num_nodes = old.max_num_nodes
        /\ new.start_ts = old.start_ts
        /\ new.end_ts = old.end_ts
        /\ new.clawback_start_ts = old.clawback_start_ts
        /\ new.clawed_back = old.clawed_back
    BY <1>1, <1>2 DEF MerkleDistributor
  <2> QED
    BY <2>1, <2>2, <2>3 DEF Continues
<1> QED
  BY <1>1, <1>2, <1>4

LEMMA ClaimLockedContinues ==
  ASSUME TypeOK, NEW d \in Distributors, NEW k \in Wallets, NEW to \in TokenAccounts,
         ClaimLocked(d, k, to)
  PROVE  /\ Withdrawable(d, k) \in U64
         /\ distributor'[d] = [distributor[d] EXCEPT
              !.total_amount_claimed =
                 distributor[d].total_amount_claimed + Withdrawable(d, k)]
         /\ Continues(distributor[d], distributor'[d])
         /\ claim_status'[d][k] = [claim_status[d][k] EXCEPT
              !.at48 = claim_status[d][k].at48 + Withdrawable(d, k)]
         /\ claim_status'[d][k] \in ClaimWords
<1>1. distributor[d] \in MerkleDistributor /\ claim_status[d][k] \in ClaimWords
  BY ExistsType, ClaimedType DEF ClaimLocked, StatusReadable
<1>2. Withdrawable(d, k) \in U64
  BY <1>1, WithdrawableBounds DEF ClaimLocked
<1>3. distributor'[d] = [distributor[d] EXCEPT
        !.total_amount_claimed = distributor[d].total_amount_claimed + Withdrawable(d, k)]
  BY <1>1 DEF TypeOK, ClaimLocked, NewTotal, MerkleDistributor
<1>4. claim_status'[d][k] = [claim_status[d][k] EXCEPT
        !.at48 = claim_status[d][k].at48 + Withdrawable(d, k)]
  BY <1>1 DEF TypeOK, ClaimLocked, ClaimWords
<1>5. /\ distributor[d].total_amount_claimed + Withdrawable(d, k) \in U64
      /\ claim_status[d][k].at48 + Withdrawable(d, k) \in U64
  BY <1>1, <1>2, WidthAssumption
     DEF ClaimLocked, UnderMaxTotal, NewTotal, LockedAmount, LockedAmountWithdrawn,
         MerkleDistributor, ClaimWords, U64
<1>6. Continues(distributor[d], distributor'[d])
  BY <1>1, <1>2, <1>3, <1>5, WidthAssumption DEF Continues, MerkleDistributor, U64
<1>7. claim_status'[d][k] \in ClaimWords
  BY <1>1, <1>4, <1>5 DEF ClaimWords
<1> QED
  BY <1>2, <1>3, <1>4, <1>6, <1>7

LEMMA DistributorContinues ==
  ASSUME TypeOK, Next, NEW e \in Distributors, Exists(e)
  PROVE  Continues(distributor[e], distributor'[e])
<1>1. distributor[e] \in MerkleDistributor
  BY ExistsType
<1>2. distributor'[e] = distributor[e] => Continues(distributor[e], distributor'[e])
  BY <1>1, ContinuesSelf
<1>3. ASSUME NEW d \in Distributors, NEW admin \in Wallets, NEW receiver \in TokenAccounts,
             NEW args \in NewDistributorArgs, NewDistributor(d, admin, receiver, args)
      PROVE  distributor'[e] = distributor[e]
  BY <1>3 DEF TypeOK, NewDistributor, Exists
<1>4. ASSUME NEW d \in Distributors, NEW leaf \in AllLeaves,
             NEW from \in TokenAccounts, NEW to \in TokenAccounts,
             NewClaim(d, leaf, from, to)
      PROVE  Continues(distributor[e], distributor'[e])
  <2>1. d # e => distributor'[e] = distributor[e]
    BY <1>4 DEF TypeOK, NewClaim
  <2> QED
    BY <1>2, <1>4, <2>1, NewClaimContinues
<1>5. ASSUME NEW d \in Distributors, NEW k \in Wallets, NEW to \in TokenAccounts,
             ClaimLocked(d, k, to)
      PROVE  Continues(distributor[e], distributor'[e])
  <2>1. d # e => distributor'[e] = distributor[e]
    BY <1>5 DEF TypeOK, ClaimLocked
  <2> QED
    BY <1>2, <1>5, <2>1, ClaimLockedContinues
<1>6. ASSUME NEW d \in Distributors, Clawback(d)
      PROVE  Continues(distributor[e], distributor'[e])
  <2>1. d # e => distributor'[e] = distributor[e]
    BY <1>6 DEF TypeOK, Clawback
  <2>2. CASE d = e
    <3> DEFINE old == distributor[e]
               new == distributor'[e]
    <3>1. new = [old EXCEPT !.clawed_back = TRUE]
      BY <1>6, <2>2 DEF TypeOK, Clawback
    <3>2. new \in MerkleDistributor
      BY <1>1, <3>1 DEF MerkleDistributor
    <3>3. /\ new.total_amount_claimed = old.total_amount_claimed
          /\ new.num_nodes_claimed = old.num_nodes_claimed
          /\ new.root = old.root
          /\ new.max_total_claim = old.max_total_claim
          /\ new.max_num_nodes = old.max_num_nodes
          /\ new.start_ts = old.start_ts
          /\ new.end_ts = old.end_ts
          /\ new.clawback_start_ts = old.clawback_start_ts
          /\ new.clawed_back = TRUE
      BY <1>1, <3>1 DEF MerkleDistributor
    <3>4. /\ old.total_amount_claimed <= old.total_amount_claimed
          /\ old.num_nodes_claimed <= old.num_nodes_claimed
      BY <1>1, WidthAssumption DEF MerkleDistributor, U64
    <3> QED
      BY <3>2, <3>3, <3>4 DEF Continues
  <2> QED
    BY <1>2, <2>1, <2>2
<1>7. ASSUME NEW d \in Distributors, NEW signer \in Wallets, NEW a \in TokenAccounts,
             SetClawbackReceiver(d, signer, a)
      PROVE  Continues(distributor[e], distributor'[e])
  <2>1. d # e => distributor'[e] = distributor[e]
    BY <1>7 DEF TypeOK, SetClawbackReceiver
  <2>2. d = e => distributor'[e] = [distributor[e] EXCEPT !.clawback_receiver = a]
    BY <1>7 DEF TypeOK, SetClawbackReceiver
  <2> QED
    BY <1>1, <1>2, <2>1, <2>2, WidthAssumption DEF Continues, MerkleDistributor, U64
<1>8. ASSUME NEW d \in Distributors, NEW signer \in Wallets, NEW new_admin \in Keys,
             SetAdmin(d, signer, new_admin)
      PROVE  Continues(distributor[e], distributor'[e])
  <2>1. d # e => distributor'[e] = distributor[e]
    BY <1>8 DEF TypeOK, SetAdmin
  <2>2. d = e => distributor'[e] = [distributor[e] EXCEPT !.admin = new_admin]
    BY <1>8 DEF TypeOK, SetAdmin
  <2> QED
    BY <1>1, <1>2, <2>1, <2>2, WidthAssumption DEF Continues, MerkleDistributor, U64
<1>9. CASE Environment
  <2>1. distributor' = distributor
    BY <1>9 DEF Environment, Tick, WalletTransfer, CreateAccount, CloseAccount, Prefund
  <2> QED
    BY <1>2, <2>1
<1> QED
  BY <1>2, <1>3, <1>4, <1>5, <1>6, <1>7, <1>8, <1>9 DEF Next, Instruction

LEMMA StatusContinues ==
  ASSUME TypeOK, Next, NEW e \in Distributors, NEW j \in Claimed(e)
  PROVE  /\ j \in Claimed(e)'
         /\ claim_status'[e][j].at32 = claim_status[e][j].at32
         /\ claim_status'[e][j].at40 = claim_status[e][j].at40
         /\ claim_status[e][j].at48 <= claim_status'[e][j].at48
<1>1. j \in Wallets /\ claim_status[e][j] \in ClaimWords
  BY ClaimedType
<1> DEFINE Goal == /\ claim_status'[e][j] \in ClaimWords
                   /\ claim_status'[e][j].at32 = claim_status[e][j].at32
                   /\ claim_status'[e][j].at40 = claim_status[e][j].at40
                   /\ claim_status[e][j].at48 <= claim_status'[e][j].at48
<1>2. claim_status'[e][j] = claim_status[e][j] => Goal
  BY <1>1, WidthAssumption DEF ClaimWords, U64
<1>3. ASSUME NEW d \in Distributors, NEW leaf \in AllLeaves,
             NEW from \in TokenAccounts, NEW to \in TokenAccounts,
             NewClaim(d, leaf, from, to)
      PROVE  Goal
  <2>1. leaf.claimant \in Wallets
    BY DataAssumption DEF AllLeaves, Leaf
  <2>2. ~(d = e /\ leaf.claimant = j)
    BY <1>3 DEF NewClaim, StatusAddressFree, Claimed
  <2>3. claim_status'[e][j] = claim_status[e][j]
    BY <1>1, <1>3, <2>1, <2>2 DEF TypeOK, NewClaim
  <2> QED
    BY <1>2, <2>3
<1>4. ASSUME NEW d \in Distributors, NEW k \in Wallets, NEW to \in TokenAccounts,
             ClaimLocked(d, k, to)
      PROVE  Goal
  <2>1. ~(d = e /\ k = j) => claim_status'[e][j] = claim_status[e][j]
    BY <1>1, <1>4 DEF TypeOK, ClaimLocked
  <2>2. CASE d = e /\ k = j
    <3>1. /\ Withdrawable(e, j) \in U64
          /\ claim_status'[e][j] \in ClaimWords
          /\ claim_status'[e][j] = [claim_status[e][j] EXCEPT
               !.at48 = claim_status[e][j].at48 + Withdrawable(e, j)]
      BY <1>4, <2>2, ClaimLockedContinues
    <3> QED
      BY <1>1, <3>1, WidthAssumption DEF ClaimWords, U64
  <2> QED
    BY <1>2, <2>1, <2>2
<1>5. ASSUME NEW d \in Distributors, NEW k \in Wallets, Prefund(d, k)
      PROVE  claim_status'[e][j] = claim_status[e][j]
  <2>1. ~(d = e /\ k = j)
    BY <1>5, AccountAssumption DEF Prefund, Claimed
  <2> QED
    BY <1>1, <1>5, <2>1 DEF TypeOK, Prefund
<1>6. Goal
  <2>1. CASE claim_status' = claim_status
    BY <1>2, <2>1
  <2> QED
    BY <1>2, <1>3, <1>4, <1>5, <2>1
       DEF Next, Instruction, Environment, NewDistributor, Clawback, SetClawbackReceiver,
           SetAdmin, Tick, WalletTransfer, CreateAccount, CloseAccount
<1> QED
  BY <1>1, <1>6, AccountAssumption DEF Claimed

(* Grants are kept by every instruction, in particular by a second          *)
(* new_distributor or new_claim at the same address.                        *)
THEOREM GrantsAreKept == Spec => GrantsKept
<1>1. TypeOK /\ [Next]_vars => [KeepsGrants]_vars
  <2> SUFFICES ASSUME TypeOK, Next PROVE KeepsGrants
    OBVIOUS
  <2>1. ASSUME NEW d \in Distributors, Exists(d)
        PROVE  Continues(distributor[d], distributor'[d])
    BY <2>1, DistributorContinues
  <2>2. ASSUME NEW d \in Distributors, NEW k \in Claimed(d)
        PROVE  /\ claim_status'[d][k].at32 = claim_status[d][k].at32
               /\ claim_status'[d][k].at40 = claim_status[d][k].at40
               /\ claim_status[d][k].at48 <= claim_status'[d][k].at48
    BY StatusContinues
  <2> QED
    BY <2>1, <2>2 DEF KeepsGrants, Continues
<1> QED
  BY <1>1, TypeCorrect, PTL DEF Spec, GrantsKept

-----------------------------------------------------------------------------
(* Where tokens go *)

(* Only the source of a transfer loses tokens, and only the amount.         *)
LEMMA TransferSource ==
  ASSUME TypeOK,
         NEW authority, NEW from \in TokenAccounts, NEW to \in TokenAccounts,
         NEW amount \in U64,
         TransferAllowed(authority, from, to, amount),
         balance' = Transferred(from, to, amount),
         NEW a \in TokenAccounts, balance'[a] < balance[a]
  PROVE  /\ a = from
         /\ OwnerOf[a] = authority
         /\ balance[a] - balance'[a] = amount
<1>1. balance \in [TokenAccounts -> U64] /\ U64Max \in Nat
  BY WidthAssumption DEF TypeOK
<1>2. from # to
  BY <1>1 DEF Transferred, U64
<1>3. balance' = [balance EXCEPT ![from] = balance[from] - amount,
                                ![to] = balance[to] + amount]
  BY <1>1, <1>2 DEF Transferred
<1>4. a = from
  BY <1>1, <1>2, <1>3 DEF U64
<1> QED
  BY <1>1, <1>2, <1>3, <1>4 DEF TransferAllowed, U64

LEMMA OutflowStep == ASSUME TypeOK, Next PROVE AccountsOutflow
<1> SUFFICES ASSUME NEW d \in Distributors, NEW a \in TokenAccounts,
                    OwnerOf[a] = d, balance'[a] < balance[a]
             PROVE  /\ Exists(d)
                    /\ ~distributor[d].clawed_back
                    /\ IF distributor'[d].clawed_back
                       THEN a = VaultOf[d] /\ balance'[a] = 0
                       ELSE balance[a] - balance'[a] =
                              distributor'[d].total_amount_claimed
                                - distributor[d].total_amount_claimed
  BY DEF AccountsOutflow
<1> DEFINE Goal == /\ Exists(d)
                   /\ ~distributor[d].clawed_back
                   /\ IF distributor'[d].clawed_back
                      THEN a = VaultOf[d] /\ balance'[a] = 0
                      ELSE balance[a] - balance'[a] =
                             distributor'[d].total_amount_claimed
                               - distributor[d].total_amount_claimed
<1>1. balance' # balance
  <2>1. balance[a] \in Int
    BY WidthAssumption DEF TypeOK, U64
  <2> QED
    BY <2>1
<1>2. ASSUME NEW e \in Distributors, NEW leaf \in AllLeaves,
             NEW from \in TokenAccounts, NEW to \in TokenAccounts,
             NewClaim(e, leaf, from, to)
      PROVE  Goal
  <2>1. /\ leaf \in Leaf
        /\ distributor'[e] = [distributor[e] EXCEPT
             !.num_nodes_claimed = distributor[e].num_nodes_claimed + 1,
             !.total_amount_claimed = distributor[e].total_amount_claimed + leaf.unlocked]
    BY <1>2, NewClaimContinues
  <2>2. d = e /\ balance[a] - balance'[a] = leaf.unlocked
    BY <1>2, <2>1, TransferSource DEF NewClaim, Leaf
  <2>3. distributor[d] \in MerkleDistributor /\ Exists(d) /\ ~distributor[d].clawed_back
    BY <1>2, <2>2, ExistsType DEF NewClaim
  <2>4. /\ distributor'[d].clawed_back = distributor[d].clawed_back
        /\ distributor'[d].total_amount_claimed
             = distributor[d].total_amount_claimed + leaf.unlocked
    BY <2>1, <2>2, <2>3 DEF MerkleDistributor
  <2>5. distributor[d].total_amount_claimed \in Int /\ leaf.unlocked \in Int
    BY <2>1, <2>3, WidthAssumption DEF MerkleDistributor, Leaf, U64
  <2> QED
    BY <2>2, <2>3, <2>4, <2>5
<1>3. ASSUME NEW e \in Distributors, NEW k \in Wallets, NEW to \in TokenAccounts,
             ClaimLocked(e, k, to)
      PROVE  Goal
  <2>1. /\ Withdrawable(e, k) \in U64
        /\ distributor'[e] = [distributor[e] EXCEPT
             !.total_amount_claimed =
                distributor[e].total_amount_claimed + Withdrawable(e, k)]
    BY <1>3, ClaimLockedContinues
  <2>2. VaultOf[e] \in TokenAccounts
    BY AddressAssumption
  <2>3. d = e /\ balance[a] - balance'[a] = Withdrawable(e, k)
    BY <1>3, <2>1, <2>2, TransferSource DEF ClaimLocked
  <2>4. distributor[d] \in MerkleDistributor /\ Exists(d) /\ ~distributor[d].clawed_back
    BY <1>3, <2>3, ExistsType DEF ClaimLocked
  <2>5. /\ distributor'[d].clawed_back = distributor[d].clawed_back
        /\ distributor'[d].total_amount_claimed
             = distributor[d].total_amount_claimed + Withdrawable(e, k)
    BY <2>1, <2>3, <2>4 DEF MerkleDistributor
  <2>6. distributor[d].total_amount_claimed \in Int /\ Withdrawable(e, k) \in Int
    BY <2>1, <2>4, WidthAssumption DEF MerkleDistributor, U64
  <2> QED
    BY <2>3, <2>4, <2>5, <2>6
<1>4. ASSUME NEW e \in Distributors, Clawback(e)
      PROVE  Goal
  <2>1. /\ VaultOf[e] \in TokenAccounts
        /\ distributor[e] \in MerkleDistributor
        /\ distributor[e].clawback_receiver \in TokenAccounts
    BY <1>4, AddressAssumption, ExistsType DEF Clawback, MerkleDistributor
  <2>2. balance[VaultOf[e]] \in U64
    BY <2>1 DEF TypeOK
  <2>3. /\ a = VaultOf[e]
        /\ d = e
        /\ balance[a] - balance'[a] = balance[VaultOf[e]]
    BY <1>4, <2>1, <2>2, TransferSource DEF Clawback
  <2>4. balance'[a] = 0
    <3>1. balance[a] \in Int /\ balance'[a] \in Int
      BY NextType, WidthAssumption DEF TypeOK, U64
    <3> QED
      BY <2>3, <3>1
  <2>5. distributor'[d].clawed_back = TRUE
    BY <1>4, <2>1, <2>3 DEF TypeOK, Clawback, MerkleDistributor
  <2> QED
    BY <1>4, <2>3, <2>4, <2>5 DEF Clawback
<1>5. ASSUME NEW from \in TokenAccounts, NEW to \in TokenAccounts,
             NEW amount \in TransferAmounts,
             WalletTransfer(from, to, amount)
      PROVE  FALSE
  <2>1. amount \in U64
    BY DataAssumption
  <2>2. OwnerOf[a] \in Wallets
    BY <1>5, <2>1, TransferSource DEF WalletTransfer
  <2> QED
    BY <2>2, AddressAssumption
<1> QED
  BY <1>1, <1>2, <1>3, <1>4, <1>5
     DEF Next, Instruction, Environment, NewDistributor, SetClawbackReceiver, SetAdmin,
         Tick, CreateAccount, CloseAccount, Prefund

(* Tokens leave the accounts of a distributor only as payments counted in   *)
(* its own total or in its one clawback.                                    *)
THEOREM OutflowIsAccounted == Spec => OutflowAccounted
<1>1. TypeOK /\ [Next]_vars => [AccountsOutflow]_vars
  BY OutflowStep
<1> QED
  BY <1>1, TypeCorrect, PTL DEF Spec, OutflowAccounted

(* What leaves the vault is counted, and the cap is kept.                   *)
LEMMA SolvencyStep == ASSUME TypeOK, Next PROVE KeepsSolvency
<1> SUFFICES ASSUME NEW d \in Distributors,
                    Exists(d),
                    Outstanding(d) <= balance[VaultOf[d]],
                    ~distributor'[d].clawed_back
             PROVE  (Outstanding(d) <= balance[VaultOf[d]])'
  BY DEF KeepsSolvency
<1> DEFINE v == VaultOf[d]
           old == distributor[d]
           new == distributor'[d]
<1>1. v \in TokenAccounts /\ OwnerOf[v] = d
  BY AddressAssumption
<1>2. /\ Continues(old, new)
      /\ old \in MerkleDistributor
  BY DistributorContinues, ExistsType
<1>3. /\ balance[v] \in Int /\ balance'[v] \in Int
      /\ old.total_amount_claimed \in Int /\ old.max_total_claim \in Int
      /\ new.total_amount_claimed \in Int
      /\ new.max_total_claim = old.max_total_claim
      /\ old.total_amount_claimed <= new.total_amount_claimed
  BY <1>1, <1>2, NextType, WidthAssumption
     DEF TypeOK, Continues, MerkleDistributor, U64
<1>4. balance'[v] < balance[v] =>
        balance[v] - balance'[v] = new.total_amount_claimed - old.total_amount_claimed
  BY <1>1, OutflowStep DEF AccountsOutflow
<1>5. new.max_total_claim - new.total_amount_claimed <= balance'[v]
  <2>1. old.max_total_claim - old.total_amount_claimed <= balance[v]
    BY DEF Outstanding
  <2> HIDE DEF old, new, v
  <2> QED
    BY <1>3, <1>4, <2>1
<1> QED
  BY <1>5 DEF Outstanding

(* A funded vault stays funded: follows from the accounting of outflows and *)
(* from the caps being kept.                                                *)
THEOREM SolvencyIsKept == Spec => SolvencyKept
<1>1. TypeOK /\ [Next]_vars => [KeepsSolvency]_vars
  BY SolvencyStep
<1> QED
  BY <1>1, TypeCorrect, PTL DEF Spec, SolvencyKept

-----------------------------------------------------------------------------
(* The inductive invariant: the properties the runs check, strengthened by  *)
(* what new_distributor asked of the schedule and by the moment a clawback  *)
(* was due.                                                                 *)

ScheduleAccepted ==
  \A d \in Distributors : Exists(d) =>
    /\ Schedule(distributor[d].start_ts, distributor[d].end_ts)
    /\ distributor[d].end_ts + SecondsPerDay <= distributor[d].clawback_start_ts

ClawbackWasDue ==
  \A d \in Distributors : Exists(d) /\ distributor[d].clawed_back => ClawbackOpen(d)

ClaimsHaveDistributor ==
  \A d \in Distributors : Claimed(d) # {} => Exists(d)

Inv ==
  /\ TypeOK
  /\ ScheduleAccepted
  /\ ClawbackWasDue
  /\ ClaimsHaveDistributor
  /\ ClaimBackedByLeaf
  /\ VestingRespected
  /\ NodesCounted

LEMMA NothingClaimed ==
  ASSUME Init, NEW d \in Distributors
  PROVE  ~Exists(d) /\ Claimed(d) = {}
BY DEF Init, Exists, Claimed

LEMMA InitInv == Init => Inv
<1> SUFFICES ASSUME Init PROVE Inv
  OBVIOUS
<1>1. TypeOK
  BY InitType
<1> QED
  BY <1>1, NothingClaimed
     DEF Inv, ScheduleAccepted, ClawbackWasDue, ClaimsHaveDistributor, ClaimBackedByLeaf,
         VestingRespected, NodesCounted

(* The clock never goes back.                                               *)
LEMMA ClockStep == ASSUME TypeOK, Next PROVE now \in Nat /\ now' \in Nat /\ now <= now'
<1>1. now \in Nat /\ now' \in Nat
  BY NextType, WidthAssumption DEF TypeOK, UnixTime
<1>2. CASE Tick
  BY <1>1, <1>2, WidthAssumption DEF Tick
<1>3. CASE now' = now
  BY <1>1, <1>3
<1>4. Instruction => now' = now
  BY DEF Instruction, NewDistributor, NewClaim, ClaimLocked, Clawback, SetClawbackReceiver,
         SetAdmin
<1>5. Environment => Tick \/ now' = now
  BY DEF Environment, WalletTransfer, CreateAccount, CloseAccount, Prefund
<1> QED
  BY <1>2, <1>3, <1>4, <1>5 DEF Next

(* A distributor that appears in a step is one new_distributor made.        *)
LEMMA Appears ==
  ASSUME TypeOK, Next, NEW d \in Distributors, ~Exists(d), Exists(d)'
  PROVE  /\ Schedule(distributor'[d].start_ts, distributor'[d].end_ts)
         /\ distributor'[d].end_ts + SecondsPerDay <= distributor'[d].clawback_start_ts
         /\ distributor'[d].clawed_back = FALSE
         /\ distributor'[d].num_nodes_claimed = 0
         /\ distributor'[d].total_amount_claimed = 0
         /\ distributor'[d] \in MerkleDistributor
         /\ claim_status' = claim_status
         /\ VaultOf[d] \in open'
<1>1. ASSUME NEW e \in Distributors, NEW admin \in Wallets, NEW receiver \in TokenAccounts,
             NEW args \in NewDistributorArgs, NewDistributor(e, admin, receiver, args)
      PROVE  \E a \in NewDistributorArgs :
               /\ TimestampsAccepted(a)
               /\ distributor'[d].start_ts = a.start_ts
               /\ distributor'[d].end_ts = a.end_ts
               /\ distributor'[d].clawback_start_ts = a.clawback_start_ts
               /\ distributor'[d].clawed_back = FALSE
               /\ distributor'[d].num_nodes_claimed = 0
               /\ distributor'[d].total_amount_claimed = 0
               /\ claim_status' = claim_status
               /\ VaultOf[d] \in open'
  <2>1. e = d
    BY <1>1 DEF TypeOK, NewDistributor, Exists
  <2> QED
    BY <1>1, <2>1 DEF TypeOK, NewDistributor
<1>2. ASSUME NEW e \in Distributors, Exists(e),
             \A x \in Distributors \ {e} : distributor'[x] = distributor[x]
      PROVE  FALSE
  BY <1>2 DEF Exists
<1>3. distributor' # distributor
  BY DEF Exists
<1>4. ASSUME NEW e \in Distributors, NEW leaf \in AllLeaves,
             NEW from \in TokenAccounts, NEW to \in TokenAccounts,
             NewClaim(e, leaf, from, to)
      PROVE  FALSE
  BY <1>2, <1>4 DEF TypeOK, NewClaim
<1>5. ASSUME NEW e \in Distributors, NEW k \in Wallets, NEW to \in TokenAccounts,
             ClaimLocked(e, k, to)
      PROVE  FALSE
  BY <1>2, <1>5 DEF TypeOK, ClaimLocked
<1>6. ASSUME NEW e \in Distributors, Clawback(e)
      PROVE  FALSE
  BY <1>2, <1>6 DEF TypeOK, Clawback
<1>7. ASSUME NEW e \in Distributors, NEW signer \in Wallets, NEW a \in TokenAccounts,
             SetClawbackReceiver(e, signer, a)
      PROVE  FALSE
  BY <1>2, <1>7 DEF TypeOK, SetClawbackReceiver
<1>8. ASSUME NEW e \in Distributors, NEW signer \in Wallets, NEW new_admin \in Keys,
             SetAdmin(e, signer, new_admin)
      PROVE  FALSE
  BY <1>2, <1>8 DEF TypeOK, SetAdmin
<1>9. PICK args \in NewDistributorArgs :
               /\ TimestampsAccepted(args)
               /\ distributor'[d].start_ts = args.start_ts
               /\ distributor'[d].end_ts = args.end_ts
               /\ distributor'[d].clawback_start_ts = args.clawback_start_ts
               /\ distributor'[d].clawed_back = FALSE
               /\ distributor'[d].num_nodes_claimed = 0
               /\ distributor'[d].total_amount_claimed = 0
               /\ claim_status' = claim_status
               /\ VaultOf[d] \in open'
  BY <1>1, <1>3, <1>4, <1>5, <1>6, <1>7, <1>8
     DEF Next, Instruction, Environment, Tick, WalletTransfer, CreateAccount, CloseAccount, Prefund
<1>10. args \in Arguments /\ now \in Nat
  BY DataAssumption, WidthAssumption DEF TypeOK, UnixTime
<1>11. Schedule(args.start_ts, args.end_ts)
  BY <1>9, <1>10, WidthAssumption DEF TimestampsAccepted, Schedule, Arguments, I64
<1>12. distributor'[d] \in MerkleDistributor
  BY NextType DEF TypeOK, Exists
<1> QED
  BY <1>9, <1>11, <1>12 DEF TimestampsAccepted

LEMMA ScheduleStep == ASSUME Inv, Next PROVE ScheduleAccepted'
<1> SUFFICES ASSUME NEW d \in Distributors, Exists(d)'
             PROVE  /\ Schedule(distributor'[d].start_ts, distributor'[d].end_ts)
                    /\ distributor'[d].end_ts + SecondsPerDay
                          <= distributor'[d].clawback_start_ts
  BY DEF ScheduleAccepted, Schedule
<1>1. CASE Exists(d)
  BY <1>1, DistributorContinues DEF Inv, ScheduleAccepted, Continues
<1>2. CASE ~Exists(d)
  BY <1>2, Appears DEF Inv
<1> QED
  BY <1>1, <1>2

LEMMA ClawbackDueStep == ASSUME Inv, Next PROVE ClawbackWasDue'
<1> SUFFICES ASSUME NEW d \in Distributors, Exists(d)', distributor'[d].clawed_back
             PROVE  now' >= distributor'[d].clawback_start_ts
  BY DEF ClawbackWasDue, ClawbackOpen
<1>1. TypeOK /\ now \in Int /\ now' \in Int /\ now <= now'
  BY ClockStep DEF Inv
<1>2. Exists(d)
  BY <1>1, Appears
<1>3. /\ distributor[d] \in MerkleDistributor
      /\ distributor[d].clawback_start_ts \in Int
      /\ distributor'[d].clawback_start_ts = distributor[d].clawback_start_ts
  BY <1>1, <1>2, ExistsType, DistributorContinues, WidthAssumption
     DEF Continues, MerkleDistributor, I64
<1>4. CASE distributor[d].clawed_back
  BY <1>1, <1>2, <1>3, <1>4 DEF Inv, ClawbackWasDue, ClawbackOpen
<1>5. CASE ~distributor[d].clawed_back
  <2>1. \A e \in Distributors : Clawback(e) => ClawbackOpen(d)
    <3> SUFFICES ASSUME NEW e \in Distributors, Clawback(e), e # d PROVE FALSE
      BY DEF Clawback
    <3> QED
      BY <1>5 DEF Inv, TypeOK, Clawback
  <2>2. ASSUME NEW e \in Distributors,
               ~Exists(e) \/ distributor'[e].clawed_back = distributor[e].clawed_back,
               \A x \in Distributors \ {e} : distributor'[x] = distributor[x]
        PROVE  FALSE
    BY <1>2, <1>5, <2>2
  <2>3. ASSUME NEW e \in Distributors, NEW admin \in Wallets, NEW receiver \in TokenAccounts,
               NEW args \in NewDistributorArgs, NewDistributor(e, admin, receiver, args)
        PROVE  FALSE
    BY <1>1, <2>2, <2>3 DEF TypeOK, NewDistributor
  <2>4. ASSUME NEW e \in Distributors, NEW leaf \in AllLeaves,
               NEW from \in TokenAccounts, NEW to \in TokenAccounts,
               NewClaim(e, leaf, from, to)
        PROVE  FALSE
    <3>1. distributor[e] \in MerkleDistributor
      BY <1>1, <2>4, ExistsType DEF NewClaim
    <3> QED
      BY <1>1, <2>2, <2>4, <3>1 DEF TypeOK, NewClaim, MerkleDistributor
  <2>5. ASSUME NEW e \in Distributors, NEW k \in Wallets, NEW to \in TokenAccounts,
               ClaimLocked(e, k, to)
        PROVE  FALSE
    <3>1. distributor[e] \in MerkleDistributor
      BY <1>1, <2>5, ExistsType DEF ClaimLocked
    <3> QED
      BY <1>1, <2>2, <2>5, <3>1 DEF TypeOK, ClaimLocked, MerkleDistributor
  <2>6. ASSUME NEW e \in Distributors, NEW signer \in Wallets, NEW a \in TokenAccounts,
               SetClawbackReceiver(e, signer, a)
        PROVE  FALSE
    <3>1. distributor[e] \in MerkleDistributor
      BY <1>1, <2>6, ExistsType DEF SetClawbackReceiver
    <3> QED
      BY <1>1, <2>2, <2>6, <3>1 DEF TypeOK, SetClawbackReceiver, MerkleDistributor
  <2>7. ASSUME NEW e \in Distributors, NEW signer \in Wallets, NEW new_admin \in Keys,
               SetAdmin(e, signer, new_admin)
        PROVE  FALSE
    <3>1. distributor[e] \in MerkleDistributor
      BY <1>1, <2>7, ExistsType DEF SetAdmin
    <3> QED
      BY <1>1, <2>2, <2>7, <3>1 DEF TypeOK, SetAdmin, MerkleDistributor
  <2>8. Environment => distributor' = distributor
    BY DEF Environment, Tick, WalletTransfer, CreateAccount, CloseAccount, Prefund
  <2>9. ClawbackOpen(d)
    BY <1>5, <2>1, <2>3, <2>4, <2>5, <2>6, <2>7, <2>8 DEF Next, Instruction
  <2> QED
    BY <1>1, <1>3, <2>9 DEF ClawbackOpen
<1> QED
  BY <1>4, <1>5

(* A step either makes the one claim that it counts, or leaves the claims   *)
(* and the count of an existing distributor alone.                          *)
LEMMA ClaimStep ==
  ASSUME TypeOK, Next, NEW d \in Distributors
  PROVE  \/ /\ Claimed(d)' = Claimed(d)
            /\ Exists(d) => /\ distributor'[d].num_nodes_claimed
                                 = distributor[d].num_nodes_claimed
                            /\ distributor'[d].max_num_nodes
                                 = distributor[d].max_num_nodes
         \/ \E leaf \in AllLeaves, from \in TokenAccounts, to \in TokenAccounts :
              NewClaim(d, leaf, from, to)
<1> DEFINE Quiet == /\ Claimed(d)' = Claimed(d)
                    /\ Exists(d) => /\ distributor'[d].num_nodes_claimed
                                         = distributor[d].num_nodes_claimed
                                    /\ distributor'[d].max_num_nodes
                                         = distributor[d].max_num_nodes
<1>1. claim_status'[d] = claim_status[d] => Claimed(d)' = Claimed(d)
  BY DEF Claimed
<1>2. Exists(d) => distributor[d] \in MerkleDistributor
  BY ExistsType
<1>3. ASSUME NEW e \in Distributors, NEW admin \in Wallets, NEW receiver \in TokenAccounts,
             NEW args \in NewDistributorArgs, NewDistributor(e, admin, receiver, args)
      PROVE  Quiet
  BY <1>1, <1>3 DEF TypeOK, NewDistributor, Exists
<1>4. ASSUME NEW e \in Distributors, NEW leaf \in AllLeaves,
             NEW from \in TokenAccounts, NEW to \in TokenAccounts,
             NewClaim(e, leaf, from, to), e # d
      PROVE  Quiet
  BY <1>1, <1>4 DEF TypeOK, NewClaim
<1>5. ASSUME NEW e \in Distributors, NEW k \in Wallets, NEW to \in TokenAccounts,
             ClaimLocked(e, k, to)
      PROVE  Quiet
  <2>1. /\ k \in Claimed(e)
        /\ claim_status'[e][k] \in ClaimWords
        /\ distributor'[e] = [distributor[e] EXCEPT
             !.total_amount_claimed =
                distributor[e].total_amount_claimed + Withdrawable(e, k)]
    BY <1>5, ClaimLockedContinues DEF ClaimLocked, StatusReadable
  <2>2. \A j \in Wallets : j # k \/ e # d => claim_status'[d][j] = claim_status[d][j]
    BY <1>5 DEF TypeOK, ClaimLocked
  <2>3. Claimed(d)' = Claimed(d)
    BY <2>1, <2>2, AccountAssumption DEF Claimed
  <2>4. e # d => distributor'[d] = distributor[d]
    BY <1>5 DEF TypeOK, ClaimLocked
  <2> QED
    BY <1>2, <2>1, <2>3, <2>4 DEF MerkleDistributor
<1>6. ASSUME NEW e \in Distributors, Clawback(e)
      PROVE  Quiet
  <2>1. e # d => distributor'[d] = distributor[d]
    BY <1>6 DEF TypeOK, Clawback
  <2>2. e = d => distributor'[d] = [distributor[d] EXCEPT !.clawed_back = TRUE]
    BY <1>6 DEF TypeOK, Clawback
  <2> QED
    BY <1>1, <1>2, <1>6, <2>1, <2>2 DEF Clawback, MerkleDistributor
<1>7. ASSUME NEW e \in Distributors, NEW signer \in Wallets, NEW a \in TokenAccounts,
             SetClawbackReceiver(e, signer, a)
      PROVE  Quiet
  BY <1>1, <1>2, <1>7 DEF TypeOK, SetClawbackReceiver, MerkleDistributor
<1>8. ASSUME NEW e \in Distributors, NEW signer \in Wallets, NEW new_admin \in Keys,
             SetAdmin(e, signer, new_admin)
      PROVE  Quiet
  BY <1>1, <1>2, <1>8 DEF TypeOK, SetAdmin, MerkleDistributor
<1>9. ASSUME NEW e \in Distributors, NEW k \in Wallets, Prefund(e, k)
      PROVE  Quiet
  <2>1. /\ claim_status[e][k] = NoAccount
        /\ claim_status'[e][k] = LamportsOnly
    BY <1>9 DEF TypeOK, Prefund
  <2>2. \A j \in Wallets : j # k \/ e # d => claim_status'[d][j] = claim_status[d][j]
    BY <1>9 DEF TypeOK, Prefund
  <2>3. Claimed(d)' = Claimed(d)
    BY <2>1, <2>2 DEF Claimed
  <2> QED
    BY <1>9, <2>3 DEF Prefund
<1>10. ASSUME distributor' = distributor, claim_status' = claim_status
       PROVE  Quiet
  BY <1>1, <1>10
<1>11. Environment => Quiet
  BY <1>9, <1>10 DEF Environment, Tick, WalletTransfer, CreateAccount, CloseAccount
<1> QED
  BY <1>3, <1>4, <1>5, <1>6, <1>7, <1>8, <1>11 DEF Next, Instruction

(* What a successful new_claim leaves behind.                               *)
LEMMA ClaimMade ==
  ASSUME TypeOK, NEW d \in Distributors, NEW leaf \in AllLeaves,
         NEW from \in TokenAccounts, NEW to \in TokenAccounts,
         NewClaim(d, leaf, from, to)
  PROVE  /\ leaf.claimant \in Wallets \ Claimed(d)
         /\ Claimed(d)' = Claimed(d) \cup {leaf.claimant}
         /\ leaf \in Leaf
         /\ leaf \in Provable[distributor[d].root]
         /\ claim_status'[d][leaf.claimant] = WrittenStatus(leaf)
         /\ distributor'[d].num_nodes_claimed = distributor[d].num_nodes_claimed + 1
         /\ distributor'[d].num_nodes_claimed <= distributor'[d].max_num_nodes
         /\ Exists(d)
         /\ Exists(d)'
<1>1. leaf \in Leaf /\ leaf.claimant \in Wallets /\ distributor[d] \in MerkleDistributor
  BY ExistsType, DataAssumption DEF AllLeaves, NewClaim, Leaf
<1>2. claim_status'[d] = [claim_status[d] EXCEPT ![leaf.claimant] = WrittenStatus(leaf)]
  BY <1>1 DEF TypeOK, NewClaim
<1>3. claim_status'[d][leaf.claimant] = WrittenStatus(leaf)
  BY <1>1, <1>2 DEF TypeOK
<1>4. WrittenStatus(leaf) \in ClaimWords
  BY <1>1, WidthAssumption DEF WrittenStatus, ClaimWords, Leaf, U64
<1>5. leaf.claimant \notin Claimed(d)
  BY DEF NewClaim, StatusAddressFree, Claimed
<1>6. Claimed(d)' = Claimed(d) \cup {leaf.claimant}
  BY <1>1, <1>2, <1>3, <1>4, AccountAssumption DEF TypeOK, Claimed
<1>7. /\ distributor'[d].num_nodes_claimed = distributor[d].num_nodes_claimed + 1
      /\ distributor'[d].max_num_nodes = distributor[d].max_num_nodes
      /\ distributor'[d] \in MerkleDistributor
  BY <1>1, NewClaimContinues DEF Continues, MerkleDistributor
<1> QED
  BY <1>1, <1>3, <1>5, <1>6, <1>7, AccountAssumption
     DEF NewClaim, ProofVerifies, NodeSlotFree, Exists

LEMMA ClaimsHaveDistributorStep == ASSUME Inv, Next PROVE ClaimsHaveDistributor'
<1> SUFFICES ASSUME NEW d \in Distributors, Claimed(d)' # {} PROVE Exists(d)'
  BY DEF ClaimsHaveDistributor
<1>1. ASSUME Exists(d) PROVE Exists(d)'
  BY <1>1, DistributorContinues, AccountAssumption DEF Inv, Continues, Exists
<1>2. CASE Claimed(d)' = Claimed(d)
  BY <1>1, <1>2 DEF Inv, ClaimsHaveDistributor
<1> QED
  BY <1>2, ClaimStep, ClaimMade DEF Inv

LEMMA NodesCountedStep == ASSUME Inv, Next PROVE NodesCounted'
<1> SUFFICES ASSUME NEW d \in Distributors
             PROVE  IF Exists(d)'
                    THEN /\ distributor'[d].num_nodes_claimed = Cardinality(Claimed(d)')
                         /\ distributor'[d].num_nodes_claimed
                               <= distributor'[d].max_num_nodes
                    ELSE Claimed(d)' = {}
  BY DEF NodesCounted
<1>1. TypeOK /\ NodesCounted
  BY DEF Inv
<1>2. IsFiniteSet(Claimed(d))
  BY AddressAssumption, FS_Subset DEF Claimed
<1>3. ASSUME NEW leaf \in AllLeaves, NEW from \in TokenAccounts, NEW to \in TokenAccounts,
             NewClaim(d, leaf, from, to)
      PROVE  /\ Exists(d)'
             /\ distributor'[d].num_nodes_claimed = Cardinality(Claimed(d)')
             /\ distributor'[d].num_nodes_claimed <= distributor'[d].max_num_nodes
  <2>1. /\ leaf.claimant \notin Claimed(d)
        /\ Claimed(d)' = Claimed(d) \cup {leaf.claimant}
        /\ distributor'[d].num_nodes_claimed = distributor[d].num_nodes_claimed + 1
        /\ distributor'[d].num_nodes_claimed <= distributor'[d].max_num_nodes
        /\ Exists(d)
        /\ Exists(d)'
    BY <1>1, <1>3, ClaimMade
  <2>2. Cardinality(Claimed(d)') = Cardinality(Claimed(d)) + 1
    BY <1>2, <2>1, FS_AddElement
  <2> QED
    BY <1>1, <2>1, <2>2 DEF NodesCounted
<1>4. ASSUME Claimed(d)' = Claimed(d),
             Exists(d) => /\ distributor'[d].num_nodes_claimed
                               = distributor[d].num_nodes_claimed
                          /\ distributor'[d].max_num_nodes = distributor[d].max_num_nodes
      PROVE  IF Exists(d)'
             THEN /\ distributor'[d].num_nodes_claimed = Cardinality(Claimed(d)')
                  /\ distributor'[d].num_nodes_claimed <= distributor'[d].max_num_nodes
             ELSE Claimed(d)' = {}
  <2>1. CASE Exists(d)
    <3>1. Exists(d)'
      BY <1>1, <2>1, DistributorContinues, AccountAssumption DEF Continues, Exists
    <3> QED
      BY <1>1, <1>4, <2>1, <3>1 DEF NodesCounted
  <2>2. CASE ~Exists(d)
    <3>1. Claimed(d)' = {}
      BY <1>1, <1>4, <2>2 DEF NodesCounted
    <3>2. Exists(d)' => /\ distributor'[d].num_nodes_claimed = 0
                        /\ distributor'[d].max_num_nodes \in U64
      BY <1>1, <2>2, Appears DEF MerkleDistributor
    <3> QED
      BY <3>1, <3>2, FS_EmptySet, WidthAssumption DEF U64
  <2> QED
    BY <2>1, <2>2
<1> QED
  BY <1>1, <1>3, <1>4, ClaimStep

LEMMA ClaimBackedByLeafStep == ASSUME Inv, Next PROVE ClaimBackedByLeaf'
<1> SUFFICES ASSUME NEW d \in Distributors, NEW k \in Claimed(d)'
             PROVE  \E leaf \in Provable[distributor'[d].root] :
                      /\ leaf.claimant = k
                      /\ leaf.locked = claim_status'[d][k].at32
                      /\ leaf.unlocked = claim_status'[d][k].at40
  BY DEF ClaimBackedByLeaf
<1>1. TypeOK
  BY DEF Inv
<1>2. Exists(d) => distributor'[d].root = distributor[d].root
  BY <1>1, DistributorContinues DEF Continues
<1>3. CASE k \in Claimed(d)
  <2>1. Exists(d)
    BY <1>3 DEF Inv, ClaimsHaveDistributor
  <2>2. /\ claim_status'[d][k].at32 = claim_status[d][k].at32
        /\ claim_status'[d][k].at40 = claim_status[d][k].at40
    BY <1>1, <1>3, StatusContinues
  <2> QED
    BY <1>2, <1>3, <2>1, <2>2 DEF Inv, ClaimBackedByLeaf
<1>4. CASE k \notin Claimed(d)
  <2>1. PICK leaf \in AllLeaves, from \in TokenAccounts, to \in TokenAccounts :
          NewClaim(d, leaf, from, to)
    BY <1>1, <1>4, ClaimStep
  <2>2. /\ leaf.claimant = k
        /\ leaf \in Provable[distributor[d].root]
        /\ claim_status'[d][k] = WrittenStatus(leaf)
        /\ Exists(d)
    BY <1>1, <1>4, <2>1, ClaimMade
  <2> QED
    BY <1>2, <2>2 DEF WrittenStatus
<1> QED
  BY <1>3, <1>4

(* The withdrawn amount of a claim changes only in claim_locked, to what is *)
(* unlocked at that moment.                                                 *)
LEMMA WithdrawnStep ==
  ASSUME TypeOK, Next, NEW d \in Distributors, NEW k \in Claimed(d)
  PROVE  \/ claim_status'[d][k].at48 = claim_status[d][k].at48
         \/ /\ now' = now
            /\ claim_status'[d][k].at48 =
                 UnlockedAmount(LockedAmount(d, k), now,
                                distributor[d].start_ts, distributor[d].end_ts)
<1> DEFINE Same == claim_status'[d][k] = claim_status[d][k]
<1>1. k \in Wallets /\ claim_status[d][k] \in ClaimWords
  BY ClaimedType
<1>2. ASSUME NEW e \in Distributors, NEW leaf \in AllLeaves,
             NEW from \in TokenAccounts, NEW to \in TokenAccounts,
             NewClaim(e, leaf, from, to)
      PROVE  Same
  <2>1. leaf.claimant \in Wallets /\ (e = d => leaf.claimant # k)
    BY <1>2, ClaimMade
  <2> QED
    BY <1>1, <1>2, <2>1 DEF TypeOK, NewClaim
<1>3. ASSUME NEW e \in Distributors, NEW j \in Wallets, NEW to \in TokenAccounts,
             ClaimLocked(e, j, to)
      PROVE  \/ Same
             \/ /\ now' = now
                /\ claim_status'[d][k].at48 =
                     UnlockedAmount(LockedAmount(d, k), now,
                                    distributor[d].start_ts, distributor[d].end_ts)
  <2>1. e # d \/ j # k => Same
    BY <1>1, <1>3 DEF TypeOK, ClaimLocked
  <2>2. CASE e = d /\ j = k
    <3> DEFINE unlocked == UnlockedAmount(LockedAmount(d, k), now,
                                          distributor[d].start_ts, distributor[d].end_ts)
               withdrawn == claim_status[d][k].at48
    <3>1. /\ Withdrawable(d, k) \in U64
          /\ claim_status'[d][k] = [claim_status[d][k] EXCEPT
               !.at48 = withdrawn + Withdrawable(d, k)]
      BY <1>3, <2>2, ClaimLockedContinues
    <3>2. distributor[d] \in MerkleDistributor
      BY <1>3, <2>2, ExistsType DEF ClaimLocked
    <3>3. Withdrawable(d, k) = unlocked - withdrawn
      BY <1>1, <1>3, <2>2, <3>2, WithdrawableBounds DEF ClaimLocked, LockedAmountWithdrawn
    <3>4. unlocked \in U64 \cup {ArithmeticError}
      <4>1. /\ LockedAmount(d, k) \in U64
            /\ now \in I64
            /\ distributor[d].start_ts \in I64
            /\ distributor[d].end_ts \in I64
        BY <1>1, <3>2, WidthAssumption
           DEF TypeOK, MerkleDistributor, ClaimWords, LockedAmount, UnixTime, I64
      <4> QED
        BY <4>1, UnlockedAmountType
    <3>5. claim_status'[d][k].at48 = withdrawn + Withdrawable(d, k)
      BY <1>1, <3>1 DEF ClaimWords
    <3>6. withdrawn \in Int /\ unlocked \in Int
      BY <1>1, <3>4, WidthAssumption DEF ClaimWords, U64, ArithmeticError
    <3>7. claim_status'[d][k].at48 = unlocked
      <4> HIDE DEF withdrawn, unlocked
      <4> QED BY <3>3, <3>5, <3>6
    <3> QED
      BY <1>3, <3>7 DEF ClaimLocked
  <2> QED
    BY <2>1, <2>2
<1>4. ASSUME NEW e \in Distributors, NEW j \in Wallets, Prefund(e, j)
      PROVE  Same
  <2>1. ~(e = d /\ j = k)
    BY <1>4, AccountAssumption DEF Prefund, Claimed
  <2> QED
    BY <1>1, <1>4, <2>1 DEF TypeOK, Prefund
<1>5. claim_status' = claim_status => Same
  OBVIOUS
<1> QED
  BY <1>2, <1>3, <1>4, <1>5
     DEF Next, Instruction, Environment, NewDistributor, Clawback, SetClawbackReceiver,
         SetAdmin, Tick, WalletTransfer, CreateAccount, CloseAccount

LEMMA VestingRespectedStep == ASSUME Inv, Next PROVE VestingRespected'
<1> SUFFICES ASSUME NEW d \in Distributors, NEW k \in Claimed(d)'
             PROVE  claim_status'[d][k].at48 <=
                      UnlockedAmount(claim_status'[d][k].at40, now',
                                     distributor'[d].start_ts, distributor'[d].end_ts)
  BY DEF VestingRespected, LockedAmount, LockedAmountWithdrawn
<1>1. /\ TypeOK
      /\ now \in 0 .. I64Max /\ now' \in 0 .. I64Max /\ now <= now'
  BY ClockStep, NextType DEF Inv, TypeOK, UnixTime
<1>2. Exists(d)
  BY <1>1, ClaimStep, ClaimMade DEF Inv, ClaimsHaveDistributor
<1> DEFINE start == distributor[d].start_ts
           end == distributor[d].end_ts
<1>3. /\ Schedule(start, end)
      /\ distributor'[d].start_ts = start
      /\ distributor'[d].end_ts = end
  BY <1>1, <1>2, DistributorContinues DEF Inv, ScheduleAccepted, Continues
<1> HIDE DEF start, end
<1>4. CASE k \in Claimed(d)
  <2> DEFINE locked == claim_status[d][k].at40
  <2>1. /\ claim_status'[d][k].at40 = locked
        /\ locked \in U64
        /\ claim_status[d][k].at48 \in U64
    BY <1>1, <1>4, StatusContinues, ClaimedType DEF ClaimWords
  <2>2. claim_status[d][k].at48 <= UnlockedAmount(locked, now, start, end)
    BY <1>4 DEF Inv, VestingRespected, LockedAmount, LockedAmountWithdrawn, start, end
  <2> HIDE DEF locked
  <2>3. /\ UnlockedAmount(locked, now, start, end) \in 0 .. locked
        /\ UnlockedAmount(locked, now', start, end) \in 0 .. locked
        /\ UnlockedAmount(locked, now, start, end) <= UnlockedAmount(locked, now', start, end)
    BY <1>1, <1>3, <2>1, UnlockedWithinLocked, UnlockedMonotone
  <2>4. \/ claim_status'[d][k].at48 = claim_status[d][k].at48
        \/ claim_status'[d][k].at48 = UnlockedAmount(locked, now, start, end)
    BY <1>1, <1>4, WithdrawnStep DEF LockedAmount, locked, start, end
  <2>5. claim_status[d][k].at48 \in Int /\ locked \in Int
    BY <2>1, WidthAssumption DEF U64
  <2> QED
    BY <1>3, <2>1, <2>2, <2>3, <2>4, <2>5
<1>5. CASE k \notin Claimed(d)
  <2>1. PICK leaf \in AllLeaves, from \in TokenAccounts, to \in TokenAccounts :
          NewClaim(d, leaf, from, to)
    BY <1>1, <1>5, ClaimStep
  <2>2. leaf \in Leaf /\ claim_status'[d][k] = WrittenStatus(leaf)
    BY <1>1, <1>5, <2>1, ClaimMade
  <2>3. /\ claim_status'[d][k].at48 = 0
        /\ claim_status'[d][k].at40 \in U64
    BY <2>2 DEF WrittenStatus, Leaf
  <2>4. UnlockedAmount(claim_status'[d][k].at40, now', start, end)
          \in 0 .. claim_status'[d][k].at40
    BY <1>1, <1>3, <2>3, UnlockedWithinLocked
  <2> QED
    BY <1>3, <2>3, <2>4, WidthAssumption DEF U64
<1> QED
  BY <1>4, <1>5

-----------------------------------------------------------------------------
LEMMA InvStep == ASSUME Inv, [Next]_vars PROVE Inv'
<1>1. CASE Next
  <2>1. TypeOK'
    BY <1>1, NextType DEF Inv
  <2> QED
    BY <1>1, <2>1, ScheduleStep, ClawbackDueStep, ClaimsHaveDistributorStep,
       ClaimBackedByLeafStep, VestingRespectedStep, NodesCountedStep DEF Inv
<1>2. CASE UNCHANGED vars
  <2>1. /\ TypeOK' /\ ScheduleAccepted' /\ ClawbackWasDue' /\ ClaimsHaveDistributor'
    BY <1>2 DEF Inv, TypeOK, ScheduleAccepted, ClawbackWasDue, ClaimsHaveDistributor,
                Exists, Claimed, ClawbackOpen, vars
  <2>2. /\ ClaimBackedByLeaf' /\ VestingRespected' /\ NodesCounted'
    BY <1>2 DEF Inv, ClaimBackedByLeaf, VestingRespected, NodesCounted, LockedAmount,
                LockedAmountWithdrawn, Exists, Claimed, vars
  <2> QED
    BY <2>1, <2>2 DEF Inv
<1> QED
  BY <1>1, <1>2

(* The invariant of the program, which the state properties below follow    *)
(* from: Inv holds initially and every step preserves it.                   *)
THEOREM InvHolds == Spec => []Inv
<1>1. Inv /\ [Next]_vars => Inv'
  BY InvStep
<1> QED
  BY <1>1, InitInv, PTL DEF Spec

(* The counter of nodes is the number of claim statuses.                    *)
THEOREM NodesAreCounted == Spec => []NodesCounted
<1>1. Inv => NodesCounted
  BY DEF Inv
<1> QED
  BY <1>1, InvHolds, PTL

(* Every claim status comes from a leaf of the tree.                        *)
THEOREM ClaimsAreBacked == Spec => []ClaimBackedByLeaf
<1>1. Inv => ClaimBackedByLeaf
  BY DEF Inv
<1> QED
  BY <1>1, InvHolds, PTL

(* No claimant is ahead of the schedule.                                    *)
THEOREM VestingIsRespected == Spec => []VestingRespected
<1>1. Inv => VestingRespected
  BY DEF Inv
<1> QED
  BY <1>1, InvHolds, PTL

(* A clawback comes a day after the end of vesting at the earliest.         *)
THEOREM ClawbackWaits == Spec => []ClawbackWaited
<1>1. Inv => ClawbackWaited
  <2> SUFFICES ASSUME Inv, NEW d \in Distributors, Exists(d), distributor[d].clawed_back
               PROVE  distributor[d].end_ts + SecondsPerDay <= now
    BY DEF ClawbackWaited
  <2>1. /\ distributor[d].end_ts + SecondsPerDay <= distributor[d].clawback_start_ts
        /\ now >= distributor[d].clawback_start_ts
    BY DEF Inv, ScheduleAccepted, ClawbackWasDue, ClawbackOpen
  <2>2. /\ distributor[d].end_ts \in Int
        /\ distributor[d].clawback_start_ts \in Int
        /\ SecondsPerDay \in Int /\ now \in Int
    BY ExistsType, DataAssumption, WidthAssumption
       DEF Inv, TypeOK, MerkleDistributor, UnixTime, I64
  <2> QED
    BY <2>1, <2>2
<1> QED
  BY <1>1, InvHolds, PTL

-----------------------------------------------------------------------------
(* total_amount_claimed against the claim statuses, for any number of       *)
(* claimants: the counter that new_claim and claim_locked keep is the sum   *)
(* of what the statuses record.                                             *)

LEMMA PaidToType ==
  ASSUME TypeOK, NEW d \in Distributors
  PROVE  /\ IsFiniteSet(Claimed(d))
         /\ \A k \in Claimed(d) :
              /\ PaidTo(d)[k] = claim_status[d][k].at40 + claim_status[d][k].at48
              /\ PaidTo(d)[k] \in Nat
<1>1. IsFiniteSet(Claimed(d))
  BY AddressAssumption, FS_Subset DEF Claimed
<1>2. \A k \in Claimed(d) : claim_status[d][k].at40 \in Nat /\ claim_status[d][k].at48 \in Nat
  BY ClaimedType, WidthAssumption DEF ClaimWords, U64
<1> QED
  BY <1>1, <1>2 DEF PaidTo

-----------------------------------------------------------------------------
(* The paths by which the total of an existing distributor changes: a claim,*)
(* or a withdrawal from a claim.                                            *)

(* Nothing that the total is compared with changes.                         *)
NothingPaid(d) ==
  /\ distributor'[d].total_amount_claimed = distributor[d].total_amount_claimed
  /\ Claimed(d)' = Claimed(d)
  /\ \A k \in Claimed(d) : claim_status'[d][k] = claim_status[d][k]

LEMMA PaymentStep ==
  ASSUME TypeOK, Next, NEW d \in Distributors, Exists(d)
  PROVE  \/ NothingPaid(d)
         \/ \E leaf \in AllLeaves, from \in TokenAccounts, to \in TokenAccounts :
              NewClaim(d, leaf, from, to)
         \/ \E k \in Wallets, to \in TokenAccounts : ClaimLocked(d, k, to)
<1>1. distributor[d] \in MerkleDistributor
  BY ExistsType
<1>2. claim_status'[d] = claim_status[d] /\ distributor'[d] = distributor[d]
        => NothingPaid(d)
  BY DEF NothingPaid, Claimed
<1>3. ASSUME NEW e \in Distributors, NEW admin \in Wallets, NEW receiver \in TokenAccounts,
             NEW args \in NewDistributorArgs, NewDistributor(e, admin, receiver, args)
      PROVE  NothingPaid(d)
  BY <1>2, <1>3 DEF TypeOK, NewDistributor, Exists
<1>4. ASSUME NEW e \in Distributors, e # d, NEW leaf \in AllLeaves,
             NEW from \in TokenAccounts, NEW to \in TokenAccounts, NewClaim(e, leaf, from, to)
      PROVE  NothingPaid(d)
  BY <1>2, <1>4 DEF TypeOK, NewClaim
<1>5. ASSUME NEW e \in Distributors, e # d, NEW k \in Wallets, NEW to \in TokenAccounts,
             ClaimLocked(e, k, to)
      PROVE  NothingPaid(d)
  BY <1>2, <1>5 DEF TypeOK, ClaimLocked
<1>6. ASSUME NEW e \in Distributors,
             \/ Clawback(e)
             \/ \E signer \in Wallets, a \in TokenAccounts : SetClawbackReceiver(e, signer, a)
             \/ \E signer \in Wallets, new_admin \in Keys : SetAdmin(e, signer, new_admin)
      PROVE  NothingPaid(d)
  <2>1. claim_status' = claim_status
    BY <1>6 DEF Clawback, SetClawbackReceiver, SetAdmin
  <2>2. distributor'[d].total_amount_claimed = distributor[d].total_amount_claimed
    BY <1>1, <1>6 DEF TypeOK, Clawback, SetClawbackReceiver, SetAdmin, MerkleDistributor
  <2> QED
    BY <2>1, <2>2 DEF NothingPaid, Claimed
<1>7. ASSUME NEW e \in Distributors, NEW k \in Wallets, Prefund(e, k)
      PROVE  NothingPaid(d)
  <2>1. /\ claim_status[e][k] = NoAccount
        /\ claim_status'[e][k] = LamportsOnly
    BY <1>7 DEF TypeOK, Prefund
  <2>2. \A j \in Wallets : j # k \/ e # d => claim_status'[d][j] = claim_status[d][j]
    BY <1>7 DEF TypeOK, Prefund
  <2>3. Claimed(d)' = Claimed(d) /\ \A j \in Claimed(d) : claim_status'[d][j] = claim_status[d][j]
    BY <2>1, <2>2 DEF Claimed
  <2> QED
    BY <1>7, <2>3 DEF Prefund, NothingPaid
<1>8. Environment => NothingPaid(d)
  BY <1>2, <1>7 DEF Environment, Tick, WalletTransfer, CreateAccount, CloseAccount
<1> QED
  BY <1>3, <1>4, <1>5, <1>6, <1>8 DEF Next, Instruction

-----------------------------------------------------------------------------
(* The goal of the step, for one distributor.                               *)
Counted(d) ==
  /\ distributor[d].total_amount_claimed = Total(PaidTo(d), Claimed(d))
  /\ distributor[d].total_amount_claimed <= distributor[d].max_total_claim

LEMMA NewClaimCounted ==
  ASSUME TypeOK, TypeOK', NEW d \in Distributors, Counted(d), NEW leaf \in AllLeaves,
         NEW from \in TokenAccounts, NEW to \in TokenAccounts, NewClaim(d, leaf, from, to)
  PROVE  Counted(d)'
<1> DEFINE k == leaf.claimant
<1>1. /\ k \in Wallets \ Claimed(d)
      /\ Claimed(d)' = Claimed(d) \cup {k}
      /\ claim_status'[d][k] = WrittenStatus(leaf)
      /\ leaf \in Leaf
      /\ distributor[d] \in MerkleDistributor
  BY ClaimMade, ExistsType
<1>2. \A j \in Claimed(d) : claim_status'[d][j] = claim_status[d][j]
  BY <1>1 DEF TypeOK, NewClaim, Claimed
<1>3. IsFiniteSet(Claimed(d)) /\ \A j \in Claimed(d) :
        /\ PaidTo(d)[j] = claim_status[d][j].at40 + claim_status[d][j].at48
        /\ PaidTo(d)[j] \in Nat
  BY PaidToType
<1>4. \A j \in Claimed(d)' :
        (PaidTo(d)')[j] = claim_status'[d][j].at40 + claim_status'[d][j].at48
  BY DEF PaidTo
<1>5. leaf.unlocked \in Nat
  BY <1>1, WidthAssumption DEF Leaf, U64
<1>6. (PaidTo(d)')[k] = leaf.unlocked /\ \A j \in Claimed(d) : (PaidTo(d)')[j] = PaidTo(d)[j]
  BY <1>1, <1>2, <1>3, <1>4, <1>5 DEF WrittenStatus
<1>7. Total(PaidTo(d)', Claimed(d) \cup {k}) = Total(PaidTo(d), Claimed(d)) + leaf.unlocked
  <2> DEFINE g == PaidTo(d)
             h == PaidTo(d)'
             S == Claimed(d)
  <2>1. /\ IsFiniteSet(S) /\ k \notin S
        /\ \A y \in S : g[y] \in Nat /\ h[y] = g[y]
        /\ h[k] = leaf.unlocked /\ h[k] \in Nat
    BY <1>1, <1>3, <1>5, <1>6
  <2> HIDE DEF g, h, S, k
  <2>2. Total(h, S \cup {k}) = Total(g, S) + h[k]
    BY <2>1, SumAdd
  <2> QED
    BY <2>1, <2>2 DEF g, h, S
<1>8. /\ distributor'[d].total_amount_claimed
           = distributor[d].total_amount_claimed + leaf.unlocked
      /\ distributor'[d].max_total_claim = distributor[d].max_total_claim
  <2>1. distributor'[d] = [distributor[d] EXCEPT
          !.num_nodes_claimed = distributor[d].num_nodes_claimed + 1,
          !.total_amount_claimed = distributor[d].total_amount_claimed + leaf.unlocked]
    BY NewClaimContinues
  <2> QED
    BY <1>1, <2>1 DEF MerkleDistributor
<1>9. distributor'[d].total_amount_claimed <= distributor'[d].max_total_claim
  BY <1>8 DEF NewClaim, UnderMaxTotal, NewTotal
<1> QED
  BY <1>1, <1>7, <1>8, <1>9 DEF Counted, Total

LEMMA ClaimLockedCounted ==
  ASSUME TypeOK, NEW d \in Distributors, Counted(d), NEW k \in Wallets,
         NEW to \in TokenAccounts, ClaimLocked(d, k, to)
  PROVE  Counted(d)'
<1> DEFINE amount == Withdrawable(d, k)
<1>1. /\ k \in Claimed(d)
      /\ distributor[d] \in MerkleDistributor
      /\ claim_status[d][k] \in ClaimWords
  BY ExistsType, ClaimedType DEF ClaimLocked, StatusReadable
<1>2. /\ amount \in U64
      /\ claim_status'[d][k] = [claim_status[d][k] EXCEPT
           !.at48 = claim_status[d][k].at48 + amount]
      /\ claim_status'[d][k] \in ClaimWords
      /\ distributor'[d] = [distributor[d] EXCEPT
           !.total_amount_claimed = distributor[d].total_amount_claimed + amount]
  BY ClaimLockedContinues
<1>3. \A j \in Wallets \ {k} : claim_status'[d][j] = claim_status[d][j]
  BY DEF TypeOK, ClaimLocked
<1>4. Claimed(d)' = Claimed(d)
  BY <1>1, <1>2, <1>3, AccountAssumption DEF Claimed
<1>5. IsFiniteSet(Claimed(d)) /\ \A j \in Claimed(d) :
        /\ PaidTo(d)[j] = claim_status[d][j].at40 + claim_status[d][j].at48
        /\ PaidTo(d)[j] \in Nat
  BY PaidToType
<1>6. \A j \in Claimed(d) :
        (PaidTo(d)')[j] = claim_status'[d][j].at40 + claim_status'[d][j].at48
  BY <1>4 DEF PaidTo
<1>7. /\ claim_status'[d][k].at40 = claim_status[d][k].at40
      /\ claim_status'[d][k].at48 = claim_status[d][k].at48 + amount
      /\ claim_status[d][k].at40 \in Nat /\ claim_status[d][k].at48 \in Nat
      /\ amount \in Nat
  BY <1>1, <1>2, WidthAssumption DEF ClaimWords, U64
<1>8. Total(PaidTo(d)', Claimed(d)) = Total(PaidTo(d), Claimed(d)) + amount
  <2> DEFINE g == PaidTo(d)
             h == PaidTo(d)'
             S == Claimed(d)
  <2>1. h[k] = g[k] + amount
    <3> HIDE DEF amount
    <3> QED
      BY <1>1, <1>5, <1>6, <1>7
  <2>2. /\ IsFiniteSet(S) /\ k \in S /\ amount \in Nat
        /\ \A y \in S : g[y] \in Nat
        /\ \A y \in S \ {k} : h[y] = g[y]
    BY <1>1, <1>3, <1>5, <1>6, <1>7 DEF Claimed
  <2> HIDE DEF g, h, S, amount
  <2>3. Total(h, S) = Total(g, S) + amount
    BY <2>1, <2>2, SumGrow
  <2> QED
    BY <2>3 DEF g, h, S
<1>9. /\ distributor'[d].total_amount_claimed
           = distributor[d].total_amount_claimed + amount
      /\ distributor'[d].max_total_claim = distributor[d].max_total_claim
  BY <1>1, <1>2 DEF MerkleDistributor
<1>10. distributor'[d].total_amount_claimed <= distributor'[d].max_total_claim
  BY <1>9 DEF ClaimLocked, UnderMaxTotal, NewTotal
<1> QED
  BY <1>4, <1>8, <1>9, <1>10 DEF Counted, Total

LEMMA AmountsCountedStep == ASSUME Inv, AmountsCounted, Next PROVE AmountsCounted'
<1> SUFFICES ASSUME NEW d \in Distributors, Exists(d)' PROVE Counted(d)'
  BY DEF AmountsCounted, Counted, Total
<1>1. TypeOK /\ TypeOK'
  BY NextType DEF Inv
<1>2. CASE Exists(d)
  <2>1. Counted(d)
    BY <1>2 DEF AmountsCounted, Counted, Total
  <2>2. CASE NothingPaid(d)
    <3>1. distributor'[d].max_total_claim = distributor[d].max_total_claim
      BY <1>1, <1>2, DistributorContinues DEF Continues
    <3>2. PaidTo(d)' = PaidTo(d)
      BY <2>2 DEF NothingPaid, PaidTo
    <3> QED
      BY <2>1, <2>2, <3>1, <3>2 DEF Counted, NothingPaid, Total
  <2> QED
    BY <1>1, <1>2, <2>1, <2>2, PaymentStep, NewClaimCounted, ClaimLockedCounted
<1>3. CASE ~Exists(d)
  <2>1. /\ distributor'[d].total_amount_claimed = 0
        /\ distributor'[d].max_total_claim \in U64
    BY <1>1, <1>3, Appears DEF MerkleDistributor
  <2>2. Claimed(d)' = {}
    <3>1. Claimed(d) = {}
      BY <1>3 DEF Inv, ClaimsHaveDistributor
    <3> QED
      BY <1>1, <1>3, <3>1, ClaimStep, ClaimMade
  <2>3. Total(PaidTo(d)', Claimed(d)') = 0
    BY <2>2, SumOfNothing DEF Total
  <2> QED
    BY <2>1, <2>3, WidthAssumption DEF Counted, Total, U64
<1> QED
  BY <1>2, <1>3

(* The counter of amounts is the sum of all claim statuses, within its cap. *)
THEOREM AmountsAreCounted == Spec => []AmountsCounted
<1>1. Init => AmountsCounted
  BY DEF Init, AmountsCounted, Exists
<1>2. Inv /\ AmountsCounted /\ [Next]_vars => AmountsCounted'
  <2>1. ASSUME AmountsCounted, UNCHANGED vars PROVE AmountsCounted'
    BY <2>1 DEF AmountsCounted, PaidTo, Claimed, Exists, vars
  <2> QED
    BY <2>1, AmountsCountedStep
<1> QED
  BY <1>1, <1>2, InvHolds, PTL DEF Spec

-----------------------------------------------------------------------------
(* The ledger: no step makes tokens, and no vault is ever closed.           *)

SupplyFits == \A a \in TokenAccounts : Total(balance, SameMint(a)) <= U64Max

VaultsOpen == \A d \in Distributors : Exists(d) => VaultOf[d] \in open

LedgerInv == SupplyFits /\ VaultsOpen

LEMMA MintSum ==
  ASSUME TypeOK, NEW a \in TokenAccounts
  PROVE  /\ SameMint(a) \subseteq TokenAccounts /\ IsFiniteSet(SameMint(a))
         /\ \A b \in SameMint(a) : balance[b] \in Nat
         /\ Total(balance, SameMint(a)) \in Nat
<1>1. SameMint(a) \subseteq TokenAccounts
  BY DEF SameMint
<1>2. IsFiniteSet(SameMint(a))
  BY <1>1, SupplyAssumption, FS_Subset
<1>3. \A b \in SameMint(a) : balance[b] \in Nat
  BY <1>1, WidthAssumption DEF TypeOK, U64
<1> QED
  BY <1>1, <1>2, <1>3, SumType DEF Total

(* Both ends of a transfer are of one mint. *)
LEMMA TransferKeepsSupply ==
  ASSUME TypeOK, SupplyFits,
         NEW authority, NEW from \in TokenAccounts, NEW to \in TokenAccounts,
         NEW amount \in U64,
         TransferAllowed(authority, from, to, amount),
         balance' = Transferred(from, to, amount)
  PROVE  SupplyFits'
<1> SUFFICES ASSUME NEW a \in TokenAccounts
             PROVE  Total(balance', SameMint(a)) <= U64Max
  BY DEF SupplyFits
<1> DEFINE S == SameMint(a)
<1>1. /\ IsFiniteSet(S)
      /\ \A b \in S : b \in TokenAccounts /\ balance[b] \in Nat
      /\ Total(balance, S) <= U64Max
  BY MintSum DEF SupplyFits
<1>2. /\ balance \in [TokenAccounts -> U64]
      /\ amount \in Nat /\ amount <= balance[from]
      /\ MintOf[from] = MintOf[to]
  BY WidthAssumption DEF TypeOK, TransferAllowed, U64
<1>3. Total(balance', S) = Total(balance, S)
  <2>1. CASE from = to
    BY <2>1 DEF Transferred
  <2>2. CASE from # to /\ from \in S
    <3>1. to \in S
      BY <1>2, <2>2 DEF SameMint
    <3>2. /\ \A b \in S \ {from, to} : balance'[b] = balance[b]
          /\ balance'[from] = balance[from] - amount
          /\ balance'[to] = balance[to] + amount
      BY <1>1, <1>2, <2>2 DEF Transferred
    <3> HIDE DEF S
    <3> QED
      BY <1>1, <1>2, <2>2, <3>1, <3>2, SumMoved
  <2>3. CASE from # to /\ from \notin S
    <3>1. to \notin S
      BY <1>2, <2>3 DEF SameMint
    <3>2. \A b \in S : balance'[b] = balance[b]
      BY <1>1, <1>2, <2>3, <3>1 DEF Transferred
    <3> HIDE DEF S
    <3> QED
      BY <1>1, <3>2, SumCongruent DEF Total
  <2> QED
    BY <2>1, <2>2, <2>3
<1> QED
  BY <1>1, <1>3

LEMMA SupplyStep ==
  ASSUME TypeOK, SupplyFits, Next
  PROVE  SupplyFits'
<1>1. balance' = balance => SupplyFits'
  BY DEF SupplyFits
<1>2. ASSUME NEW d \in Distributors, NEW leaf \in AllLeaves,
             NEW from \in TokenAccounts, NEW to \in TokenAccounts,
             NewClaim(d, leaf, from, to)
      PROVE  SupplyFits'
  <2>1. leaf.unlocked \in U64
    BY <1>2, NewClaimContinues DEF Leaf
  <2> QED
    BY <1>2, <2>1, TransferKeepsSupply DEF NewClaim
<1>3. ASSUME NEW d \in Distributors, NEW k \in Wallets, NEW to \in TokenAccounts,
             ClaimLocked(d, k, to)
      PROVE  SupplyFits'
  <2>1. Withdrawable(d, k) \in U64 /\ VaultOf[d] \in TokenAccounts
    BY <1>3, ClaimLockedContinues, AddressAssumption
  <2> QED
    BY <1>3, <2>1, TransferKeepsSupply DEF ClaimLocked
<1>4. ASSUME NEW d \in Distributors, Clawback(d) PROVE SupplyFits'
  <2>1. distributor[d] \in MerkleDistributor /\ VaultOf[d] \in TokenAccounts
    BY <1>4, ExistsType, AddressAssumption DEF Clawback
  <2>2. /\ distributor[d].clawback_receiver \in TokenAccounts
        /\ balance[VaultOf[d]] \in U64
    BY <2>1 DEF MerkleDistributor, TypeOK
  <2> QED
    BY <1>4, <2>1, <2>2, TransferKeepsSupply DEF Clawback
<1>5. ASSUME NEW from \in TokenAccounts, NEW to \in TokenAccounts,
             NEW amount \in TransferAmounts, WalletTransfer(from, to, amount)
      PROVE  SupplyFits'
  <2>1. amount \in U64
    BY DataAssumption
  <2> QED
    BY <1>5, <2>1, TransferKeepsSupply DEF WalletTransfer
<1>6. CASE Environment
  BY <1>1, <1>5, <1>6 DEF Environment, Tick, CreateAccount, CloseAccount, Prefund
<1>7. CASE Instruction
  BY <1>1, <1>2, <1>3, <1>4, <1>7
  DEF Instruction, NewDistributor, SetClawbackReceiver, SetAdmin
<1> QED
  BY <1>6, <1>7 DEF Next

LEMMA VaultsOpenStep ==
  ASSUME TypeOK, VaultsOpen, Next
  PROVE  VaultsOpen'
<1> SUFFICES ASSUME NEW d \in Distributors, Exists(d)' PROVE VaultOf[d] \in open'
  BY DEF VaultsOpen
<1>1. ASSUME NEW a \in ClosableAccounts, CloseAccount(a) PROVE VaultOf[d] # a
  BY AddressAssumption
<1>2. CASE Exists(d)
  <2>1. VaultOf[d] \in open
    BY <1>2 DEF VaultsOpen
  <2>2. CASE Environment
    BY <1>1, <2>1, <2>2
    DEF Environment, Tick, WalletTransfer, CreateAccount, CloseAccount, Prefund
  <2>3. CASE Instruction
    BY <2>1, <2>3
    DEF Instruction, NewDistributor, NewClaim, ClaimLocked, Clawback,
        SetClawbackReceiver, SetAdmin
  <2> QED
    BY <2>2, <2>3 DEF Next
<1>3. CASE ~Exists(d)
  BY <1>3, Appears
<1> QED
  BY <1>2, <1>3

LEMMA InitLedger == Init => LedgerInv
BY SupplyAssumption DEF Init, LedgerInv, SupplyFits, VaultsOpen, Exists, Total

LEMMA LedgerStep ==
  ASSUME TypeOK, LedgerInv, [Next]_vars
  PROVE  LedgerInv'
<1>1. CASE Next
  BY <1>1, SupplyStep, VaultsOpenStep DEF LedgerInv
<1>2. CASE UNCHANGED vars
  BY <1>2 DEF LedgerInv, SupplyFits, VaultsOpen, Exists, vars
<1> QED
  BY <1>1, <1>2

(* A vault can pay what it holds to every account of its mint: together     *)
(* they hold no more than the supply.                                       *)
LEMMA VaultCanPay ==
  ASSUME TypeOK, LedgerInv, NEW d \in Distributors, Exists(d),
         NEW to \in open \cap SameMint(VaultOf[d]),
         NEW amount \in Nat, amount <= balance[VaultOf[d]]
  PROVE  TransferAllowed(d, VaultOf[d], to, amount)
<1> DEFINE v == VaultOf[d]
<1>1. /\ v \in open /\ v \in TokenAccounts /\ OwnerOf[v] = d
      /\ MintOf[to] = MintOf[v]
      /\ v \in SameMint(v)
  BY AddressAssumption DEF LedgerInv, VaultsOpen, SameMint
<1>2. v # to => balance[to] + amount <= U64Max
  <2> SUFFICES ASSUME v # to PROVE balance[to] + amount <= U64Max
    OBVIOUS
  <2> DEFINE S == SameMint(v)
  <2>1. /\ IsFiniteSet(S) /\ to \in S /\ v \in S
        /\ \A b \in S : balance[b] \in Nat
        /\ Total(balance, S) \in Nat /\ Total(balance, S) <= U64Max
    BY <1>1, MintSum DEF LedgerInv, SupplyFits
  <2> HIDE DEF S, v
  <2>2. balance[v] + balance[to] <= Total(balance, S)
    BY <2>1, SumOfTwo
  <2>3. balance[v] \in Nat /\ balance[to] \in Nat /\ amount <= balance[v] /\ U64Max \in Nat
    BY <2>1, WidthAssumption DEF v
  <2> QED
    BY <2>1, <2>2, <2>3
<1> QED
  BY <1>1, <1>2 DEF TransferAllowed

(* A clawback that is due is stopped by nothing but a receiver that its     *)
(* owner has closed or that is of another mint, in any sequence of payments *)
(* and transfers: what ReclaimedInTheEnd needs at every moment.             *)
THEOREM ClawbackIsPayable == Spec => []ClawbackPayable
<1>1. TypeOK /\ LedgerInv /\ [Next]_vars => LedgerInv'
  BY LedgerStep
<1>2. ASSUME TypeOK, LedgerInv PROVE ClawbackPayable
  <2> SUFFICES ASSUME NEW d \in Distributors, Exists(d),
                      distributor[d].clawback_receiver \in open \cap SameMint(VaultOf[d])
               PROVE  TransferAllowed(d, VaultOf[d], distributor[d].clawback_receiver,
                                      balance[VaultOf[d]])
    BY DEF ClawbackPayable
  <2>1. balance[VaultOf[d]] \in Nat
    BY <1>2, AddressAssumption, WidthAssumption DEF TypeOK, U64
  <2>2. balance[VaultOf[d]] <= balance[VaultOf[d]]
    BY <2>1
  <2> QED
    BY <1>2, <2>1, <2>2, VaultCanPay
<1> QED
  BY <1>1, <1>2, InitLedger, TypeCorrect, PTL DEF Spec

-----------------------------------------------------------------------------
(* Caps that cover the tree are enough: what has been claimed goes, claim by*)
(* claim, into the leaves, and so does the next one.                        *)

(* Only a status that claim_locked can read has been withdrawn from. *)
UnreadableUntouched ==
  \A d \in Distributors : \A k \in Claimed(d) \ ReadableWallets : claim_status[d][k].at48 = 0

LEMMA UntouchedStep ==
  ASSUME TypeOK, ClaimsHaveDistributor, UnreadableUntouched, Next
  PROVE  UnreadableUntouched'
<1> SUFFICES ASSUME NEW d \in Distributors, NEW k \in Claimed(d)', k \notin ReadableWallets
             PROVE  claim_status'[d][k].at48 = 0
  BY DEF UnreadableUntouched
<1>1. CASE k \in Claimed(d)
  <2>1. /\ Exists(d)
        /\ claim_status[d][k].at48 = 0
        /\ k \in Wallets
    BY <1>1, ClaimedType DEF ClaimsHaveDistributor, UnreadableUntouched
  <2>2. CASE NothingPaid(d)
    BY <1>1, <2>1, <2>2 DEF NothingPaid
  <2>3. ASSUME NEW leaf \in AllLeaves, NEW from \in TokenAccounts, NEW to \in TokenAccounts,
               NewClaim(d, leaf, from, to)
        PROVE  claim_status'[d][k] = claim_status[d][k]
    <3>1. leaf.claimant # k /\ leaf.claimant \in Wallets
      BY <1>1, <2>3, ClaimMade
    <3> QED
      BY <2>1, <2>3, <3>1 DEF TypeOK, NewClaim
  <2>4. ASSUME NEW j \in Wallets, NEW to \in TokenAccounts, ClaimLocked(d, j, to)
        PROVE  claim_status'[d][k] = claim_status[d][k]
    <3>1. j # k
      BY <2>4 DEF ClaimLocked, StatusReadable
    <3> QED
      BY <2>1, <2>4, <3>1 DEF TypeOK, ClaimLocked
  <2> QED
    BY <2>1, <2>2, <2>3, <2>4, PaymentStep
<1>2. CASE k \notin Claimed(d)
  <2>1. PICK leaf \in AllLeaves, from \in TokenAccounts, to \in TokenAccounts :
          NewClaim(d, leaf, from, to)
    BY <1>2, ClaimStep
  <2>2. claim_status'[d][k] = WrittenStatus(leaf)
    BY <1>2, <2>1, ClaimMade
  <2> QED
    BY <2>2 DEF WrittenStatus
<1> QED
  BY <1>1, <1>2

(* The leaf of each claim, and of one more claimant. *)
LEMMA LeavesOfClaims ==
  ASSUME ClaimBackedByLeaf, NEW d \in Distributors,
         NEW leaf \in Provable[distributor[d].root]
  PROVE  \E f \in [Claimed(d) \cup {leaf.claimant} -> Provable[distributor[d].root]] :
           \A k \in Claimed(d) \cup {leaf.claimant} :
             /\ f[k].claimant = k
             /\ k \in Claimed(d) => f[k].unlocked = claim_status[d][k].at40
<1> DEFINE P == Provable[distributor[d].root]
           C == Claimed(d) \cup {leaf.claimant}
           Fits(k, l) == /\ l.claimant = k
                         /\ k \in Claimed(d) => l.unlocked = claim_status[d][k].at40
           f == [k \in C |-> CHOOSE l \in P : Fits(k, l)]
<1>1. ASSUME NEW k \in C PROVE \E l \in P : Fits(k, l)
  BY DEF ClaimBackedByLeaf
<1> HIDE DEF P, C, Fits
<1>2. f \in [C -> P] /\ \A k \in C : Fits(k, f[k])
  BY <1>1
<1> HIDE DEF f
<1> QED
  BY <1>2 DEF P, C, Fits

LEMMA AffordableWhenCounted ==
  ASSUME Inv, AmountsCounted, UnreadableUntouched, LedgerInv
  PROVE  ClaimsAffordable
<1> SUFFICES ASSUME NEW d \in Distributors, Exists(d), CapsCoverTree(d),
                    Outstanding(d) <= balance[VaultOf[d]],
                    Claimed(d) \cap ReadableWallets = {},
                    NEW leaf \in Provable[distributor[d].root],
                    leaf.claimant \notin Claimed(d)
             PROVE  /\ NodeSlotFree(d)
                    /\ UnderMaxTotal(d, leaf.unlocked)
                    /\ \A to \in open \cap SameMint(VaultOf[d]) :
                         TransferAllowed(d, VaultOf[d], to, leaf.unlocked)
  BY DEF ClaimsAffordable
<1> DEFINE root == distributor[d].root
           P == Provable[root]
           S == Claimed(d)
           C == S \cup {leaf.claimant}
           totals == LeafTotals(root)
<1>1. /\ TypeOK /\ ClaimBackedByLeaf
      /\ distributor[d] \in MerkleDistributor
      /\ U64 \subseteq Nat
  BY ExistsType, WidthAssumption DEF Inv, U64
<1>2. /\ P \in SUBSET Leaf
      /\ \A l \in P :
           /\ l.claimant \in Wallets
           /\ l.unlocked \in Nat /\ l.locked \in Nat
           /\ totals[l] = l.unlocked + l.locked
  <2>1. P \in SUBSET Leaf
    BY <1>1, DataAssumption DEF MerkleDistributor
  <2> QED
    BY <1>1, <2>1 DEF Leaf, LeafTotals
<1>3. \A l, m \in P : l.claimant = m.claimant => l = m
  BY DEF CapsCoverTree
<1>4. IsFiniteSet(P)
  <2> DEFINE h == [l \in P |-> l.claimant]
  <2>1. h \in Injection(P, Wallets)
    BY <1>2, <1>3 DEF Injection, IsInjective
  <2> QED
    BY <2>1, AddressAssumption, FS_Injection
<1>5. PICK f \in [C -> P] :
        \A k \in C :
          /\ f[k].claimant = k
          /\ k \in S => f[k].unlocked = claim_status[d][k].at40
  BY <1>1, LeavesOfClaims
<1>6. /\ \A x, y \in C : f[x] = f[y] => x = y
      /\ f[leaf.claimant] = leaf
  BY <1>3, <1>5
<1>7. /\ IsFiniteSet(S) /\ IsFiniteSet(C)
      /\ Cardinality(C) = Cardinality(S) + 1
  BY <1>1, PaidToType, FS_AddElement
<1>8. NodeSlotFree(d)
  <2>1. f \in Injection(C, P)
    BY <1>6 DEF Injection, IsInjective
  <2>2. Cardinality(C) <= Cardinality(P)
    BY <1>4, <2>1, FS_Injection
  <2>3. Cardinality(P) <= distributor[d].max_num_nodes
    BY DEF CapsCoverTree
  <2>4. distributor[d].num_nodes_claimed = Cardinality(S)
    BY DEF Inv, NodesCounted
  <2>5. /\ Cardinality(P) \in Nat /\ Cardinality(S) \in Nat
        /\ distributor[d].max_num_nodes \in Nat
    BY <1>1, <1>4, <1>7, FS_CardinalityType DEF MerkleDistributor
  <2> QED
    BY <1>7, <2>2, <2>3, <2>4, <2>5 DEF NodeSlotFree
<1> DEFINE a == [k \in C |-> f[k].unlocked]
<1>9. /\ \A k \in S : PaidTo(d)[k] \in Nat /\ a[k] = PaidTo(d)[k]
      /\ a[leaf.claimant] = leaf.unlocked
      /\ \A k \in C : a[k] \in Nat /\ a[k] <= totals[f[k]]
  <2>1. \A k \in S : PaidTo(d)[k] \in Nat /\ a[k] = PaidTo(d)[k]
    <3> SUFFICES ASSUME NEW k \in S PROVE PaidTo(d)[k] \in Nat /\ a[k] = PaidTo(d)[k]
      OBVIOUS
    <3>1. /\ PaidTo(d)[k] = claim_status[d][k].at40 + claim_status[d][k].at48
          /\ PaidTo(d)[k] \in Nat
      BY <1>1, PaidToType
    <3>2. claim_status[d][k].at40 \in Nat /\ claim_status[d][k].at48 = 0
      BY <1>1, ClaimedType DEF UnreadableUntouched, ClaimWords
    <3>3. a[k] = claim_status[d][k].at40
      BY <1>5
    <3> QED
      BY <3>1, <3>2, <3>3
  <2>2. \A k \in C : a[k] \in Nat /\ a[k] <= totals[f[k]]
    <3> SUFFICES ASSUME NEW k \in C PROVE a[k] \in Nat /\ a[k] <= totals[f[k]]
      OBVIOUS
    <3>1. f[k] \in P /\ a[k] = f[k].unlocked
      OBVIOUS
    <3> QED
      BY <1>2, <3>1
  <2> QED
    BY <1>6, <2>1, <2>2
<1>10. Total(a, C) = Total(PaidTo(d), S) + leaf.unlocked
  <2> DEFINE g == PaidTo(d)
             x == leaf.claimant
  <2>1. /\ x \notin S /\ a[x] = leaf.unlocked /\ a[x] \in Nat
        /\ \A y \in S : g[y] \in Nat /\ a[y] = g[y]
    BY <1>9
  <2> HIDE DEF g, x, a, S
  <2>2. Total(a, S \cup {x}) = Total(g, S) + a[x]
    BY <1>7, <2>1, SumAdd
  <2> QED
    BY <2>1, <2>2 DEF g, x
<1>11. Total(a, C) <= Total(totals, P)
  <2>1. \A l \in P : totals[l] \in Nat
    BY <1>2
  <2> HIDE DEF a, C, P, totals
  <2> QED
    BY <1>4, <1>5, <1>6, <1>7, <1>9, <2>1, SumInto
<1>12. /\ distributor[d].total_amount_claimed = Total(PaidTo(d), S)
       /\ Total(totals, P) <= distributor[d].max_total_claim
  BY DEF AmountsCounted, CapsCoverTree, Total
<1>13. /\ Total(a, C) \in Nat /\ Total(totals, P) \in Nat
       /\ distributor[d].total_amount_claimed \in Nat
       /\ distributor[d].max_total_claim \in Nat
       /\ leaf.unlocked \in Nat
       /\ balance[VaultOf[d]] \in Nat
  <2>1. Total(a, C) \in Nat
    <3> HIDE DEF a, C
    <3> QED
      BY <1>7, <1>9, SumType DEF Total
  <2>2. Total(totals, P) \in Nat
    <3>1. \A l \in P : totals[l] \in Nat
      BY <1>2
    <3> HIDE DEF totals, P
    <3> QED
      BY <1>4, <3>1, SumType DEF Total
  <2>3. VaultOf[d] \in TokenAccounts
    BY AddressAssumption
  <2> QED
    BY <1>1, <1>2, <2>1, <2>2, <2>3 DEF MerkleDistributor, TypeOK
<1>14. distributor[d].total_amount_claimed + leaf.unlocked <= distributor[d].max_total_claim
  <2> HIDE DEF a, C, P, totals, S
  <2> QED
    BY <1>10, <1>11, <1>12, <1>13
<1>15. leaf.unlocked <= balance[VaultOf[d]]
  BY <1>13, <1>14 DEF Outstanding
<1>16. \A to \in open \cap SameMint(VaultOf[d]) :
         TransferAllowed(d, VaultOf[d], to, leaf.unlocked)
  <2>1. leaf.unlocked \in Nat
    BY <1>13
  <2> QED
    BY <1>1, <1>15, <2>1, VaultCanPay
<1> QED
  BY <1>8, <1>14, <1>16 DEF UnderMaxTotal, NewTotal

LEMMA InitUntouched == Init => UnreadableUntouched
BY NothingClaimed DEF UnreadableUntouched

(* With caps and a vault that cover the tree, no order of claims and of     *)
(* everything else leaves a claimant without slot, room or tokens, for any  *)
(* number of claimants and distributors: what ClaimedInTheEnd needs at      *)
(* every moment.                                                            *)
THEOREM ClaimsAreAffordable == Spec => []ClaimsAffordable
<1>1. Inv /\ UnreadableUntouched /\ [Next]_vars => UnreadableUntouched'
  <2>1. ASSUME UnreadableUntouched, UNCHANGED vars PROVE UnreadableUntouched'
    BY <2>1 DEF UnreadableUntouched, Claimed, vars
  <2> QED
    BY <2>1, UntouchedStep DEF Inv
<1>2. Inv /\ AmountsCounted /\ UnreadableUntouched /\ LedgerInv => ClaimsAffordable
  BY AffordableWhenCounted
<1>3. Inv /\ LedgerInv /\ [Next]_vars => LedgerInv'
  BY LedgerStep DEF Inv
<1> QED
  BY <1>1, <1>2, <1>3, InitUntouched, InitLedger, InvHolds, AmountsAreCounted, PTL DEF Spec
=============================================================================
