----------------------------- MODULE ClaimStatus -----------------------------
(***************************************************************************)
(* The vesting arithmetic of a claim: the methods of the ClaimStatus       *)
(* account (programs/merkle-distributor/src/state/claim_status.rs), as     *)
(* functions of the fields they read.  A method that returns               *)
(* Err(ArithmeticError) yields the value ArithmeticError, which is no u64. *)
(*                                                                         *)
(* The machine widths are constants, so that the checked operations and    *)
(* the truncating cast can be exercised with small numbers; the program's  *)
(* own values are U64Max = 2^64 - 1 and I64Max = 2^63 - 1.                 *)
(***************************************************************************)
EXTENDS Integers

CONSTANTS
  U64Max,   \* the largest u64: token amounts and counters
  I64Max    \* the largest i64: Unix timestamps

ASSUME WidthAssumption ==
  /\ U64Max \in Nat \ {0}
  /\ I64Max \in Nat \ {0}
  /\ I64Max <= U64Max

U64  == 0 .. U64Max
I64  == (-I64Max - 1) .. I64Max
U128 == 0 .. ((U64Max + 1) * (U64Max + 1) - 1)

ArithmeticError == -1

-----------------------------------------------------------------------------
\* Mutant: the division rounds up.
ProRataRoundedUp(locked, time_into_unlock, total_unlock_time) ==
  (time_into_unlock * locked + total_unlock_time - 1) \div total_unlock_time

(***************************************************************************)
(* The share of locked that has been released into_unlock seconds after    *)
(* the start of a schedule of total_unlock_time seconds: a checked u128    *)
(* product, a division rounding down, and a cast that drops the high bits. *)
(***************************************************************************)
ProRata(locked, time_into_unlock, total_unlock_time) ==
  LET product == time_into_unlock * locked
  IN  IF /\ time_into_unlock \in I64
         /\ total_unlock_time \in I64 \ {0}
         /\ product \in U128
      THEN (product \div total_unlock_time) % (U64Max + 1)
      ELSE ArithmeticError

(* Total amount unlocked at curr_ts.  The order of the tests is the code's: *)
(* a schedule whose end precedes its start releases nothing before start.   *)
UnlockedAmount(locked, curr_ts, start_ts, end_ts) ==
  CASE curr_ts < start_ts -> 0
    [] curr_ts >= start_ts /\ curr_ts >= end_ts -> locked
    [] OTHER -> ProRata(locked, curr_ts - start_ts, end_ts - start_ts)

(* What is unlocked and not withdrawn yet; the subtraction is checked. *)
AmountWithdrawable(locked, withdrawn, curr_ts, start_ts, end_ts) ==
  LET unlocked == UnlockedAmount(locked, curr_ts, start_ts, end_ts)
  IN  IF unlocked = ArithmeticError \/ unlocked < withdrawn
      THEN ArithmeticError
      ELSE unlocked - withdrawn
=============================================================================
