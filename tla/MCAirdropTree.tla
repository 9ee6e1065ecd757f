--------------------------- MODULE MCAirdropTree ---------------------------
(***************************************************************************)
(* Files of up to three rows of three claimants, whose amounts reach the   *)
(* largest u64 exactly, pass it by one row, by one product, and by the sum *)
(* of categories or claimants only.                                        *)
(***************************************************************************)
EXTENDS AirdropTree

CONSTANTS alice, bob, carol

MCClaimants == {alice, bob, carol}

Amounts == {<<0, 0>>, <<1, 1>>, <<2, 0>>, <<0, 3>>, <<4, 0>>}

MCCsvEntries ==
  {[claimant |-> k, category |-> c, amount_unlocked |-> a[1], amount_locked |-> a[2]] :
     k \in MCClaimants, c \in AirdropCategory, a \in Amounts}
=============================================================================
