------------------------------ MODULE MCLaunch ------------------------------
(* Up to two rows for two claimants, one of them the launcher.             *)
EXTENDS Launch, TLC

CONSTANTS
  bob, drop1, drop2, vault1, vault2, bobAta, mint

MCVersions == {drop1, drop2}
MCTokenAccounts == {treasury, bobAta, vault1, vault2}
FewTokenAccounts == {treasury, vault1, vault2}
MCVaultOf == drop1 :> vault1 @@ drop2 :> vault2
FewOwnerOf == treasury :> launcher @@ vault1 :> drop1 @@ vault2 :> drop2
MCOwnerOf == FewOwnerOf @@ bobAta :> bob
MCMintOf == [a \in TokenAccounts |-> mint]
MCInitialBalance == [a \in TokenAccounts |-> IF a = treasury THEN 5 ELSE 0]

(* Rows whose sums are of one claimant or two, of one amount or both. *)
Row(k, c, u, l) ==
  [claimant |-> k, category |-> c, amount_unlocked |-> u, amount_locked |-> l]
BobsRows == {Row(bob, "Staker", 1, 0), Row(bob, "Searcher", 0, 1)}
RowPerClaimant == {Row(bob, "Staker", 1, 0), Row(launcher, "Staker", 0, 1)}

(* The trees of one row or two. *)
L(k, u, l) == [claimant |-> k, unlocked |-> u, locked |-> l]
BobsTrees ==
  {{L(bob, 2, 0)}, {L(bob, 0, 2)}, {L(bob, 4, 0)}, {L(bob, 0, 4)}, {L(bob, 2, 2)}}
TreesPerClaimant ==
  {{L(bob, 2, 0)}, {L(bob, 4, 0)}, {L(launcher, 0, 2)}, {L(launcher, 0, 4)},
   {L(bob, 2, 0), L(launcher, 0, 2)}}
MCProvable == [r \in Roots |-> r]

Schedule(start, end, clawback) ==
  [start_ts |-> start, end_ts |-> end, clawback_start_ts |-> clawback]
MCLaunchSchedule == Schedule(2, 3, 4)
ShortSchedule == Schedule(1, 2, 3)
OneSchedule == {ShortSchedule}
MCSchedules == {MCLaunchSchedule, Schedule(1, 2, 3)}
MCLateArgs ==
  {[root |-> {[claimant |-> bob, unlocked |-> 4, locked |-> 0]},
    max_total_claim |-> 4, max_num_nodes |-> 1,
    start_ts |-> 2, end_ts |-> 3, clawback_start_ts |-> 4]}
=============================================================================
