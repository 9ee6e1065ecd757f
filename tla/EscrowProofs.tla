---------------------------- MODULE EscrowProofs ----------------------------
(***************************************************************************)
(* The on-chain program implements the Escrow: its initial states map to   *)
(* initial states, and every instruction and outside action maps to a step *)
(* of the Escrow or to none.  The limits of the Escrow are on its awards,  *)
(* those of the program on its counters; NodesCounted and AmountsCounted   *)
(* connect them.  Its due amounts are quotients of unbounded numbers, those*)
(* of the program are checked and cast; ProRataExact connects those.  What *)
(* vests by the leaf is what claim_locked releases under LayoutsAgree only.*)
(***************************************************************************)
EXTENDS DistributorProofs, DistributorEscrow

-----------------------------------------------------------------------------
(* The mapping, one distributor at a time *)

LEMMA MappedTerms ==
  ASSUME TypeOK, NEW d \in Distributors, Exists(d)
  PROVE  /\ GrantTerms[d] = TermsOf(distributor[d])
         /\ TermsOf(distributor[d]) \in EscrowTerms
         /\ GrantTerms[d] # NoAccount
<1>1. distributor[d] \in MerkleDistributor
  BY ExistsType
<1>2. TermsOf(distributor[d]) \in EscrowTerms
  BY <1>1 DEF TermsOf, EscrowTerms, MerkleDistributor
<1> QED
  BY <1>2, TermsAssumption DEF GrantTerms

(* The Escrow counts and sums as the rest of the modules do.                *)
LEMMA SameCardinality == ASSUME NEW S PROVE Grant!Cardinality(S) = Cardinality(S)
BY DEF Grant!Cardinality, Cardinality

LEMMA SameSum ==
  ASSUME NEW S, NEW g
  PROVE  Grant!SumFunctionOnSet(g, S) = SumFunctionOnSet(g, S)
BY DEF Grant!SumFunctionOnSet, SumFunctionOnSet, Grant!FoldFunctionOnSet,
       FoldFunctionOnSet, Grant!MapThenFoldSet, MapThenFoldSet

(* The counters of the program bound the awards.                            *)
LEMMA MappedWithinTerms ==
  ASSUME TypeOK, NodesCounted, AmountsCounted, NEW d \in Distributors, Exists(d)
  PROVE  Grant!WithinTerms(GrantAward[d], GrantTerms[d])
<1> DEFINE A == GrantAward[d]
<1>1. A = [k \in Claimed(d) |-> AwardOf(claim_status[d][k])]
  BY DEF GrantAward
<1>2. DOMAIN A = Claimed(d) /\ \A k \in Claimed(d) :
        /\ A[k].at_once = claim_status[d][k].at40
        /\ A[k].released = claim_status[d][k].at48
  BY <1>1 DEF AwardOf
<1>3. /\ GrantTerms[d].slots = distributor[d].max_num_nodes
      /\ GrantTerms[d].budget = distributor[d].max_total_claim
  <2>1. GrantTerms[d] = TermsOf(distributor[d])
    BY MappedTerms
  <2> QED
    BY <2>1 DEF TermsOf
<1> HIDE DEF A
<1>4. [k \in DOMAIN A |-> A[k].at_once + A[k].released] = PaidTo(d)
  BY <1>2 DEF PaidTo
<1>5. Grant!Spent(A) = SumFunctionOnSet(PaidTo(d), Claimed(d))
  BY <1>2, <1>4, SameSum DEF Grant!Spent
<1>6. Cardinality(DOMAIN A) <= GrantTerms[d].slots
  BY <1>2, <1>3 DEF NodesCounted
<1>7. Grant!Spent(A) <= GrantTerms[d].budget
  BY <1>3, <1>5 DEF AmountsCounted
<1> QED
  BY <1>6, <1>7, SameCardinality DEF Grant!WithinTerms, A

(* An amount due is what unlocked_amount computes.                          *)
LEMMA DueIsUnlocked ==
  ASSUME TypeOK, NEW d \in Distributors, Exists(d), NEW amount \in U64,
         Schedule(distributor[d].start_ts, distributor[d].end_ts)
  PROVE  Grant!Due(amount, GrantTerms[d]) =
           UnlockedAmount(amount, now, distributor[d].start_ts, distributor[d].end_ts)
<1> DEFINE t == GrantTerms[d]
           start == distributor[d].start_ts
           end == distributor[d].end_ts
<1>1. t.start = start /\ t.end = end
  <2>1. GrantTerms[d] = TermsOf(distributor[d])
    BY MappedTerms
  <2> QED
    BY <2>1 DEF TermsOf
<1>2. /\ now \in 0 .. I64Max /\ now \in Int
      /\ start \in 0 .. I64Max /\ end \in 0 .. I64Max /\ start < end
      /\ start \in Int /\ end \in Int /\ I64Max \in Nat /\ amount \in Nat
  BY WidthAssumption DEF TypeOK, UnixTime, Schedule, U64
<1> HIDE DEF t, start, end
<1>3. CASE now < start
  BY <1>1, <1>2, <1>3 DEF Grant!Due, UnlockedAmount, t, start, end
<1>4. CASE now >= end
  BY <1>1, <1>2, <1>4 DEF Grant!Due, UnlockedAmount, t, start, end
<1>5. CASE now >= start /\ now < end
  <2>1. end - start \in 1 .. I64Max /\ now - start \in 0 .. (end - start)
    BY <1>2, <1>5
  <2>2. ProRata(amount, now - start, end - start) = ((now - start) * amount) \div (end - start)
    BY <2>1, ProRataExact
  <2>3. (now - start) * amount = amount * (now - start)
    BY <1>2
  <2>4. UnlockedAmount(amount, now, start, end) = ProRata(amount, now - start, end - start)
    BY <1>2, <1>5 DEF UnlockedAmount
  <2>5. Grant!Due(amount, t) = (amount * (now - start)) \div (end - start)
    BY <1>1, <1>2, <1>5 DEF Grant!Due
  <2> QED
    BY <2>2, <2>3, <2>4, <2>5 DEF t, start, end
<1> QED
  BY <1>2, <1>3, <1>4, <1>5

(* Whose status claim_locked can read, it finds the promised amount in the  *)
(* word it takes for it.                                                    *)
LEMMA LayoutsDoNotMatter ==
  ASSUME LayoutsAgree, TypeOK, ClaimBackedByLeaf, NEW d \in Distributors, Exists(d),
         NEW k \in Claimed(d) \cap ReadableWallets
  PROVE  claim_status[d][k].at32 = claim_status[d][k].at40
<1>1. distributor[d].root \in Roots
  BY ExistsType DEF MerkleDistributor
<1>2. PICK leaf \in Provable[distributor[d].root] :
        /\ leaf.claimant = k
        /\ leaf.locked = claim_status[d][k].at32
        /\ leaf.unlocked = claim_status[d][k].at40
  BY DEF ClaimBackedByLeaf
<1> QED
  BY <1>1, <1>2 DEF LayoutsAgree

-----------------------------------------------------------------------------
(* The steps *)

MappedUnchanged == UNCHANGED <<now, GrantTerms, GrantClosed, GrantAward>>

LEMMA SameMapping ==
  ASSUME UNCHANGED <<distributor, claim_status>>
  PROVE  UNCHANGED <<GrantTerms, GrantClosed, GrantAward>>
BY DEF GrantTerms, GrantClosed, GrantAward, Exists, Claimed

LEMMA NewDistributorOpens ==
  ASSUME Inv, Inv', NEW d \in Distributors, NEW admin \in Wallets,
         NEW receiver \in TokenAccounts, NEW args \in NewDistributorArgs,
         NewDistributor(d, admin, receiver, args)
  PROVE  Grant!Open(d, TermsOf(args))
<1>1. args \in Arguments /\ ~Exists(d) /\ Exists(d)'
  <2>1. distributor'[d] # NoAccount
    <3>1. distributor'[d] =
            [root |-> args.root, max_total_claim |-> args.max_total_claim,
             max_num_nodes |-> args.max_num_nodes, total_amount_claimed |-> 0,
             num_nodes_claimed |-> 0, start_ts |-> args.start_ts, end_ts |-> args.end_ts,
             clawback_start_ts |-> args.clawback_start_ts, clawback_receiver |-> receiver,
             admin |-> admin, clawed_back |-> FALSE]
      BY DEF Inv, TypeOK, NewDistributor
    <3>2. distributor'[d] \in MerkleDistributor
      BY <3>1, DataAssumption, WidthAssumption DEF MerkleDistributor, Keys, Arguments, U64
    <3> QED
      BY <3>2, AccountAssumption
  <2> QED
    BY <2>1, DataAssumption DEF NewDistributor, Exists
<1>2. TermsOf(distributor'[d]) = TermsOf(args) /\ distributor'[d].clawed_back = FALSE
  BY DEF Inv, TypeOK, NewDistributor, TermsOf
<1>3. \A e \in Distributors \ {d} : distributor'[e] = distributor[e]
  BY DEF Inv, TypeOK, NewDistributor
<1>4. GrantTerms[d] = NoAccount /\ GrantTerms' = [GrantTerms EXCEPT ![d] = TermsOf(args)]
  BY <1>1, <1>2, <1>3 DEF GrantTerms, Exists
<1>5. GrantClosed' = GrantClosed
  BY <1>1, <1>2, <1>3 DEF GrantClosed, Exists
<1>6. GrantAward' = GrantAward /\ now' = now
  BY DEF GrantAward, Claimed, NewDistributor
<1>7. /\ now < TermsOf(args).start /\ TermsOf(args).start < TermsOf(args).end
      /\ TermsOf(args).end + SecondsPerDay <= TermsOf(args).reclaim
  BY DEF NewDistributor, TimestampsAccepted, TermsOf
<1> QED
  BY <1>4, <1>5, <1>6, <1>7 DEF Grant!Open

LEMMA NewClaimAwards ==
  ASSUME Inv, Inv', AmountsCounted', NEW d \in Distributors, NEW leaf \in AllLeaves,
         NEW from \in TokenAccounts, NEW to \in TokenAccounts, NewClaim(d, leaf, from, to)
  PROVE  /\ distributor[d].root \in Roots
         /\ OfferOf(leaf) \in {OfferOf(l) : l \in Provable[distributor[d].root]}
         /\ Grant!Award(d, OfferOf(leaf))
<1> DEFINE k == leaf.claimant
           made == [at_once |-> leaf.unlocked, vesting |-> leaf.locked, released |-> 0]
           awards == [j \in DOMAIN GrantAward[d] \cup {k} |->
                        IF j = k THEN made ELSE GrantAward[d][j]]
<1>1. /\ k \in Wallets \ Claimed(d)
      /\ Claimed(d)' = Claimed(d) \cup {k}
      /\ claim_status'[d][k] = WrittenStatus(leaf)
      /\ leaf \in Leaf
      /\ leaf \in Provable[distributor[d].root]
      /\ Exists(d) /\ Exists(d)'
      /\ distributor[d] \in MerkleDistributor
  BY ClaimMade, ExistsType DEF Inv
<1>2. Continues(distributor[d], distributor'[d]) /\ distributor'[d].clawed_back = FALSE
  <2>1. distributor'[d] = [distributor[d] EXCEPT
          !.num_nodes_claimed = distributor[d].num_nodes_claimed + 1,
          !.total_amount_claimed = distributor[d].total_amount_claimed + leaf.unlocked]
    BY NewClaimContinues DEF Inv
  <2>2. distributor[d].clawed_back = FALSE
    BY <1>1 DEF NewClaim, MerkleDistributor
  <2> QED
    BY <1>1, <2>1, <2>2, NewClaimContinues DEF Inv, MerkleDistributor
<1>3. \A e \in Distributors \ {d} :
        distributor'[e] = distributor[e] /\ claim_status'[e] = claim_status[e]
  BY DEF Inv, TypeOK, NewClaim
<1>4. GrantTerms' = GrantTerms /\ GrantClosed' = GrantClosed
  <2>1. \A e \in Distributors \ {d} : Exists(e)' = Exists(e)
    BY <1>3 DEF Exists
  <2>2. TermsOf(distributor'[d]) = TermsOf(distributor[d])
    BY <1>2 DEF TermsOf, Continues
  <2>3. distributor[d].clawed_back = FALSE
    BY <1>1 DEF NewClaim, MerkleDistributor
  <2>4. GrantTerms' = GrantTerms
    BY <1>1, <1>3, <2>1, <2>2 DEF GrantTerms
  <2>5. GrantClosed' = GrantClosed
    BY <1>1, <1>2, <1>3, <2>1, <2>3 DEF GrantClosed
  <2> QED
    BY <2>4, <2>5
<1>5. DOMAIN GrantAward[d] = Claimed(d)
      /\ \A j \in Claimed(d) : GrantAward[d][j] = AwardOf(claim_status[d][j])
  BY DEF GrantAward
<1>6. GrantAward'[d] = awards
  <2>1. \A j \in Claimed(d) : claim_status'[d][j] = claim_status[d][j]
    BY <1>1 DEF Inv, TypeOK, NewClaim, Claimed
  <2>2. AwardOf(claim_status'[d][k]) = made
    BY <1>1 DEF AwardOf, WrittenStatus
  <2>3. GrantAward'[d] = [j \in Claimed(d) \cup {k} |-> AwardOf(claim_status'[d][j])]
    BY <1>1 DEF GrantAward
  <2> HIDE DEF k, made
  <2> QED
    BY <1>1, <1>5, <2>1, <2>2, <2>3
<1>7. GrantAward' = [GrantAward EXCEPT ![d] = awards]
  <2>1. \A e \in Distributors \ {d} : GrantAward'[e] = GrantAward[e]
    BY <1>3 DEF GrantAward, Claimed
  <2> HIDE DEF awards
  <2> QED
    BY <1>6, <2>1 DEF GrantAward
<1>8. Grant!WithinTerms(awards, GrantTerms[d])
  <2>1. (Grant!WithinTerms(GrantAward[d], GrantTerms[d]))'
    BY <1>1, MappedWithinTerms, PTL DEF Inv
  <2> HIDE DEF awards
  <2> QED
    BY <1>4, <1>6, <2>1 DEF Grant!WithinTerms, Grant!Spent
<1>9. /\ GrantTerms[d] # NoAccount
      /\ GrantTerms[d].root = distributor[d].root
      /\ ~GrantClosed[d]
  <2>1. GrantTerms[d] = TermsOf(distributor[d]) /\ GrantTerms[d] # NoAccount
    BY <1>1, MappedTerms DEF Inv
  <2>2. ~distributor[d].clawed_back
    BY DEF NewClaim
  <2>3. GrantTerms[d].root = distributor[d].root
    BY <2>1 DEF TermsOf
  <2> QED
    BY <2>1, <2>2, <2>3 DEF GrantClosed
<1>10. OfferOf(leaf).claimant = k /\ OfferOf(leaf).at_once = leaf.unlocked
       /\ OfferOf(leaf).vesting = leaf.locked
  BY DEF OfferOf
<1>11. distributor[d].root \in Roots
  BY <1>1 DEF MerkleDistributor
<1>12. Grant!Award(d, OfferOf(leaf))
  <2>1. now' = now
    BY DEF NewClaim
  <2>2. k \notin DOMAIN GrantAward[d]
    BY <1>1, <1>5
  <2>3. OfferOf(leaf) \in
          [r \in Roots |-> {OfferOf(l) : l \in Provable[r]}][GrantTerms[d].root]
    BY <1>1, <1>9, <1>11
  <2> QED
    BY <1>4, <1>7, <1>8, <1>9, <1>10, <2>1, <2>2, <2>3 DEF Grant!Award, Grant!Payable
<1> QED
  BY <1>1, <1>11, <1>12

LEMMA ClaimLockedReleases ==
  ASSUME LayoutsAgree, Inv, Inv', AmountsCounted', NEW d \in Distributors, NEW k \in Wallets,
         NEW to \in TokenAccounts, ClaimLocked(d, k, to)
  PROVE  k \in DOMAIN GrantAward[d] /\ Grant!Release(d, k)
<1> DEFINE words == claim_status[d][k]
           unlocked == UnlockedAmount(words.at40, now,
                                      distributor[d].start_ts, distributor[d].end_ts)
           awards == [GrantAward[d] EXCEPT ![k].released = unlocked]
<1>1. /\ k \in Claimed(d)
      /\ Exists(d)
      /\ ~distributor[d].clawed_back
      /\ distributor[d] \in MerkleDistributor
      /\ words \in ClaimWords
      /\ Withdrawable(d, k) # ArithmeticError
      /\ Withdrawable(d, k) > 0
  BY ExistsType, ClaimedType DEF Inv, ClaimLocked, StatusReadable
<1>2. Schedule(distributor[d].start_ts, distributor[d].end_ts)
  BY <1>1 DEF Inv, ScheduleAccepted
<1>3. unlocked \in 0 .. words.at40
  BY <1>1, <1>2, UnlockedWithinLocked DEF Inv, TypeOK, ClaimWords, UnixTime
<1>4. /\ Withdrawable(d, k) \in U64
      /\ Withdrawable(d, k) = unlocked - words.at48
      /\ claim_status'[d][k] = [words EXCEPT !.at48 = words.at48 + Withdrawable(d, k)]
      /\ distributor'[d] = [distributor[d] EXCEPT
           !.total_amount_claimed =
              distributor[d].total_amount_claimed + Withdrawable(d, k)]
      /\ Continues(distributor[d], distributor'[d])
  BY <1>1, WithdrawableBounds, ClaimLockedContinues
     DEF Inv, LockedAmount, LockedAmountWithdrawn
<1>5. unlocked > words.at48 /\ words.at48 + Withdrawable(d, k) = unlocked
  <2>1. words.at48 \in Int /\ words.at40 \in Int
    BY <1>1, WidthAssumption DEF ClaimWords, U64
  <2> HIDE DEF words, unlocked
  <2> QED
    BY <1>1, <1>3, <1>4, <2>1
<1>6. claim_status'[d][k] = [words EXCEPT !.at48 = unlocked]
  BY <1>4, <1>5
<1>7. Exists(d)' /\ distributor'[d].clawed_back = FALSE
  <2>1. distributor'[d].clawed_back = distributor[d].clawed_back
    BY <1>1, <1>4 DEF MerkleDistributor
  <2> QED
    BY <1>1, <1>4, <2>1, AccountAssumption DEF Continues, Exists, MerkleDistributor
<1>8. /\ \A e \in Distributors \ {d} :
           distributor'[e] = distributor[e] /\ claim_status'[e] = claim_status[e]
      /\ \A j \in Wallets \ {k} : claim_status'[d][j] = claim_status[d][j]
  BY DEF Inv, TypeOK, ClaimLocked
<1>9. GrantTerms' = GrantTerms /\ GrantClosed' = GrantClosed
  <2>1. \A e \in Distributors \ {d} : Exists(e)' = Exists(e)
    BY <1>8 DEF Exists
  <2>2. TermsOf(distributor'[d]) = TermsOf(distributor[d])
    BY <1>4 DEF TermsOf, Continues
  <2>3. distributor[d].clawed_back = FALSE
    BY <1>1 DEF MerkleDistributor
  <2>4. GrantTerms' = GrantTerms
    BY <1>1, <1>7, <1>8, <2>1, <2>2 DEF GrantTerms
  <2>5. GrantClosed' = GrantClosed
    BY <1>1, <1>7, <1>8, <2>1, <2>3 DEF GrantClosed
  <2> QED
    BY <2>4, <2>5
<1>10. Claimed(d)' = Claimed(d)
  <2>1. claim_status'[d][k] \in ClaimWords
    BY ClaimLockedContinues DEF Inv
  <2> QED
    BY <1>1, <1>8, <2>1, AccountAssumption DEF Claimed
<1>11. /\ DOMAIN GrantAward[d] = Claimed(d)
       /\ GrantAward[d][k].vesting = words.at32
       /\ GrantAward[d][k].released = words.at48
       /\ GrantAward[d] = [j \in Claimed(d) |-> AwardOf(claim_status[d][j])]
  BY <1>1 DEF GrantAward, AwardOf
<1>12. GrantAward'[d] = awards
  <2>1. AwardOf(claim_status'[d][k]) = [AwardOf(words) EXCEPT !.released = unlocked]
    <3> HIDE DEF unlocked
    <3> QED
      BY <1>1, <1>6 DEF AwardOf, ClaimWords
  <2>2. GrantAward'[d] = [j \in Claimed(d) |-> AwardOf(claim_status'[d][j])]
    BY <1>10 DEF GrantAward
  <2>3. GrantAward[d][k] = AwardOf(words)
    BY <1>1 DEF GrantAward
  <2>4. \A j \in Claimed(d) \ {k} : claim_status'[d][j] = claim_status[d][j]
    BY <1>8 DEF Claimed
  <2> HIDE DEF unlocked, words
  <2> QED
    BY <1>1, <1>11, <2>1, <2>2, <2>3, <2>4 DEF words
<1>13. GrantAward' = [GrantAward EXCEPT ![d] = awards]
  <2>1. \A e \in Distributors \ {d} : GrantAward'[e] = GrantAward[e]
    BY <1>8 DEF GrantAward, Claimed
  <2> HIDE DEF awards
  <2> QED
    BY <1>12, <2>1 DEF GrantAward
<1>14. Grant!WithinTerms(awards, GrantTerms[d])
  <2>1. (Grant!WithinTerms(GrantAward[d], GrantTerms[d]))'
    BY <1>7, MappedWithinTerms, PTL DEF Inv
  <2> HIDE DEF awards
  <2> QED
    BY <1>9, <1>12, <2>1 DEF Grant!WithinTerms, Grant!Spent
<1>15. Grant!Due(GrantAward[d][k].vesting, GrantTerms[d]) = unlocked
  <2>1. words.at32 = words.at40
    BY <1>1, LayoutsDoNotMatter DEF Inv, ClaimLocked, StatusReadable
  <2> QED
    BY <1>1, <1>2, <1>11, <2>1, DueIsUnlocked DEF Inv, ClaimWords
<1>16. Grant!Payable(d)
  BY <1>1, MappedTerms DEF Inv, Grant!Payable, GrantClosed
<1>17. now' = now
  BY DEF ClaimLocked
<1> HIDE DEF unlocked, words
<1> QED
  BY <1>1, <1>5, <1>9, <1>11, <1>13, <1>14, <1>15, <1>16, <1>17 DEF Grant!Release

LEMMA ClawbackCloses ==
  ASSUME Inv, NEW d \in Distributors, Clawback(d)
  PROVE  Grant!Close(d)
<1>1. /\ Exists(d) /\ ~distributor[d].clawed_back
      /\ now >= distributor[d].clawback_start_ts
      /\ distributor[d] \in MerkleDistributor
      /\ now' = now /\ claim_status' = claim_status
      /\ distributor' = [distributor EXCEPT ![d].clawed_back = TRUE]
  BY ExistsType DEF Inv, Clawback, ClawbackOpen
<1>2. /\ distributor'[d] = [distributor[d] EXCEPT !.clawed_back = TRUE]
      /\ \A e \in Distributors \ {d} : distributor'[e] = distributor[e]
  BY <1>1 DEF Inv, TypeOK
<1>3. /\ distributor'[d] \in MerkleDistributor /\ distributor'[d].clawed_back = TRUE
      /\ TermsOf(distributor'[d]) = TermsOf(distributor[d])
  <2> DEFINE old == distributor[d]
             new == distributor'[d]
  <2>1. new = [old EXCEPT !.clawed_back = TRUE] /\ old \in MerkleDistributor
    BY <1>1, <1>2
  <2>2. new \in MerkleDistributor /\ new.clawed_back = TRUE
    <3> HIDE DEF old, new
    <3> QED
      BY <2>1 DEF MerkleDistributor
  <2>3. /\ new.root = old.root
        /\ new.max_total_claim = old.max_total_claim
        /\ new.max_num_nodes = old.max_num_nodes
        /\ new.start_ts = old.start_ts
        /\ new.end_ts = old.end_ts
        /\ new.clawback_start_ts = old.clawback_start_ts
    <3> HIDE DEF old, new
    <3> QED
      BY <2>1 DEF MerkleDistributor
  <2> QED
    BY <2>2, <2>3 DEF TermsOf
<1>4. Exists(d)'
  BY <1>3, AccountAssumption DEF Exists
<1>5. GrantTerms' = GrantTerms /\ GrantAward' = GrantAward
  BY <1>1, <1>2, <1>3, <1>4 DEF GrantTerms, GrantAward, Exists, Claimed
<1>6. GrantClosed' = [GrantClosed EXCEPT ![d] = TRUE]
  BY <1>2, <1>3, <1>4 DEF GrantClosed, Exists
<1>7. /\ GrantTerms[d] = TermsOf(distributor[d])
      /\ GrantTerms[d] # NoAccount
      /\ ~GrantClosed[d]
  BY <1>1, MappedTerms DEF Inv, GrantClosed
<1>8. GrantTerms[d].reclaim = distributor[d].clawback_start_ts
  BY <1>7 DEF TermsOf
<1> QED
  BY <1>1, <1>5, <1>6, <1>7, <1>8 DEF Grant!Close, Grant!Payable

(* Who the admin and the receiver are is no part of the promise.            *)
LEMMA AdminChangesNothing ==
  ASSUME Inv, NEW d \in Distributors,
         \/ \E signer \in Wallets, a \in TokenAccounts : SetClawbackReceiver(d, signer, a)
         \/ \E signer \in Wallets, new_admin \in Keys : SetAdmin(d, signer, new_admin)
  PROVE  MappedUnchanged
<1>1. Exists(d) /\ distributor[d] \in MerkleDistributor
  BY ExistsType DEF Inv, SetClawbackReceiver, SetAdmin
<1>2. /\ now' = now /\ claim_status' = claim_status
      /\ \A e \in Distributors \ {d} : distributor'[e] = distributor[e]
      /\ \/ \E a \in TokenAccounts :
              distributor'[d] = [distributor[d] EXCEPT !.clawback_receiver = a]
         \/ \E k \in Keys : distributor'[d] = [distributor[d] EXCEPT !.admin = k]
  BY <1>1 DEF Inv, TypeOK, SetClawbackReceiver, SetAdmin
<1>3. /\ distributor'[d] \in MerkleDistributor
      /\ distributor'[d].clawed_back = distributor[d].clawed_back
      /\ TermsOf(distributor'[d]) = TermsOf(distributor[d])
  BY <1>1, <1>2 DEF MerkleDistributor, TermsOf
<1>4. Exists(d)'
  BY <1>3, AccountAssumption DEF Exists
<1>5. GrantTerms' = GrantTerms /\ GrantClosed' = GrantClosed
  BY <1>1, <1>2, <1>3, <1>4 DEF GrantTerms, GrantClosed, Exists
<1>6. GrantAward' = GrantAward
  BY <1>2 DEF GrantAward, Claimed
<1> QED
  BY <1>2, <1>5, <1>6 DEF MappedUnchanged

LEMMA EnvironmentPasses ==
  ASSUME Inv, Inv', Environment
  PROVE  MappedUnchanged \/ Grant!Pass
<1>1. CASE Tick
  <2>1. now \in Nat /\ now' \in Nat /\ now' > now
    BY <1>1, WidthAssumption DEF Inv, TypeOK, UnixTime, Tick
  <2> QED
    BY <1>1, <2>1, SameMapping DEF Tick, Grant!Pass
<1>2. ASSUME NEW d \in Distributors, NEW k \in Wallets, Prefund(d, k)
      PROVE  MappedUnchanged
  <2>1. /\ claim_status[d][k] = NoAccount /\ claim_status'[d][k] = LamportsOnly
        /\ \A e \in Distributors, j \in Wallets :
             j # k \/ e # d => claim_status'[e][j] = claim_status[e][j]
        /\ distributor' = distributor /\ now' = now
    BY <1>2 DEF Inv, TypeOK, Prefund
  <2>2. \A e \in Distributors :
          Claimed(e)' = Claimed(e)
            /\ \A j \in Claimed(e) : claim_status'[e][j] = claim_status[e][j]
    BY <2>1 DEF Claimed
  <2>3. GrantAward' = GrantAward
    BY <2>2 DEF GrantAward
  <2> QED
    BY <2>1, <2>3 DEF MappedUnchanged, GrantTerms, GrantClosed, Exists
<1>3. CASE UNCHANGED <<now, distributor, claim_status>>
  BY <1>3, SameMapping DEF MappedUnchanged
<1> QED
  BY <1>1, <1>2, <1>3 DEF Environment, WalletTransfer, CreateAccount, CloseAccount

LEMMA StepRefines ==
  ASSUME LayoutsAgree, Inv, Inv', AmountsCounted', [Next]_vars
  PROVE  [Grant!Next]_(Grant!vars)
<1>1. MappedUnchanged => UNCHANGED Grant!vars
  BY DEF MappedUnchanged, Grant!vars
<1>2. CASE UNCHANGED vars
  BY <1>1, <1>2, SameMapping DEF vars, MappedUnchanged
<1>3. CASE Environment
  BY <1>1, <1>3, EnvironmentPasses DEF Grant!Next
<1>4. ASSUME NEW d \in Distributors, NEW admin \in Wallets, NEW receiver \in TokenAccounts,
             NEW args \in NewDistributorArgs, NewDistributor(d, admin, receiver, args)
      PROVE  Grant!Next
  <2>1. TermsOf(args) \in {TermsOf(a) : a \in NewDistributorArgs}
    OBVIOUS
  <2> QED
    BY <1>4, <2>1, NewDistributorOpens DEF Grant!Next
<1>5. ASSUME NEW d \in Distributors, NEW leaf \in AllLeaves,
             NEW from \in TokenAccounts, NEW to \in TokenAccounts, NewClaim(d, leaf, from, to)
      PROVE  Grant!Next
  <2> DEFINE Offers == [r \in Roots |-> {OfferOf(l) : l \in Provable[r]}]
  <2>1. \E r \in DOMAIN Offers : OfferOf(leaf) \in Offers[r] /\ Grant!Award(d, OfferOf(leaf))
    BY <1>5, NewClaimAwards
  <2> QED
    BY <2>1 DEF Grant!Next
<1>6. ASSUME NEW d \in Distributors, NEW k \in Wallets, NEW to \in TokenAccounts,
             ClaimLocked(d, k, to)
      PROVE  Grant!Next
  BY <1>6, ClaimLockedReleases DEF Grant!Next
<1>7. ASSUME NEW d \in Distributors, Clawback(d)
      PROVE  Grant!Next
  BY <1>7, ClawbackCloses DEF Grant!Next
<1>8. ASSUME NEW d \in Distributors,
             \/ \E signer \in Wallets, a \in TokenAccounts : SetClawbackReceiver(d, signer, a)
             \/ \E signer \in Wallets, new_admin \in Keys : SetAdmin(d, signer, new_admin)
      PROVE  UNCHANGED Grant!vars
  BY <1>1, <1>8, AdminChangesNothing
<1> QED
  BY <1>2, <1>3, <1>4, <1>5, <1>6, <1>7, <1>8 DEF Next, Instruction

LEMMA InitRefines == Init => Grant!Init
<1> SUFFICES ASSUME Init PROVE Grant!Init
  OBVIOUS
<1>1. now \in Nat
  BY WidthAssumption DEF Init, UnixTime
<1>2. \A d \in Distributors : ~Exists(d) /\ Claimed(d) = {}
  BY NothingClaimed
<1>3. /\ GrantTerms = [d \in Distributors |-> NoAccount]
      /\ GrantClosed = [d \in Distributors |-> FALSE]
      /\ GrantAward = [d \in Distributors |-> [k \in {} |-> NoAccount]]
  BY <1>2 DEF GrantTerms, GrantClosed, GrantAward
<1> QED
  BY <1>1, <1>3 DEF Grant!Init

(* The program is an Escrow, for any number of distributors, claimants and  *)
(* accounts, any trees and any widths of the machine's integers, as long as *)
(* claim_locked can read no key, or only keys for whose leaves the two      *)
(* layouts of a claim status make no difference.                            *)
THEOREM DistributorIsEscrow ==
  ASSUME LayoutsAgree
  PROVE  Spec => EscrowKept
<1>1. Inv /\ Inv' /\ AmountsCounted' /\ [Next]_vars => [Grant!Next]_(Grant!vars)
  BY StepRefines
<1> QED
  BY <1>1, InitRefines, InvHolds, AmountsAreCounted, PTL DEF Spec, EscrowKept, Grant!Spec
=============================================================================
