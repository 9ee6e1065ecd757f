------------------------------- MODULE Escrow -------------------------------
(***************************************************************************)
(* What a distributor promises, without accounts, counters or machine      *)
(* words: a grant is opened once on fixed terms; each claimant of its root *)
(* is awarded one offer at most; what vests of an award is released in     *)
(* step with the clock; the awards stay within the slots and the budget;   *)
(* and the grant is closed, for good, no earlier than its terms say.       *)
(* Numbers are unbounded here.                                             *)
(***************************************************************************)
EXTENDS Integers, FiniteSets, Functions

CONSTANTS
  Grants,
  Terms,     \* the terms a grant may be opened on
  Offers,    \* the offers made under a root
  Delay,     \* the least time from the end of vesting to the reclaim
  NoTerms    \* the grant is not open yet

VARIABLES clock, terms, closed, award

vars == <<clock, terms, closed, award>>

Init ==
  /\ clock \in Nat
  /\ terms = [g \in Grants |-> NoTerms]
  /\ closed = [g \in Grants |-> FALSE]
  /\ award = [g \in Grants |-> [k \in {} |-> NoTerms]]

Payable(g) == terms[g] # NoTerms /\ ~closed[g]

(* The part of an amount that is due by the clock. *)
Due(amount, t) ==
  CASE clock < t.start -> 0
    [] clock >= t.end  -> amount
    [] OTHER           -> (amount * (clock - t.start)) \div (t.end - t.start)

Spent(awards) ==
  SumFunctionOnSet([k \in DOMAIN awards |-> awards[k].at_once + awards[k].released],
                   DOMAIN awards)

WithinTerms(awards, t) ==
  /\ Cardinality(DOMAIN awards) <= t.slots
  /\ Spent(awards) <= t.budget

Open(g, t) ==
  /\ terms[g] = NoTerms
  /\ clock < t.start /\ t.start < t.end /\ t.end + Delay <= t.reclaim
  /\ terms' = [terms EXCEPT ![g] = t]
  /\ UNCHANGED <<clock, closed, award>>

Award(g, offer) ==
  LET made == [at_once |-> offer.at_once, vesting |-> offer.vesting, released |-> 0]
      awards == [k \in DOMAIN award[g] \cup {offer.claimant} |->
                   IF k = offer.claimant THEN made ELSE award[g][k]]
  IN  /\ Payable(g)
      /\ offer \in Offers[terms[g].root]
      /\ offer.claimant \notin DOMAIN award[g]
      /\ WithinTerms(awards, terms[g])
      /\ award' = [award EXCEPT ![g] = awards]
      /\ UNCHANGED <<clock, terms, closed>>

Release(g, k) ==
  LET due == Due(award[g][k].vesting, terms[g])
      awards == [award[g] EXCEPT ![k].released = due]
  IN  /\ Payable(g)
      /\ due > award[g][k].released
      /\ WithinTerms(awards, terms[g])
      /\ award' = [award EXCEPT ![g] = awards]
      /\ UNCHANGED <<clock, terms, closed>>

Close(g) ==
  /\ Payable(g)
  /\ clock >= terms[g].reclaim
  /\ closed' = [closed EXCEPT ![g] = TRUE]
  /\ UNCHANGED <<clock, terms, award>>

Pass ==
  /\ clock' \in Nat
  /\ clock' > clock
  /\ UNCHANGED <<terms, closed, award>>

Next ==
  \/ \E g \in Grants :
       \/ \E t \in Terms : Open(g, t)
       \/ \E r \in DOMAIN Offers : \E offer \in Offers[r] : Award(g, offer)
       \/ \E k \in DOMAIN award[g] : Release(g, k)
       \/ Close(g)
  \/ Pass

Spec == Init /\ [][Next]_vars
=============================================================================
