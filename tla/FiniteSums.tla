----------------------------- MODULE FiniteSums -----------------------------
(***************************************************************************)
(* Sums over finite sets.  A sum of the community modules is a fold, which *)
(* is a recursive function; what it computes is found by induction on the  *)
(* cardinality of the set.  The induction is carried out on sets of        *)
(* numbers, so that no theorem with an operator parameter is needed.       *)
(***************************************************************************)
EXTENDS Integers, FiniteSets, FiniteSetsExt, Functions,
        FiniteSetTheorems, WellFoundedInduction, TLAPS

(* Induction: a set with zero and with the successor of each of its numbers *)
(* has every number, because the least one it lacks would have a predecessor.*)
LEMMA NatSetInduction ==
  ASSUME NEW T, 0 \in T, \A n \in Nat : n \in T => n + 1 \in T
  PROVE  Nat \subseteq T
  <1> SUFFICES ASSUME Nat \ T # {} PROVE FALSE
    OBVIOUS
  <1> DEFINE Less == {ss \in Nat \X Nat : ss[1] < ss[2]}
  <1>1. IsWellFoundedOn(Less, Nat)
    BY NatLessThanWellFounded DEF OpToRel
  <1>2. PICK m \in Nat \ T : \A y \in Nat \ T : <<y, m>> \notin Less
    <2> HIDE DEF Less
    <2> QED
      BY <1>1, WFMin
  <1>3. m # 0 /\ m - 1 \in Nat
    BY <1>2
  <1>4. <<m - 1, m>> \in Less
    <2> DEFINE p == <<m - 1, m>>
    <2>1. p \in Nat \X Nat /\ p[1] < p[2]
      BY <1>3
    <2> QED
      BY <2>1
  <1>5. m - 1 \in T
    BY <1>2, <1>3, <1>4
  <1> QED
    BY <1>2, <1>3, <1>5

(* The last of a set of indices, which a fold over a sequence takes next.   *)
LastOf(s) == Max(s)

LEMMA LastIn ==
  ASSUME NEW n \in Nat, NEW s \in SUBSET (1 .. n), s # {}
  PROVE  LastOf(s) \in s
<1> DEFINE Greatest(t) == \E x \in t : \A y \in t : x >= y
           T == {m \in Nat : \A t \in SUBSET (1 .. m) : t # {} => Greatest(t)}
<1>1. 0 \in T
  <2>1. \A t \in SUBSET (1 .. 0) : t = {}
    OBVIOUS
  <2> HIDE DEF Greatest
  <2> QED
    BY <2>1
<1>2. ASSUME NEW m \in Nat, m \in T PROVE m + 1 \in T
  <2>1. ASSUME NEW t \in SUBSET (1 .. m + 1), t # {} PROVE Greatest(t)
    <3>1. CASE m + 1 \in t
      BY <3>1
    <3>2. CASE m + 1 \notin t
      <4>1. t \in SUBSET (1 .. m)
        BY <3>2
      <4> HIDE DEF Greatest
      <4> QED
        BY <1>2, <2>1, <4>1
    <3> QED
      BY <3>1, <3>2
  <2> HIDE DEF Greatest
  <2> QED
    BY <2>1
<1>3. Nat \subseteq T
  <2> HIDE DEF T
  <2> QED
    BY <1>1, <1>2, NatSetInduction
<1>4. Greatest(s)
  <2>1. n \in T
    BY <1>3
  <2> HIDE DEF Greatest
  <2> QED
    BY <2>1
<1> QED
  BY <1>4, Zenon DEF LastOf, Max

Pick(s) == CHOOSE x \in s : TRUE

(* The recursive function inside SumFunctionOnSet(g, S). *)
SumRec(g, S) ==
  CHOOSE it : it = [s \in SUBSET S |-> IF s = {} THEN 0 ELSE g[Pick(s)] + it[s \ {Pick(s)}]]

LEMMA SumIsRec ==
  ASSUME NEW g, NEW S
  PROVE  SumFunctionOnSet(g, S) = SumRec(g, S)[S]
  BY DEF SumFunctionOnSet, FoldFunctionOnSet, MapThenFoldSet, SumRec, Pick

LEMMA SubsetCardinality ==
  ASSUME NEW S, IsFiniteSet(S), NEW s \in SUBSET S
  PROVE  /\ IsFiniteSet(s)
         /\ Cardinality(s) \in Nat
         /\ Cardinality(s) <= Cardinality(S)
         /\ s = {} <=> Cardinality(s) = 0
         /\ \A x \in s : Cardinality(s \ {x}) = Cardinality(s) - 1
  <1>1. IsFiniteSet(s) /\ Cardinality(s) <= Cardinality(S)
    BY FS_Subset
  <1> QED
    BY <1>1, FS_CardinalityType, FS_EmptySet, FS_RemoveElement

(* A function that satisfies the recursive equation exists: it is extended  *)
(* from the sets of n elements to those of n + 1.                           *)
LEMMA SumRecDefined ==
  ASSUME NEW g, NEW S, IsFiniteSet(S)
  PROVE  \A s \in SUBSET S :
           SumRec(g, S)[s] =
             IF s = {} THEN 0 ELSE g[Pick(s)] + SumRec(g, S)[s \ {Pick(s)}]
  <1> DEFINE Body(h, s) == IF s = {} THEN 0 ELSE g[Pick(s)] + h[s \ {Pick(s)}]
             Upto(h, n) == \A s \in SUBSET S : Cardinality(s) <= n => h[s] = Body(h, s)
             T == {n \in Nat : \E h : Upto(h, n)}
  <1>1. 0 \in T
    <2> DEFINE h0 == [s \in SUBSET S |-> 0]
    <2>1. Upto(h0, 0)
      BY SubsetCardinality
    <2> HIDE DEF h0, Upto
    <2> QED
      BY <2>1
  <1>2. ASSUME NEW n \in Nat, n \in T PROVE n + 1 \in T
    <2>1. PICK h : Upto(h, n)
      BY <1>2
    <2> DEFINE h1 == [s \in SUBSET S |-> IF Cardinality(s) <= n THEN h[s] ELSE Body(h, s)]
    <2>2. ASSUME NEW s \in SUBSET S, Cardinality(s) <= n + 1
          PROVE  h1[s] = Body(h1, s)
      <3>1. CASE s = {}
        BY <2>1, <3>1
      <3>2. CASE s # {}
        <4>1. Pick(s) \in s
          BY <3>2 DEF Pick
        <4>2. Cardinality(s \ {Pick(s)}) <= n /\ s \ {Pick(s)} \in SUBSET S
          BY <2>2, <4>1, SubsetCardinality
        <4>3. h1[s \ {Pick(s)}] = h[s \ {Pick(s)}]
          BY <4>2
        <4>4. h1[s] = Body(h, s)
          BY <2>1
        <4> QED
          BY <4>3, <4>4
      <3> QED
        BY <3>1, <3>2
    <2>3. Upto(h1, n + 1)
      BY <2>2
    <2> HIDE DEF h1, Upto
    <2> QED
      BY <2>3
  <1>3. Nat \subseteq T
    <2> HIDE DEF T
    <2> QED
      BY <1>1, <1>2, NatSetInduction
  <1>4. PICK h : Upto(h, Cardinality(S))
    BY <1>3, FS_CardinalityType
  <1> DEFINE f == [s \in SUBSET S |-> h[s]]
  <1>5. f = [s \in SUBSET S |-> Body(f, s)]
    <2>1. ASSUME NEW s \in SUBSET S PROVE f[s] = Body(f, s)
      <3>1. s \ {Pick(s)} \in SUBSET S
        OBVIOUS
      <3>2. f[s \ {Pick(s)}] = h[s \ {Pick(s)}]
        BY <3>1
      <3>3. h[s] = Body(h, s)
        BY <1>4, SubsetCardinality
      <3> QED
        BY <3>2, <3>3
    <2> QED
      BY <2>1
  <1>6. SumRec(g, S) = [s \in SUBSET S |-> Body(SumRec(g, S), s)]
    <2> HIDE DEF f
    <2> QED
      BY <1>5 DEF SumRec
  <1> QED
    BY <1>6

(* A sum depends on nothing but the terms that are added. *)
LEMMA SumRecAgrees ==
  ASSUME NEW g, NEW S, IsFiniteSet(S), NEW h, NEW R, IsFiniteSet(R)
  PROVE  \A s \in SUBSET (S \cap R) :
           (\A x \in s : g[x] = h[x]) => SumRec(g, S)[s] = SumRec(h, R)[s]
  <1> DEFINE Same(s) == (\A x \in s : g[x] = h[x]) => SumRec(g, S)[s] = SumRec(h, R)[s]
             T == {n \in Nat : \A s \in SUBSET (S \cap R) : Cardinality(s) = n => Same(s)}
  <1>1. IsFiniteSet(S \cap R)
    BY FS_Subset
  <1>2. 0 \in T
    <2>1. ASSUME NEW s \in SUBSET (S \cap R), Cardinality(s) = 0 PROVE Same(s)
      <3>1. s = {} /\ s \in SUBSET S /\ s \in SUBSET R
        BY <1>1, <2>1, SubsetCardinality
      <3>2. SumRec(g, S)[s] = 0 /\ SumRec(h, R)[s] = 0
        BY <3>1, SumRecDefined
      <3> QED
        BY <3>2
    <2> HIDE DEF Same
    <2> QED
      BY <2>1
  <1>3. ASSUME NEW n \in Nat, n \in T PROVE n + 1 \in T
    <2>1. ASSUME NEW s \in SUBSET (S \cap R), Cardinality(s) = n + 1,
                 \A x \in s : g[x] = h[x]
          PROVE  SumRec(g, S)[s] = SumRec(h, R)[s]
      <3>1. s # {}
        BY <1>1, <2>1, SubsetCardinality
      <3>2. Pick(s) \in s
        BY <3>1 DEF Pick
      <3> DEFINE rest == s \ {Pick(s)}
      <3>3. Cardinality(rest) = n /\ rest \in SUBSET (S \cap R)
        <4>1. s \in SUBSET (S \cap R) /\ rest \in SUBSET (S \cap R)
          BY <2>1
        <4>2. Cardinality(rest) = Cardinality(s) - 1
          BY <1>1, <3>2, <4>1, SubsetCardinality, SMTT(30)
        <4> QED
          BY <2>1, <4>1, <4>2
      <3>4. SumRec(g, S)[rest] = SumRec(h, R)[rest]
        BY <1>3, <2>1, <3>3
      <3>5. /\ SumRec(g, S)[s] = g[Pick(s)] + SumRec(g, S)[rest]
            /\ SumRec(h, R)[s] = h[Pick(s)] + SumRec(h, R)[rest]
        <4>1. s \in SUBSET S /\ s \in SUBSET R
          BY <2>1
        <4>2. SumRec(g, S)[s] = g[Pick(s)] + SumRec(g, S)[rest]
          BY <3>1, <4>1, SumRecDefined, SMTT(30)
        <4>3. SumRec(h, R)[s] = h[Pick(s)] + SumRec(h, R)[rest]
          BY <3>1, <4>1, SumRecDefined, SMTT(30)
        <4> QED
          BY <4>2, <4>3
      <3> QED
        BY <2>1, <3>2, <3>4, <3>5
    <2> QED
      BY <2>1
  <1>4. Nat \subseteq T
    <2> HIDE DEF T
    <2> QED
      BY <1>2, <1>3, NatSetInduction
  <1> QED
    BY <1>1, <1>4, SubsetCardinality

(* A sum of numbers is a number. *)
LEMMA SumRecType ==
  ASSUME NEW g, NEW S, IsFiniteSet(S), \A x \in S : g[x] \in Nat
  PROVE  \A s \in SUBSET S : SumRec(g, S)[s] \in Nat
  <1> DEFINE Sum(s) == SumRec(g, S)[s]
             T == {n \in Nat : \A s \in SUBSET S : Cardinality(s) = n => Sum(s) \in Nat}
  <1>1. \A s \in SUBSET S : Sum(s) = IF s = {} THEN 0 ELSE g[Pick(s)] + Sum(s \ {Pick(s)})
    BY SumRecDefined
  <1>2. \A s \in SUBSET S : \A x \in s : Cardinality(s \ {x}) = Cardinality(s) - 1
    BY SubsetCardinality
  <1>3. \A s \in SUBSET S : Cardinality(s) \in Nat /\ (s = {} <=> Cardinality(s) = 0)
    BY SubsetCardinality
  <1> HIDE DEF Sum
  <1>4. 0 \in T
    BY <1>1, <1>3
  <1>5. ASSUME NEW n \in Nat, n \in T PROVE n + 1 \in T
    <2>1. ASSUME NEW s \in SUBSET S, Cardinality(s) = n + 1
          PROVE  Sum(s) \in Nat
      <3>1. s # {}
        BY <1>3, <2>1
      <3>2. Pick(s) \in s
        BY <3>1 DEF Pick
      <3>3. Cardinality(s \ {Pick(s)}) = n /\ s \ {Pick(s)} \in SUBSET S
        BY <1>2, <2>1, <3>2
      <3>4. Sum(s \ {Pick(s)}) \in Nat
        BY <1>5, <3>3
      <3> QED
        BY <1>1, <3>1, <3>2, <3>4
    <2> QED
      BY <2>1
  <1>6. Nat \subseteq T
    <2> HIDE DEF T
    <2> QED
      BY <1>4, <1>5, NatSetInduction
  <1> QED
    BY <1>3, <1>6 DEF Sum

(* The order in which the fold takes the elements makes no difference. *)
LEMMA SumRecStep ==
  ASSUME NEW g, NEW S, IsFiniteSet(S), \A x \in S : g[x] \in Nat
  PROVE  \A s \in SUBSET S : \A x \in s :
           SumRec(g, S)[s] = g[x] + SumRec(g, S)[s \ {x}]
  <1> DEFINE Sum(s) == SumRec(g, S)[s]
             Step(s) == \A x \in s : Sum(s) = g[x] + Sum(s \ {x})
             T == {n \in Nat : \A s \in SUBSET S : Cardinality(s) = n => Step(s)}
  <1>1. \A s \in SUBSET S : Sum(s) = IF s = {} THEN 0 ELSE g[Pick(s)] + Sum(s \ {Pick(s)})
    BY SumRecDefined
  <1>2. \A s \in SUBSET S : \A x \in s : Cardinality(s \ {x}) = Cardinality(s) - 1
    BY SubsetCardinality
  <1>3. \A s \in SUBSET S : Cardinality(s) \in Nat /\ (s = {} <=> Cardinality(s) = 0)
    BY SubsetCardinality
  <1>4. \A s \in SUBSET S : Sum(s) \in Nat
    BY SumRecType
  <1> HIDE DEF Sum
  <1>5. 0 \in T
    BY <1>3
  <1>6. ASSUME NEW n \in Nat, n \in T PROVE n + 1 \in T
    <2>1. ASSUME NEW s \in SUBSET S, Cardinality(s) = n + 1
          PROVE  Step(s)
      <3> DEFINE c == Pick(s)
      <3>1. s # {}
        BY <1>3, <2>1
      <3>2. c \in s
        BY <3>1 DEF Pick
      <3>3. Sum(s) = g[c] + Sum(s \ {c})
        BY <1>1, <3>1
      <3> HIDE DEF c
      <3>4. ASSUME NEW x \in s PROVE Step(s \ {x})
        <4>1. Cardinality(s \ {x}) = n /\ s \ {x} \in SUBSET S
          BY <1>2, <2>1
        <4> HIDE DEF Step
        <4> QED
          BY <1>6, <4>1
      <3>5. ASSUME NEW x \in s, x # c PROVE Sum(s) = g[x] + Sum(s \ {x})
        <4>1. /\ Sum(s \ {c}) = g[x] + Sum((s \ {c}) \ {x})
              /\ Sum(s \ {x}) = g[c] + Sum((s \ {x}) \ {c})
          BY <3>2, <3>4, <3>5
        <4>2. (s \ {c}) \ {x} = (s \ {x}) \ {c}
          OBVIOUS
        <4>3. (s \ {c}) \ {x} \in SUBSET S
          OBVIOUS
        <4>4. g[x] \in Nat /\ g[c] \in Nat /\ Sum((s \ {c}) \ {x}) \in Nat
          BY <1>4, <3>2, <4>3
        <4> QED
          BY <3>3, <4>1, <4>2, <4>4
      <3> QED
        BY <3>2, <3>3, <3>5
    <2> QED
      BY <2>1
  <1>7. Nat \subseteq T
    <2> HIDE DEF T
    <2> QED
      BY <1>5, <1>6, NatSetInduction
  <1> QED
    BY <1>3, <1>7 DEF Sum

-----------------------------------------------------------------------------
(* What the proofs about the models use *)

LEMMA SumOfNothing ==
  ASSUME NEW g
  PROVE  SumFunctionOnSet(g, {}) = 0
  BY SumIsRec, SumRecDefined, FS_EmptySet

LEMMA SumType ==
  ASSUME NEW g, NEW S, IsFiniteSet(S), \A x \in S : g[x] \in Nat
  PROVE  SumFunctionOnSet(g, S) \in Nat
  BY SumIsRec, SumRecType

LEMMA SumCongruent ==
  ASSUME NEW g, NEW h, NEW S, IsFiniteSet(S), \A x \in S : g[x] = h[x]
  PROVE  SumFunctionOnSet(g, S) = SumFunctionOnSet(h, S)
  BY SumIsRec, SumRecAgrees

(* Taking an element out takes its term away. *)
LEMMA SumRemove ==
  ASSUME NEW g, NEW S, IsFiniteSet(S), \A y \in S : g[y] \in Nat, NEW x \in S
  PROVE  SumFunctionOnSet(g, S) = g[x] + SumFunctionOnSet(g, S \ {x})
  <1>1. IsFiniteSet(S \ {x})
    BY FS_RemoveElement
  <1>2. SumRec(g, S)[S \ {x}] = SumRec(g, S \ {x})[S \ {x}]
    BY <1>1, SumRecAgrees
  <1>3. SumRec(g, S)[S] = g[x] + SumRec(g, S)[S \ {x}]
    BY SumRecStep
  <1> QED
    BY <1>2, <1>3, SumIsRec

Total(g, S) == SumFunctionOnSet(g, S)

(* One more term. *)
LEMMA SumAdd ==
  ASSUME NEW g, NEW h, NEW S, IsFiniteSet(S), NEW x, x \notin S,
         \A y \in S : g[y] \in Nat /\ h[y] = g[y], h[x] \in Nat
  PROVE  Total(h, S \cup {x}) = Total(g, S) + h[x]
<1> DEFINE T == S \cup {x}
<1>1. IsFiniteSet(T)
  BY FS_AddElement
<1>2. \A y \in T : h[y] \in Nat
  OBVIOUS
<1>3. Total(h, T) = h[x] + Total(h, T \ {x})
  BY <1>1, <1>2, SumRemove DEF Total
<1>4. T \ {x} = S
  OBVIOUS
<1>5. Total(h, S) = Total(g, S) /\ Total(h, S) \in Nat
  BY SumCongruent, SumType DEF Total
<1> HIDE DEF T
<1>6. Total(h, T) = Total(g, S) + h[x]
  BY <1>3, <1>4, <1>5
<1> QED
  BY <1>6 DEF T

(* One term that grows. *)
LEMMA SumGrow ==
  ASSUME NEW g, NEW h, NEW S, IsFiniteSet(S), NEW x \in S, NEW amount \in Nat,
         \A y \in S : g[y] \in Nat, \A y \in S \ {x} : h[y] = g[y],
         h[x] = g[x] + amount
  PROVE  Total(h, S) = Total(g, S) + amount
<1>1. IsFiniteSet(S \ {x}) /\ \A y \in S : h[y] \in Nat
  BY FS_RemoveElement
<1>2. Total(h, S) = h[x] + Total(h, S \ {x})
  BY <1>1, SumRemove DEF Total
<1>3. Total(g, S) = g[x] + Total(g, S \ {x})
  BY SumRemove DEF Total
<1>4. Total(h, S \ {x}) = Total(g, S \ {x})
  BY <1>1, SumCongruent DEF Total
<1>5. Total(g, S \ {x}) \in Nat /\ g[x] \in Nat
  BY <1>1, SumType DEF Total
<1> QED
  BY <1>2, <1>3, <1>4, <1>5

(* Two sets without a common element. *)
LEMMA SumDisjoint ==
  ASSUME NEW g, NEW A, IsFiniteSet(A), NEW B, IsFiniteSet(B), A \cap B = {},
         \A y \in A \cup B : g[y] \in Nat
  PROVE  Total(g, A \cup B) = Total(g, A) + Total(g, B)
<1> DEFINE Adds(s) == Total(g, A \cup s) = Total(g, A) + Total(g, s)
           T == {n \in Nat : \A s \in SUBSET B : Cardinality(s) = n => Adds(s)}
<1>1. \A s \in SUBSET B :
        /\ IsFiniteSet(s) /\ IsFiniteSet(A \cup s)
        /\ Total(g, s) \in Nat /\ Total(g, A) \in Nat
  <2> SUFFICES ASSUME NEW s \in SUBSET B
               PROVE  /\ IsFiniteSet(s) /\ IsFiniteSet(A \cup s)
                      /\ Total(g, s) \in Nat /\ Total(g, A) \in Nat
    OBVIOUS
  <2>1. IsFiniteSet(s) /\ IsFiniteSet(A \cup s)
    BY FS_Subset, FS_Union
  <2> QED
    BY <2>1, SumType DEF Total
<1>2. 0 \in T
  <2>1. Adds({})
    <3>1. Total(g, {}) = 0 /\ A \cup {} = A
      BY SumOfNothing DEF Total
    <3>2. Total(g, A) \in Nat
      BY <1>1
    <3> QED
      BY <3>1, <3>2
  <2>2. \A s \in SUBSET B : Cardinality(s) = 0 => s = {}
    BY SubsetCardinality
  <2> HIDE DEF Adds
  <2> QED
    BY <2>1, <2>2
<1>3. ASSUME NEW n \in Nat, n \in T PROVE n + 1 \in T
  <2>1. ASSUME NEW s \in SUBSET B, Cardinality(s) = n + 1 PROVE Adds(s)
    <3>1. s # {}
      BY <2>1, SubsetCardinality
    <3>2. PICK x \in s : TRUE
      BY <3>1
    <3> DEFINE rest == s \ {x}
    <3>3. rest \in SUBSET B /\ Cardinality(rest) = n
      BY <2>1, SubsetCardinality
    <3>4. Total(g, A \cup rest) = Total(g, A) + Total(g, rest)
      BY <1>3, <3>3
    <3>5. Total(g, s) = g[x] + Total(g, rest)
      <4>1. IsFiniteSet(s) /\ \A y \in s : g[y] \in Nat
        BY <1>1
      <4> QED
        BY <4>1, SumRemove DEF Total
    <3>6. Total(g, A \cup s) = g[x] + Total(g, A \cup rest)
      <4>1. (A \cup s) \ {x} = A \cup rest
        OBVIOUS
      <4>2. Total(g, A \cup s) = g[x] + Total(g, (A \cup s) \ {x})
        <5>1. IsFiniteSet(A \cup s) /\ x \in A \cup s /\ \A y \in A \cup s : g[y] \in Nat
          BY <1>1
        <5> QED
          BY <5>1, SumRemove DEF Total
      <4> QED
        BY <4>1, <4>2
    <3>7. g[x] \in Nat /\ Total(g, A) \in Nat /\ Total(g, rest) \in Nat
      BY <1>1, <3>3
    <3> HIDE DEF rest
    <3> QED
      BY <3>4, <3>5, <3>6, <3>7
  <2> HIDE DEF Adds
  <2> QED
    BY <2>1
<1>4. Nat \subseteq T
  <2> HIDE DEF T
  <2> QED
    BY <1>2, <1>3, NatSetInduction
<1>5. Adds(B)
  <2>1. Cardinality(B) \in T
    BY <1>4, FS_CardinalityType
  <2> HIDE DEF Adds
  <2> QED
    BY <2>1
<1> QED
  BY <1>5

-----------------------------------------------------------------------------
(* Terms that go, each to another one, into terms at least as large: the    *)
(* sum is at most theirs.                                                   *)
LEMMA SumInto ==
  ASSUME NEW C, IsFiniteSet(C), NEW D, IsFiniteSet(D), NEW f \in [C -> D],
         \A x, y \in C : f[x] = f[y] => x = y,
         NEW a, \A x \in C : a[x] \in Nat,
         NEW b, \A y \in D : b[y] \in Nat,
         \A x \in C : a[x] <= b[f[x]]
  PROVE  Total(a, C) <= Total(b, D)
<1> DEFINE Image(s) == {f[x] : x \in s}
           Less(s, t) == Image(s) \subseteq t => Total(a, s) <= Total(b, t)
           T == {n \in Nat : \A s \in SUBSET C, t \in SUBSET D : Cardinality(s) = n => Less(s, t)}
<1>1. \A s \in SUBSET C, t \in SUBSET D :
        /\ IsFiniteSet(s) /\ IsFiniteSet(t)
        /\ Total(a, s) \in Nat /\ Total(b, t) \in Nat
  <2> SUFFICES ASSUME NEW s \in SUBSET C, NEW t \in SUBSET D
               PROVE  /\ IsFiniteSet(s) /\ IsFiniteSet(t)
                      /\ Total(a, s) \in Nat /\ Total(b, t) \in Nat
    OBVIOUS
  <2>1. IsFiniteSet(s) /\ IsFiniteSet(t)
    BY FS_Subset
  <2>2. Total(a, s) \in Nat
    BY <2>1, SumType DEF Total
  <2>3. Total(b, t) \in Nat
    BY <2>1, SumType DEF Total
  <2> QED
    BY <2>1, <2>2, <2>3
<1>2. 0 \in T
  <2>1. ASSUME NEW s \in SUBSET C, NEW t \in SUBSET D, Cardinality(s) = 0
        PROVE  Total(a, s) <= Total(b, t)
    <3>1. s = {}
      BY <2>1, SubsetCardinality
    <3>2. Total(a, s) = 0
      BY <3>1, SumOfNothing DEF Total
    <3> QED
      BY <1>1, <3>2
  <2> QED
    BY <2>1
<1>3. ASSUME NEW n \in Nat, n \in T PROVE n + 1 \in T
  <2>1. ASSUME NEW s \in SUBSET C, NEW t \in SUBSET D, Cardinality(s) = n + 1,
               Image(s) \subseteq t
        PROVE  Total(a, s) <= Total(b, t)
    <3>1. PICK x \in s : TRUE
      <4>1. s # {}
        BY <2>1, SubsetCardinality
      <4> QED
        BY <4>1
    <3> DEFINE rest == s \ {x}
               less == t \ {f[x]}
    <3>2. rest \in SUBSET C /\ Cardinality(rest) = n
      <4>1. Cardinality(s) = n + 1
        BY <2>1
      <4>2. Cardinality(rest) = n
        BY <3>1, <4>1, SubsetCardinality
      <4> QED
        BY <4>2
    <3>3. less \in SUBSET D /\ Image(rest) \subseteq less /\ f[x] \in t
      BY <2>1
    <3>4. Total(a, rest) <= Total(b, less)
      BY <1>3, <3>2, <3>3
    <3>5. Total(a, s) = a[x] + Total(a, rest)
      <4>1. IsFiniteSet(s) /\ \A y \in s : a[y] \in Nat
        BY <1>1
      <4> QED
        BY <4>1, SumRemove DEF Total
    <3>6. Total(b, t) = b[f[x]] + Total(b, less)
      <4>1. IsFiniteSet(t) /\ \A y \in t : b[y] \in Nat
        BY <1>1
      <4> QED
        BY <3>3, <4>1, SumRemove DEF Total
    <3>7. a[x] \in Nat /\ b[f[x]] \in Nat /\ a[x] <= b[f[x]]
      OBVIOUS
    <3>8. Total(a, rest) \in Nat /\ Total(b, less) \in Nat
      BY <1>1, <3>2, <3>3
    <3> HIDE DEF rest, less
    <3> QED
      BY <3>4, <3>5, <3>6, <3>7, <3>8
  <2> HIDE DEF Image
  <2> QED
    BY <2>1
<1>4. Nat \subseteq T
  <2> HIDE DEF T
  <2> QED
    BY <1>2, <1>3, NatSetInduction
<1>5. Less(C, D)
  <2>1. Cardinality(C) \in T
    BY <1>4, FS_CardinalityType
  <2> HIDE DEF Less
  <2> QED
    BY <2>1
<1> QED
  BY <1>5

(* Two terms are at most the whole. *)
LEMMA SumOfTwo ==
  ASSUME NEW g, NEW S, IsFiniteSet(S), \A z \in S : g[z] \in Nat,
         NEW x \in S, NEW y \in S, x # y
  PROVE  g[x] + g[y] <= Total(g, S)
<1> DEFINE R == S \ {x}
           Q == R \ {y}
<1>1. IsFiniteSet(R) /\ IsFiniteSet(Q)
  BY FS_RemoveElement
<1>2. Total(g, S) = g[x] + Total(g, R)
  BY SumRemove DEF Total
<1>3. y \in R /\ \A z \in R : g[z] \in Nat
  OBVIOUS
<1>4. Total(g, R) = g[y] + Total(g, Q)
  <2> HIDE DEF R
  <2> QED
    BY <1>1, <1>3, SumRemove DEF Total
<1>5. Total(g, Q) \in Nat
  BY <1>1, <1>3, SumType DEF Total
<1> QED
  BY <1>2, <1>4, <1>5

(* What one term loses another gains. *)
LEMMA SumMoved ==
  ASSUME NEW g, NEW h, NEW S, IsFiniteSet(S), \A z \in S : g[z] \in Nat,
         NEW x \in S, NEW y \in S, x # y, NEW amount \in Nat, amount <= g[x],
         \A z \in S \ {x, y} : h[z] = g[z],
         h[x] = g[x] - amount, h[y] = g[y] + amount
  PROVE  Total(h, S) = Total(g, S)
<1> DEFINE m == [z \in S |-> IF z = x THEN g[x] - amount ELSE g[z]]
<1>1. /\ \A z \in S : m[z] \in Nat
      /\ \A z \in S \ {x} : g[z] = m[z]
      /\ \A z \in S \ {y} : h[z] = m[z]
      /\ g[x] = m[x] + amount
      /\ h[y] = m[y] + amount
  OBVIOUS
<1> HIDE DEF m
<1>2. Total(g, S) = Total(m, S) + amount
  BY <1>1, SumGrow
<1>3. Total(h, S) = Total(m, S) + amount
  BY <1>1, SumGrow
<1> QED
  BY <1>2, <1>3
=============================================================================
