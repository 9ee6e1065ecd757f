---------------------------- MODULE TestTreeProofs ----------------------------
(***************************************************************************)
(* Proofs about TestTree: the proofs of the tests' tree pass verify under  *)
(* its root, and the roots of the two trees of the same entries agree      *)
(* exactly when the number of entries is a power of two.                   *)
(*                                                                         *)
(* The layers of the one tree are compared with the levels of the other:   *)
(* they have the same lengths, and are the same hash by hash as long as no *)
(* layer had an unpaired hash.  From the first one on, the last hash of a  *)
(* layer has a leaf under it that is less deep than in the tree of         *)
(* MerkleTree, which the preimages of the hashes show.                     *)
(***************************************************************************)
EXTENDS TestTree, MerklePathProofs

-----------------------------------------------------------------------------
(* Functions defined by recursion on the numbers *)

(* The hashes of any two of a set. *)
HashesOf(set) == {SortedHash(a, b) : a \in set, b \in set}

(* One turn of each of the recursions below: the index of a leaf's ancestor, *)
(* a concatenation, a power of two, the hashes at the next height.          *)
ChainStep(kind, s, prev, n) ==
  IF kind = "at" THEN prev \div 2
  ELSE IF kind = "flatten" THEN prev \o s[n]
  ELSE IF kind = "power" THEN 2 * prev
  ELSE HashesOf(prev)

IsChain(G, kind, s, base) ==
  G = [n \in Nat |-> IF n = 0 THEN base ELSE ChainStep(kind, s, G[n - 1], n)]

LEMMA ChainExists ==
  ASSUME NEW kind, NEW s, NEW base
  PROVE  \E G : IsChain(G, kind, s, base)
<1> DEFINE Upto(h, n) == /\ h[0] = base
                         /\ \A m \in 1 .. n : h[m] = ChainStep(kind, s, h[m - 1], m)
           T == {n \in Nat : \E h : Upto(h, n)}
           U == {n \in Nat : \A h, g : Upto(h, n) /\ Upto(g, n) => h[n] = g[n]}
           H(n) == CHOOSE h : Upto(h, n)
           G == [n \in Nat |-> H(n)[n]]
<1>1. 0 \in T
  <2>1. Upto([n \in Nat |-> base], 0)
    OBVIOUS
  <2> QED
    BY <2>1
<1>2. ASSUME NEW n \in Nat, n \in T PROVE n + 1 \in T
  <2>1. PICK h : Upto(h, n)
    BY <1>2
  <2> DEFINE g == [m \in Nat |-> IF m <= n THEN h[m] ELSE ChainStep(kind, s, h[n], n + 1)]
  <2>2. g[0] = base
    BY <2>1
  <2>3. ASSUME NEW m \in 1 .. n + 1 PROVE g[m] = ChainStep(kind, s, g[m - 1], m)
    <3>1. CASE m <= n
      <4>1. m \in 1 .. n /\ m - 1 \in Nat /\ m - 1 <= n
        BY <3>1
      <4>2. g[m] = h[m] /\ g[m - 1] = h[m - 1]
        BY <4>1
      <4> QED
        BY <2>1, <4>1, <4>2
    <3>2. CASE m = n + 1
      <4>1. ~(m <= n) /\ m - 1 = n /\ m \in Nat
        BY <3>2
      <4>2. g[m] = ChainStep(kind, s, h[n], n + 1) /\ g[m - 1] = h[n]
        BY <4>1
      <4> QED
        BY <3>2, <4>2
    <3> QED
      BY <3>1, <3>2
  <2> HIDE DEF g
  <2>4. Upto(g, n + 1)
    BY <2>2, <2>3
  <2> QED
    BY <2>4
<1>3. Nat \subseteq T
  <2> HIDE DEF T
  <2> QED
    BY <1>1, <1>2, NatSetInduction
<1>4. 0 \in U
  OBVIOUS
<1>5. ASSUME NEW n \in Nat, n \in U PROVE n + 1 \in U
  <2> SUFFICES ASSUME NEW h, NEW g, Upto(h, n + 1), Upto(g, n + 1) PROVE h[n + 1] = g[n + 1]
    OBVIOUS
  <2>1. Upto(h, n) /\ Upto(g, n)
    OBVIOUS
  <2>2. h[n] = g[n]
    BY <1>5, <2>1
  <2>3. n + 1 \in 1 .. n + 1 /\ (n + 1) - 1 = n
    OBVIOUS
  <2> QED
    BY <2>2, <2>3
<1>6. Nat \subseteq U
  <2> HIDE DEF U
  <2> QED
    BY <1>4, <1>5, NatSetInduction
<1>7. \A n \in Nat : Upto(H(n), n)
  <2> HIDE DEF Upto
  <2> QED
    BY <1>3
<1>8. \A n \in Nat : G[n] = H(n)[n]
  OBVIOUS
<1>9. ASSUME NEW n \in Nat, n # 0 PROVE G[n] = ChainStep(kind, s, G[n - 1], n)
  <2>1. n - 1 \in Nat /\ n \in 1 .. n
    BY <1>9
  <2>2. Upto(H(n), n) /\ Upto(H(n - 1), n - 1)
    BY <1>7, <2>1
  <2> HIDE DEF H
  <2>3. Upto(H(n), n - 1)
    BY <2>1, <2>2
  <2>4. H(n)[n - 1] = H(n - 1)[n - 1]
    BY <1>6, <2>1, <2>2, <2>3
  <2>5. H(n)[n] = ChainStep(kind, s, H(n)[n - 1], n)
    BY <2>1, <2>2
  <2> HIDE DEF G
  <2> QED
    BY <1>8, <2>1, <2>4, <2>5
<1>10. G[0] = base
  <2>1. Upto(H(0), 0)
    BY <1>7
  <2> HIDE DEF H
  <2> QED
    BY <1>8, <2>1
<1>11. G = [n \in Nat |-> G[n]]
  OBVIOUS
<1> HIDE DEF G
<1>12. G = [n \in Nat |-> IF n = 0 THEN base ELSE ChainStep(kind, s, G[n - 1], n)]
  BY <1>9, <1>10, <1>11
<1> QED
  BY <1>12 DEF IsChain

LEMMA TwoToIs ==
  /\ TwoTo[0] = 1
  /\ \A n \in Nat : TwoTo[n + 1] = 2 * TwoTo[n]
<1>1. PICK G : IsChain(G, "power", 0, 1)
  BY ChainExists
<1>2. G = [n \in Nat |-> IF n = 0 THEN 1 ELSE 2 * G[n - 1]]
  BY <1>1 DEF IsChain, ChainStep
<1>3. TwoTo = [n \in Nat |-> IF n = 0 THEN 1 ELSE 2 * TwoTo[n - 1]]
  BY <1>2 DEF TwoTo
<1> QED
  BY <1>3

LEMMA TwoToNat == \A n \in Nat : TwoTo[n] \in Nat /\ TwoTo[n] > 0
<1> DEFINE T == {n \in Nat : TwoTo[n] \in Nat /\ TwoTo[n] > 0}
<1>1. 0 \in T
  BY TwoToIs
<1>2. ASSUME NEW n \in Nat, n \in T PROVE n + 1 \in T
  BY <1>2, TwoToIs
<1>3. Nat \subseteq T
  <2> HIDE DEF T
  <2> QED
    BY <1>1, <1>2, NatSetInduction
<1> QED
  BY <1>3

(* A multiple of a power of two by an odd number is no power of two.        *)
LEMMA OddFactor ==
  ASSUME NEW d \in Nat, NEW q \in Nat, q > 0, NEW m \in Nat
  PROVE  TwoTo[d] * (2 * q + 1) # TwoTo[m]
<1> DEFINE T == {n \in Nat : \A k \in Nat : TwoTo[n] * (2 * q + 1) # TwoTo[k]}
<1>1. \A k \in Nat : TwoTo[k] = 1 \/ \E j \in Nat : TwoTo[k] = 2 * TwoTo[j]
  <2> TAKE k \in Nat
  <2>1. CASE k = 0
    BY <2>1, TwoToIs
  <2>2. CASE k # 0
    <3>1. k - 1 \in Nat /\ k = (k - 1) + 1
      BY <2>2
    <3> QED
      BY <3>1, TwoToIs
  <2> QED
    BY <2>1, <2>2
<1>2. 0 \in T
  <2> SUFFICES ASSUME NEW k \in Nat PROVE 2 * q + 1 # TwoTo[k]
    BY TwoToIs
  <2>1. CASE TwoTo[k] = 1
    BY <2>1
  <2>2. CASE \E j \in Nat : TwoTo[k] = 2 * TwoTo[j]
    <3>1. PICK j \in Nat : TwoTo[k] = 2 * TwoTo[j]
      BY <2>2
    <3>2. TwoTo[j] \in Nat
      BY TwoToNat
    <3> QED
      BY <3>1, <3>2
  <2> QED
    BY <1>1, <2>1, <2>2
<1>3. ASSUME NEW n \in Nat, n \in T PROVE n + 1 \in T
  <2> SUFFICES ASSUME NEW k \in Nat, TwoTo[n + 1] * (2 * q + 1) = TwoTo[k] PROVE FALSE
    OBVIOUS
  <2>1. TwoTo[n] \in Nat /\ TwoTo[n] > 0 /\ TwoTo[n + 1] = 2 * TwoTo[n]
    BY TwoToIs, TwoToNat
  <2> DEFINE p == TwoTo[n] * (2 * q + 1)
  <2>2. p \in Nat /\ TwoTo[n + 1] * (2 * q + 1) = 2 * p
    <3> DEFINE t == TwoTo[n]
    <3>1. t \in Nat
      BY <2>1
    <3> HIDE DEF t
    <3>2. (2 * t) * (2 * q + 1) = 2 * (t * (2 * q + 1)) /\ t * (2 * q + 1) \in Nat
      BY <3>1
    <3> QED
      BY <2>1, <3>2 DEF t
  <2> HIDE DEF p
  <2>3. CASE TwoTo[k] = 1
    BY <2>2, <2>3
  <2>4. CASE \E j \in Nat : TwoTo[k] = 2 * TwoTo[j]
    <3>1. PICK j \in Nat : TwoTo[k] = 2 * TwoTo[j]
      BY <2>4
    <3>2. TwoTo[j] \in Nat
      BY TwoToNat
    <3>3. p = TwoTo[j]
      BY <2>2, <3>1, <3>2
    <3> QED
      BY <1>3, <3>3 DEF p
  <2> QED
    BY <1>1, <2>3, <2>4
<1>4. Nat \subseteq T
  <2> HIDE DEF T
  <2> QED
    BY <1>2, <1>3, NatSetInduction
<1> QED
  BY <1>4

-----------------------------------------------------------------------------
(* The layers *)

(* Every other hash of a layer, combined with the next, makes the layer above. *)
LayerAbove(l) ==
  /\ Len(layers[l]) > 1
  /\ Len(layers[l + 1]) = (Len(layers[l]) + 1) \div 2
  /\ \A n \in Nat : n < Len(layers[l + 1]) =>
       layers[l + 1][n + 1] = InternalHash(layers[l], 2 * n)

AreLayers ==
  /\ IsVector(layers)
  /\ layers # <<>> =>
       /\ sorted_hashes /\ LeafCount > 0
       /\ Len(layers[1]) = LeafCount
       /\ \A k \in 1 .. LeafCount : layers[1][k] = LeafHash(items[k])
       /\ \A l \in 1 .. Len(layers) : IsVector(layers[l]) /\ Len(layers[l]) > 0
       /\ \A l \in Nat : l > 0 /\ l < Len(layers) => LayerAbove(l)

TestInv == PathInv /\ AreLayers

LEMMA LayerLengths ==
  ASSUME AreLayers
  PROVE  /\ Len(layers) \in Nat
         /\ layers # <<>> <=> Len(layers) > 0
         /\ layers # <<>> =>
              \A l \in 1 .. Len(layers) : Len(layers[l]) \in Nat /\ Len(layers[l]) > 0
<1>1. PICK T : layers \in Seq(T)
  BY DEF AreLayers, IsVector
<1>2. Len(layers) \in Nat /\ (layers # <<>> <=> Len(layers) > 0)
  BY <1>1
<1>3. ASSUME layers # <<>>, NEW l \in 1 .. Len(layers)
      PROVE  Len(layers[l]) \in Nat /\ Len(layers[l]) > 0
  BY <1>3 DEF AreLayers, IsVector
<1> QED
  BY <1>2, <1>3

LEMMA InitLayers == TestInit => AreLayers
  <1> SUFFICES ASSUME TestInit PROVE AreLayers
    OBVIOUS
  <1>1. Init
    BY DEF TestInit, PathInit
  <1>2. TreeInv /\ LeafCount \in Nat
    BY <1>1, InitTree, LevelTypes
  <1>3. CASE layers = <<>>
    BY <1>3, EmptyVector DEF AreLayers
  <1>4. CASE layers # <<>>
    <2>1. layers = <<nodes>> /\ LeafCount # 0 /\ sorted_hashes
      BY <1>4 DEF TestInit
    <2>2. layers \in Seq({nodes}) /\ Len(layers) = 1 /\ layers[1] = nodes
      BY <2>1
    <2>3. IsVector(layers)
      BY <2>2 DEF IsVector
    <2>4. nodes = [k \in 1 .. LeafCount |-> LeafHash(items[k])]
      BY <1>1 DEF Init
    <2>5. nodes = [k \in 1 .. LeafCount |-> nodes[k]]
      BY <2>4
    <2>6. IsVector(nodes) /\ Len(nodes) = LeafCount
      BY <1>2, <2>5, VectorMap
    <2>7. \A k \in 1 .. LeafCount : layers[1][k] = LeafHash(items[k])
      BY <2>2, <2>4
    <2>8. \A l \in 1 .. Len(layers) : IsVector(layers[l]) /\ Len(layers[l]) > 0
      BY <1>2, <2>1, <2>2, <2>6
    <2>9. \A l \in Nat : ~(l > 0 /\ l < Len(layers))
      BY <2>2
    <2>10. Len(layers[1]) = LeafCount /\ LeafCount > 0
      BY <1>2, <2>1, <2>2, <2>6
    <2> QED
      BY <2>1, <2>3, <2>7, <2>8, <2>9, <2>10 DEF AreLayers
  <1> QED
    BY <1>3, <1>4

LEMMA TreeKeepsLayers ==
  ASSUME AreLayers, UNCHANGED <<layers, items, sorted_hashes>>
  PROVE  AreLayers'
<1>1. LeafCount' = LeafCount
  BY DEF LeafCount
<1>2. \A l : LayerAbove(l)' = LayerAbove(l)
  BY DEF LayerAbove, InternalHash, SortedHash
<1> QED
  BY <1>1, <1>2 DEF AreLayers, LeafHash

LEMMA PushKeepsLayers ==
  ASSUME AreLayers, PushLayer
  PROVE  AreLayers'
<1> DEFINE hashes == layers[Len(layers)]
           count  == (Len(hashes) + 1) \div 2
           above  == [n \in 1 .. count |-> InternalHash(hashes, 2 * (n - 1))]
<1>1. /\ layers # <<>> /\ Len(hashes) > 1
      /\ layers' = Append(layers, above)
      /\ UNCHANGED <<items, sorted_hashes>>
  BY DEF PushLayer, Last, all_vars, vars, tree_vars
<1>2. Len(layers) \in Nat /\ Len(layers) > 0 /\ Len(hashes) \in Nat
  BY <1>1, LayerLengths
<1>3. count \in Nat /\ count > 0
  <2> HIDE DEF hashes
  <2> QED
    BY <1>1, <1>2
<1>4. \A n \in 1 .. count : above[n] = InternalHash(hashes, 2 * (n - 1))
  OBVIOUS
<1>5. IsVector(above) /\ Len(above) = count
  <2>1. above = [n \in 1 .. count |-> above[n]]
    OBVIOUS
  <2> HIDE DEF above, count
  <2> QED
    BY <1>3, <2>1, VectorMap
<1>6. count = (Len(hashes) + 1) \div 2
  OBVIOUS
<1> HIDE DEF above, count
<1>7. /\ IsVector(layers') /\ Len(layers') = Len(layers) + 1
      /\ \A l \in 1 .. Len(layers) : layers'[l] = layers[l]
      /\ layers'[Len(layers) + 1] = above
  BY <1>1, VectorAppend DEF AreLayers
<1>8. /\ sorted_hashes' /\ LeafCount' = LeafCount /\ LeafCount > 0
      /\ Len(layers'[1]) = LeafCount
      /\ \A k \in 1 .. LeafCount : layers'[1][k] = LeafHash(items'[k])
  BY <1>1, <1>2, <1>7 DEF AreLayers, LeafCount
<1>9. ASSUME NEW l \in 1 .. Len(layers') PROVE IsVector(layers'[l]) /\ Len(layers'[l]) > 0
  <2>1. CASE l <= Len(layers)
    <3>1. l \in 1 .. Len(layers)
      BY <1>2, <2>1
    <3> QED
      BY <1>1, <1>7, <3>1 DEF AreLayers
  <2>2. CASE l = Len(layers) + 1
    BY <1>3, <1>5, <1>7, <2>2
  <2> QED
    BY <1>2, <1>7, <2>1, <2>2
<1>10. ASSUME NEW l \in Nat, l > 0, l < Len(layers') PROVE LayerAbove(l)'
  <2>1. CASE l < Len(layers)
    <3>1. l \in 1 .. Len(layers) /\ l + 1 \in 1 .. Len(layers)
      BY <1>2, <1>10, <2>1
    <3>2. layers'[l] = layers[l] /\ layers'[l + 1] = layers[l + 1]
      BY <1>7, <3>1
    <3>3. LayerAbove(l)
      BY <1>1, <1>10, <2>1 DEF AreLayers
    <3> QED
      BY <3>2, <3>3 DEF LayerAbove
  <2>2. CASE l = Len(layers)
    <3>1. layers'[l] = hashes /\ layers'[l + 1] = above
      BY <1>2, <1>7, <2>2
    <3>2. ASSUME NEW n \in Nat, n < count PROVE above[n + 1] = InternalHash(hashes, 2 * n)
      <4>1. n + 1 \in 1 .. count /\ (n + 1) - 1 = n
        BY <1>3, <3>2
      <4> QED
        BY <1>4, <4>1
    <3> HIDE DEF hashes
    <3> QED
      BY <1>1, <1>5, <1>6, <3>1, <3>2 DEF LayerAbove
  <2> QED
    BY <1>2, <1>7, <1>10, <2>1, <2>2
<1> QED
  BY <1>7, <1>8, <1>9, <1>10 DEF AreLayers

LEMMA InitTest == TestInit => TestInv
BY InitPath, InitLayers DEF TestInit, TestInv

LEMMA NextTest == TestInv /\ [TestNext]_test_vars => TestInv'
  <1> SUFFICES ASSUME TestInv, [TestNext]_test_vars PROVE TestInv'
    OBVIOUS
  <1>1. PathInv /\ AreLayers
    BY DEF TestInv
  <1>2. CASE PathNext /\ UNCHANGED layers
    <2>1. UNCHANGED <<items, sorted_hashes>>
      BY <1>2 DEF PathNext, PushParent, NextLevel, StartFindPath, FindPathLevel, vars, tree_vars
    <2> QED
      BY <1>1, <1>2, <2>1, NextPath, TreeKeepsLayers DEF TestInv
  <1>3. CASE PushLayer
    <2>1. UNCHANGED all_vars
      BY <1>3 DEF PushLayer
    <2> QED
      BY <1>1, <1>3, <2>1, NextPath, PushKeepsLayers DEF TestInv
  <1>4. CASE UNCHANGED test_vars
    <2>1. UNCHANGED all_vars /\ UNCHANGED layers /\ UNCHANGED <<items, sorted_hashes>>
      BY <1>4 DEF test_vars, all_vars, vars, tree_vars
    <2> QED
      BY <1>1, <2>1, NextPath, TreeKeepsLayers DEF TestInv
  <1> QED
    BY <1>2, <1>3, <1>4 DEF TestNext

LEMMA TestInvHolds == TestSpec => []TestInv
BY InitTest, NextTest, PTL DEF TestSpec

-----------------------------------------------------------------------------
(* The tests' proofs *)

(* The recursive functions inside TestProof and FlattenSeq. *)
AtRec(index) ==
  CHOOSE At : At = [level \in DOMAIN layers |-> IF level = 1 THEN index ELSE At[level - 1] \div 2]

FlattenRec(seqs) ==
  CHOOSE flatten : flatten = [i \in 1 .. Len(seqs) |->
    IF i = 1 THEN seqs[i] ELSE flatten[i - 1] \o seqs[i]]

(* What getProof adds on a layer. *)
Piece(index, level) ==
  IF Sibling(AtRec(index)[level]) < Len(layers[level])
  THEN <<layers[level][Sibling(AtRec(index)[level]) + 1]>> ELSE <<>>

LEMMA TestProofIs ==
  ASSUME NEW index
  PROVE  TestProof(index) = FlattenSeq([level \in DOMAIN layers |-> Piece(index, level)])
BY DEF TestProof, Piece, AtRec

LEMMA AtHalves ==
  ASSUME DOMAIN layers = 1 .. Len(layers), Len(layers) \in Nat, Len(layers) > 0, NEW index
  PROVE  /\ AtRec(index)[1] = index
         /\ \A l \in 1 .. Len(layers) :
              l < Len(layers) => AtRec(index)[l + 1] = AtRec(index)[l] \div 2
<1>1. PICK G : IsChain(G, "at", 0, index)
  BY ChainExists
<1>2. G[0] = index /\ \A n \in Nat : n # 0 => G[n] = G[n - 1] \div 2
  BY <1>1 DEF IsChain, ChainStep
<1> DEFINE f == [level \in 1 .. Len(layers) |-> G[level - 1]]
<1>3. ASSUME NEW level \in 1 .. Len(layers)
      PROVE  f[level] = IF level = 1 THEN index ELSE f[level - 1] \div 2
  <2>1. CASE level = 1
    BY <1>2, <2>1
  <2>2. CASE level # 1
    <3>1. level - 1 \in 1 .. Len(layers) /\ level - 1 \in Nat /\ level - 1 # 0
      BY <2>2
    <3>2. f[level] = G[level - 1] /\ f[level - 1] = G[(level - 1) - 1]
      BY <3>1
    <3> QED
      BY <1>2, <2>2, <3>1, <3>2
  <2> QED
    BY <2>1, <2>2
<1>4. f = [level \in 1 .. Len(layers) |-> f[level]]
  OBVIOUS
<1> HIDE DEF f
<1>5. f = [level \in 1 .. Len(layers) |-> IF level = 1 THEN index ELSE f[level - 1] \div 2]
  BY <1>3, <1>4
<1> DEFINE At == AtRec(index)
<1>6. At = [level \in 1 .. Len(layers) |-> IF level = 1 THEN index ELSE At[level - 1] \div 2]
  BY <1>5 DEF AtRec
<1> HIDE DEF At
<1>7. At[1] = index
  <2>1. 1 \in 1 .. Len(layers)
    OBVIOUS
  <2> QED
    BY <1>6, <2>1
<1>8. ASSUME NEW l \in 1 .. Len(layers), l < Len(layers) PROVE At[l + 1] = At[l] \div 2
  <2>1. l + 1 \in 1 .. Len(layers) /\ l + 1 # 1 /\ (l + 1) - 1 = l
    BY <1>8
  <2>2. At[l + 1] = At[(l + 1) - 1] \div 2
    BY <1>6, <2>1
  <2> QED
    BY <2>1, <2>2
<1> QED
  BY <1>7, <1>8 DEF At

(* The concatenations of the first pieces of a sequence of pieces. *)
Flattens(Q, seqs) ==
  /\ Q[0] = <<>>
  /\ \A n \in Nat : n < Len(seqs) => Q[n + 1] = Q[n] \o seqs[n + 1]

LEMMA FlattenExists ==
  ASSUME NEW seqs
  PROVE  \E Q : Flattens(Q, seqs)
<1>1. PICK Q : IsChain(Q, "flatten", seqs, <<>>)
  BY ChainExists
<1>2. Q[0] = <<>>
  BY <1>1 DEF IsChain
<1>3. ASSUME NEW n \in Nat PROVE Q[n + 1] = Q[n] \o seqs[n + 1]
  <2>1. n + 1 \in Nat /\ n + 1 # 0 /\ (n + 1) - 1 = n
    OBVIOUS
  <2>2. Q[n + 1] = ChainStep("flatten", seqs, Q[(n + 1) - 1], n + 1)
    BY <1>1, <2>1 DEF IsChain
  <2>3. \A p, k : ChainStep("flatten", seqs, p, k) = p \o seqs[k]
    BY DEF ChainStep
  <2> QED
    BY <2>1, <2>2, <2>3
<1> QED
  BY <1>2, <1>3 DEF Flattens

LEMMA FlattenIs ==
  ASSUME NEW seqs, Len(seqs) \in Nat, Len(seqs) > 0,
         \A i \in 1 .. Len(seqs) : IsVector(seqs[i]),
         NEW Q, Flattens(Q, seqs)
  PROVE  FlattenSeq(seqs) = Q[Len(seqs)]
<1> DEFINE f == [i \in 1 .. Len(seqs) |-> Q[i]]
<1>1. Q[1] = seqs[1]
  <2>1. 0 \in Nat /\ 0 + 1 = 1 /\ 1 \in 1 .. Len(seqs)
    OBVIOUS
  <2>2. Q[1] = <<>> \o seqs[1]
    BY <2>1 DEF Flattens
  <2> QED
    BY <2>1, <2>2, EmptyConcat
<1>2. ASSUME NEW i \in 1 .. Len(seqs)
      PROVE  f[i] = IF i = 1 THEN seqs[i] ELSE f[i - 1] \o seqs[i]
  <2>1. CASE i = 1
    BY <1>1, <2>1
  <2>2. CASE i # 1
    <3>1. i - 1 \in 1 .. Len(seqs) /\ i - 1 \in Nat /\ i - 1 < Len(seqs) /\ (i - 1) + 1 = i
      BY <2>2
    <3>2. Q[(i - 1) + 1] = Q[i - 1] \o seqs[(i - 1) + 1]
      BY <3>1 DEF Flattens
    <3>3. f[i] = Q[i] /\ f[i - 1] = Q[i - 1]
      BY <3>1
    <3> QED
      BY <2>2, <3>1, <3>2, <3>3
  <2> QED
    BY <2>1, <2>2
<1>3. f = [i \in 1 .. Len(seqs) |-> f[i]]
  OBVIOUS
<1> HIDE DEF f
<1>4. f = [i \in 1 .. Len(seqs) |-> IF i = 1 THEN seqs[i] ELSE f[i - 1] \o seqs[i]]
  BY <1>2, <1>3
<1> DEFINE r == FlattenRec(seqs)
<1>5. r = [i \in 1 .. Len(seqs) |-> IF i = 1 THEN seqs[i] ELSE r[i - 1] \o seqs[i]]
  BY <1>4 DEF FlattenRec
<1>6. FlattenSeq(seqs) = r[Len(seqs)]
  BY DEF FlattenSeq, FlattenRec
<1> HIDE DEF r
<1> DEFINE T == {n \in Nat : n + 1 <= Len(seqs) => r[n + 1] = Q[n + 1]}
<1>7. 0 \in T
  <2>1. 1 \in 1 .. Len(seqs)
    OBVIOUS
  <2>2. r[1] = seqs[1]
    BY <1>5, <2>1
  <2> QED
    BY <1>1, <2>2
<1>8. ASSUME NEW n \in Nat, n \in T PROVE n + 1 \in T
  <2> SUFFICES ASSUME n + 1 + 1 <= Len(seqs) PROVE r[n + 1 + 1] = Q[n + 1 + 1]
    OBVIOUS
  <2>1. r[n + 1] = Q[n + 1]
    BY <1>8
  <2>2. n + 1 + 1 \in 1 .. Len(seqs) /\ n + 1 + 1 # 1 /\ (n + 1 + 1) - 1 = n + 1
    OBVIOUS
  <2>3. r[n + 1 + 1] = r[(n + 1 + 1) - 1] \o seqs[n + 1 + 1]
    BY <1>5, <2>2
  <2>4. Q[n + 1 + 1] = Q[n + 1] \o seqs[n + 1 + 1]
    <3>1. n + 1 \in Nat /\ n + 1 < Len(seqs)
      OBVIOUS
    <3> QED
      BY <3>1 DEF Flattens
  <2> QED
    BY <2>1, <2>2, <2>3, <2>4
<1>9. Nat \subseteq T
  <2> HIDE DEF T
  <2> QED
    BY <1>7, <1>8, NatSetInduction
<1>10. r[Len(seqs)] = Q[Len(seqs)]
  <2>1. Len(seqs) - 1 \in Nat /\ (Len(seqs) - 1) + 1 = Len(seqs) /\ Len(seqs) <= Len(seqs)
    OBVIOUS
  <2>2. Len(seqs) - 1 \in T
    BY <1>9, <2>1
  <2> QED
    BY <2>1, <2>2
<1> QED
  BY <1>6, <1>10

LEMMA FoldOneMore ==
  ASSUME NEW s, IsVector(s), NEW e, NEW base
  PROVE  /\ IsVector(s \o <<e>>)
         /\ FoldLeft(FoldHash, base, s \o <<e>>) = FoldHash(FoldLeft(FoldHash, base, s), e)
<1>1. Append(s, e) \o <<>> = s \o (<<e>> \o <<>>)
  BY EmptyVector, AppendConcat
<1>2. IsVector(<<e>>)
  <2>1. <<e>> \in Seq({e})
    OBVIOUS
  <2> QED
    BY <2>1 DEF IsVector
<1>3. <<e>> \o <<>> = <<e>>
  BY <1>2, ConcatEmpty
<1>4. IsVector(Append(s, e)) /\ Append(s, e) \o <<>> = Append(s, e)
  BY VectorAppend, ConcatEmpty
<1>5. s \o <<e>> = Append(s, e)
  BY <1>1, <1>3, <1>4
<1> QED
  BY <1>4, <1>5, HashFoldAppend

(* One layer up: the piece of the layer leads from the hash at an index to   *)
(* the one at half of it in the layer above.                                *)
LEMMA PieceLeadsUp ==
  ASSUME NEW hashes, Len(hashes) \in Nat, Len(hashes) > 1, NEW idx \in 0 .. Len(hashes) - 1
  PROVE  /\ idx \div 2 \in Nat /\ idx \div 2 < (Len(hashes) + 1) \div 2
         /\ IF Sibling(idx) < Len(hashes)
            THEN FoldHash(hashes[idx + 1], hashes[Sibling(idx) + 1])
                   = InternalHash(hashes, 2 * (idx \div 2))
            ELSE hashes[idx + 1] = InternalHash(hashes, 2 * (idx \div 2))
<1> DEFINE len == Len(hashes)
           j == idx \div 2
<1>1. /\ j \in Nat
      /\ \/ idx = 2 * j /\ idx % 2 = 0
         \/ idx = 2 * j + 1 /\ idx % 2 = 1
  OBVIOUS
<1>2. len \in Nat /\ len > 1 /\ idx \in Nat /\ idx < len
  OBVIOUS
<1> HIDE DEF j, len
<1>3. j < (len + 1) \div 2
  BY <1>1, <1>2
<1>4. CASE idx = 2 * j /\ idx % 2 = 0
  <2>1. Sibling(idx) = 2 * j + 1
    BY <1>4 DEF Sibling
  <2>2. CASE 2 * j + 1 < len
    <3>1. InternalHash(hashes, 2 * j) = SortedHash(hashes[2 * j + 1], hashes[2 * j + 2])
      BY <2>2 DEF InternalHash, len
    <3>2. (2 * j + 1) + 1 = 2 * j + 2
      BY <1>1
    <3> QED
      BY <1>1, <1>3, <1>4, <2>1, <2>2, <3>1, <3>2 DEF FoldHash, len, j
  <2>3. CASE ~(2 * j + 1 < len)
    <3>1. InternalHash(hashes, 2 * j) = hashes[2 * j + 1]
      BY <2>3 DEF InternalHash, len
    <3> QED
      BY <1>1, <1>3, <1>4, <2>1, <2>3, <3>1 DEF len, j
  <2> QED
    BY <2>2, <2>3
<1>5. CASE idx = 2 * j + 1 /\ idx % 2 = 1
  <2>1. Sibling(idx) = 2 * j /\ 2 * j < len /\ 2 * j + 1 < len
    BY <1>1, <1>2, <1>5 DEF Sibling
  <2>2. InternalHash(hashes, 2 * j) = SortedHash(hashes[2 * j + 1], hashes[2 * j + 2])
    BY <2>1 DEF InternalHash, len
  <2>3. idx + 1 = 2 * j + 2
    BY <1>1, <1>5
  <2> QED
    BY <1>1, <1>3, <2>1, <2>2, <2>3 DEF FoldHash, SortedHash, len, j
<1> QED
  BY <1>1, <1>4, <1>5

LEMMA TestProofOfLeaf ==
  ASSUME AreLayers, layers # <<>>, Len(Last(layers)) = 1, NEW index \in 0 .. LeafCount - 1
  PROVE  FoldLeft(FoldHash, LeafHash(items[index + 1]), TestProof(index)) = TestRoot
<1> DEFINE count  == Len(layers)
           leaf   == LeafHash(items[index + 1])
           At     == AtRec(index)
           pieces == [level \in DOMAIN layers |-> Piece(index, level)]
<1>1. /\ count \in Nat /\ count > 0
      /\ DOMAIN layers = 1 .. count
      /\ \A l \in 1 .. count : Len(layers[l]) \in Nat /\ Len(layers[l]) > 0
      /\ LeafCount \in Nat /\ Len(layers[1]) = LeafCount
  <2>1. DOMAIN layers = 1 .. count
    BY DEF AreLayers, IsVector
  <2>2. 1 \in 1 .. count
    BY LayerLengths
  <2> QED
    BY <2>1, <2>2, LayerLengths DEF AreLayers
<1>2. index \in Nat /\ index < LeafCount /\ index + 1 \in 1 .. LeafCount
  BY <1>1
<1>3. /\ At[1] = index
      /\ \A l \in 1 .. count : l < count => At[l + 1] = At[l] \div 2
  BY <1>1, AtHalves
<1>4. TestProof(index) = FlattenSeq(pieces)
  BY TestProofIs
<1>5. \A level \in 1 .. count : pieces[level] =
        IF Sibling(At[level]) < Len(layers[level])
        THEN <<layers[level][Sibling(At[level]) + 1]>> ELSE <<>>
  BY <1>1 DEF Piece
<1>6. pieces = [level \in 1 .. count |-> pieces[level]]
  BY <1>1
<1> HIDE DEF At, pieces, leaf, count
<1>7. IsVector(pieces) /\ Len(pieces) = count
  BY <1>1, <1>6, VectorMap
<1>8. \A level \in 1 .. count : IsVector(pieces[level])
  <2>1. \A x : IsVector(<<x>>)
    <3> TAKE x
    <3>1. <<x>> \in Seq({x})
      OBVIOUS
    <3> QED
      BY <3>1 DEF IsVector
  <2> QED
    BY <1>5, <2>1, EmptyVector
<1>9. PICK Q : Flattens(Q, pieces)
  BY FlattenExists
<1>10. TestProof(index) = Q[count]
  BY <1>1, <1>4, <1>7, <1>8, <1>9, FlattenIs
<1>11. Q[0] = <<>> /\ \A n \in Nat : n < count => Q[n + 1] = Q[n] \o pieces[n + 1]
  BY <1>7, <1>9 DEF Flattens
<1> DEFINE Reached(n) == /\ At[n + 1] \in Nat /\ At[n + 1] < Len(layers[n + 1])
                         /\ IsVector(Q[n])
                         /\ FoldLeft(FoldHash, leaf, Q[n]) = layers[n + 1][At[n + 1] + 1]
           T == {n \in Nat : n < count => Reached(n)}
<1>12. 0 \in T
  <2>1. layers[1][index + 1] = leaf
    BY <1>2 DEF AreLayers, leaf
  <2>2. IsVector(Q[0]) /\ FoldLeft(FoldHash, leaf, Q[0]) = leaf
    BY <1>11, EmptyVector, EmptyFolds
  <2> QED
    BY <1>1, <1>2, <1>3, <2>1, <2>2
<1>13. ASSUME NEW n \in Nat, n \in T PROVE n + 1 \in T
  <2> SUFFICES ASSUME n + 1 < count PROVE Reached(n + 1)
    OBVIOUS
  <2> DEFINE hashes == layers[n + 1]
             idx    == At[n + 1]
             up     == layers[(n + 1) + 1]
  <2>1. n < count /\ n + 1 \in 1 .. count /\ n + 1 > 0
    BY <1>1
  <2>2. Reached(n)
    BY <1>13, <2>1
  <2>3. LayerAbove(n + 1)
    BY <2>1 DEF AreLayers, count
  <2>4. /\ Len(hashes) \in Nat /\ Len(hashes) > 1
        /\ Len(up) = (Len(hashes) + 1) \div 2
        /\ \A k \in Nat : k < Len(up) => up[k + 1] = InternalHash(hashes, 2 * k)
    BY <1>1, <2>1, <2>3 DEF LayerAbove
  <2>5. At[(n + 1) + 1] = idx \div 2
    BY <1>3, <2>1
  <2>6. Q[n + 1] = Q[n] \o pieces[n + 1]
    BY <1>11, <2>1
  <2>7. pieces[n + 1] = IF Sibling(idx) < Len(hashes) THEN <<hashes[Sibling(idx) + 1]>> ELSE <<>>
    BY <1>5, <2>1
  <2>8. /\ idx \in 0 .. Len(hashes) - 1
        /\ IsVector(Q[n]) /\ FoldLeft(FoldHash, leaf, Q[n]) = hashes[idx + 1]
    BY <2>2, <2>4
  <2> HIDE DEF hashes, idx, up
  <2>9. /\ idx \div 2 \in Nat /\ idx \div 2 < Len(up)
        /\ IF Sibling(idx) < Len(hashes)
           THEN FoldHash(hashes[idx + 1], hashes[Sibling(idx) + 1]) = up[(idx \div 2) + 1]
           ELSE hashes[idx + 1] = up[(idx \div 2) + 1]
    BY <2>4, <2>8, PieceLeadsUp
  <2>10. IsVector(Q[n + 1]) /\ FoldLeft(FoldHash, leaf, Q[n + 1]) = up[(idx \div 2) + 1]
    <3>1. CASE Sibling(idx) < Len(hashes)
      <4> DEFINE s == Q[n]
                 e == hashes[Sibling(idx) + 1]
      <4>1. Q[n + 1] = s \o <<e>>
        BY <2>6, <2>7, <3>1
      <4>2. /\ IsVector(s) /\ FoldLeft(FoldHash, leaf, s) = hashes[idx + 1]
            /\ FoldHash(hashes[idx + 1], e) = up[(idx \div 2) + 1]
        BY <2>8, <2>9, <3>1
      <4> HIDE DEF s, e
      <4>3. /\ IsVector(s \o <<e>>)
            /\ FoldLeft(FoldHash, leaf, s \o <<e>>) = FoldHash(FoldLeft(FoldHash, leaf, s), e)
        BY <4>2, FoldOneMore
      <4> QED
        BY <4>1, <4>2, <4>3
    <3>2. CASE ~(Sibling(idx) < Len(hashes))
      <4>1. Q[n + 1] = Q[n]
        BY <2>6, <2>7, <2>8, <3>2, ConcatEmpty
      <4> QED
        BY <2>8, <2>9, <3>2, <4>1
    <3> QED
      BY <3>1, <3>2
  <2> QED
    BY <2>5, <2>9, <2>10 DEF up
<1>14. Nat \subseteq T
  <2> HIDE DEF T
  <2> QED
    BY <1>12, <1>13, NatSetInduction
<1> DEFINE top == count - 1
<1>15. top \in Nat /\ top < count /\ top + 1 = count /\ count \in 1 .. count
  BY <1>1
<1> HIDE DEF top
<1>16. Reached(top)
  BY <1>14, <1>15
<1>17. Len(layers[count]) = 1 /\ TestRoot = layers[count][1]
  BY DEF Last, TestRoot, count
<1>18. At[count] = 0
  BY <1>15, <1>16, <1>17
<1>19. FoldLeft(FoldHash, leaf, Q[top]) = TestRoot /\ IsVector(Q[top])
  BY <1>15, <1>16, <1>17, <1>18
<1>20. pieces[count] = <<>>
  <2>1. Sibling(0) = 1
    BY DEF Sibling
  <2>2. ~(Sibling(At[count]) < Len(layers[count]))
    BY <1>17, <1>18, <2>1
  <2> QED
    BY <1>5, <1>15, <2>2
<1>21. Q[count] = Q[top]
  <2>1. Q[top + 1] = Q[top] \o pieces[top + 1]
    BY <1>11, <1>15
  <2> QED
    BY <1>15, <1>19, <1>20, <2>1, ConcatEmpty
<1> QED
  BY <1>10, <1>19, <1>21 DEF leaf

(* The proofs of the tests' tree lead verify to its root, for any entries    *)
(* and any width, though a layer on which a hash has no sibling adds nothing *)
(* to them.                                                                *)
THEOREM TestProofsPass == TestSpec => []TestProofsVerify
<1>1. TestInv => TestProofsVerify
  BY TestProofOfLeaf DEF TestInv, TestProofsVerify, TestBuilt
<1> QED
  BY <1>1, TestInvHolds, PTL

-----------------------------------------------------------------------------
(* The two roots *)

(* The hashes with n hashes on every way down to a leaf: the hashes of the  *)
(* level n of a tree in which every node has a pair, or is its own.         *)
Deep[n \in Nat] ==
  IF n = 0 THEN {LeafHash(item) : item \in Items} ELSE HashesOf(Deep[n - 1])

LEMMA DeepIs ==
  /\ Deep[0] = {LeafHash(item) : item \in Items}
  /\ \A n \in Nat : Deep[n + 1] = {SortedHash(a, b) : a \in Deep[n], b \in Deep[n]}
<1> DEFINE base == {LeafHash(item) : item \in Items}
<1>1. PICK G : IsChain(G, "deep", 0, base)
  BY ChainExists
<1>2. G = [n \in Nat |-> IF n = 0 THEN base ELSE HashesOf(G[n - 1])]
  BY <1>1 DEF IsChain, ChainStep
<1>3. Deep = [n \in Nat |-> IF n = 0 THEN base ELSE HashesOf(Deep[n - 1])]
  BY <1>2 DEF Deep
<1> HIDE DEF base
<1>4. Deep[0] = base
  BY <1>3
<1>5. ASSUME NEW n \in Nat PROVE Deep[n + 1] = HashesOf(Deep[n])
  <2>1. n + 1 \in Nat /\ n + 1 # 0 /\ (n + 1) - 1 = n
    OBVIOUS
  <2>2. Deep[n + 1] = HashesOf(Deep[(n + 1) - 1])
    BY <1>3, <2>1
  <2> QED
    BY <2>1, <2>2
<1> QED
  BY <1>4, <1>5 DEF base, HashesOf

(* No hash is at two heights: its preimage shows how deep it is.            *)
LEMMA DeepOnce ==
  ASSUME NEW d \in Nat, NEW e \in Nat, NEW x, x \in Deep[d], x \in Deep[e]
  PROVE  d = e
<1> DEFINE T == {n \in Nat : \A m \in Nat : \A y : y \in Deep[n] /\ y \in Deep[m] => n = m}
<1>1. \A m \in Nat : m = 0 \/ \E k \in Nat : m = k + 1
  <2> TAKE m \in Nat
  <2>1. m # 0 => m - 1 \in Nat /\ m = (m - 1) + 1
    OBVIOUS
  <2> QED
    BY <2>1
<1>2. \A k \in Nat : \A y : ~(y \in Deep[0] /\ y \in Deep[k + 1])
  BY DeepIs, NoLeafIsParent
<1>3. 0 \in T
  BY <1>1, <1>2
<1>4. ASSUME NEW n \in Nat, n \in T PROVE n + 1 \in T
  <2> SUFFICES ASSUME NEW m \in Nat, NEW y, y \in Deep[n + 1], y \in Deep[m] PROVE n + 1 = m
    OBVIOUS
  <2>1. PICK k \in Nat : m = k + 1
    BY <1>1, <1>2
  <2>2. PICK a \in Deep[n], b \in Deep[n] : y = SortedHash(a, b)
    BY DeepIs
  <2>3. PICK p \in Deep[k], q \in Deep[k] : y = SortedHash(p, q)
    BY <2>1, DeepIs
  <2>4. a \in {p, q}
    BY <2>2, <2>3, SortedHashInjective
  <2>5. a \in Deep[n] /\ a \in Deep[k]
    BY <2>4
  <2>6. n = k
    BY <1>4, <2>5
  <2> QED
    BY <2>1, <2>6
<1>5. Nat \subseteq T
  <2> HIDE DEF T
  <2> QED
    BY <1>3, <1>4, NatSetInduction
<1> QED
  BY <1>5

(* A level of the tree and the layer of the tests' tree above the same      *)
(* number of levels: hash by hash alike, as long as no layer below had an   *)
(* unpaired hash; after the first one, the last hash of each layer is not   *)
(* as deep as the hashes of the level, nor of any further up.               *)
Alike(n, start, hashes) ==
  /\ LeafCount = TwoTo[n] * Len(hashes)
  /\ \A k \in Nat : k < Len(hashes) => hashes[k + 1] = Node(start + k)

Apart(n, hashes) ==
  /\ \A m \in Nat : LeafCount # TwoTo[m]
  /\ \A e \in Nat : e >= n => hashes[Len(hashes)] \notin Deep[e]

Beside(L, n, start, hashes) ==
  /\ <<start, Len(hashes)>> \in L
  /\ n + Len(hashes) <= LeafCount
  /\ \A k \in Nat : k < Len(hashes) => Node(start + k) \in Deep[n]
  /\ Alike(n, start, hashes) \/ Apart(n, hashes)

IsAbove(up, hashes) ==
  /\ Len(hashes) > 1
  /\ Len(up) = (Len(hashes) + 1) \div 2
  /\ \A k \in Nat : k < Len(up) => up[k + 1] = InternalHash(hashes, 2 * k)

LEMMA AlikePaired ==
  ASSUME NEW n \in Nat, NEW start \in Nat, NEW hashes, NEW up, IsAbove(up, hashes),
         NEW h \in Nat, Len(hashes) = 2 * h, h > 0, Len(up) = h,
         Alike(n, start, hashes),
         \A i \in Nat : i < h =>
           Node(start + Len(hashes) + i) = SortedHash(Node(start + 2 * i), Node(start + 2 * i + 1))
  PROVE  Alike(n + 1, start + Len(hashes), up)
<1>1. LeafCount = TwoTo[n + 1] * h
  <2>1. TwoTo[n] \in Nat /\ TwoTo[n + 1] = 2 * TwoTo[n]
    BY TwoToIs, TwoToNat
  <2> DEFINE t == TwoTo[n]
  <2>2. t \in Nat
    BY <2>1
  <2> HIDE DEF t
  <2>3. t * (2 * h) = (2 * t) * h
    BY <2>2
  <2> QED
    BY <2>1, <2>3 DEF Alike, t
<1>2. ASSUME NEW k \in Nat, k < h PROVE up[k + 1] = Node(start + Len(hashes) + k)
  <2>1. 2 * k \in Nat /\ 2 * k + 1 \in Nat /\ 2 * k < 2 * h /\ 2 * k + 1 < 2 * h
    BY <1>2
  <2>2. up[k + 1] = SortedHash(hashes[2 * k + 1], hashes[2 * k + 2])
    BY <1>2, <2>1 DEF IsAbove, InternalHash
  <2>3. hashes[2 * k + 1] = Node(start + 2 * k)
    BY <2>1 DEF Alike
  <2>4. hashes[(2 * k + 1) + 1] = Node(start + (2 * k + 1))
    BY <2>1 DEF Alike
  <2>5. (2 * k + 1) + 1 = 2 * k + 2 /\ start + (2 * k + 1) = start + 2 * k + 1
    OBVIOUS
  <2> QED
    BY <1>2, <2>2, <2>3, <2>4, <2>5
<1> QED
  BY <1>1, <1>2 DEF Alike

LEMMA AlikeUnpaired ==
  ASSUME NEW n \in Nat, NEW start \in Nat, NEW hashes, NEW up, IsAbove(up, hashes),
         NEW q \in Nat, Len(hashes) = 2 * q + 1, q > 0, Len(up) = q + 1,
         Alike(n, start, hashes), Node(start + 2 * q) \in Deep[n]
  PROVE  Apart(n + 1, up)
<1>1. \A m \in Nat : LeafCount # TwoTo[m]
  BY OddFactor DEF Alike
<1>2. up[q + 1] = Node(start + 2 * q)
  <2>1. up[q + 1] = hashes[2 * q + 1]
    BY DEF IsAbove, InternalHash
  <2>2. hashes[2 * q + 1] = Node(start + 2 * q)
    BY DEF Alike
  <2> QED
    BY <2>1, <2>2
<1>3. ASSUME NEW e \in Nat, e >= n + 1, up[q + 1] \in Deep[e] PROVE FALSE
  <2>1. n = e
    BY <1>2, <1>3, DeepOnce
  <2> QED
    BY <1>3, <2>1
<1> QED
  BY <1>1, <1>3 DEF Apart

LEMMA StaysApart ==
  ASSUME NEW n \in Nat, NEW hashes, NEW up, IsAbove(up, hashes), Apart(n, hashes),
         NEW h \in Nat, h > 0, Len(up) = h,
         Len(hashes) = 2 * h \/ Len(hashes) = 2 * h - 1
  PROVE  Apart(n + 1, up)
<1> DEFINE x == hashes[Len(hashes)]
<1>1. h - 1 \in Nat /\ h - 1 < Len(up) /\ (h - 1) + 1 = h
  OBVIOUS
<1>2. up[h] = InternalHash(hashes, 2 * (h - 1))
  BY <1>1 DEF IsAbove
<1>3. up[h] = x \/ \E a : up[h] = SortedHash(x, a)
  <2>1. CASE Len(hashes) = 2 * h
    <3>1. 2 * (h - 1) + 1 < Len(hashes) /\ 2 * (h - 1) + 2 = Len(hashes)
      BY <2>1
    <3>2. up[h] = SortedHash(hashes[2 * (h - 1) + 1], x)
      BY <1>2, <3>1 DEF InternalHash
    <3>3. up[h] = SortedHash(x, hashes[2 * (h - 1) + 1])
      BY <3>2 DEF SortedHash
    <3> QED
      BY <3>3
  <2>2. CASE Len(hashes) = 2 * h - 1
    <3>1. ~(2 * (h - 1) + 1 < Len(hashes)) /\ 2 * (h - 1) + 1 = Len(hashes)
      BY <2>2
    <3> QED
      BY <1>2, <3>1 DEF InternalHash
  <2> QED
    BY <2>1, <2>2
<1>4. \A e \in Nat : e >= n => x \notin Deep[e]
  BY DEF Apart
<1> HIDE DEF x
<1>5. ASSUME NEW e \in Nat, e >= n + 1, up[h] \in Deep[e] PROVE FALSE
  <2>1. CASE up[h] = x
    BY <1>4, <1>5, <2>1
  <2>2. CASE \E a : up[h] = SortedHash(x, a)
    <3>1. PICK a : up[h] = SortedHash(x, a)
      BY <2>2
    <3>2. e - 1 \in Nat /\ e - 1 >= n /\ (e - 1) + 1 = e
      BY <1>5
    <3>3. PICK p \in Deep[e - 1], q \in Deep[e - 1] : up[h] = SortedHash(p, q)
      <4> DEFINE below == e - 1
      <4>1. below \in Nat /\ below + 1 = e
        BY <3>2
      <4> HIDE DEF below
      <4>2. Deep[below + 1] = {SortedHash(p, q) : p \in Deep[below], q \in Deep[below]}
        BY <4>1, DeepIs
      <4>3. \E p, q \in Deep[below] : up[h] = SortedHash(p, q)
        BY <1>5, <4>1, <4>2
      <4> QED
        BY <4>3 DEF below
    <3>4. x \in {p, q}
      BY <3>1, <3>3, SortedHashInjective
    <3> QED
      BY <1>4, <3>2, <3>4
  <2> QED
    BY <1>3, <2>1, <2>2
<1> QED
  BY <1>5 DEF Apart

(* The parents of a level, in the level above it. *)
LEMMA LevelAbove ==
  ASSUME BuildInv, NEW L, AreLevels(L), Built, sorted_hashes,
         NEW start \in Nat, NEW len \in Nat, <<start, len>> \in L, len > 1
  PROVE  /\ <<start + len, (len + 1) \div 2>> \in L
         /\ \A i \in Nat : i < (len + 1) \div 2 =>
              Node(start + len + i) = SortedHash(Node(start + 2 * i), RightOf(len, start, 2 * i))
<1>1. TreeInv
  BY DEF BuildInv
<1>2. prev_level_len <= 1
  BY <1>1 DEF TreeInv, LevelsInPlace, Built
<1>3. ParentsDone(start, len) /\ <<start + len, NextLevelLen(len)>> \in L
  BY <1>1, <1>2, LevelTypes DEF AreLevels
<1>4. NextLevelLen(len) = (len + 1) \div 2
  BY DEF NextLevelLen
<1>5. \A i \in Nat : i < NextLevelLen(len) => ParentAt(len, start, i)
  BY <1>3 DEF ParentsDone
<1> QED
  BY <1>3, <1>4, <1>5 DEF ParentAt, ParentHash

LEMMA NextBeside ==
  ASSUME BuildInv, NEW L, AreLevels(L), Built, sorted_hashes, LeafCount \in Nat,
         NEW n \in Nat, NEW start \in Nat, NEW hashes, Len(hashes) \in Nat,
         Beside(L, n, start, hashes), NEW up, IsAbove(up, hashes)
  PROVE  Beside(L, n + 1, start + Len(hashes), up)
<1> DEFINE len == Len(hashes)
           h   == Len(up)
<1>1. /\ len \in Nat /\ len > 1
      /\ h \in Nat /\ h > 0
      /\ \/ len = 2 * h
         \/ len = 2 * h - 1 /\ h > 1
      /\ h = (len + 1) \div 2
  <2>1. len \in Nat /\ len > 1 /\ h = (len + 1) \div 2
    BY DEF IsAbove
  <2> HIDE DEF len, h
  <2> QED
    BY <2>1
<1>2. /\ <<start + len, h>> \in L
      /\ \A i \in Nat : i < h =>
           Node(start + len + i) = SortedHash(Node(start + 2 * i), RightOf(len, start, 2 * i))
  <2>1. <<start, len>> \in L
    BY DEF Beside
  <2> HIDE DEF len, h
  <2> QED
    BY <1>1, <2>1, LevelAbove
<1>3. \A k \in Nat : k < len => Node(start + k) \in Deep[n]
  BY DEF Beside
<1>4. n + len <= LeafCount
  BY DEF Beside
<1>5. IsAbove(up, hashes) /\ (Alike(n, start, hashes) \/ Apart(n, hashes))
  BY DEF Beside
<1>6. Len(hashes) = len /\ Len(up) = h
  OBVIOUS
<1> HIDE DEF len, h
<1>7. (n + 1) + h <= LeafCount
  BY <1>1, <1>4
<1>8. ASSUME NEW i \in Nat, i < h PROVE Node(start + len + i) \in Deep[n + 1]
  <2>1. 2 * i \in Nat /\ 2 * i < len
    BY <1>1, <1>8
  <2>2. Node(start + 2 * i) \in Deep[n]
    BY <1>3, <2>1
  <2>3. RightOf(len, start, 2 * i) \in Deep[n]
    <3>1. CASE 2 * i + 1 < len
      <4>1. Node(start + (2 * i + 1)) \in Deep[n]
        BY <1>3, <2>1, <3>1
      <4>2. start + (2 * i + 1) = start + 2 * i + 1
        OBVIOUS
      <4> QED
        BY <3>1, <4>1, <4>2 DEF RightOf
    <3>2. CASE ~(2 * i + 1 < len)
      BY <2>2, <3>2 DEF RightOf
    <3> QED
      BY <3>1, <3>2
  <2>4. Deep[n + 1] = {SortedHash(a, b) : a \in Deep[n], b \in Deep[n]}
    BY DeepIs
  <2> QED
    BY <1>2, <1>8, <2>2, <2>3, <2>4
<1>9. Alike(n + 1, start + len, up) \/ Apart(n + 1, up)
  <2>1. CASE Apart(n, hashes)
    BY <1>1, <1>5, <1>6, <2>1, StaysApart
  <2>2. CASE Alike(n, start, hashes) /\ len = 2 * h
    <3>1. ASSUME NEW i \in Nat, i < h
          PROVE  Node(start + len + i) = SortedHash(Node(start + 2 * i), Node(start + 2 * i + 1))
      <4>1. 2 * i + 1 < len
        BY <1>1, <2>2, <3>1
      <4> QED
        BY <1>2, <3>1, <4>1 DEF RightOf
    <3> QED
      BY <1>1, <1>5, <1>6, <2>2, <3>1, AlikePaired
  <2>3. CASE Alike(n, start, hashes) /\ len = 2 * h - 1 /\ h > 1
    <3> DEFINE q == h - 1
    <3>1. q \in Nat /\ q > 0 /\ len = 2 * q + 1 /\ h = q + 1 /\ 2 * q \in Nat /\ 2 * q < len
      BY <1>1, <2>3
    <3> HIDE DEF q
    <3>2. Node(start + 2 * q) \in Deep[n]
      BY <1>3, <3>1
    <3> QED
      BY <1>5, <1>6, <2>3, <3>1, <3>2, AlikeUnpaired
  <2> QED
    BY <1>1, <1>5, <2>1, <2>2, <2>3
<1> QED
  BY <1>2, <1>6, <1>7, <1>8, <1>9 DEF Beside

LEMMA EveryLayerBeside ==
  ASSUME BuildInv, NEW L, AreLevels(L), Built, AreLayers, layers # <<>>,
         NEW n \in Nat, n < Len(layers)
  PROVE  \E start \in Nat : Beside(L, n, start, layers[n + 1])
<1> DEFINE T == {m \in Nat : m < Len(layers) =>
                   \E start \in Nat : Beside(L, m, start, layers[m + 1])}
<1>1. /\ sorted_hashes
      /\ Len(layers) \in Nat /\ Len(layers) > 0
      /\ \A l \in 1 .. Len(layers) : Len(layers[l]) \in Nat /\ Len(layers[l]) > 0
      /\ LeafCount \in Nat /\ LeafCount > 0
      /\ items \in Seq(Items)
  BY LayerLengths, LevelTypes DEF AreLayers, BuildInv, TreeInv
<1>2. 0 \in T
  <2>1. /\ Len(layers[1]) = LeafCount
        /\ \A k \in 1 .. LeafCount : layers[1][k] = LeafHash(items[k])
    BY DEF AreLayers
  <2>2. ASSUME NEW k \in Nat, k < LeafCount
        PROVE  layers[1][k + 1] = Node(0 + k) /\ Node(0 + k) \in Deep[0]
    <3>1. k + 1 \in 1 .. LeafCount /\ 0 + k + 1 = k + 1
      BY <1>1, <2>2
    <3>2. Node(0 + k) = LeafHash(items[k + 1])
      BY <3>1 DEF BuildInv, LeavesInPlace, Node
    <3>3. items[k + 1] \in Items
      BY <1>1, <3>1 DEF LeafCount
    <3> QED
      BY <2>1, <3>1, <3>2, <3>3, DeepIs
  <2>3. Alike(0, 0, layers[1])
    BY <1>1, <2>1, <2>2, TwoToIs DEF Alike
  <2>4. <<0, LeafCount>> \in L
    BY DEF AreLevels
  <2>5. Beside(L, 0, 0, layers[1])
    BY <1>1, <2>1, <2>2, <2>3, <2>4 DEF Beside
  <2> QED
    BY <2>5
<1>3. ASSUME NEW m \in Nat, m \in T PROVE m + 1 \in T
  <2> SUFFICES ASSUME m + 1 < Len(layers)
               PROVE  \E start \in Nat : Beside(L, m + 1, start, layers[(m + 1) + 1])
    OBVIOUS
  <2> DEFINE hashes == layers[m + 1]
             up     == layers[(m + 1) + 1]
  <2>1. m < Len(layers) /\ m + 1 \in 1 .. Len(layers) /\ m + 1 \in Nat /\ m + 1 > 0
    BY <1>1
  <2>2. PICK start \in Nat : Beside(L, m, start, hashes)
    BY <1>3, <2>1
  <2>3. LayerAbove(m + 1)
    BY <2>1 DEF AreLayers
  <2>4. IsAbove(up, hashes)
    BY <2>3 DEF LayerAbove, IsAbove
  <2>5. Len(hashes) \in Nat
    BY <1>1, <2>1
  <2> HIDE DEF hashes, up
  <2>6. Beside(L, m + 1, start + Len(hashes), up)
    BY <1>1, <2>2, <2>4, <2>5, NextBeside
  <2>7. start + Len(hashes) \in Nat
    BY <2>5
  <2> QED
    BY <2>6, <2>7 DEF up
<1>4. Nat \subseteq T
  <2> HIDE DEF T
  <2> QED
    BY <1>2, <1>3, NatSetInduction
<1> QED
  BY <1>4

(* The tests' tree and the one of MerkleTree over the same entries have one *)
(* root if no layer of more than one hash has an odd number of them, and    *)
(* two different ones otherwise, for any entries and any width.             *)
THEOREM RootsAgree == TestSpec => []RootsAgreeWhenPaired
<1>1. TestInv => RootsAgreeWhenPaired
  <2> SUFFICES ASSUME TestInv, TestBuilt
               PROVE  TestRoot = Root <=> \E level \in 0 .. LeafCount : LeafCount = TwoTo[level]
    BY DEF RootsAgreeWhenPaired
  <2>1. BuildInv /\ AreLayers /\ Built /\ layers # <<>>
    BY DEF TestInv, PathInv, TestBuilt
  <2>2. PICK L : AreLevels(L)
    BY DEF TestInv, PathInv
  <2> DEFINE hashes == layers[Len(layers)]
             n      == Len(layers) - 1
  <2>3. Len(hashes) = 1 /\ TestRoot = hashes[1]
    BY DEF TestBuilt, TestRoot, Last
  <2>4. LeafCount \in Nat /\ LeafCount > 0
    BY <2>1, LevelTypes DEF BuildInv, AreLayers
  <2>5. PICK start \in Nat : Beside(L, n, start, hashes)
    <3>1. n \in Nat /\ n < Len(layers) /\ n + 1 = Len(layers)
      BY <2>1, LayerLengths
    <3> HIDE DEF n
    <3>2. \E start \in Nat : Beside(L, n, start, layers[n + 1])
      BY <2>1, <2>2, <3>1, EveryLayerBeside
    <3> QED
      BY <3>1, <3>2
  <2>6. n \in Nat
    BY <2>1, LayerLengths
  <2> HIDE DEF hashes, n
  <2>7. Node(start) = Root
    <3>1. <<start, 1>> \in L
      BY <2>3, <2>5 DEF Beside
    <3> QED
      BY <2>1, <2>2, <2>4, <3>1, TopIsRoot
  <2>8. Root \in Deep[n]
    <3>1. 0 \in Nat /\ 0 < 1 /\ start + 0 = start
      OBVIOUS
    <3>2. Node(start + 0) \in Deep[n]
      BY <2>3, <2>5, <3>1 DEF Beside
    <3> QED
      BY <2>7, <3>1, <3>2
  <2>9. CASE Alike(n, start, hashes)
    <3>1. LeafCount = TwoTo[n]
      BY <2>3, <2>6, <2>9, TwoToNat DEF Alike
    <3>2. n \in 0 .. LeafCount
      BY <2>3, <2>4, <2>5, <2>6 DEF Beside
    <3>3. TestRoot = Root
      <4>1. 0 \in Nat /\ 0 < 1 /\ 0 + 1 = 1 /\ start + 0 = start
        OBVIOUS
      <4>2. hashes[0 + 1] = Node(start + 0)
        BY <2>3, <2>9, <4>1 DEF Alike
      <4> QED
        BY <2>3, <2>7, <4>1, <4>2
    <3> QED
      BY <3>1, <3>2, <3>3
  <2>10. CASE Apart(n, hashes)
    <3>1. TestRoot \notin Deep[n]
      BY <2>3, <2>6, <2>10 DEF Apart
    <3>2. ~ \E level \in 0 .. LeafCount : LeafCount = TwoTo[level]
      BY <2>10 DEF Apart
    <3> QED
      BY <2>8, <3>1, <3>2
  <2> QED
    BY <2>5, <2>9, <2>10 DEF Beside
<1> QED
  BY <1>1, TestInvHolds, PTL
=============================================================================
