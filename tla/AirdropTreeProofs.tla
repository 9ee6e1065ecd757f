-------------------------- MODULE AirdropTreeProofs --------------------------
(***************************************************************************)
(* The tree builder, for files of any length and any width of the machine: *)
(* the nodes are exactly what the rows add up to, and the caps are those   *)
(* of the file.                                                            *)
(***************************************************************************)
EXTENDS AirdropTree, FiniteSums

-----------------------------------------------------------------------------
(* Types, and checked arithmetic *)

TreeNode ==
  [claimant : Claimants,
   unlocked : [AirdropCategory -> Nat],
   locked   : [AirdropCategory -> Nat]]

BuiltInv ==
  /\ tree_nodes \in Seq(TreeNode)
  /\ status = "built" => /\ SumsFit(tree_nodes)
                         /\ max_total_claim \in U64
                         /\ max_num_nodes \in U64

LEMMA LimitsType == U64Max \in Nat /\ TokenUnit \in Nat /\ MaxNodes \in Nat
BY EntriesAssumption DEF U64

LEMMA CappedSum ==
  ASSUME NEW a \in Nat
  PROVE  Min({a, Overflow}) \in Nat
<1>1. Overflow \in Nat
  BY LimitsType DEF Overflow
<1>2. \E x \in {a, Overflow} : \A y \in {a, Overflow} : x <= y
  BY <1>1
<1> HIDE DEF Overflow
<1>3. Min({a, Overflow}) \in {a, Overflow}
  BY <1>2, Zenon DEF Min
<1> QED
  BY <1>1, <1>3

(* A result in the range of a u64 is exact. *)
LEMMA NotCapped ==
  ASSUME NEW a \in Nat, Min({a, Overflow}) \in U64
  PROVE  Min({a, Overflow}) = a
<1>1. /\ Overflow \in Nat /\ Overflow \notin U64
  BY EntriesAssumption DEF Overflow, U64
<1>2. \E x \in {a, Overflow} : \A y \in {a, Overflow} : x <= y
  BY <1>1
<1> HIDE DEF Overflow
<1>3. Min({a, Overflow}) \in {a, Overflow}
  BY <1>2, Zenon DEF Min
<1> QED
  BY <1>1, <1>3

LEMMA NodeType ==
  ASSUME NEW entry \in CsvEntries
  PROVE  NodeOf(entry) \in TreeNode
<1>1. /\ entry.claimant \in Claimants
      /\ entry.amount_unlocked \in Nat
      /\ entry.amount_locked \in Nat
  BY EntriesAssumption DEF CsvEntry, U64
<1>2. ASSUME NEW n \in Nat PROVE TokenAmount(n) \in Nat
  <2>1. n * TokenUnit \in Nat
    BY LimitsType
  <2> QED
    BY <2>1, CappedSum DEF TokenAmount
<1> QED
  BY <1>1, <1>2 DEF NodeOf, TreeNode

LEMMA NodeFields ==
  ASSUME NEW entry \in CsvEntries, FieldsFit(NodeOf(entry)),
         NEW c \in AirdropCategory
  PROVE  /\ NodeOf(entry).unlocked[c]
              = IF c = entry.category THEN entry.amount_unlocked * TokenUnit ELSE 0
         /\ NodeOf(entry).locked[c]
              = IF c = entry.category THEN entry.amount_locked * TokenUnit ELSE 0
<1>1. /\ entry.amount_unlocked * TokenUnit \in Nat
      /\ entry.amount_locked * TokenUnit \in Nat
  <2>1. /\ entry.amount_unlocked \in Nat /\ entry.amount_locked \in Nat
        /\ TokenUnit \in Nat
    BY EntriesAssumption DEF CsvEntry, U64
  <2> QED
    BY <2>1
<1>2. /\ NodeOf(entry).unlocked[c] \in U64
      /\ NodeOf(entry).locked[c] \in U64
  BY DEF FieldsFit
<1>3. CASE c = entry.category
  <2>1. /\ NodeOf(entry).unlocked[c] = TokenAmount(entry.amount_unlocked)
        /\ NodeOf(entry).locked[c] = TokenAmount(entry.amount_locked)
    BY <1>3 DEF NodeOf
  <2> QED
    BY <1>1, <1>2, <1>3, <2>1, NotCapped DEF TokenAmount
<1>4. CASE c # entry.category
  BY <1>4 DEF NodeOf
<1> QED
  BY <1>3, <1>4

LEMMA CombinedType ==
  ASSUME NEW m \in TreeNode, NEW node \in TreeNode
  PROVE  Combined(m, node) \in TreeNode
<1>1. ASSUME NEW a \in Nat, NEW b \in Nat PROVE CheckedAdd(a, b) \in Nat
  <2>1. a + b \in Nat
    OBVIOUS
  <2> QED
    BY <2>1, CappedSum DEF CheckedAdd
<1> QED
  BY <1>1 DEF Combined, TreeNode

LEMMA CombinedFields ==
  ASSUME NEW m \in TreeNode, NEW node \in TreeNode, NEW c \in AirdropCategory
  PROVE  /\ Combined(m, node).unlocked[c]
              = CheckedAdd(m.unlocked[c], node.unlocked[c])
         /\ Combined(m, node).locked[c]
              = CheckedAdd(m.locked[c], node.locked[c])
<1> DEFINE u == [j \in AirdropCategory |->
                  CheckedAdd(m.unlocked[j], node.unlocked[j])]
           l == [j \in AirdropCategory |->
                  CheckedAdd(m.locked[j], node.locked[j])]
<1>1. Combined(m, node) = [m EXCEPT !.unlocked = u, !.locked = l]
  BY Zenon DEF Combined
<1>2. /\ u[c] = CheckedAdd(m.unlocked[c], node.unlocked[c])
      /\ l[c] = CheckedAdd(m.locked[c], node.locked[c])
  OBVIOUS
<1> HIDE DEF u, l
<1>3. [m EXCEPT !.unlocked = u, !.locked = l].unlocked = u
  BY DEF TreeNode
<1>4. [m EXCEPT !.unlocked = u, !.locked = l].locked = l
  BY DEF TreeNode
<1> QED
  BY <1>1, <1>2, <1>3, <1>4

LEMMA CombinedExact ==
  ASSUME NEW m \in TreeNode, NEW node \in TreeNode,
         FieldsFit(Combined(m, node)),
         NEW c \in AirdropCategory
  PROVE  /\ Combined(m, node).unlocked[c] = m.unlocked[c] + node.unlocked[c]
         /\ Combined(m, node).locked[c] = m.locked[c] + node.locked[c]
<1>1. /\ m.unlocked[c] \in Nat /\ m.locked[c] \in Nat
      /\ node.unlocked[c] \in Nat /\ node.locked[c] \in Nat
  BY DEF TreeNode
<1>2. \A a, b \in Nat :
        CheckedAdd(a, b) \in U64 => CheckedAdd(a, b) = a + b
  <2> SUFFICES ASSUME NEW a \in Nat, NEW b \in Nat,
                      CheckedAdd(a, b) \in U64
               PROVE  CheckedAdd(a, b) = a + b
    OBVIOUS
  <2>1. a + b \in Nat
    OBVIOUS
  <2> QED
    BY <2>1, NotCapped DEF CheckedAdd
<1>3. /\ Combined(m, node).unlocked[c] \in U64
      /\ Combined(m, node).locked[c] \in U64
  BY DEF FieldsFit
<1> QED
  BY <1>1, <1>2, <1>3, CombinedFields

LEMMA AddNodeType ==
  ASSUME NEW nodes \in Seq(TreeNode), NEW node \in TreeNode
  PROVE  AddNode(nodes, node) \in Seq(TreeNode)
<1>1. Append(nodes, node) \in Seq(TreeNode)
  OBVIOUS
<1>2. [k \in DOMAIN nodes |->
         IF nodes[k].claimant = node.claimant THEN Combined(nodes[k], node)
         ELSE nodes[k]] \in Seq(TreeNode)
  BY CombinedType
<1> QED
  BY <1>1, <1>2 DEF AddNode

LEMMA BuiltStep == ASSUME BuiltInv, Next PROVE BuiltInv'
<1>1. ASSUME NEW entry \in CsvEntries, AddEntry(entry) PROVE BuiltInv'
  <2>1. tree_nodes' \in Seq(TreeNode)
    BY <1>1, NodeType, AddNodeType DEF BuiltInv, AddEntry
  <2>2. status' # "built"
    BY <1>1 DEF AddEntry
  <2> QED
    BY <2>1, <2>2 DEF BuiltInv
<1>2. CASE OpenFails \/ AddUnreadable
  BY <1>2 DEF BuiltInv, OpenFails, AddUnreadable
<1>3. CASE Finish
  <2>1. tree_nodes' = tree_nodes
    BY <1>3 DEF Finish
  <2>2. ASSUME status' = "built"
        PROVE  /\ SumsFit(tree_nodes)
               /\ max_total_claim' \in U64
               /\ max_num_nodes' \in U64
    <3>1. /\ SumsFit(tree_nodes)
          /\ max_num_nodes' = Len(tree_nodes)
          /\ max_total_claim' = GetMaxTotalClaim(tree_nodes)
          /\ Valid(tree_nodes, max_num_nodes', max_total_claim')
      BY <1>3, <2>2 DEF Finish
    <3>2. max_total_claim' \in U64
      BY <3>1 DEF SumsFit, U64
    <3>3. max_num_nodes' <= MaxNodes
      BY <3>1 DEF Valid
    <3>4. max_num_nodes' \in U64
      BY <3>1, <3>3, EntriesAssumption DEF BuiltInv, U64
    <3> QED
      BY <3>1, <3>2, <3>4
  <2> QED
    BY <2>1, <2>2 DEF BuiltInv, SumsFit
<1> QED
  BY <1>1, <1>2, <1>3 DEF Next

-----------------------------------------------------------------------------
(* What the rows add up to *)

UnlockedIn(e, S) == Total([r \in S |-> e[r].amount_unlocked], S)
LockedIn(e, S) == Total([r \in S |-> e[r].amount_locked], S)

RowsOfCategory(e, k, c) == {r \in DOMAIN e : e[r].claimant = k /\ e[r].category = c}

(* RowsCombined as a relation between nodes and rows. *)
Combines(nodes, e) ==
  /\ \A i, j \in DOMAIN nodes : nodes[i].claimant = nodes[j].claimant => i = j
  /\ {nodes[i].claimant : i \in DOMAIN nodes} = {e[r].claimant : r \in DOMAIN e}
  /\ \A i \in DOMAIN nodes, c \in AirdropCategory :
       LET rows == RowsOfCategory(e, nodes[i].claimant, c)
       IN  /\ nodes[i].unlocked[c] = UnlockedIn(e, rows) * TokenUnit
           /\ nodes[i].locked[c] = LockedIn(e, rows) * TokenUnit

LEMMA RowsAreCombined ==
  RowsCombined <=> (status # "panic" => Combines(tree_nodes, csv_entries))
<1>1. \A S : /\ UnlockedOf(S) = UnlockedIn(csv_entries, S) * TokenUnit
             /\ LockedOf(S) = LockedIn(csv_entries, S) * TokenUnit
  BY DEF UnlockedOf, LockedOf, UnlockedIn, LockedIn, Total
<1>2. \A k, c : RowsOf(k, c) = RowsOfCategory(csv_entries, k, c)
  BY DEF RowsOf, RowsOfCategory
<1> QED
  BY <1>1, <1>2 DEF RowsCombined, Combines

LEMMA RowsAreCombinedNext ==
  RowsCombined' <=> (status' # "panic" => Combines(tree_nodes', csv_entries'))
<1>1. (RowsCombined <=> (status # "panic" => Combines(tree_nodes, csv_entries)))'
  BY RowsAreCombined, PTL
<1> QED
  BY <1>1

LEMMA EntryType ==
  ASSUME NEW entry \in CsvEntries
  PROVE  /\ entry.claimant \in Claimants
         /\ entry.category \in AirdropCategory
         /\ entry.amount_unlocked \in Nat
         /\ entry.amount_locked \in Nat
BY EntriesAssumption DEF CsvEntry, U64

LEMMA SumOfRowsType ==
  ASSUME NEW e \in Seq(CsvEntries), NEW S \in SUBSET DOMAIN e
  PROVE  /\ IsFiniteSet(S)
         /\ UnlockedIn(e, S) \in Nat
         /\ LockedIn(e, S) \in Nat
<1>1. IsFiniteSet(S)
  <2>1. DOMAIN e = 1 .. Len(e) /\ Len(e) \in Nat
    OBVIOUS
  <2>2. IsFiniteSet(1 .. Len(e))
    BY <2>1, FS_Interval
  <2>3. S \subseteq 1 .. Len(e)
    BY <2>1
  <2> QED
    BY <2>2, <2>3, FS_Subset
<1>2. \A r \in S : e[r] \in CsvEntries
  OBVIOUS
<1>3. \A r \in S : e[r].amount_unlocked \in Nat /\ e[r].amount_locked \in Nat
  BY <1>2, EntryType
<1> QED
  BY <1>1, <1>3, SumType DEF UnlockedIn, LockedIn, Total

(* One more row at the end of the file. *)
LEMMA RowAdded ==
  ASSUME NEW e \in Seq(CsvEntries), NEW entry \in CsvEntries, NEW S \in SUBSET DOMAIN e
  PROVE  LET more == Append(e, entry)
             last == Len(e) + 1
         IN  /\ UnlockedIn(more, S) = UnlockedIn(e, S)
             /\ LockedIn(more, S) = LockedIn(e, S)
             /\ UnlockedIn(more, S \cup {last}) = UnlockedIn(e, S) + entry.amount_unlocked
             /\ LockedIn(more, S \cup {last}) = LockedIn(e, S) + entry.amount_locked
<1> DEFINE more == Append(e, entry)
           last == Len(e) + 1
<1>1. /\ last \notin S /\ more[last] = entry
      /\ \A r \in S : more[r] = e[r] /\ e[r] \in CsvEntries
  OBVIOUS
<1>2. IsFiniteSet(S)
  BY SumOfRowsType
<1>3. \A r \in S : e[r].amount_unlocked \in Nat /\ e[r].amount_locked \in Nat
  BY <1>1, EntryType
<1>4. entry.amount_unlocked \in Nat /\ entry.amount_locked \in Nat
  BY EntryType
<1> HIDE DEF more, last
<1>5. UnlockedIn(more, S) = UnlockedIn(e, S) /\ LockedIn(more, S) = LockedIn(e, S)
  BY <1>1 DEF UnlockedIn, LockedIn
<1>6. UnlockedIn(more, S \cup {last}) = UnlockedIn(e, S) + entry.amount_unlocked
  <2> DEFINE g == [r \in S |-> e[r].amount_unlocked]
             h == [r \in S \cup {last} |-> more[r].amount_unlocked]
  <2>1. /\ \A r \in S : g[r] \in Nat /\ h[r] = g[r]
        /\ h[last] = entry.amount_unlocked
    BY <1>1, <1>3
  <2> HIDE DEF g, h
  <2>2. Total(h, S \cup {last}) = Total(g, S) + h[last]
    BY <1>1, <1>2, <1>4, <2>1, SumAdd
  <2> QED
    BY <2>1, <2>2 DEF UnlockedIn, g, h
<1>7. LockedIn(more, S \cup {last}) = LockedIn(e, S) + entry.amount_locked
  <2> DEFINE g == [r \in S |-> e[r].amount_locked]
             h == [r \in S \cup {last} |-> more[r].amount_locked]
  <2>1. /\ \A r \in S : g[r] \in Nat /\ h[r] = g[r]
        /\ h[last] = entry.amount_locked
    BY <1>1, <1>3
  <2> HIDE DEF g, h
  <2>2. Total(h, S \cup {last}) = Total(g, S) + h[last]
    BY <1>1, <1>2, <1>4, <2>1, SumAdd
  <2> QED
    BY <2>1, <2>2 DEF LockedIn, g, h
<1> QED
  BY <1>5, <1>6, <1>7 DEF more, last

(* Amounts are added before or after they are multiplied by the unit of a   *)
(* token.                                                                   *)
LEMMA UnitDistributes ==
  ASSUME NEW a \in Nat, NEW b \in Nat, NEW u \in Nat
  PROVE  (a + b) * u = a * u + b * u
OBVIOUS

(* The sums of each claimant and category grow by the node of the new row. *)
LEMMA NodeAdds ==
  ASSUME NEW e \in Seq(CsvEntries), NEW entry \in CsvEntries,
         FieldsFit(NodeOf(entry)),
         NEW c \in AirdropCategory
  PROVE  LET more == Append(e, entry)
             node == NodeOf(entry)
             k == entry.claimant
         IN  /\ UnlockedIn(more, RowsOfCategory(more, k, c)) * TokenUnit
                  = UnlockedIn(e, RowsOfCategory(e, k, c)) * TokenUnit + node.unlocked[c]
             /\ LockedIn(more, RowsOfCategory(more, k, c)) * TokenUnit
                  = LockedIn(e, RowsOfCategory(e, k, c)) * TokenUnit + node.locked[c]
<1> DEFINE more == Append(e, entry)
           node == NodeOf(entry)
           k == entry.claimant
           rows == RowsOfCategory(e, k, c)
           last == Len(e) + 1
<1>1. /\ DOMAIN more = DOMAIN e \cup {last} /\ last \notin DOMAIN e
      /\ more[last] = entry
      /\ \A r \in DOMAIN e : more[r] = e[r]
  OBVIOUS
<1>2. rows \in SUBSET DOMAIN e
  BY DEF RowsOfCategory
<1>3. /\ UnlockedIn(e, rows) \in Nat /\ LockedIn(e, rows) \in Nat
      /\ entry.amount_unlocked \in Nat /\ entry.amount_locked \in Nat /\ TokenUnit \in Nat
  BY <1>2, SumOfRowsType, EntryType, LimitsType
<1>4. CASE c = entry.category
  <2>1. RowsOfCategory(more, k, c) = rows \cup {last}
    BY <1>1, <1>4 DEF RowsOfCategory
  <2>2. /\ node.unlocked[c] = entry.amount_unlocked * TokenUnit
        /\ node.locked[c] = entry.amount_locked * TokenUnit
    BY <1>4, NodeFields
  <2>3. /\ UnlockedIn(more, rows \cup {last}) = UnlockedIn(e, rows) + entry.amount_unlocked
        /\ LockedIn(more, rows \cup {last}) = LockedIn(e, rows) + entry.amount_locked
    BY <1>2, RowAdded
  <2>4. /\ (UnlockedIn(e, rows) + entry.amount_unlocked) * TokenUnit
             = UnlockedIn(e, rows) * TokenUnit + entry.amount_unlocked * TokenUnit
        /\ (LockedIn(e, rows) + entry.amount_locked) * TokenUnit
             = LockedIn(e, rows) * TokenUnit + entry.amount_locked * TokenUnit
    BY <1>3, UnitDistributes
  <2> HIDE DEF more, node, k, rows, last
  <2> QED
    BY <2>1, <2>2, <2>3, <2>4 DEF more, node, k, rows
<1>5. CASE c # entry.category
  <2>1. RowsOfCategory(more, k, c) = rows
    BY <1>1, <1>5 DEF RowsOfCategory
  <2>2. node.unlocked[c] = 0 /\ node.locked[c] = 0
    BY <1>5 DEF NodeOf
  <2>3. /\ UnlockedIn(more, rows) = UnlockedIn(e, rows)
        /\ LockedIn(more, rows) = LockedIn(e, rows)
    BY <1>2, RowAdded
  <2>4. UnlockedIn(e, rows) * TokenUnit \in Nat /\ LockedIn(e, rows) * TokenUnit \in Nat
    BY <1>3
  <2> HIDE DEF more, node, k, rows, last
  <2> QED
    BY <2>1, <2>2, <2>3, <2>4 DEF more, node, k, rows
<1> QED
  BY <1>4, <1>5

(* Those of other claimants stay. *)
LEMMA OthersStay ==
  ASSUME NEW e \in Seq(CsvEntries), NEW entry \in CsvEntries, NEW k, k # entry.claimant, NEW c
  PROVE  LET more == Append(e, entry)
         IN  /\ UnlockedIn(more, RowsOfCategory(more, k, c))
                  = UnlockedIn(e, RowsOfCategory(e, k, c))
             /\ LockedIn(more, RowsOfCategory(more, k, c))
                  = LockedIn(e, RowsOfCategory(e, k, c))
<1> DEFINE more == Append(e, entry)
           last == Len(e) + 1
<1>1. /\ DOMAIN more = DOMAIN e \cup {last} /\ last \notin DOMAIN e
      /\ more[last] = entry
      /\ \A r \in DOMAIN e : more[r] = e[r]
  OBVIOUS
<1>2. RowsOfCategory(more, k, c) = RowsOfCategory(e, k, c)
  BY <1>1 DEF RowsOfCategory
<1>3. RowsOfCategory(e, k, c) \in SUBSET DOMAIN e
  BY DEF RowsOfCategory
<1>4. /\ UnlockedIn(more, RowsOfCategory(e, k, c)) = UnlockedIn(e, RowsOfCategory(e, k, c))
      /\ LockedIn(more, RowsOfCategory(e, k, c)) = LockedIn(e, RowsOfCategory(e, k, c))
  BY <1>3, RowAdded
<1> HIDE DEF more
<1> QED
  BY <1>2, <1>4 DEF more

(* A row is combined with the node of its claimant, or gets a node.         *)
LEMMA CombinesStep ==
  ASSUME NEW nodes \in Seq(TreeNode), NEW e \in Seq(CsvEntries), Combines(nodes, e),
         NEW entry \in CsvEntries, FieldsFit(NodeOf(entry)),
         LET added == AddNode(nodes, NodeOf(entry))
         IN  \A i \in DOMAIN added : FieldsFit(added[i])
  PROVE  Combines(AddNode(nodes, NodeOf(entry)), Append(e, entry))
<1> DEFINE node == NodeOf(entry)
           added == AddNode(nodes, node)
           more == Append(e, entry)
           k == entry.claimant
           U(r, j, c) == UnlockedIn(r, RowsOfCategory(r, j, c)) * TokenUnit
           L(r, j, c) == LockedIn(r, RowsOfCategory(r, j, c)) * TokenUnit
<1>1. /\ node.claimant = k /\ node \in TreeNode
      /\ \A c \in AirdropCategory : node.unlocked[c] \in Nat /\ node.locked[c] \in Nat
  BY NodeType DEF NodeOf, TreeNode
<1>2. {more[r].claimant : r \in DOMAIN more} = {e[r].claimant : r \in DOMAIN e} \cup {k}
  <2>1. /\ DOMAIN more = DOMAIN e \cup {Len(e) + 1}
        /\ more[Len(e) + 1] = entry
        /\ \A r \in DOMAIN e : more[r] = e[r]
    OBVIOUS
  <2> HIDE DEF more
  <2> QED
    BY <2>1
<1>3. \A c \in AirdropCategory :
        /\ U(more, k, c) = U(e, k, c) + node.unlocked[c]
        /\ L(more, k, c) = L(e, k, c) + node.locked[c]
  BY NodeAdds
<1>4. \A j, c : j # k => U(more, j, c) = U(e, j, c) /\ L(more, j, c) = L(e, j, c)
  BY OthersStay
<1>5. \A i \in DOMAIN nodes, c \in AirdropCategory :
        /\ nodes[i].unlocked[c] = U(e, nodes[i].claimant, c)
        /\ nodes[i].locked[c] = L(e, nodes[i].claimant, c)
  BY DEF Combines
<1>6. /\ \A i, j \in DOMAIN nodes : nodes[i].claimant = nodes[j].claimant => i = j
      /\ {nodes[i].claimant : i \in DOMAIN nodes} = {e[r].claimant : r \in DOMAIN e}
  BY DEF Combines
<1>7. \A i \in DOMAIN nodes : nodes[i] \in TreeNode
  OBVIOUS
<1>8. \A i \in DOMAIN added : FieldsFit(added[i])
  OBVIOUS
<1>9. SUFFICES
        /\ \A i, j \in DOMAIN added : added[i].claimant = added[j].claimant => i = j
        /\ {added[i].claimant : i \in DOMAIN added}
             = {nodes[i].claimant : i \in DOMAIN nodes} \cup {k}
        /\ \A i \in DOMAIN added, c \in AirdropCategory :
             /\ added[i].unlocked[c] = U(more, added[i].claimant, c)
             /\ added[i].locked[c] = L(more, added[i].claimant, c)
  BY <1>2, <1>6 DEF Combines
<1> HIDE DEF U, L, more, node, k
<1>10. CASE \E i \in DOMAIN nodes : nodes[i].claimant = k
  <2>1. added = [i \in DOMAIN nodes |->
                  IF nodes[i].claimant = k THEN Combined(nodes[i], node)
                  ELSE nodes[i]]
    BY <1>1, <1>10 DEF AddNode
  <2>2. \A i \in DOMAIN nodes : added[i].claimant = nodes[i].claimant
    BY <1>7, <2>1 DEF Combined, TreeNode
  <2>3. ASSUME NEW i \in DOMAIN nodes, NEW c \in AirdropCategory
        PROVE  /\ added[i].unlocked[c] = U(more, added[i].claimant, c)
               /\ added[i].locked[c] = L(more, added[i].claimant, c)
    <3>1. CASE nodes[i].claimant # k
      BY <1>4, <1>5, <2>1, <2>2, <3>1
    <3>2. CASE nodes[i].claimant = k
      <4>1. added[i] = Combined(nodes[i], node)
        BY <2>1, <3>2
      <4>2. /\ added[i].unlocked[c] = nodes[i].unlocked[c] + node.unlocked[c]
            /\ added[i].locked[c] = nodes[i].locked[c] + node.locked[c]
        <5>1. FieldsFit(Combined(nodes[i], node))
          BY <1>8, <2>1, <4>1
        <5> QED
          BY <1>1, <1>7, <4>1, <5>1, CombinedExact
      <4>3. /\ nodes[i].unlocked[c] = U(e, k, c) /\ nodes[i].locked[c] = L(e, k, c)
            /\ added[i].claimant = k
        BY <1>5, <2>2, <3>2
      <4>4. /\ U(more, k, c) = U(e, k, c) + node.unlocked[c]
            /\ L(more, k, c) = L(e, k, c) + node.locked[c]
        BY <1>3
      <4> QED
        BY <4>2, <4>3, <4>4
    <3> QED
      BY <3>1, <3>2
  <2>4. DOMAIN added = DOMAIN nodes
    BY <2>1
  <2> HIDE DEF added
  <2> QED
    BY <1>6, <1>10, <2>2, <2>3, <2>4
<1>11. CASE ~\E i \in DOMAIN nodes : nodes[i].claimant = k
  <2>1. added = Append(nodes, node)
    BY <1>1, <1>11 DEF AddNode
  <2> DEFINE last == Len(nodes) + 1
  <2>2. /\ DOMAIN added = DOMAIN nodes \cup {last} /\ last \notin DOMAIN nodes
        /\ added[last] = node
        /\ \A i \in DOMAIN nodes : added[i] = nodes[i]
    BY <2>1
  <2>3. \A c \in AirdropCategory : U(e, k, c) = 0 /\ L(e, k, c) = 0
    <3>1. \A c : RowsOfCategory(e, k, c) = {}
      <4>1. k \notin {e[r].claimant : r \in DOMAIN e}
        BY <1>6, <1>11
      <4>2. \A r \in DOMAIN e : e[r].claimant # k
        BY <4>1
      <4> QED
        BY <4>2 DEF RowsOfCategory
    <3>2. UnlockedIn(e, {}) = 0 /\ LockedIn(e, {}) = 0
      BY SumOfNothing DEF UnlockedIn, LockedIn, Total
    <3>3. 0 * TokenUnit = 0
      BY LimitsType
    <3> QED
      BY <3>1, <3>2, <3>3 DEF U, L
  <2> HIDE DEF added, last
  <2>4. \A c \in AirdropCategory :
          U(more, k, c) = node.unlocked[c] /\ L(more, k, c) = node.locked[c]
    BY <1>1, <1>3, <2>3
  <2>5. ASSUME NEW i \in DOMAIN added, NEW c \in AirdropCategory
        PROVE  /\ added[i].unlocked[c] = U(more, added[i].claimant, c)
               /\ added[i].locked[c] = L(more, added[i].claimant, c)
    <3>1. CASE i = last
      BY <1>1, <2>2, <2>4, <3>1
    <3>2. CASE i \in DOMAIN nodes
      BY <1>4, <1>5, <1>11, <2>2, <3>2
    <3> QED
      BY <2>2, <3>1, <3>2
  <2>6. \A i, j \in DOMAIN added : added[i].claimant = added[j].claimant => i = j
    BY <1>1, <1>6, <1>11, <2>2
  <2>7. {added[i].claimant : i \in DOMAIN added}
          = {nodes[i].claimant : i \in DOMAIN nodes} \cup {k}
    BY <1>1, <2>2
  <2> QED
    BY <2>5, <2>6, <2>7
<1> QED
  BY <1>10, <1>11

(* The nodes hold as much as the rows. *)
PlainSum(amounts) == amounts["Searcher"] + amounts["Validator"] + amounts["Staker"]

PlainTotal(node) == PlainSum(node.unlocked) + PlainSum(node.locked)

NodesTotal(nodes) ==
  Total([i \in DOMAIN nodes |-> PlainTotal(nodes[i])], DOMAIN nodes)

RowsTotal(e) == UnlockedIn(e, DOMAIN e) * TokenUnit + LockedIn(e, DOMAIN e) * TokenUnit

LEMMA PlainSums ==
  ASSUME NEW f \in [AirdropCategory -> Nat], NEW g \in [AirdropCategory -> Nat]
  PROVE  /\ PlainSum(f) \in Nat
         /\ \A h : (\A c \in AirdropCategory : h[c] = f[c] + g[c])
                    => PlainSum(h) = PlainSum(f) + PlainSum(g)
<1>1. /\ f["Searcher"] \in Nat /\ f["Validator"] \in Nat /\ f["Staker"] \in Nat
      /\ g["Searcher"] \in Nat /\ g["Validator"] \in Nat /\ g["Staker"] \in Nat
  BY DEF AirdropCategory
<1>2. ASSUME NEW h, \A c \in AirdropCategory : h[c] = f[c] + g[c]
      PROVE  PlainSum(h) = PlainSum(f) + PlainSum(g)
  <2>1. /\ h["Searcher"] = f["Searcher"] + g["Searcher"]
        /\ h["Validator"] = f["Validator"] + g["Validator"]
        /\ h["Staker"] = f["Staker"] + g["Staker"]
    BY <1>2 DEF AirdropCategory
  <2> QED
    BY <1>1, <2>1 DEF PlainSum
<1> QED
  BY <1>1, <1>2 DEF PlainSum

LEMMA PlainTotalType == ASSUME NEW node \in TreeNode PROVE PlainTotal(node) \in Nat
<1>1. /\ node.unlocked \in [AirdropCategory -> Nat]
      /\ node.locked \in [AirdropCategory -> Nat]
  BY DEF TreeNode
<1>2. PlainSum(node.unlocked) \in Nat /\ PlainSum(node.locked) \in Nat
  BY <1>1, PlainSums
<1> QED
  BY <1>2 DEF PlainTotal

LEMMA NodeTotal ==
  ASSUME NEW entry \in CsvEntries, FieldsFit(NodeOf(entry))
  PROVE  PlainTotal(NodeOf(entry))
           = entry.amount_unlocked * TokenUnit + entry.amount_locked * TokenUnit
<1> DEFINE node == NodeOf(entry)
           u == entry.amount_unlocked * TokenUnit
           l == entry.amount_locked * TokenUnit
<1>1. u \in Nat /\ l \in Nat
  BY EntryType, LimitsType
<1>2. entry.category \in {"Staker", "Validator", "Searcher"}
  BY EntryType DEF AirdropCategory
<1>3. \A c \in {"Staker", "Validator", "Searcher"} :
        /\ node.unlocked[c] = IF c = entry.category THEN u ELSE 0
        /\ node.locked[c] = IF c = entry.category THEN l ELSE 0
  BY NodeFields DEF AirdropCategory
<1> HIDE DEF node, u, l
<1>4. PlainSum(node.unlocked) = u /\ PlainSum(node.locked) = l
  <2>1. ASSUME NEW f, NEW v \in Nat,
               \A c \in {"Staker", "Validator", "Searcher"} :
                 f[c] = IF c = entry.category THEN v ELSE 0
        PROVE  PlainSum(f) = v
    <3>1. CASE entry.category = "Staker"
      BY <2>1, <3>1 DEF PlainSum
    <3>2. CASE entry.category = "Validator"
      BY <2>1, <3>2 DEF PlainSum
    <3>3. CASE entry.category = "Searcher"
      BY <2>1, <3>3 DEF PlainSum
    <3> QED
      BY <1>2, <3>1, <3>2, <3>3
  <2> QED
    BY <1>1, <1>3, <2>1
<1> QED
  BY <1>4 DEF PlainTotal, node, u, l

EntryTotal(entry) == entry.amount_unlocked * TokenUnit + entry.amount_locked * TokenUnit

LEMMA RowsTotalAdds ==
  ASSUME NEW e \in Seq(CsvEntries), NEW entry \in CsvEntries
  PROVE  /\ RowsTotal(e) \in Nat /\ EntryTotal(entry) \in Nat
         /\ RowsTotal(Append(e, entry)) = RowsTotal(e) + EntryTotal(entry)
<1> DEFINE more == Append(e, entry)
           last == Len(e) + 1
           S == DOMAIN e
           U == UnlockedIn(e, S)
           L == LockedIn(e, S)
<1>1. DOMAIN more = S \cup {last}
  OBVIOUS
<1>2. U \in Nat /\ L \in Nat
  BY SumOfRowsType
<1>3. /\ entry.amount_unlocked \in Nat /\ entry.amount_locked \in Nat /\ TokenUnit \in Nat
  BY EntryType, LimitsType
<1>4. /\ UnlockedIn(more, S \cup {last}) = U + entry.amount_unlocked
      /\ LockedIn(more, S \cup {last}) = L + entry.amount_locked
  BY RowAdded
<1>5. /\ (U + entry.amount_unlocked) * TokenUnit
           = U * TokenUnit + entry.amount_unlocked * TokenUnit
      /\ (L + entry.amount_locked) * TokenUnit
           = L * TokenUnit + entry.amount_locked * TokenUnit
  <2> HIDE DEF U, L
  <2> QED
    BY <1>2, <1>3, UnitDistributes
<1>6. /\ U * TokenUnit \in Nat /\ L * TokenUnit \in Nat
      /\ entry.amount_unlocked * TokenUnit \in Nat
      /\ entry.amount_locked * TokenUnit \in Nat
  <2> HIDE DEF U, L
  <2> QED
    BY <1>2, <1>3
<1>7. EntryTotal(entry)
        = entry.amount_unlocked * TokenUnit + entry.amount_locked * TokenUnit
  BY DEF EntryTotal
<1>8. RowsTotal(e) = U * TokenUnit + L * TokenUnit
  BY DEF RowsTotal
<1>9. RowsTotal(more)
        = (U + entry.amount_unlocked) * TokenUnit + (L + entry.amount_locked) * TokenUnit
  BY <1>1, <1>4, Zenon DEF RowsTotal
<1> HIDE DEF more, U, L
<1>10. RowsTotal(more) = RowsTotal(e) + EntryTotal(entry)
  BY <1>5, <1>6, <1>7, <1>8, <1>9
<1> QED
  BY <1>6, <1>7, <1>8, <1>10 DEF more

LEMMA RowsTotalGrows ==
  ASSUME NEW e \in Seq(CsvEntries), NEW entry \in CsvEntries,
         FieldsFit(NodeOf(entry))
  PROVE  /\ RowsTotal(e) \in Nat
         /\ RowsTotal(Append(e, entry)) = RowsTotal(e) + PlainTotal(NodeOf(entry))
BY RowsTotalAdds, NodeTotal DEF EntryTotal

LEMMA TotalsStep ==
  ASSUME NEW nodes \in Seq(TreeNode), NEW e \in Seq(CsvEntries), Combines(nodes, e),
         NodesTotal(nodes) = RowsTotal(e),
         NEW entry \in CsvEntries, FieldsFit(NodeOf(entry)),
         LET added == AddNode(nodes, NodeOf(entry))
         IN  \A i \in DOMAIN added : FieldsFit(added[i])
  PROVE  NodesTotal(AddNode(nodes, NodeOf(entry)))
           = RowsTotal(Append(e, entry))
<1> DEFINE node == NodeOf(entry)
           added == AddNode(nodes, node)
           S == DOMAIN nodes
           g == [i \in S |-> PlainTotal(nodes[i])]
           h == [i \in DOMAIN added |-> PlainTotal(added[i])]
           amount == PlainTotal(node)
<1>1. node \in TreeNode /\ amount \in Nat
  BY NodeType, PlainTotalType
<1>2. \A i \in S : nodes[i] \in TreeNode /\ g[i] = PlainTotal(nodes[i]) /\ g[i] \in Nat
  BY PlainTotalType
<1>3. IsFiniteSet(S)
  <2>1. S = 1 .. Len(nodes) /\ Len(nodes) \in Nat
    OBVIOUS
  <2> QED
    BY <2>1, FS_Interval
<1>4. \A i \in DOMAIN added : FieldsFit(added[i])
  OBVIOUS
<1>5. \A i, j \in S : nodes[i].claimant = nodes[j].claimant => i = j
  BY DEF Combines
<1>6. RowsTotal(Append(e, entry)) = Total(g, S) + amount
  BY RowsTotalGrows DEF NodesTotal
<1>7. SUFFICES Total(h, DOMAIN added) = Total(g, S) + amount
  BY <1>6 DEF NodesTotal
<1>8. CASE \E i \in S : nodes[i].claimant = node.claimant
  <2>1. PICK x \in S : nodes[x].claimant = node.claimant
    BY <1>8
  <2>2. added = [i \in S |-> IF nodes[i].claimant = node.claimant
                             THEN Combined(nodes[i], node) ELSE nodes[i]]
    BY <1>8 DEF AddNode
  <2>3. /\ DOMAIN added = S
        /\ added[x] = Combined(nodes[x], node)
        /\ \A i \in S \ {x} : added[i] = nodes[i]
    BY <1>5, <2>1, <2>2
  <2>4. PlainTotal(Combined(nodes[x], node)) = PlainTotal(nodes[x]) + amount
    <3> DEFINE sum == Combined(nodes[x], node)
    <3>1. \A c \in AirdropCategory :
            /\ sum.unlocked[c] = nodes[x].unlocked[c] + node.unlocked[c]
            /\ sum.locked[c] = nodes[x].locked[c] + node.locked[c]
      BY <1>1, <1>2, <1>4, <2>3, CombinedExact
    <3>2. /\ nodes[x].unlocked \in [AirdropCategory -> Nat]
          /\ nodes[x].locked \in [AirdropCategory -> Nat]
          /\ node.unlocked \in [AirdropCategory -> Nat]
          /\ node.locked \in [AirdropCategory -> Nat]
      BY <1>1, <1>2 DEF TreeNode
    <3> HIDE DEF sum, node, S, g, h, added
    <3>3. /\ PlainSum(sum.unlocked) = PlainSum(nodes[x].unlocked) + PlainSum(node.unlocked)
          /\ PlainSum(sum.locked) = PlainSum(nodes[x].locked) + PlainSum(node.locked)
          /\ PlainSum(nodes[x].unlocked) \in Nat /\ PlainSum(nodes[x].locked) \in Nat
          /\ PlainSum(node.unlocked) \in Nat /\ PlainSum(node.locked) \in Nat
      BY <3>1, <3>2, PlainSums
    <3>4. PlainTotal(sum) = PlainTotal(nodes[x]) + PlainTotal(node)
      BY <3>3 DEF PlainTotal
    <3> QED
      BY <3>4 DEF sum
  <2>5. /\ h[x] = g[x] + amount
        /\ \A i \in S \ {x} : h[i] = g[i]
    BY <1>2, <2>3, <2>4
  <2> HIDE DEF g, h, amount, added, S
  <2>6. Total(h, S) = Total(g, S) + amount
    BY <1>1, <1>2, <1>3, <2>1, <2>5, SumGrow
  <2> QED
    BY <2>3, <2>6
<1>9. CASE ~\E i \in S : nodes[i].claimant = node.claimant
  <2> DEFINE last == Len(nodes) + 1
  <2>1. added = Append(nodes, node)
    BY <1>9 DEF AddNode
  <2>2. /\ DOMAIN added = S \cup {last} /\ last \notin S
        /\ added[last] = node
        /\ \A i \in S : added[i] = nodes[i]
    BY <2>1
  <2>3. h[last] = amount /\ \A i \in S : h[i] = g[i]
    BY <2>2
  <2> HIDE DEF g, h, amount, added, S, last
  <2>4. Total(h, S \cup {last}) = Total(g, S) + h[last]
    BY <1>1, <1>2, <1>3, <2>2, <2>3, SumAdd
  <2> QED
    BY <2>2, <2>3, <2>4
<1> QED
  BY <1>8, <1>9

(* The builder, step by step.                                               *)
RowsInv ==
  /\ tree_nodes \in Seq(TreeNode)
  /\ status # "panic" => /\ csv_entries \in Seq(CsvEntries)
                         /\ NodesTotal(tree_nodes) = RowsTotal(csv_entries)
  /\ RowsCombined
  /\ status = "built" =>
       Valid(tree_nodes, max_num_nodes, max_total_claim)

LEMMA RowsStep == ASSUME RowsInv, Next PROVE RowsInv'
<1>1. ASSUME NEW entry \in CsvEntries, AddEntry(entry) PROVE RowsInv'
  <2> DEFINE node == NodeOf(entry)
             added == AddNode(tree_nodes, node)
  <2>1. /\ tree_nodes \in Seq(TreeNode) /\ csv_entries \in Seq(CsvEntries)
        /\ Combines(tree_nodes, csv_entries)
        /\ NodesTotal(tree_nodes) = RowsTotal(csv_entries)
        /\ status' # "built"
    BY <1>1, RowsAreCombined DEF RowsInv, AddEntry
  <2>2. tree_nodes' = added /\ csv_entries' = Append(csv_entries, entry)
    BY <1>1 DEF AddEntry
  <2>3. added \in Seq(TreeNode)
    BY <2>1, NodeType, AddNodeType
  <2>4. ASSUME status' # "panic"
        PROVE  /\ Combines(added, Append(csv_entries, entry))
               /\ NodesTotal(added) = RowsTotal(Append(csv_entries, entry))
    <3>1. /\ FieldsFit(node)
          /\ \A i \in DOMAIN added : FieldsFit(added[i])
      BY <1>1, <2>4 DEF AddEntry
    <3> QED
      BY <2>1, <3>1, CombinesStep, TotalsStep
  <2>5. Append(csv_entries, entry) \in Seq(CsvEntries)
    BY <2>1
  <2>6. RowsCombined' <=> (status' # "panic" => Combines(tree_nodes', csv_entries'))
    BY RowsAreCombinedNext
  <2>7. status' # "panic" =>
          /\ csv_entries' \in Seq(CsvEntries)
          /\ NodesTotal(tree_nodes)' = RowsTotal(csv_entries)'
          /\ Combines(tree_nodes', csv_entries')
    <3> HIDE DEF added
    <3>1. NodesTotal(tree_nodes)' = NodesTotal(added)
      BY <2>2 DEF NodesTotal
    <3>2. RowsTotal(csv_entries)' = RowsTotal(Append(csv_entries, entry))
      BY <2>2 DEF RowsTotal, UnlockedIn, LockedIn
    <3> QED
      BY <2>2, <2>4, <2>5, <3>1, <3>2
  <2> HIDE DEF added
  <2> QED
    BY <2>1, <2>2, <2>3, <2>6, <2>7 DEF RowsInv
<1>2. CASE AddUnreadable
  BY <1>2 DEF RowsInv, AddUnreadable, RowsCombined
<1>3. CASE OpenFails \/ Finish
  <2>1. /\ tree_nodes' = tree_nodes /\ csv_entries' = csv_entries
        /\ status = "building"
    BY <1>3 DEF OpenFails, Finish
  <2>2. /\ Combines(tree_nodes', csv_entries')
        /\ NodesTotal(tree_nodes)' = RowsTotal(csv_entries)'
    BY <2>1, RowsAreCombined DEF RowsInv, NodesTotal, RowsTotal, UnlockedIn, LockedIn
  <2>3. status' = "built" =>
          Valid(tree_nodes', max_num_nodes', max_total_claim')
    BY <1>3 DEF OpenFails, Finish
  <2>4. (status = "built" => Valid(tree_nodes, max_num_nodes, max_total_claim))'
    BY <2>3 DEF Valid
  <2> QED
    BY <2>1, <2>2, <2>4, RowsAreCombinedNext DEF RowsInv
<1> QED
  BY <1>1, <1>2, <1>3 DEF Next

(* A leaf of the tree: the categories of a node, added.                     *)
LEMMA NotCappedSum ==
  ASSUME NEW a \in Nat, NEW b \in Nat, NEW c \in Nat,
         CheckedAdd(CheckedAdd(a, b), c) \in U64
  PROVE  CheckedAdd(CheckedAdd(a, b), c) = a + b + c
<1> DEFINE inner == CheckedAdd(a, b)
<1>1. a + b \in Nat /\ Overflow \in Nat
  BY LimitsType DEF Overflow
<1>2. inner \in {a + b, Overflow}
  <2>1. \E x \in {a + b, Overflow} : \A y \in {a + b, Overflow} : x <= y
    BY <1>1
  <2> HIDE DEF Overflow
  <2> QED
    BY <2>1, Zenon DEF Min, CheckedAdd
<1>3. inner \in Nat /\ inner + c \in Nat
  BY <1>1, <1>2
<1>4. CheckedAdd(inner, c) = inner + c
  BY <1>3, NotCapped DEF CheckedAdd
<1> HIDE DEF inner
<1>5. inner + c \in U64
  BY <1>4 DEF inner
<1>6. inner # Overflow
  BY <1>3, <1>5, EntriesAssumption DEF Overflow, U64
<1>7. inner + c = a + b + c
  BY <1>1, <1>2, <1>6
<1> QED
  BY <1>4, <1>7 DEF inner

LEMMA CategoriesAdded ==
  ASSUME NEW amounts \in [AirdropCategory -> Nat],
         SumOfCategories(amounts) \in U64
  PROVE  SumOfCategories(amounts)
           = amounts["Searcher"] + amounts["Validator"] + amounts["Staker"]
<1>1. /\ amounts["Searcher"] \in Nat /\ amounts["Validator"] \in Nat
      /\ amounts["Staker"] \in Nat
  BY DEF AirdropCategory
<1> QED
  BY <1>1, NotCappedSum DEF SumOfCategories

RowsOfClaimant(e, k) == {r \in DOMAIN e : e[r].claimant = k}

(* The rows of a claimant are those of the three categories.                *)
LEMMA ClaimantSum ==
  ASSUME NEW e \in Seq(CsvEntries), NEW k
  PROVE  /\ UnlockedIn(e, RowsOfClaimant(e, k))
              = UnlockedIn(e, RowsOfCategory(e, k, "Searcher"))
                  + UnlockedIn(e, RowsOfCategory(e, k, "Validator"))
                  + UnlockedIn(e, RowsOfCategory(e, k, "Staker"))
         /\ LockedIn(e, RowsOfClaimant(e, k))
              = LockedIn(e, RowsOfCategory(e, k, "Searcher"))
                  + LockedIn(e, RowsOfCategory(e, k, "Validator"))
                  + LockedIn(e, RowsOfCategory(e, k, "Staker"))
<1> DEFINE A == RowsOfCategory(e, k, "Searcher")
           B == RowsOfCategory(e, k, "Validator")
           C == RowsOfCategory(e, k, "Staker")
           all == RowsOfClaimant(e, k)
<1>1. \A r \in DOMAIN e : e[r].category \in {"Staker", "Validator", "Searcher"}
  BY EntryType DEF AirdropCategory
<1>2. /\ all = (A \cup B) \cup C
      /\ A \cap B = {} /\ (A \cup B) \cap C = {}
  BY <1>1 DEF RowsOfClaimant, RowsOfCategory
<1>3. all \in SUBSET DOMAIN e
  BY DEF RowsOfClaimant
<1>4. IsFiniteSet(all) /\ IsFiniteSet(A) /\ IsFiniteSet(B) /\ IsFiniteSet(C)
  BY <1>2, <1>3, SumOfRowsType, FS_Subset
<1>5. \A r \in all : e[r].amount_unlocked \in Nat /\ e[r].amount_locked \in Nat
  BY <1>3, EntryType
<1> HIDE DEF A, B, C, all
<1>6. ASSUME NEW g, \A r \in all : g[r] \in Nat
      PROVE  Total(g, all) = Total(g, A) + Total(g, B) + Total(g, C)
  <2>1. IsFiniteSet(A \cup B)
    BY <1>4, FS_Union
  <2>2. Total(g, (A \cup B) \cup C) = Total(g, A \cup B) + Total(g, C)
    BY <1>2, <1>4, <1>6, <2>1, SumDisjoint
  <2>3. Total(g, A \cup B) = Total(g, A) + Total(g, B)
    BY <1>2, <1>4, <1>6, SumDisjoint
  <2> QED
    BY <1>2, <2>2, <2>3
<1>7. ASSUME NEW S \in SUBSET all, IsFiniteSet(S)
      PROVE  /\ Total([r \in all |-> e[r].amount_unlocked], S) = UnlockedIn(e, S)
             /\ Total([r \in all |-> e[r].amount_locked], S) = LockedIn(e, S)
  BY <1>7, SumCongruent DEF UnlockedIn, LockedIn, Total
<1>8. A \in SUBSET all /\ B \in SUBSET all /\ C \in SUBSET all /\ all \in SUBSET all
  BY <1>2
<1>9. UnlockedIn(e, all) = UnlockedIn(e, A) + UnlockedIn(e, B) + UnlockedIn(e, C)
  <2> DEFINE g == [r \in all |-> e[r].amount_unlocked]
  <2>1. \A r \in all : g[r] \in Nat
    BY <1>5
  <2>2. \A S \in SUBSET all : IsFiniteSet(S) => Total(g, S) = UnlockedIn(e, S)
    BY <1>7
  <2> HIDE DEF g
  <2>3. Total(g, all) = Total(g, A) + Total(g, B) + Total(g, C)
    BY <1>6, <2>1
  <2> QED
    BY <1>4, <1>8, <2>2, <2>3
<1>10. LockedIn(e, all) = LockedIn(e, A) + LockedIn(e, B) + LockedIn(e, C)
  <2> DEFINE g == [r \in all |-> e[r].amount_locked]
  <2>1. \A r \in all : g[r] \in Nat
    BY <1>5
  <2>2. \A S \in SUBSET all : IsFiniteSet(S) => Total(g, S) = LockedIn(e, S)
    BY <1>7
  <2> HIDE DEF g
  <2>3. Total(g, all) = Total(g, A) + Total(g, B) + Total(g, C)
    BY <1>6, <2>1
  <2> QED
    BY <1>4, <1>8, <2>2, <2>3
<1> QED
  BY <1>9, <1>10 DEF A, B, C, all

(* What the tree says of a claimant is what its rows say.                   *)
LEMMA LeafOfRows ==
  ASSUME NEW nodes \in Seq(TreeNode), NEW e \in Seq(CsvEntries), Combines(nodes, e),
         NEW i \in DOMAIN nodes,
         AmountUnlocked(nodes[i]) \in U64,
         AmountLocked(nodes[i]) \in U64
  PROVE  LET rows == RowsOfClaimant(e, nodes[i].claimant)
         IN  /\ AmountUnlocked(nodes[i]) = UnlockedIn(e, rows) * TokenUnit
             /\ AmountLocked(nodes[i]) = LockedIn(e, rows) * TokenUnit
<1> DEFINE k == nodes[i].claimant
           U(c) == UnlockedIn(e, RowsOfCategory(e, k, c))
           L(c) == LockedIn(e, RowsOfCategory(e, k, c))
<1>1. \A c \in AirdropCategory :
        /\ U(c) \in Nat /\ L(c) \in Nat
        /\ nodes[i].unlocked[c] = U(c) * TokenUnit
        /\ nodes[i].locked[c] = L(c) * TokenUnit
        /\ nodes[i].unlocked[c] \in Nat /\ nodes[i].locked[c] \in Nat
  <2>1. nodes[i] \in TreeNode
    OBVIOUS
  <2>2. \A c : RowsOfCategory(e, k, c) \in SUBSET DOMAIN e
    BY DEF RowsOfCategory
  <2> QED
    BY <2>1, <2>2, SumOfRowsType DEF Combines, TreeNode
<1>2. /\ "Searcher" \in AirdropCategory /\ "Validator" \in AirdropCategory
      /\ "Staker" \in AirdropCategory
  BY DEF AirdropCategory
<1>3. \A a, b, c \in Nat :
        a * TokenUnit + b * TokenUnit + c * TokenUnit = (a + b + c) * TokenUnit
  BY LimitsType
<1>4. /\ UnlockedIn(e, RowsOfClaimant(e, k)) = U("Searcher") + U("Validator") + U("Staker")
      /\ LockedIn(e, RowsOfClaimant(e, k)) = L("Searcher") + L("Validator") + L("Staker")
  BY ClaimantSum
<1>5. /\ nodes[i].unlocked \in [AirdropCategory -> Nat]
      /\ nodes[i].locked \in [AirdropCategory -> Nat]
  <2>1. nodes[i] \in TreeNode
    OBVIOUS
  <2> QED
    BY <2>1 DEF TreeNode
<1>6. AmountUnlocked(nodes[i])
        = nodes[i].unlocked["Searcher"] + nodes[i].unlocked["Validator"]
            + nodes[i].unlocked["Staker"]
  BY <1>5, CategoriesAdded DEF AmountUnlocked
<1>7. AmountLocked(nodes[i])
        = nodes[i].locked["Searcher"] + nodes[i].locked["Validator"]
            + nodes[i].locked["Staker"]
  BY <1>5, CategoriesAdded DEF AmountLocked
<1> HIDE DEF U, L, k
<1>8. AmountUnlocked(nodes[i]) = UnlockedIn(e, RowsOfClaimant(e, k)) * TokenUnit
  <2>1. AmountUnlocked(nodes[i])
          = U("Searcher") * TokenUnit + U("Validator") * TokenUnit + U("Staker") * TokenUnit
    BY <1>1, <1>2, <1>6
  <2>2. U("Searcher") \in Nat /\ U("Validator") \in Nat /\ U("Staker") \in Nat
    BY <1>1, <1>2
  <2>3. U("Searcher") * TokenUnit + U("Validator") * TokenUnit + U("Staker") * TokenUnit
          = (U("Searcher") + U("Validator") + U("Staker")) * TokenUnit
    BY <1>3, <2>2, Zenon
  <2> QED
    BY <1>4, <2>1, <2>3, Zenon
<1>9. AmountLocked(nodes[i]) = LockedIn(e, RowsOfClaimant(e, k)) * TokenUnit
  <2>1. AmountLocked(nodes[i])
          = L("Searcher") * TokenUnit + L("Validator") * TokenUnit + L("Staker") * TokenUnit
    BY <1>1, <1>2, <1>7
  <2>2. L("Searcher") \in Nat /\ L("Validator") \in Nat /\ L("Staker") \in Nat
    BY <1>1, <1>2
  <2>3. L("Searcher") * TokenUnit + L("Validator") * TokenUnit + L("Staker") * TokenUnit
          = (L("Searcher") + L("Validator") + L("Staker")) * TokenUnit
    BY <1>3, <2>2, Zenon
  <2> QED
    BY <1>4, <2>1, <2>3, Zenon
<1> QED
  BY <1>8, <1>9 DEF k

-----------------------------------------------------------------------------
(* The grand total *)

(* The recursive function inside GetMaxTotalClaim(nodes). *)
ClaimRec(nodes) ==
  CHOOSE it : it = [s \in SUBSET DOMAIN nodes |->
    IF s = {} THEN 0
    ELSE CheckedAdd(it[s \ {LastOf(s)}], TotalAmount(nodes[LastOf(s)]))]

LEMMA ClaimIsRec ==
  ASSUME NEW nodes
  PROVE  GetMaxTotalClaim(nodes) = ClaimRec(nodes)[DOMAIN nodes]
BY DEF GetMaxTotalClaim, FoldLeft, MapThenFoldSet, ClaimRec, LastOf

(* As for SumRec: it is extended from the sets of n indices to those of     *)
(* n + 1.                                                                   *)
LEMMA ClaimRecDefined ==
  ASSUME NEW nodes \in Seq(TreeNode)
  PROVE  \A s \in SUBSET DOMAIN nodes :
           ClaimRec(nodes)[s] =
             IF s = {} THEN 0
             ELSE CheckedAdd(ClaimRec(nodes)[s \ {LastOf(s)}],
                                     TotalAmount(nodes[LastOf(s)]))
<1> DEFINE S == DOMAIN nodes
           Body(h, s) == IF s = {} THEN 0
                         ELSE CheckedAdd(h[s \ {LastOf(s)}],
                                                 TotalAmount(nodes[LastOf(s)]))
           Upto(h, n) == \A s \in SUBSET S : Cardinality(s) <= n => h[s] = Body(h, s)
           T == {n \in Nat : \E h : Upto(h, n)}
<1>1. S = 1 .. Len(nodes) /\ Len(nodes) \in Nat
  OBVIOUS
<1>2. IsFiniteSet(S)
  BY <1>1, FS_Interval
<1>3. \A s \in SUBSET S : s # {} => LastOf(s) \in s
  BY <1>1, LastIn
<1> HIDE DEF S
<1>4. 0 \in T
  <2> DEFINE h0 == [s \in SUBSET S |-> 0]
  <2>1. \A s \in SUBSET S : Cardinality(s) <= 0 => s = {}
    BY <1>2, SubsetCardinality
  <2>2. Upto(h0, 0)
    BY <2>1
  <2> HIDE DEF h0, Upto
  <2> QED
    BY <2>2
<1>5. ASSUME NEW n \in Nat, n \in T PROVE n + 1 \in T
  <2>1. PICK h : Upto(h, n)
    BY <1>5
  <2> DEFINE h1 == [s \in SUBSET S |-> IF Cardinality(s) <= n THEN h[s] ELSE Body(h, s)]
  <2>2. ASSUME NEW s \in SUBSET S, Cardinality(s) <= n + 1
        PROVE  h1[s] = Body(h1, s)
    <3>1. CASE s = {}
      BY <2>1, <3>1
    <3>2. CASE s # {}
      <4>1. LastOf(s) \in s
        BY <1>3, <3>2
      <4>2. Cardinality(s \ {LastOf(s)}) <= n /\ s \ {LastOf(s)} \in SUBSET S
        BY <1>2, <2>2, <4>1, SubsetCardinality
      <4>3. h1[s \ {LastOf(s)}] = h[s \ {LastOf(s)}]
        BY <4>2
      <4>4. h1[s] = Body(h, s)
        BY <2>1
      <4> QED
        BY <4>3, <4>4
    <3> QED
      BY <3>1, <3>2
  <2>3. Upto(h1, n + 1)
    BY <2>2
  <2> HIDE DEF h1, Upto
  <2> QED
    BY <2>3
<1>6. Nat \subseteq T
  <2> HIDE DEF T
  <2> QED
    BY <1>4, <1>5, NatSetInduction
<1>7. PICK h : Upto(h, Cardinality(S))
  BY <1>2, <1>6, FS_CardinalityType
<1> DEFINE f == [s \in SUBSET S |-> h[s]]
<1>8. f = [s \in SUBSET S |-> Body(f, s)]
  <2>1. ASSUME NEW s \in SUBSET S PROVE f[s] = Body(f, s)
    <3>1. s \ {LastOf(s)} \in SUBSET S
      OBVIOUS
    <3>2. f[s \ {LastOf(s)}] = h[s \ {LastOf(s)}]
      BY <3>1
    <3>3. h[s] = Body(h, s)
      BY <1>2, <1>7, SubsetCardinality
    <3> QED
      BY <3>2, <3>3
  <2> QED
    BY <2>1
<1>9. ClaimRec(nodes) = [s \in SUBSET S |-> Body(ClaimRec(nodes), s)]
  <2> HIDE DEF f
  <2> QED
    BY <1>8 DEF ClaimRec, S
<1> QED
  BY <1>9 DEF S

LEMMA TotalAmountType ==
  ASSUME NEW node \in TreeNode
  PROVE  TotalAmount(node) \in Nat
<1>1. ASSUME NEW a \in Nat, NEW b \in Nat PROVE CheckedAdd(a, b) \in Nat
  <2>1. a + b \in Nat
    OBVIOUS
  <2> QED
    BY <2>1, CappedSum DEF CheckedAdd
<1>2. ASSUME NEW amounts \in [AirdropCategory -> Nat]
      PROVE  SumOfCategories(amounts) \in Nat
  <2>1. /\ amounts["Searcher"] \in Nat /\ amounts["Validator"] \in Nat
        /\ amounts["Staker"] \in Nat
    BY DEF AirdropCategory
  <2> QED
    BY <1>1, <2>1 DEF SumOfCategories
<1>3. /\ node.unlocked \in [AirdropCategory -> Nat]
      /\ node.locked \in [AirdropCategory -> Nat]
  BY DEF TreeNode
<1> QED
  BY <1>1, <1>2, <1>3
  DEF TotalAmount, AmountUnlocked, AmountLocked

(* A checked sum that fits is the sum of its terms, every one of which fits.*)
LEMMA CheckedTotal ==
  ASSUME NEW nodes \in Seq(TreeNode), GetMaxTotalClaim(nodes) \in U64
  PROVE  LET amounts == [i \in DOMAIN nodes |-> TotalAmount(nodes[i])]
         IN  /\ GetMaxTotalClaim(nodes) = Total(amounts, DOMAIN nodes)
             /\ \A i \in DOMAIN nodes : amounts[i] \in U64
<1> DEFINE S == DOMAIN nodes
           a == [i \in S |-> TotalAmount(nodes[i])]
           it == ClaimRec(nodes)
           Exact(s) == /\ it[s] \in Nat
                       /\ it[s] \in U64 =>
                            it[s] = Total(a, s) /\ \A i \in s : a[i] \in U64
           T == {n \in Nat : \A s \in SUBSET S : Cardinality(s) = n => Exact(s)}
<1>1. S = 1 .. Len(nodes) /\ Len(nodes) \in Nat
  OBVIOUS
<1>2. IsFiniteSet(S)
  BY <1>1, FS_Interval
<1>3. \A i \in S : a[i] \in Nat
  <2>1. \A i \in S : nodes[i] \in TreeNode
    OBVIOUS
  <2> QED
    BY <2>1, TotalAmountType
<1>4. \A s \in SUBSET S : s # {} => LastOf(s) \in s
  BY <1>1, LastIn
<1>5. \A s \in SUBSET S :
        it[s] = IF s = {} THEN 0
                ELSE CheckedAdd(it[s \ {LastOf(s)}], a[LastOf(s)])
  BY <1>4, ClaimRecDefined
<1> HIDE DEF S, a, it
<1>6. 0 \in T
  <2>1. \A s \in SUBSET S : Cardinality(s) = 0 => s = {}
    BY <1>2, SubsetCardinality
  <2>2. it[{}] = 0 /\ Total(a, {}) = 0
    BY <1>5, SumOfNothing DEF Total
  <2>3. Exact({})
    BY <2>2
  <2> HIDE DEF Exact
  <2> QED
    BY <2>1, <2>3
<1>7. ASSUME NEW n \in Nat, n \in T PROVE n + 1 \in T
  <2>1. ASSUME NEW s \in SUBSET S, Cardinality(s) = n + 1 PROVE Exact(s)
    <3> DEFINE m == LastOf(s)
               rest == s \ {m}
    <3>1. s # {}
      BY <1>2, <2>1, SubsetCardinality
    <3>2. m \in s
      BY <1>4, <3>1
    <3>3. rest \in SUBSET S /\ Cardinality(rest) = n
      BY <1>2, <2>1, <3>2, SubsetCardinality
    <3>4. Exact(rest)
      <4> HIDE DEF Exact
      <4> QED
        BY <1>7, <3>3
    <3>5. it[s] = CheckedAdd(it[rest], a[m])
      BY <1>5, <3>1
    <3>6. a[m] \in Nat /\ it[rest] \in Nat
      BY <1>3, <3>2, <3>4
    <3>7. Total(a, s) = a[m] + Total(a, rest)
      <4>1. IsFiniteSet(s) /\ \A i \in s : a[i] \in Nat
        BY <1>2, <1>3, FS_Subset
      <4> QED
        BY <3>2, <4>1, SumRemove DEF Total
    <3>8. \A i \in s : i = m \/ i \in rest
      OBVIOUS
    <3> HIDE DEF m, rest
    <3>9. it[s] \in Nat
      <4>1. it[rest] + a[m] \in Nat
        BY <3>6
      <4> QED
        BY <3>5, <4>1, CappedSum DEF CheckedAdd
    <3>10. ASSUME it[s] \in U64
           PROVE  it[s] = Total(a, s) /\ \A i \in s : a[i] \in U64
      <4>1. it[rest] + a[m] \in Nat
        BY <3>6
      <4>2. it[s] = it[rest] + a[m]
        BY <3>5, <3>10, <4>1, NotCapped DEF CheckedAdd
      <4>3. it[rest] \in U64 /\ a[m] \in U64
        BY <3>6, <3>10, <4>2, EntriesAssumption DEF U64
      <4>4. it[rest] = Total(a, rest) /\ \A i \in rest : a[i] \in U64
        BY <3>4, <4>3
      <4> QED
        BY <3>6, <3>7, <3>8, <4>2, <4>3, <4>4
    <3> QED
      BY <3>9, <3>10
  <2> HIDE DEF Exact
  <2> QED
    BY <2>1
<1>8. Nat \subseteq T
  <2> HIDE DEF T
  <2> QED
    BY <1>6, <1>7, NatSetInduction
<1>9. Exact(S)
  <2>1. Cardinality(S) \in T /\ S \in SUBSET S
    BY <1>2, <1>8, FS_CardinalityType
  <2> HIDE DEF Exact
  <2> QED
    BY <2>1
<1>10. it[S] = GetMaxTotalClaim(nodes)
  BY ClaimIsRec DEF it, S
<1> QED
  BY <1>9, <1>10 DEF S, a

(* A node whose sums all fit. *)
LEMMA UncappedNode ==
  ASSUME NEW node \in TreeNode,
         AmountUnlocked(node) \in U64,
         AmountLocked(node) \in U64,
         TotalAmount(node) \in U64
  PROVE  TotalAmount(node) = PlainTotal(node)
<1>1. /\ node.unlocked \in [AirdropCategory -> Nat]
      /\ node.locked \in [AirdropCategory -> Nat]
  BY DEF TreeNode
<1>2. /\ AmountUnlocked(node) = PlainSum(node.unlocked)
      /\ AmountLocked(node) = PlainSum(node.locked)
  BY <1>1, CategoriesAdded DEF AmountUnlocked, AmountLocked, PlainSum
<1>3. PlainSum(node.unlocked) \in Nat /\ PlainSum(node.locked) \in Nat
  BY <1>1, PlainSums
<1>4. PlainSum(node.unlocked) + PlainSum(node.locked) \in Nat
  BY <1>3
<1> QED
  BY <1>2, <1>4, NotCapped DEF TotalAmount, CheckedAdd, PlainTotal

-----------------------------------------------------------------------------
(* No sum is refused that fits: a checked result is at most the plain one,  *)
(* so that one above U64Max is of rows that add up to more.                 *)

LEMMA AtMost ==
  ASSUME NEW a \in Nat
  PROVE  Min({a, Overflow}) \in Nat /\ Min({a, Overflow}) <= a
<1>1. Overflow \in Nat
  BY LimitsType DEF Overflow
<1>2. \E x \in {a, Overflow} : \A y \in {a, Overflow} : x <= y
  BY <1>1
<1> HIDE DEF Overflow
<1>3. /\ Min({a, Overflow}) \in {a, Overflow}
      /\ \A y \in {a, Overflow} : Min({a, Overflow}) <= y
  BY <1>2, Zenon DEF Min
<1> QED
  BY <1>1, <1>3

LEMMA SumAtMost ==
  ASSUME NEW a \in Nat, NEW b \in Nat
  PROVE  CheckedAdd(a, b) \in Nat /\ CheckedAdd(a, b) <= a + b
<1>1. a + b \in Nat
  OBVIOUS
<1> QED
  BY <1>1, AtMost DEF CheckedAdd

LEMMA CategoriesAtMost ==
  ASSUME NEW amounts \in [AirdropCategory -> Nat]
  PROVE  /\ PlainSum(amounts) \in Nat
         /\ SumOfCategories(amounts) \in Nat
         /\ SumOfCategories(amounts) <= PlainSum(amounts)
         /\ \A c \in AirdropCategory : amounts[c] <= PlainSum(amounts)
<1> DEFINE a == amounts["Searcher"]
           b == amounts["Validator"]
           d == amounts["Staker"]
<1>1. a \in Nat /\ b \in Nat /\ d \in Nat
  BY DEF AirdropCategory
<1>2. PlainSum(amounts) = a + b + d
  BY DEF PlainSum
<1>3. \A c \in AirdropCategory : amounts[c] = a \/ amounts[c] = b \/ amounts[c] = d
  BY DEF AirdropCategory
<1>4. SumOfCategories(amounts) = CheckedAdd(CheckedAdd(a, b), d)
  BY DEF SumOfCategories
<1> HIDE DEF a, b, d
<1>5. /\ CheckedAdd(a, b) \in Nat /\ CheckedAdd(a, b) <= a + b
      /\ CheckedAdd(CheckedAdd(a, b), d) \in Nat
      /\ CheckedAdd(CheckedAdd(a, b), d) <= CheckedAdd(a, b) + d
  BY <1>1, SumAtMost
<1>6. CheckedAdd(CheckedAdd(a, b), d) <= a + b + d
  BY <1>1, <1>5
<1>7. \A c \in AirdropCategory : amounts[c] <= a + b + d
  BY <1>1, <1>3
<1> QED
  BY <1>1, <1>2, <1>4, <1>5, <1>6, <1>7

(* The fields of a node and its sums. *)
LEMMA NodeAtMost ==
  ASSUME NEW node \in TreeNode
  PROVE  /\ PlainTotal(node) \in Nat
         /\ \A c \in AirdropCategory :
              /\ node.unlocked[c] \in Nat /\ node.unlocked[c] <= PlainTotal(node)
              /\ node.locked[c] \in Nat /\ node.locked[c] <= PlainTotal(node)
         /\ AmountUnlocked(node) \in Nat /\ AmountUnlocked(node) <= PlainTotal(node)
         /\ AmountLocked(node) \in Nat /\ AmountLocked(node) <= PlainTotal(node)
         /\ TotalAmount(node) \in Nat /\ TotalAmount(node) <= PlainTotal(node)
<1> DEFINE u == PlainSum(node.unlocked)
           l == PlainSum(node.locked)
<1>1. /\ node.unlocked \in [AirdropCategory -> Nat]
      /\ node.locked \in [AirdropCategory -> Nat]
  BY DEF TreeNode
<1>2. /\ u \in Nat /\ l \in Nat
      /\ AmountUnlocked(node) \in Nat /\ AmountUnlocked(node) <= u
      /\ AmountLocked(node) \in Nat /\ AmountLocked(node) <= l
      /\ \A c \in AirdropCategory : node.unlocked[c] <= u /\ node.locked[c] <= l
  BY <1>1, CategoriesAtMost DEF AmountUnlocked, AmountLocked
<1>3. \A c \in AirdropCategory : node.unlocked[c] \in Nat /\ node.locked[c] \in Nat
  BY <1>1
<1>4. PlainTotal(node) = u + l
  BY DEF PlainTotal
<1>5. /\ TotalAmount(node) \in Nat
      /\ TotalAmount(node) <= AmountUnlocked(node) + AmountLocked(node)
  BY <1>2, SumAtMost DEF TotalAmount
<1> HIDE DEF u, l
<1> QED
  BY <1>2, <1>3, <1>4, <1>5

LEMMA NodesAtMost ==
  ASSUME NEW nodes \in Seq(TreeNode), NEW i \in DOMAIN nodes
  PROVE  NodesTotal(nodes) \in Nat /\ PlainTotal(nodes[i]) <= NodesTotal(nodes)
<1> DEFINE S == DOMAIN nodes
           p == [j \in S |-> PlainTotal(nodes[j])]
<1>1. IsFiniteSet(S)
  <2>1. S = 1 .. Len(nodes) /\ Len(nodes) \in Nat
    OBVIOUS
  <2> QED
    BY <2>1, FS_Interval
<1>2. \A j \in S : p[j] \in Nat
  BY PlainTotalType
<1>3. p[i] = PlainTotal(nodes[i])
  OBVIOUS
<1>4. NodesTotal(nodes) = Total(p, S)
  BY DEF NodesTotal
<1> HIDE DEF p
<1>5. Total(p, S) = p[i] + Total(p, S \ {i})
  BY <1>1, <1>2, SumRemove DEF Total
<1>6. Total(p, S \ {i}) \in Nat
  <2>1. IsFiniteSet(S \ {i})
    BY <1>1, FS_RemoveElement
  <2> QED
    BY <1>2, <2>1, SumType DEF Total
<1> QED
  BY <1>2, <1>3, <1>4, <1>5, <1>6

LEMMA ClaimAtMost ==
  ASSUME NEW nodes \in Seq(TreeNode)
  PROVE  GetMaxTotalClaim(nodes) \in Nat /\ GetMaxTotalClaim(nodes) <= NodesTotal(nodes)
<1> DEFINE S == DOMAIN nodes
           a == [i \in S |-> TotalAmount(nodes[i])]
           p == [i \in S |-> PlainTotal(nodes[i])]
           it == ClaimRec(nodes)
           Below(s) == it[s] \in Nat /\ it[s] <= Total(p, s)
           T == {n \in Nat : \A s \in SUBSET S : Cardinality(s) = n => Below(s)}
<1>1. S = 1 .. Len(nodes) /\ Len(nodes) \in Nat
  OBVIOUS
<1>2. IsFiniteSet(S)
  BY <1>1, FS_Interval
<1>3. \A i \in S : a[i] \in Nat /\ p[i] \in Nat /\ a[i] <= p[i]
  <2>1. \A i \in S : nodes[i] \in TreeNode
    OBVIOUS
  <2> QED
    BY <2>1, NodeAtMost
<1>4. \A s \in SUBSET S : s # {} => LastOf(s) \in s
  BY <1>1, LastIn
<1>5. \A s \in SUBSET S :
        it[s] = IF s = {} THEN 0
                ELSE CheckedAdd(it[s \ {LastOf(s)}], a[LastOf(s)])
  BY <1>4, ClaimRecDefined
<1>6. it[S] = GetMaxTotalClaim(nodes) /\ NodesTotal(nodes) = Total(p, S)
  BY ClaimIsRec DEF NodesTotal
<1> HIDE DEF S, a, p, it
<1>7. 0 \in T
  <2>1. \A s \in SUBSET S : Cardinality(s) = 0 => s = {}
    BY <1>2, SubsetCardinality
  <2>2. it[{}] = 0 /\ Total(p, {}) = 0
    BY <1>5, SumOfNothing DEF Total
  <2>3. Below({})
    BY <2>2
  <2> HIDE DEF Below
  <2> QED
    BY <2>1, <2>3
<1>8. ASSUME NEW n \in Nat, n \in T PROVE n + 1 \in T
  <2>1. ASSUME NEW s \in SUBSET S, Cardinality(s) = n + 1 PROVE Below(s)
    <3> DEFINE m == LastOf(s)
               rest == s \ {m}
    <3>1. s # {}
      BY <1>2, <2>1, SubsetCardinality
    <3>2. m \in s
      BY <1>4, <3>1
    <3>3. rest \in SUBSET S /\ Cardinality(rest) = n
      BY <1>2, <2>1, <3>2, SubsetCardinality
    <3>4. Below(rest)
      <4> HIDE DEF Below
      <4> QED
        BY <1>8, <3>3
    <3>5. it[s] = CheckedAdd(it[rest], a[m])
      BY <1>5, <3>1
    <3>6. a[m] \in Nat /\ p[m] \in Nat /\ a[m] <= p[m]
      BY <1>3, <3>2
    <3>7. Total(p, s) = p[m] + Total(p, rest)
      <4>1. IsFiniteSet(s) /\ \A i \in s : p[i] \in Nat
        BY <1>2, <1>3, FS_Subset
      <4> QED
        BY <3>2, <4>1, SumRemove DEF Total
    <3>8. Total(p, rest) \in Nat
      <4>1. IsFiniteSet(rest) /\ \A i \in rest : p[i] \in Nat
        BY <1>2, <1>3, <3>3, FS_Subset
      <4> QED
        BY <4>1, SumType DEF Total
    <3> HIDE DEF m, rest
    <3>9. it[s] \in Nat /\ it[s] <= it[rest] + a[m]
      BY <3>4, <3>5, <3>6, SumAtMost
    <3> QED
      BY <3>4, <3>6, <3>7, <3>8, <3>9
  <2> HIDE DEF Below
  <2> QED
    BY <2>1
<1>9. Nat \subseteq T
  <2> HIDE DEF T
  <2> QED
    BY <1>7, <1>8, NatSetInduction
<1>10. Below(S)
  <2>1. Cardinality(S) \in T /\ S \in SUBSET S
    BY <1>2, <1>9, FS_CardinalityType
  <2> HIDE DEF Below
  <2> QED
    BY <2>1
<1> QED
  BY <1>6, <1>10

(* A node of a row is at most the row. *)
LEMMA NewNodeAtMost ==
  ASSUME NEW entry \in CsvEntries
  PROVE  PlainTotal(NodeOf(entry)) <= EntryTotal(entry)
<1> DEFINE node == NodeOf(entry)
           u == entry.amount_unlocked * TokenUnit
           l == entry.amount_locked * TokenUnit
           tu == TokenAmount(entry.amount_unlocked)
           tl == TokenAmount(entry.amount_locked)
<1>1. u \in Nat /\ l \in Nat
  BY EntryType, LimitsType
<1>2. tu \in Nat /\ tu <= u /\ tl \in Nat /\ tl <= l
  <2> HIDE DEF u, l
  <2> QED
    BY <1>1, AtMost DEF TokenAmount, u, l
<1>3. entry.category \in {"Staker", "Validator", "Searcher"}
  BY EntryType DEF AirdropCategory
<1>4. \A c \in {"Staker", "Validator", "Searcher"} :
        /\ node.unlocked[c] = IF c = entry.category THEN tu ELSE 0
        /\ node.locked[c] = IF c = entry.category THEN tl ELSE 0
  BY DEF NodeOf, AirdropCategory
<1>5. EntryTotal(entry) = u + l
  BY DEF EntryTotal
<1> HIDE DEF node, u, l, tu, tl
<1>6. ASSUME NEW f, NEW v \in Nat,
             \A c \in {"Staker", "Validator", "Searcher"} :
               f[c] = IF c = entry.category THEN v ELSE 0
      PROVE  PlainSum(f) = v
  <2>1. CASE entry.category = "Staker"
    BY <1>6, <2>1 DEF PlainSum
  <2>2. CASE entry.category = "Validator"
    BY <1>6, <2>2 DEF PlainSum
  <2>3. CASE entry.category = "Searcher"
    BY <1>6, <2>3 DEF PlainSum
  <2> QED
    BY <1>3, <2>1, <2>2, <2>3
<1>7. PlainSum(node.unlocked) = tu /\ PlainSum(node.locked) = tl
  BY <1>2, <1>4, <1>6
<1>8. PlainTotal(node) = tu + tl
  BY <1>7 DEF PlainTotal
<1>9. PlainTotal(node) <= u + l
  BY <1>1, <1>2, <1>8
<1> QED
  BY <1>5, <1>9 DEF node

(* Fields that do not fit show that the rows do not. *)
LEMMA RowRefused ==
  ASSUME NEW nodes \in Seq(TreeNode), NEW e \in Seq(CsvEntries),
         NodesTotal(nodes) = RowsTotal(e), NEW entry \in CsvEntries,
         LET added == AddNode(nodes, NodeOf(entry))
         IN  ~FieldsFit(NodeOf(entry)) \/ \E i \in DOMAIN added : ~FieldsFit(added[i])
  PROVE  RowsTotal(Append(e, entry)) > U64Max
<1> DEFINE node == NodeOf(entry)
           added == AddNode(nodes, node)
           sum == RowsTotal(e) + EntryTotal(entry)
<1>1. /\ RowsTotal(Append(e, entry)) = sum
      /\ RowsTotal(e) \in Nat /\ EntryTotal(entry) \in Nat /\ U64Max \in Nat
  BY RowsTotalAdds, LimitsType
<1>2. node \in TreeNode /\ PlainTotal(node) <= EntryTotal(entry)
  BY NodeType, NewNodeAtMost
<1>3. /\ PlainTotal(node) \in Nat
      /\ \A c \in AirdropCategory :
           /\ node.unlocked[c] \in Nat /\ node.unlocked[c] <= PlainTotal(node)
           /\ node.locked[c] \in Nat /\ node.locked[c] <= PlainTotal(node)
  BY <1>2, NodeAtMost
<1>4. \A v \in Nat : v \notin U64 => v > U64Max
  BY <1>1 DEF U64
<1>5. ASSUME NEW m,
             \A c \in AirdropCategory : /\ m.unlocked[c] \in Nat /\ m.unlocked[c] <= sum
                                        /\ m.locked[c] \in Nat /\ m.locked[c] <= sum,
             ~FieldsFit(m)
      PROVE  sum > U64Max
  <2>1. PICK c \in AirdropCategory : m.unlocked[c] \notin U64 \/ m.locked[c] \notin U64
    BY <1>5 DEF FieldsFit
  <2> HIDE DEF sum
  <2>2. sum \in Nat
    BY <1>1 DEF sum
  <2> QED
    BY <1>1, <1>4, <1>5, <2>1, <2>2
<1>6. CASE ~FieldsFit(node)
  <2>1. \A c \in AirdropCategory : /\ node.unlocked[c] \in Nat /\ node.unlocked[c] <= sum
                                   /\ node.locked[c] \in Nat /\ node.locked[c] <= sum
    BY <1>1, <1>2, <1>3
  <2> HIDE DEF sum, node
  <2> QED
    BY <1>1, <1>5, <1>6, <2>1
<1>7. ASSUME NEW i \in DOMAIN nodes, NEW c \in AirdropCategory
      PROVE  /\ nodes[i].unlocked[c] \in Nat
             /\ nodes[i].unlocked[c] <= RowsTotal(e)
             /\ nodes[i].locked[c] \in Nat
             /\ nodes[i].locked[c] <= RowsTotal(e)
  <2>1. nodes[i] \in TreeNode
    OBVIOUS
  <2>2. NodesTotal(nodes) \in Nat /\ PlainTotal(nodes[i]) <= NodesTotal(nodes)
    BY NodesAtMost
  <2>3. /\ PlainTotal(nodes[i]) \in Nat
        /\ nodes[i].unlocked[c] \in Nat /\ nodes[i].unlocked[c] <= PlainTotal(nodes[i])
        /\ nodes[i].locked[c] \in Nat /\ nodes[i].locked[c] <= PlainTotal(nodes[i])
    BY <2>1, NodeAtMost
  <2> HIDE DEF node, added, sum
  <2> QED
    BY <2>2, <2>3
<1>8. ASSUME NEW i \in DOMAIN added, ~FieldsFit(added[i])
      PROVE  ~FieldsFit(node) \/ sum > U64Max
  <2>1. CASE i \in DOMAIN nodes /\ added[i] = nodes[i]
    <3>1. \A c \in AirdropCategory :
            /\ added[i].unlocked[c] \in Nat /\ added[i].unlocked[c] <= sum
            /\ added[i].locked[c] \in Nat /\ added[i].locked[c] <= sum
      BY <1>1, <1>7, <2>1
    <3> HIDE DEF sum, added
    <3> QED
      BY <1>5, <1>8, <3>1
  <2>2. CASE i \in DOMAIN nodes /\ added[i] = Combined(nodes[i], node)
    <3>1. nodes[i] \in TreeNode
      BY <2>2
    <3>2. ASSUME NEW c \in AirdropCategory
          PROVE  /\ added[i].unlocked[c] \in Nat /\ added[i].unlocked[c] <= sum
                 /\ added[i].locked[c] \in Nat /\ added[i].locked[c] <= sum
      <4>1. /\ added[i].unlocked[c] = CheckedAdd(nodes[i].unlocked[c], node.unlocked[c])
            /\ added[i].locked[c] = CheckedAdd(nodes[i].locked[c], node.locked[c])
        BY <1>2, <2>2, <3>1, CombinedFields
      <4>2. /\ nodes[i].unlocked[c] \in Nat /\ nodes[i].unlocked[c] <= RowsTotal(e)
            /\ nodes[i].locked[c] \in Nat /\ nodes[i].locked[c] <= RowsTotal(e)
        BY <1>7, <2>2
      <4>3. /\ node.unlocked[c] \in Nat /\ node.unlocked[c] <= EntryTotal(entry)
            /\ node.locked[c] \in Nat /\ node.locked[c] <= EntryTotal(entry)
        <5> HIDE DEF node
        <5> QED
          BY <1>1, <1>2, <1>3
      <4> HIDE DEF added, node
      <4>4. /\ added[i].unlocked[c] \in Nat
            /\ added[i].unlocked[c] <= nodes[i].unlocked[c] + node.unlocked[c]
            /\ added[i].locked[c] \in Nat
            /\ added[i].locked[c] <= nodes[i].locked[c] + node.locked[c]
        BY <4>1, <4>2, <4>3, SumAtMost
      <4>5. \A a, x, y \in Nat :
              a <= x + y /\ x <= RowsTotal(e) /\ y <= EntryTotal(entry) => a <= sum
        BY <1>1
      <4> HIDE DEF sum
      <4> QED
        BY <4>2, <4>3, <4>4, <4>5
    <3> HIDE DEF sum, added
    <3> QED
      BY <1>5, <1>8, <3>2
  <2>3. CASE added[i] = node
    BY <1>8, <2>3
  <2>4. \/ i \in DOMAIN nodes /\ added[i] = nodes[i]
        \/ i \in DOMAIN nodes /\ added[i] = Combined(nodes[i], node)
        \/ added[i] = node
    <3>1. CASE \E k \in DOMAIN nodes : nodes[k].claimant = node.claimant
      <4>1. added = [k \in DOMAIN nodes |->
                      IF nodes[k].claimant = node.claimant THEN Combined(nodes[k], node)
                      ELSE nodes[k]]
        BY <3>1 DEF AddNode
      <4> HIDE DEF node
      <4> QED
        BY <4>1
    <3>2. CASE ~\E k \in DOMAIN nodes : nodes[k].claimant = node.claimant
      <4>1. added = Append(nodes, node)
        BY <3>2 DEF AddNode
      <4> HIDE DEF node
      <4> QED
        BY <4>1
    <3> QED
      BY <3>1, <3>2
  <2> QED
    BY <2>1, <2>2, <2>3, <2>4
<1> HIDE DEF node, added, sum
<1>9. ~FieldsFit(node) \/ \E i \in DOMAIN added : ~FieldsFit(added[i])
  BY DEF node, added
<1> QED
  BY <1>1, <1>6, <1>8, <1>9

LEMMA SumsRefused ==
  ASSUME NEW nodes \in Seq(TreeNode), ~SumsFit(nodes)
  PROVE  NodesTotal(nodes) > U64Max
<1>1. /\ U64Max \in Nat
      /\ \A v \in Nat : v \notin U64 => v > U64Max
  BY LimitsType DEF U64
<1>2. CASE GetMaxTotalClaim(nodes) \notin U64
  <2>1. /\ GetMaxTotalClaim(nodes) \in Nat
        /\ GetMaxTotalClaim(nodes) <= NodesTotal(nodes)
    BY ClaimAtMost
  <2>2. NodesTotal(nodes) \in Nat
    <3>1. CASE nodes = <<>>
      BY <3>1, SumOfNothing DEF NodesTotal, Total
    <3>2. CASE nodes # <<>>
      <4>1. 1 \in DOMAIN nodes
        BY <3>2
      <4> QED
        BY <4>1, NodesAtMost
    <3> QED
      BY <3>1, <3>2
  <2> QED
    BY <1>1, <1>2, <2>1, <2>2
<1>3. ASSUME NEW i \in DOMAIN nodes,
             AmountUnlocked(nodes[i]) \notin U64 \/ AmountLocked(nodes[i]) \notin U64
      PROVE  NodesTotal(nodes) > U64Max
  <2>1. nodes[i] \in TreeNode
    OBVIOUS
  <2>2. NodesTotal(nodes) \in Nat /\ PlainTotal(nodes[i]) <= NodesTotal(nodes)
    BY NodesAtMost
  <2>3. /\ PlainTotal(nodes[i]) \in Nat
        /\ AmountUnlocked(nodes[i]) \in Nat /\ AmountUnlocked(nodes[i]) <= PlainTotal(nodes[i])
        /\ AmountLocked(nodes[i]) \in Nat /\ AmountLocked(nodes[i]) <= PlainTotal(nodes[i])
    BY <2>1, NodeAtMost
  <2> QED
    BY <1>1, <1>3, <2>2, <2>3
<1> QED
  BY <1>2, <1>3 DEF SumsFit

(* RefusalsJustified with the sums of this module. *)
LEMMA Refusals ==
  RefusalsJustified <=>
    /\ status = "panic" =>
         Unreadable \in Range(csv_entries) \/ RowsTotal(csv_entries) > U64Max
    /\ status = "validation_error" =>
         Cardinality({csv_entries[r].claimant : r \in DOMAIN csv_entries}) > MaxNodes
    /\ status = "root_error" => csv_entries = <<>>
<1>1. GrandTotal = RowsTotal(csv_entries)
  BY DEF Total, GrandTotal, UnlockedOf, LockedOf, RowsTotal, UnlockedIn, LockedIn
<1> QED
  BY <1>1 DEF RefusalsJustified

LEMMA RefusalsNext ==
  RefusalsJustified' <=>
    /\ status' = "panic" =>
         Unreadable \in Range(csv_entries)' \/ RowsTotal(csv_entries)' > U64Max
    /\ status' = "validation_error" =>
         Cardinality({csv_entries[r].claimant : r \in DOMAIN csv_entries})' > MaxNodes
    /\ status' = "root_error" => csv_entries' = <<>>
<1>1. (RefusalsJustified <=>
         /\ status = "panic" =>
              Unreadable \in Range(csv_entries) \/ RowsTotal(csv_entries) > U64Max
         /\ status = "validation_error" =>
              Cardinality({csv_entries[r].claimant : r \in DOMAIN csv_entries}) > MaxNodes
         /\ status = "root_error" => csv_entries = <<>>)'
  BY Refusals, PTL
<1> QED
  BY <1>1

(* There are as many claimants as nodes. *)
LEMMA ClaimantsCounted ==
  ASSUME NEW nodes \in Seq(TreeNode), NEW e, Combines(nodes, e)
  PROVE  Cardinality({e[r].claimant : r \in DOMAIN e}) = Len(nodes)
<1> DEFINE S == 1 .. Len(nodes)
           K == {nodes[i].claimant : i \in S}
           f == [i \in S |-> nodes[i].claimant]
<1>1. DOMAIN nodes = S /\ Len(nodes) \in Nat
  OBVIOUS
<1>2. IsFiniteSet(S) /\ Cardinality(S) = Len(nodes)
  BY <1>1, FS_Interval
<1>3. \A i, j \in S : nodes[i].claimant = nodes[j].claimant => i = j
  BY <1>1 DEF Combines
<1>4. {e[r].claimant : r \in DOMAIN e} = K
  BY <1>1 DEF Combines
<1>5. f \in Bijection(S, K)
  <2>1. f \in [S -> K]
    OBVIOUS
  <2>2. \A i, j \in S : f[i] = f[j] => i = j
    BY <1>3
  <2>3. \A k \in K : \E i \in S : f[i] = k
    OBVIOUS
  <2> HIDE DEF f, S, K
  <2> QED
    BY <2>1, <2>2, <2>3 DEF Bijection, Injection, Surjection, IsInjective
<1>6. ExistsBijection(S, K)
  <2> HIDE DEF S, K, f
  <2> QED
    BY <1>5 DEF ExistsBijection
<1>7. Cardinality(K) = Cardinality(S)
  <2> HIDE DEF S, K
  <2> QED
    BY <1>2, <1>6, FS_Bijection
<1> QED
  BY <1>2, <1>4, <1>7

LEMMA RefusalsStep == ASSUME RowsInv, Next PROVE RefusalsJustified'
<1>1. ASSUME NEW entry \in CsvEntries, AddEntry(entry) PROVE RefusalsJustified'
  <2>1. /\ tree_nodes \in Seq(TreeNode) /\ csv_entries \in Seq(CsvEntries)
        /\ NodesTotal(tree_nodes) = RowsTotal(csv_entries)
        /\ csv_entries' = Append(csv_entries, entry)
        /\ status' \in {"building", "panic"}
    BY <1>1 DEF RowsInv, AddEntry
  <2>2. ASSUME status' = "panic" PROVE RowsTotal(csv_entries)' > U64Max
    <3>1. LET added == AddNode(tree_nodes, NodeOf(entry))
          IN  ~FieldsFit(NodeOf(entry)) \/ \E i \in DOMAIN added : ~FieldsFit(added[i])
      BY <1>1, <2>2 DEF AddEntry
    <3>2. RowsTotal(Append(csv_entries, entry)) > U64Max
      BY <2>1, <3>1, RowRefused
    <3>3. RowsTotal(csv_entries)' = RowsTotal(Append(csv_entries, entry))
      BY <2>1 DEF RowsTotal, UnlockedIn, LockedIn
    <3> QED
      BY <3>2, <3>3
  <2> QED
    BY <2>1, <2>2, RefusalsNext
<1>2. CASE AddUnreadable
  <2>1. /\ status = "building" /\ status' = "panic"
        /\ csv_entries' = Append(csv_entries, Unreadable)
    BY <1>2 DEF AddUnreadable
  <2>2. csv_entries \in Seq(CsvEntries)
    BY <2>1 DEF RowsInv
  <2>3. Unreadable \in Range(csv_entries)'
    <3>1. /\ Len(csv_entries) + 1 \in DOMAIN Append(csv_entries, Unreadable)
          /\ Append(csv_entries, Unreadable)[Len(csv_entries) + 1] = Unreadable
      BY <2>2
    <3> QED
      BY <2>1, <3>1 DEF Range
  <2> QED
    BY <2>1, <2>3, RefusalsNext
<1>3. CASE OpenFails
  BY <1>3, RefusalsNext DEF OpenFails
<1>4. CASE Finish
  <2>1. /\ tree_nodes \in Seq(TreeNode) /\ csv_entries \in Seq(CsvEntries)
        /\ Combines(tree_nodes, csv_entries)
        /\ NodesTotal(tree_nodes) = RowsTotal(csv_entries)
        /\ csv_entries' = csv_entries
    BY <1>4, RowsAreCombined DEF RowsInv, Finish
  <2> DEFINE K == {csv_entries[r].claimant : r \in DOMAIN csv_entries}
             N == {tree_nodes[i].claimant : i \in DOMAIN tree_nodes}
  <2>2. N = K
    BY <2>1 DEF Combines
  <2>3. Cardinality(K) = Len(tree_nodes)
    BY <2>1, ClaimantsCounted
  <2>4. ASSUME status' = "panic" PROVE RowsTotal(csv_entries)' > U64Max
    <3>1. ~SumsFit(tree_nodes)
      BY <1>4, <2>4 DEF Finish
    <3>2. RowsTotal(csv_entries) > U64Max
      BY <2>1, <3>1, SumsRefused
    <3> QED
      BY <2>1, <3>2 DEF RowsTotal, UnlockedIn, LockedIn
  <2>5. ASSUME status' = "validation_error"
        PROVE  Cardinality({csv_entries[r].claimant : r \in DOMAIN csv_entries})' > MaxNodes
    <3>1. ~Valid(tree_nodes, Len(tree_nodes), GetMaxTotalClaim(tree_nodes))
      BY <1>4, <2>5 DEF Finish
    <3>2. Cardinality(K) = Len(tree_nodes) /\ Cardinality(N) = Len(tree_nodes)
      BY <2>2, <2>3
    <3>3. ~(Len(tree_nodes) <= MaxNodes)
      BY <3>1, <3>2 DEF Valid
    <3>4. Cardinality(K) > MaxNodes
      <4>1. Len(tree_nodes) \in Nat
        BY <2>1
      <4> QED
        BY <3>2, <3>3, <4>1, LimitsType
    <3> QED
      BY <2>1, <3>4
  <2>6. ASSUME status' = "root_error" PROVE csv_entries' = <<>>
    <3>1. tree_nodes = <<>>
      BY <1>4, <2>6 DEF Finish
    <3>2. N = {}
      BY <3>1
    <3>3. DOMAIN csv_entries = {}
      BY <2>2, <3>2
    <3> QED
      BY <2>1, <3>3
  <2> QED
    BY <2>4, <2>5, <2>6, RefusalsNext
<1> QED
  BY <1>1, <1>2, <1>3, <1>4 DEF Next

-----------------------------------------------------------------------------
(* The properties *)

BuilderInv == BuiltInv /\ RowsInv

LEMMA BuilderInit == ASSUME Init PROVE BuilderInv
<1>1. Combines(<<>>, <<>>)
  BY DEF Combines
<1>2. NodesTotal(<<>>) = 0 /\ RowsTotal(<<>>) = 0
  <2>1. /\ Total([i \in DOMAIN <<>> |-> PlainTotal(<<>>[i])], DOMAIN <<>>) = 0
        /\ UnlockedIn(<<>>, DOMAIN <<>>) = 0 /\ LockedIn(<<>>, DOMAIN <<>>) = 0
    BY SumOfNothing DEF Total, UnlockedIn, LockedIn
  <2> QED
    BY <2>1, LimitsType DEF NodesTotal, RowsTotal
<1> QED
  BY <1>1, <1>2, RowsAreCombined DEF Init, BuilderInv, BuiltInv, RowsInv

LEMMA BuilderStep == ASSUME BuilderInv, Next PROVE BuilderInv'
BY BuiltStep, RowsStep DEF BuilderInv

LEMMA BuilderStutters == ASSUME BuilderInv, UNCHANGED vars PROVE BuilderInv'
<1>1. BuiltInv'
  BY DEF BuilderInv, BuiltInv, vars, SumsFit
<1>2. /\ NodesTotal(tree_nodes)' = NodesTotal(tree_nodes)
      /\ RowsTotal(csv_entries)' = RowsTotal(csv_entries)
  BY DEF vars, NodesTotal, RowsTotal, UnlockedIn, LockedIn
<1>3. Valid(tree_nodes, max_num_nodes, max_total_claim)'
        = Valid(tree_nodes, max_num_nodes, max_total_claim)
  BY DEF vars, Valid
<1>4. RowsCombined'
  BY RowsAreCombined, RowsAreCombinedNext DEF BuilderInv, RowsInv, vars
<1> QED
  BY <1>1, <1>2, <1>3, <1>4 DEF BuilderInv, RowsInv, vars

THEOREM BuilderInvHolds == Spec => []BuilderInv
<1>1. Init => BuilderInv
  BY BuilderInit
<1>2. BuilderInv /\ [Next]_vars => BuilderInv'
  BY BuilderStep, BuilderStutters
<1> QED
  BY <1>1, <1>2, PTL DEF Spec

(* The builder's combination of rows: until it panics its nodes hold,       *)
(* claimant by claimant and category by category, the sums of the rows.     *)
THEOREM EveryRowIsCombined == Spec => []RowsCombined
<1>1. BuilderInv => RowsCombined
  BY DEF BuilderInv, RowsInv
<1> QED
  BY <1>1, BuilderInvHolds, PTL

LEMMA CapsFollow ==
  ASSUME BuilderInv
  PROVE  CapsExact
<1> SUFFICES ASSUME status = "built"
             PROVE  /\ Unreadable \notin Range(csv_entries)
                    /\ max_num_nodes
                         = Cardinality({csv_entries[r].claimant : r \in DOMAIN csv_entries})
                    /\ max_total_claim = GrandTotal
                    /\ max_total_claim \in U64
  BY DEF CapsExact
<1>1. /\ tree_nodes \in Seq(TreeNode) /\ csv_entries \in Seq(CsvEntries)
      /\ Combines(tree_nodes, csv_entries)
      /\ NodesTotal(tree_nodes) = RowsTotal(csv_entries)
      /\ Valid(tree_nodes, max_num_nodes, max_total_claim)
      /\ SumsFit(tree_nodes)
  BY RowsAreCombined DEF BuilderInv, RowsInv, BuiltInv
<1>2. Unreadable \notin Range(csv_entries)
  BY <1>1, EntriesAssumption DEF Range
<1>3. max_num_nodes
        = Cardinality({csv_entries[r].claimant : r \in DOMAIN csv_entries})
  BY <1>1 DEF Valid, Combines
<1>4. /\ max_total_claim = GetMaxTotalClaim(tree_nodes)
      /\ max_total_claim \in U64
  BY <1>1 DEF Valid, SumsFit
<1>5. GetMaxTotalClaim(tree_nodes) = NodesTotal(tree_nodes)
  <2> DEFINE S == DOMAIN tree_nodes
             amounts == [i \in S |-> TotalAmount(tree_nodes[i])]
             plain == [i \in S |-> PlainTotal(tree_nodes[i])]
  <2>1. /\ GetMaxTotalClaim(tree_nodes) = Total(amounts, S)
        /\ \A i \in S : amounts[i] \in U64
    BY <1>1, <1>4, CheckedTotal
  <2>2. \A i \in S : amounts[i] = plain[i]
    BY <1>1, <2>1, UncappedNode DEF SumsFit
  <2>3. IsFiniteSet(S)
    <3>1. S = 1 .. Len(tree_nodes) /\ Len(tree_nodes) \in Nat
      BY <1>1
    <3> QED
      BY <3>1, FS_Interval
  <2> HIDE DEF S, amounts, plain
  <2>4. Total(amounts, S) = Total(plain, S)
    BY <2>2, <2>3, SumCongruent DEF Total
  <2> QED
    BY <2>1, <2>4 DEF NodesTotal, S, plain
<1>6. GrandTotal = RowsTotal(csv_entries)
  BY DEF Total, GrandTotal, UnlockedOf, LockedOf,
                    RowsTotal, UnlockedIn, LockedIn
<1> QED
  BY <1>1, <1>2, <1>3, <1>4, <1>5, <1>6

(* The caps a distributor is created with are those of the file: as many    *)
(* nodes as claimants, and the sum of all rows, which the checked sums and  *)
(* the fold over the nodes reach exactly or not at all.                     *)
THEOREM CapsAreExact == Spec => []CapsExact
<1>1. BuilderInv => CapsExact
  BY CapsFollow
<1> QED
  BY <1>1, BuilderInvHolds, PTL

(* The tool gives up only for a reason: a file whose rows are readable,     *)
(* whose sum fits a u64 and which has no more claimants than a tree may     *)
(* have is never refused, however its rows are ordered and combined.        *)
THEOREM RefusalsAreJustified == Spec => []RefusalsJustified
<1>1. Init => RefusalsJustified
  BY DEF Init, RefusalsJustified
<1>2. RefusalsJustified /\ UNCHANGED vars => RefusalsJustified'
  <2> SUFFICES ASSUME RefusalsJustified, UNCHANGED vars PROVE RefusalsJustified'
    OBVIOUS
  <2>1. /\ status' = status /\ csv_entries' = csv_entries
        /\ RowsTotal(csv_entries)' = RowsTotal(csv_entries)
        /\ Range(csv_entries)' = Range(csv_entries)
    BY DEF vars, RowsTotal, UnlockedIn, LockedIn, Range
  <2> QED
    BY <2>1, Refusals, RefusalsNext
<1>3. BuilderInv /\ RefusalsJustified /\ [Next]_vars => RefusalsJustified'
  BY <1>2, RefusalsStep DEF BuilderInv
<1> QED
  BY <1>1, <1>3, BuilderInvHolds, PTL DEF Spec

(* What a launch takes from a built tree. *)

RowsOfNode(i) == {r \in DOMAIN csv_entries : csv_entries[r].claimant = tree_nodes[i].claimant}

LEMMA BuiltTree ==
  ASSUME BuilderInv, status = "built"
  PROVE  /\ max_total_claim \in U64 /\ max_num_nodes \in U64
         /\ \A i \in DOMAIN tree_nodes :
              /\ tree_nodes[i].claimant \in Claimants
              /\ AmountUnlocked(tree_nodes[i]) \in U64
              /\ AmountLocked(tree_nodes[i]) \in U64
              /\ AmountUnlocked(tree_nodes[i]) = UnlockedOf(RowsOfNode(i))
              /\ AmountLocked(tree_nodes[i]) = LockedOf(RowsOfNode(i))
<1>1. /\ tree_nodes \in Seq(TreeNode) /\ csv_entries \in Seq(CsvEntries)
      /\ Combines(tree_nodes, csv_entries)
      /\ SumsFit(tree_nodes)
      /\ max_total_claim \in U64 /\ max_num_nodes \in U64
  BY RowsAreCombined DEF BuilderInv, RowsInv, BuiltInv
<1>2. SUFFICES ASSUME NEW i \in DOMAIN tree_nodes
               PROVE  /\ tree_nodes[i].claimant \in Claimants
                      /\ AmountUnlocked(tree_nodes[i]) \in U64
                      /\ AmountLocked(tree_nodes[i]) \in U64
                      /\ AmountUnlocked(tree_nodes[i]) = UnlockedOf(RowsOfNode(i))
                      /\ AmountLocked(tree_nodes[i]) = LockedOf(RowsOfNode(i))
  BY <1>1
<1>3. tree_nodes[i].claimant \in Claimants
  <2>1. tree_nodes[i] \in TreeNode
    BY <1>1
  <2> QED
    BY <2>1 DEF TreeNode
<1>4. AmountUnlocked(tree_nodes[i]) \in U64 /\ AmountLocked(tree_nodes[i]) \in U64
  BY <1>1 DEF SumsFit
<1>5. LET rows == RowsOfClaimant(csv_entries, tree_nodes[i].claimant)
      IN  /\ AmountUnlocked(tree_nodes[i]) = UnlockedIn(csv_entries, rows) * TokenUnit
          /\ AmountLocked(tree_nodes[i]) = LockedIn(csv_entries, rows) * TokenUnit
  BY <1>1, <1>4, LeafOfRows
<1> QED
  BY <1>3, <1>4, <1>5
  DEF RowsOfNode, RowsOfClaimant, UnlockedOf, LockedOf, UnlockedIn, LockedIn, Total

(* The caps of a built tree: one node for each claimant, and the sum of the *)
(* amounts hashed into its leaves.                                          *)
NodeAmounts ==
  [i \in DOMAIN tree_nodes |-> AmountUnlocked(tree_nodes[i]) + AmountLocked(tree_nodes[i])]

LEMMA BuiltCaps ==
  ASSUME BuilderInv, status = "built"
  PROVE  /\ max_num_nodes = Cardinality(DOMAIN tree_nodes)
         /\ max_total_claim = Total(NodeAmounts, DOMAIN tree_nodes)
         /\ \A i, j \in DOMAIN tree_nodes :
              tree_nodes[i].claimant = tree_nodes[j].claimant => i = j
         /\ {tree_nodes[i].claimant : i \in DOMAIN tree_nodes}
              = {csv_entries[r].claimant : r \in DOMAIN csv_entries}
<1> DEFINE S == DOMAIN tree_nodes
           amounts == NodeAmounts
           checked == [i \in S |-> TotalAmount(tree_nodes[i])]
<1>1. /\ tree_nodes \in Seq(TreeNode)
      /\ Combines(tree_nodes, csv_entries)
      /\ Valid(tree_nodes, max_num_nodes, max_total_claim)
      /\ SumsFit(tree_nodes)
  BY RowsAreCombined DEF BuilderInv, RowsInv, BuiltInv
<1>2. IsFiniteSet(S) /\ Cardinality(S) = Len(tree_nodes)
  <2>1. S = 1 .. Len(tree_nodes) /\ Len(tree_nodes) \in Nat
    BY <1>1
  <2>2. ASSUME NEW n \in Nat PROVE IsFiniteSet(1 .. n) /\ Cardinality(1 .. n) = n
    BY FS_Interval
  <2> QED
    BY <2>1, <2>2
<1>3. max_total_claim = Total(amounts, S)
  <2>1. /\ max_total_claim = Total(checked, S)
        /\ \A i \in S : checked[i] \in U64
    BY <1>1, CheckedTotal DEF Valid, SumsFit
  <2>2. ASSUME NEW i \in S PROVE checked[i] = amounts[i]
    <3>1. AmountUnlocked(tree_nodes[i]) \in Nat /\ AmountLocked(tree_nodes[i]) \in Nat
      BY <1>1, EntriesAssumption DEF SumsFit, U64
    <3>2. AmountUnlocked(tree_nodes[i]) + AmountLocked(tree_nodes[i]) \in Nat
      BY <3>1
    <3> QED
      BY <2>1, <3>2, NotCapped DEF TotalAmount, CheckedAdd, NodeAmounts
  <2> HIDE DEF S, amounts, checked
  <2>3. Total(checked, S) = Total(amounts, S)
    BY <1>2, <2>2, SumCongruent DEF Total
  <2> QED
    BY <2>1, <2>3
<1> QED
  BY <1>1, <1>2, <1>3 DEF Valid, Combines
=============================================================================
