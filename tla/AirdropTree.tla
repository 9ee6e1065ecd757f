----------------------------- MODULE AirdropTree -----------------------------
(***************************************************************************)
(* The builder of an airdrop's tree (merkle-tree/src/airdrop_merkle_tree.rs*)
(* with csv_entry.rs, tree_node.rs and utils.rs): the rows of a CSV file,  *)
(* in whole tokens, become nodes in token units, the nodes of one claimant *)
(* are combined, and the root's caps are computed from the nodes.  Every   *)
(* addition and multiplication is checked and a failed check ends the tool,*)
(* the unwrap() of checked_add as well as the bare product (overflow-checks*)
(* is on).                                                                 *)
(*                                                                         *)
(* The rows are read, converted and combined one after the other here,     *)
(* where the code reads them all, then converts them all: which of them    *)
(* makes the tool panic is no difference.  The hashes and proofs of the    *)
(* tree are in MerkleTree.                                                 *)
(***************************************************************************)
EXTENDS Naturals, Sequences, SequencesExt, FiniteSets, FiniteSetsExt

CONSTANTS
  Claimants,
  CsvEntries,   \* the rows a file may have
  Unreadable,   \* a row that is no CsvEntry, or whose pubkey is no key
  MaxEntries,   \* bound on the number of rows
  U64Max,
  TokenUnit,    \* 10^MINT_DECIMALS
  MaxNodes      \* the most nodes validate accepts, 2^32 - 1

AirdropCategory == {"Staker", "Validator", "Searcher"}
U64 == 0 .. U64Max

CsvEntry ==
  [claimant : Claimants, category : AirdropCategory,
   amount_unlocked : U64, amount_locked : U64]

ASSUME EntriesAssumption ==
  /\ U64Max \in Nat
  /\ CsvEntries \subseteq CsvEntry
  /\ Unreadable \notin CsvEntries
  /\ TokenUnit \in U64
  /\ MaxNodes \in U64

VARIABLES
  csv_entries,      \* the rows read so far
  tree_nodes,       \* one node per claimant, in the order of their first rows
  status,           \* "building", "built", or how the tool ended
  max_num_nodes,
  max_total_claim

vars == <<csv_entries, tree_nodes, status, max_num_nodes, max_total_claim>>

-----------------------------------------------------------------------------
(* Checked arithmetic: a result above U64Max is the panic; it is passed on  *)
(* as Overflow, which is above U64Max itself.                               *)
Overflow == U64Max + 1

\* Mutant: addition that wraps.
WrappingAdd(a, b) == (a + b) % (U64Max + 1)

CheckedAdd(a, b) == Min({a + b, Overflow})

TokenAmount(ui_amount) == Min({ui_amount * TokenUnit, Overflow})

NodeOf(entry) ==
  [claimant |-> entry.claimant,
   unlocked |-> [c \in AirdropCategory |->
                  IF c = entry.category THEN TokenAmount(entry.amount_unlocked) ELSE 0],
   locked   |-> [c \in AirdropCategory |->
                  IF c = entry.category THEN TokenAmount(entry.amount_locked) ELSE 0]]

SumOfCategories(amounts) ==
  CheckedAdd(CheckedAdd(amounts["Searcher"], amounts["Validator"]), amounts["Staker"])

AmountUnlocked(node) == SumOfCategories(node.unlocked)
AmountLocked(node) == SumOfCategories(node.locked)
TotalAmount(node) == CheckedAdd(AmountUnlocked(node), AmountLocked(node))

GetMaxTotalClaim(nodes) ==
  FoldLeft(LAMBDA acc, node : CheckedAdd(acc, TotalAmount(node)), 0, nodes)

FieldsFit(node) ==
  \A c \in AirdropCategory : node.unlocked[c] \in U64 /\ node.locked[c] \in U64

-----------------------------------------------------------------------------
\* Mutant: a later row of a claimant replaces the earlier ones.
CombinedByReplacing(n, node) == node

Combined(n, node) ==
  [n EXCEPT
     !.unlocked = [c \in AirdropCategory |-> CheckedAdd(@[c], node.unlocked[c])],
     !.locked   = [c \in AirdropCategory |-> CheckedAdd(@[c], node.locked[c])]]

\* Mutant: rows of one claimant stay apart.
WithoutCombining(nodes, node) == Append(nodes, node)

AddNode(nodes, node) ==
  IF \E k \in DOMAIN nodes : nodes[k].claimant = node.claimant
  THEN [k \in DOMAIN nodes |->
          IF nodes[k].claimant = node.claimant THEN Combined(nodes[k], node) ELSE nodes[k]]
  ELSE Append(nodes, node)

Init ==
  /\ csv_entries = <<>>
  /\ tree_nodes = <<>>
  /\ status = "building"
  /\ max_num_nodes = 0
  /\ max_total_claim = 0

(* The path cannot be opened. *)
OpenFails ==
  /\ status = "building"
  /\ csv_entries = <<>>
  /\ status' = "io_error"
  /\ UNCHANGED <<csv_entries, tree_nodes, max_num_nodes, max_total_claim>>

(* The unwraps of the parsed row and of its key. *)
AddUnreadable ==
  /\ status = "building"
  /\ Len(csv_entries) < MaxEntries
  /\ csv_entries' = Append(csv_entries, Unreadable)
  /\ status' = "panic"
  /\ UNCHANGED <<tree_nodes, max_num_nodes, max_total_claim>>

AddEntry(entry) ==
  LET nodes == AddNode(tree_nodes, NodeOf(entry))
  IN  /\ status = "building"
      /\ Len(csv_entries) < MaxEntries
      /\ csv_entries' = Append(csv_entries, entry)
      /\ tree_nodes' = nodes
      /\ status' = IF /\ FieldsFit(NodeOf(entry))
                      /\ \A k \in DOMAIN nodes : FieldsFit(nodes[k])
                   THEN "building" ELSE "panic"
      /\ UNCHANGED <<max_num_nodes, max_total_claim>>

(* validate, on what new has just computed; that every proof verifies is    *)
(* ProofsComplete of MerkleTree.                                            *)
Valid(nodes, num, total) ==
  /\ num <= MaxNodes
  /\ Len(nodes) = num
  /\ Cardinality({nodes[k].claimant : k \in DOMAIN nodes}) = Len(nodes)
  /\ GetMaxTotalClaim(nodes) = total

(* Hashing the nodes sums their categories. *)
SumsFit(nodes) ==
  /\ \A k \in DOMAIN nodes :
       AmountUnlocked(nodes[k]) \in U64 /\ AmountLocked(nodes[k]) \in U64
  /\ GetMaxTotalClaim(nodes) \in U64

(* An empty tree has no root. *)
Finish ==
  /\ status = "building"
  /\ \/ /\ ~SumsFit(tree_nodes)
        /\ status' = "panic"
        /\ UNCHANGED <<max_num_nodes, max_total_claim>>
     \/ /\ tree_nodes = <<>>
        /\ status' = "root_error"
        /\ UNCHANGED <<max_num_nodes, max_total_claim>>
     \/ /\ SumsFit(tree_nodes)
        /\ tree_nodes # <<>>
        /\ max_num_nodes' = Len(tree_nodes)
        /\ max_total_claim' = GetMaxTotalClaim(tree_nodes)
        /\ status' = IF Valid(tree_nodes, max_num_nodes', max_total_claim')
                     THEN "built" ELSE "validation_error"
  /\ UNCHANGED <<csv_entries, tree_nodes>>

Next ==
  \/ OpenFails
  \/ AddUnreadable
  \/ \E entry \in CsvEntries : AddEntry(entry)
  \/ Finish

Spec == Init /\ [][Next]_vars

-----------------------------------------------------------------------------
(* What the rows say, without any bound on the numbers. *)
RowsOf(k, c) ==
  {r \in DOMAIN csv_entries : csv_entries[r].claimant = k /\ csv_entries[r].category = c}
UnlockedOf(rows) ==
  SumFunctionOnSet([r \in rows |-> csv_entries[r].amount_unlocked], rows) * TokenUnit
LockedOf(rows) ==
  SumFunctionOnSet([r \in rows |-> csv_entries[r].amount_locked], rows) * TokenUnit
GrandTotal == UnlockedOf(DOMAIN csv_entries) + LockedOf(DOMAIN csv_entries)

(* As long as the tool has not panicked there is one node for each claimant *)
(* with a row, and it holds, category by category, exactly what the rows of *)
(* the claimant add up to, wherever they are in the file.                   *)
RowsCombined ==
  status # "panic" =>
    /\ \A i, j \in DOMAIN tree_nodes :
         tree_nodes[i].claimant = tree_nodes[j].claimant => i = j
    /\ {tree_nodes[i].claimant : i \in DOMAIN tree_nodes}
         = {csv_entries[r].claimant : r \in DOMAIN csv_entries}
    /\ \A i \in DOMAIN tree_nodes, c \in AirdropCategory :
         LET rows == RowsOf(tree_nodes[i].claimant, c)
         IN  /\ tree_nodes[i].unlocked[c] = UnlockedOf(rows)
             /\ tree_nodes[i].locked[c] = LockedOf(rows)

(* A finished tree leaves no row out, and has the caps the program needs to *)
(* serve all of it and no more: as many nodes as claimants, and the sum of  *)
(* all rows as the total (the premise CapsCoverTree of Distributor).        *)
CapsExact ==
  status = "built" =>
    /\ Unreadable \notin Range(csv_entries)
    /\ max_num_nodes = Cardinality({csv_entries[r].claimant : r \in DOMAIN csv_entries})
    /\ max_total_claim = GrandTotal
    /\ max_total_claim \in U64

(* The tool gives up only for a reason: it panics when a row is unreadable  *)
(* or the rows add up to more than a u64 holds, never on the way to a sum   *)
(* that fits, and what it has built fails validation only for its size.     *)
RefusalsJustified ==
  /\ status = "panic" => Unreadable \in Range(csv_entries) \/ GrandTotal > U64Max
  /\ status = "validation_error" =>
       Cardinality({csv_entries[r].claimant : r \in DOMAIN csv_entries}) > MaxNodes
  /\ status = "root_error" => csv_entries = <<>>
=============================================================================
