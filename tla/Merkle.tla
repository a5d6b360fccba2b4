------------------------------- MODULE Merkle -------------------------------
(***************************************************************************)
(* The Merkle witnesses of attestly-core (crates/attestly-core/src/        *)
(* merkle.rs): a tree over the leaf hashes of a batch, the sibling path of *)
(* one leaf, and the fold of a leaf up its path.                           *)
(*                                                                         *)
(* A hash is a term: a leaf hash is a value of its own, the hash of a pair *)
(* is the pair, so that SHA-256 is collision free.  rs_merkle is external  *)
(* and modelled from how merkle.rs relies on it: a node without a sibling  *)
(* is promoted unchanged, and a proof lists the sibling hashes bottom-up   *)
(* without saying on which layer, or on which side, each of them sits;     *)
(* build_proof_path recovers both from the index and the number of leaves. *)
(***************************************************************************)
EXTENDS Naturals, Sequences

CONSTANTS
  LeafHashes,   \* values of attestation_leaf_hash
  MaxLeaves     \* bound: how many leaves a batch has

ASSUME MerkleAssumption == MaxLeaves \in Nat

VARIABLES
  pc,          \* the operation in progress, or its outcome
  leaves,      \* the leaf hashes of the batch
  index,       \* the leaf whose inclusion is proved, counted from 0
  layers,      \* rs_merkle: the layers of the tree, leaves first
  hashes,      \* rs_merkle: the sibling hashes of the proof
  gathered,    \* rs_merkle: the index on each layer visited for the proof
  idx,         \* build_proof_path: index on the current level
  levelSize,   \* build_proof_path: nodes on the current level
  next,        \* build_proof_path: how many hashes were consumed
  path,        \* the proof path: hashes with positions
  claim,       \* verify_inclusion: the attestation hash
  current,     \* verify_inclusion: the running hash
  folded       \* verify_inclusion: how much of the path was folded

treeVars  == <<leaves, index, layers>>
proofVars == <<hashes, gathered>>
pathVars  == <<idx, levelSize, next, path>>
foldVars  == <<claim, current, folded>>
vars == <<pc, treeVars, proofVars, pathVars, foldVars>>

Batches == UNION {[1 .. n -> LeafHashes] : n \in 0 .. MaxLeaves}
NoHash  == <<>>

Init ==
  /\ pc = "build_tree"
  /\ leaves \in Batches
  /\ index \in 0 .. MaxLeaves
  /\ layers = <<>>
  /\ hashes = <<>> /\ gathered = <<>>
  /\ idx = 0 /\ levelSize = 0 /\ next = 0 /\ path = <<>>
  /\ claim = NoHash /\ current = NoHash /\ folded = 0

Top(seq)  == seq[Len(seq)]
Half(n)   == n \div 2
HalfUp(n) == (n + 1) \div 2

(* A lone last node is promoted, never paired with itself. *)
LayerAbove(layer) ==
  [i \in 1 .. HalfUp(Len(layer)) |->
     IF 2 * i <= Len(layer) THEN <<layer[2 * i - 1], layer[2 * i]>> ELSE layer[2 * i - 1]]

(* build_tree *)
RejectEmpty ==
  /\ pc = "build_tree"
  /\ leaves = <<>>
  /\ pc' = "Empty"
  /\ UNCHANGED <<treeVars, proofVars, pathVars, foldVars>>

HashLeaves ==
  /\ pc = "build_tree"
  /\ leaves # <<>>
  /\ layers' = <<leaves>>
  /\ pc' = "layers"
  /\ UNCHANGED <<leaves, index, proofVars, pathVars, foldVars>>

HashLayer ==
  /\ pc = "layers"
  /\ Len(Top(layers)) > 1
  /\ layers' = Append(layers, LayerAbove(Top(layers)))
  /\ UNCHANGED <<pc, leaves, index, proofVars, pathVars, foldVars>>

Root == Top(layers)[1]

----------------------------------------------------------------------------
(* inclusion_proof *)
RejectIndex ==
  /\ pc = "layers"
  /\ Len(Top(layers)) = 1
  /\ index >= Len(leaves)
  /\ pc' = "IndexOutOfRange"
  /\ UNCHANGED <<treeVars, proofVars, pathVars, foldVars>>

StartProof ==
  /\ pc = "layers"
  /\ Len(Top(layers)) = 1
  /\ index < Len(leaves)
  /\ gathered' = <<index>>
  /\ pc' = "gather"
  /\ UNCHANGED <<treeVars, hashes, pathVars, foldVars>>

Sibling(i) == IF i % 2 = 0 THEN i + 1 ELSE i - 1

(* rs_merkle visits one layer: the sibling hash, if that node exists. *)
GatherHash ==
  /\ pc = "gather"
  /\ Len(gathered) <= Len(layers)
  /\ LET layer == layers[Len(gathered)]
         i     == Top(gathered)
     IN  /\ hashes' = IF Sibling(i) < Len(layer)
                      THEN Append(hashes, layer[Sibling(i) + 1]) ELSE hashes
         /\ gathered' = Append(gathered, Half(i))
  /\ UNCHANGED <<pc, treeVars, pathVars, foldVars>>

StartPath ==
  /\ pc = "gather"
  /\ Len(gathered) > Len(layers)
  /\ idx' = index /\ levelSize' = Len(leaves)
  /\ pc' = "path"
  /\ UNCHANGED <<treeVars, proofVars, next, path, foldVars>>

(* has_sibling: an even index pairs to its right, if there is a node. *)
AlwaysHasSibling(i, size) == TRUE                        \* mutant
HasSibling(i, size) == i % 2 = 1 \/ i + 1 < size

RoundedDown(n) == n \div 2                               \* mutant
NextLevelSize(n) == HalfUp(n)

Side(i) == IF i % 2 = 0 THEN "Right" ELSE "Left"

(* One turn of the loop of build_proof_path; it breaks if the hashes end. *)
BuildLevel ==
  /\ pc = "path"
  /\ levelSize > 1
  /\ IF HasSibling(idx, levelSize) /\ next = Len(hashes)
     THEN /\ pc' = "proved"
          /\ UNCHANGED pathVars
     ELSE /\ IF HasSibling(idx, levelSize)
             THEN /\ path' = Append(path, [hash |-> hashes[next + 1], position |-> Side(idx)])
                  /\ next' = next + 1
             ELSE UNCHANGED <<path, next>>
          /\ idx' = Half(idx)
          /\ levelSize' = NextLevelSize(levelSize)
          /\ UNCHANGED pc
  /\ UNCHANGED <<treeVars, proofVars, foldVars>>

EndPath ==
  /\ pc = "path"
  /\ levelSize <= 1
  /\ pc' = "proved"
  /\ UNCHANGED <<treeVars, proofVars, pathVars, foldVars>>

----------------------------------------------------------------------------
(* verify_inclusion against the root of the batch.  The hash in the proof  *)
(* and the claimed one may be of any attestation: get_proof re-derives the *)
(* one, an offline auditor is handed the other.                            *)
StartVerify(h, l) ==
  /\ pc = "proved"
  /\ claim' = l
  /\ IF h # l
     THEN /\ pc' = "rejected"
          /\ UNCHANGED current
     ELSE /\ pc' = "fold"
          /\ current' = l
  /\ UNCHANGED <<treeVars, proofVars, pathVars, folded>>

IgnoresPosition(node, hash) == <<hash, node.hash>>       \* mutant
Concat(node, hash) ==
  IF node.position = "Left" THEN <<node.hash, hash>> ELSE <<hash, node.hash>>

FoldNode ==
  /\ pc = "fold"
  /\ folded < Len(path)
  /\ current' = Concat(path[folded + 1], current)
  /\ folded' = folded + 1
  /\ UNCHANGED <<pc, treeVars, proofVars, pathVars, claim>>

RootMatches == current = Root

CompareRoot ==
  /\ pc = "fold"
  /\ folded = Len(path)
  /\ pc' = IF RootMatches THEN "accepted" ELSE "rejected"
  /\ UNCHANGED <<treeVars, proofVars, pathVars, foldVars>>

Next ==
  \/ RejectEmpty \/ HashLeaves \/ HashLayer
  \/ RejectIndex \/ StartProof \/ GatherHash \/ StartPath \/ BuildLevel \/ EndPath
  \/ \E h, l \in LeafHashes : StartVerify(h, l)
  \/ FoldNode \/ CompareRoot

Spec == Init /\ [][Next]_vars

----------------------------------------------------------------------------
(* build_proof_path, which sees only an index and a count, and rs_merkle,  *)
(* which sees the tree, agree on every level: at the end of the path all   *)
(* hashes were used, none was missing, and the walk has reached the root.  *)
HashesAligned ==
  /\ pc \in {"proved", "fold", "accepted"} => next = Len(hashes) /\ levelSize = 1 /\ idx = 0
  /\ pc = "path" =>
       \E k \in DOMAIN layers : /\ levelSize = Len(layers[k])
                                /\ idx = gathered[k]
                                /\ idx < levelSize

(* An inclusion proof convinces of the leaf it was made for, at every      *)
(* index of every size of batch, and of no other leaf.                     *)
ProofsConvince ==
  /\ pc = "accepted" => claim = leaves[index + 1]
  /\ pc = "fold" /\ claim = leaves[index + 1] /\ folded = Len(path) => RootMatches

(* The root of a batch by recursion on the leaves instead of by layers, as *)
(* a reference: of n > 1 leaves, those on the left are the largest perfect *)
(* tree that leaves some for the right, which is what promoting lone nodes *)
(* comes to.  root[n][lo] is the root of the n leaves from leaf lo on.     *)
PowerOfTwo(p) == \A c, d \in 1 .. p : c * d = p => d = 1 \/ d % 2 = 0
PerfectBelow(n) == CHOOSE p \in 1 .. n : p < n /\ n <= 2 * p /\ PowerOfTwo(p)

RootOf(seq) ==
  LET root[n \in 1 .. Len(seq)] ==
        [lo \in 1 .. Len(seq) - n + 1 |->
           IF n = 1 THEN seq[lo]
           ELSE LET p == PerfectBelow(n) IN <<root[p][lo], root[n - p][lo + p]>>]
  IN root[Len(seq)][1]

(* The abstraction of module Storage: folding any leaf up a path gives the *)
(* root of the batch with that leaf put at the position of the proof.      *)
FoldIsReplacement ==
  pc = "fold" /\ folded = Len(path) => current = RootOf([leaves EXCEPT ![index + 1] = claim])
=============================================================================
