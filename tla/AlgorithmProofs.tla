-------------------------- MODULE AlgorithmProofs --------------------------
(***************************************************************************)
(* The algorithms that attestations rest on, for inputs of every size: the *)
(* Merkle tree and its proofs of inclusion, what a Worker signs and a      *)
(* Verifier makes of it, and the calculator that both of them use.         *)
(***************************************************************************)
EXTENDS Merkle, Agents, Calculator, NaturalsInduction, WellFoundedInduction,
        FiniteSetTheorems, SequenceTheorems, TLAPS

(* Induction on the natural numbers, for the members of a set.             *)
LEMMA AllNaturals ==
  ASSUME NEW S \in SUBSET Nat, \A n \in Nat : 0 .. n - 1 \subseteq S => n \in S
  PROVE  \A n \in Nat : n \in S
<1>1. CASE Nat \ S = {}
  BY <1>1
<1>2. CASE Nat \ S # {}
  <2>1. PICK n \in Nat \ S : \A m \in Nat \ S : ~ <<m, n>> \in OpToRel(<, Nat)
    <3>1. Nat \ S \in SUBSET Nat
      OBVIOUS
    <3> QED
      BY <1>2, <3>1, NatLessThanWellFounded, WFMin
  <2>2. ASSUME NEW m \in 0 .. n - 1 PROVE m \in S
    <3>1. m \in Nat /\ m < n
      OBVIOUS
    <3> QED
      BY <2>1, <3>1 DEF OpToRel
  <2> QED
    BY <2>2
<1> QED
  BY <1>1, <1>2

----------------------------------------------------------------------------
(* HashesAligned and ProofsConvince of module Merkle, for batches of every *)
(* size and every leaf.                                                    *)
(*                                                                         *)
(* The proof lists only the siblings that exist, so what relates it to the *)
(* tree is a count: the sibling that the walk meets at level k, if it has  *)
(* one there, is hash number Count(k) of the proof and node number Count(k)*)
(* of the path.  Between two siblings the node of the walk is promoted     *)
(* unchanged (PromotedOK), so that the running hash, which knows of no     *)
(* levels, may be compared at any level with the same count.               *)

IsSeq(s) == \E S : s \in Seq(S)

(* The walk g through layers l: its node on level k, its sibling, and how  *)
(* many siblings it has met up to there.                                   *)
Node(g, l, k) == l[k][g[k] + 1]
SiblingNode(g, l, k) == l[k][Sibling(g[k]) + 1]
Paired(g, l, k) == Sibling(g[k]) < Len(l[k])
PairedUpTo(g, l, k) == {j \in 1 .. k : Paired(g, l, j)}
Count(g, l, k) == Cardinality(PairedUpTo(g, l, k))

Built    == {"layers", "IndexOutOfRange", "gather", "path", "proved", "fold", "accepted", "rejected"}
Located  == {"gather", "path", "proved", "fold", "accepted", "rejected"}
Walked   == {"path", "proved", "fold", "accepted", "rejected"}
Verifying == {"fold", "accepted", "rejected"}

(* The layers are those of the batch, up to the root when a proof starts.  *)
LayersOK ==
  /\ IsSeq(leaves) /\ index \in Nat /\ IsSeq(layers)
  /\ pc \notin Built => layers = <<>>
  /\ pc \in Built =>
       /\ Len(layers) >= 1 /\ layers[1] = leaves
       /\ \A k \in 1 .. Len(layers) : IsSeq(layers[k]) /\ Len(layers[k]) >= 1
       /\ \A k \in 1 .. Len(layers) - 1 :
            layers[k + 1] = LayerAbove(layers[k]) /\ Len(layers[k]) > 1
  /\ pc \in Located => Len(layers[Len(layers)]) = 1 /\ index < Len(leaves)

(* The walk of g through them: up by one parent at a time.                 *)
WalkOK(g, l, first) ==
  /\ IsSeq(g) /\ Len(g) >= 1 /\ Len(g) <= Len(l) + 1 /\ g[1] = first
  /\ \A k \in 1 .. Len(g) - 1 : g[k + 1] = Half(g[k])
  /\ \A k \in 1 .. Len(g) : g[k] \in Nat /\ (k <= Len(l) => g[k] < Len(l[k]))

(* The hashes h of the proof are the siblings it met, each at its count.   *)
HashesOK(h, g, l) ==
  /\ IsSeq(h) /\ Len(h) = Count(g, l, Len(g) - 1)
  /\ \A k \in 1 .. Len(g) - 1 : Paired(g, l, k) => h[Count(g, l, k)] = SiblingNode(g, l, k)
  /\ \A p \in 1 .. Len(h) : \E k \in 1 .. Len(g) - 1 : Paired(g, l, k) /\ Count(g, l, k) = p

PromotedOK(g, l) ==
  \A a, b \in 1 .. Len(g) :
    a <= Len(l) /\ b <= Len(l) /\ Count(g, l, a - 1) = Count(g, l, b - 1) =>
      Node(g, l, a) = Node(g, l, b)

GatheredOK ==
  /\ pc \notin Located => gathered = <<>> /\ hashes = <<>>
  /\ pc \in Located =>
       /\ WalkOK(gathered, layers, index)
       /\ HashesOK(hashes, gathered, layers)
       /\ PromotedOK(gathered, layers)
  /\ pc \in Walked => Len(gathered) = Len(layers) + 1

(* build_proof_path has done the levels below k.                           *)
AtLevel(k) ==
  /\ levelSize = Len(layers[k]) /\ idx = gathered[k]
  /\ Len(path) = Count(gathered, layers, k - 1)
  /\ \A j \in 1 .. k - 1 : Paired(gathered, layers, j) =>
       path[Count(gathered, layers, j)] =
         [hash |-> SiblingNode(gathered, layers, j), position |-> Side(gathered[j])]

PathOK ==
  /\ IsSeq(path) /\ next = Len(path)
  /\ pc \notin Walked => path = <<>>
  /\ pc = "path" => \E k \in 1 .. Len(layers) : AtLevel(k)
  /\ pc \in Walked \ {"path"} => AtLevel(Len(layers))

(* The running hash is the node of the walk, at each level with its count, *)
(* if the claim is the leaf, and is not if it is another.                  *)
FoldOK ==
  /\ pc \notin Verifying => folded = 0
  /\ pc = "fold" =>
       /\ folded \in 0 .. Len(path)
       /\ \A k \in 1 .. Len(layers) : Count(gathered, layers, k - 1) = folded =>
            (current = Node(gathered, layers, k) <=> claim = leaves[index + 1])
  /\ pc = "accepted" => claim = leaves[index + 1]

MerkleInv == LayersOK /\ GatheredOK /\ PathOK /\ FoldOK

----------------------------------------------------------------------------
(* Sequences, parents and counts.                                          *)
LEMMA SeqFacts ==
  ASSUME NEW s, IsSeq(s)
  PROVE  Len(s) \in Nat /\ DOMAIN s = 1 .. Len(s)
<1>1. PICK S : s \in Seq(S)
  BY DEF IsSeq
<1> QED
  BY <1>1, LenProperties

LEMMA Appended ==
  ASSUME NEW s, IsSeq(s), NEW x
  PROVE  /\ IsSeq(Append(s, x)) /\ Len(Append(s, x)) = Len(s) + 1
         /\ Append(s, x)[Len(s) + 1] = x
         /\ \A i \in 1 .. Len(s) : Append(s, x)[i] = s[i]
<1>1. PICK S : s \in Seq(S)
  BY DEF IsSeq
<1>2. Len(s) \in Nat /\ s \in [1 .. Len(s) -> S]
  BY <1>1, LenProperties
<1>3. s \in [1 .. Len(s) -> S \cup {x}]
  BY <1>2
<1>4. s \in Seq(S \cup {x})
  BY <1>2, <1>3, SeqDef
<1>5. Append(s, x) \in Seq(S \cup {x})
  BY <1>4, AppendProperties
<1> QED
  BY <1>4, <1>5, AppendProperties DEF IsSeq

LEMMA Empty == IsSeq(<<>>) /\ Len(<<>>) = 0
<1>1. <<>> \in Seq({})
  BY EmptySeq
<1> QED
  BY <1>1, EmptySeq DEF IsSeq

LEMMA Parents ==
  ASSUME NEW n \in Nat
  PROVE  /\ Half(n) \in Nat /\ HalfUp(n) \in Nat /\ NextLevelSize(n) = HalfUp(n)
         /\ n >= 1 => HalfUp(n) >= 1
         /\ n % 2 = 0 => n = 2 * Half(n) /\ Sibling(n) = n + 1
         /\ n % 2 # 0 => n % 2 = 1 /\ n = 2 * Half(n) + 1 /\ Sibling(n) = n - 1
         /\ n = 2 * HalfUp(n) \/ n + 1 = 2 * HalfUp(n)
BY DEF Half, HalfUp, NextLevelSize, Sibling

(* What is above a node: its pair, or the node itself.                     *)
LEMMA NodeAbove ==
  ASSUME NEW layer, IsSeq(layer), NEW i \in Nat, i < Len(layer)
  PROVE  /\ IsSeq(LayerAbove(layer)) /\ Len(LayerAbove(layer)) = HalfUp(Len(layer))
         /\ Half(i) < HalfUp(Len(layer))
         /\ HasSibling(i, Len(layer)) <=> Sibling(i) < Len(layer)
         /\ Sibling(i) < Len(layer) =>
              LayerAbove(layer)[Half(i) + 1] =
                IF i % 2 = 0 THEN <<layer[i + 1], layer[Sibling(i) + 1]>>
                             ELSE <<layer[Sibling(i) + 1], layer[i + 1]>>
         /\ ~(Sibling(i) < Len(layer)) => LayerAbove(layer)[Half(i) + 1] = layer[i + 1]
<1> DEFINE n == Len(layer)
           above == LayerAbove(layer)
<1>1. n \in Nat /\ i < n
  BY SeqFacts
<1> HIDE DEF n
<1>2. HalfUp(n) \in Nat
  BY <1>1, Parents
<1>3. above = [j \in 1 .. HalfUp(n) |->
                 IF 2 * j <= n THEN <<layer[2 * j - 1], layer[2 * j]>> ELSE layer[2 * j - 1]]
  BY DEF LayerAbove, n
<1>4. above \in [1 .. HalfUp(n) -> {above[j] : j \in 1 .. HalfUp(n)}]
  BY <1>3
<1>5. above \in Seq({above[j] : j \in 1 .. HalfUp(n)})
  BY <1>2, <1>4, SeqDef
<1>6. IsSeq(above)
  BY <1>5 DEF IsSeq
<1>7. DOMAIN above = 1 .. HalfUp(n) /\ DOMAIN above = 1 .. Len(above) /\ Len(above) \in Nat
  BY <1>3, <1>6, SeqFacts
<1>8. Len(above) = HalfUp(n)
  BY <1>2, <1>7
<1>9. Half(i) \in Nat /\ Half(i) < HalfUp(n)
  BY <1>1 DEF Half, HalfUp
<1>10. Half(i) + 1 \in 1 .. HalfUp(n)
  BY <1>2, <1>9
<1>11. above[Half(i) + 1] = IF 2 * (Half(i) + 1) <= n
                            THEN <<layer[2 * (Half(i) + 1) - 1], layer[2 * (Half(i) + 1)]>>
                            ELSE layer[2 * (Half(i) + 1) - 1]
  BY <1>3, <1>10
<1> HIDE DEF above
<1>12. CASE i % 2 = 0
  <2>1. i = 2 * Half(i) /\ Sibling(i) = i + 1
    BY <1>12, Parents
  <2>2. 2 * (Half(i) + 1) - 1 = i + 1 /\ 2 * (Half(i) + 1) = i + 2
    BY <1>9, <2>1
  <2>3. HasSibling(i, n) <=> Sibling(i) < n
    BY <1>12, <2>1 DEF HasSibling
  <2> QED
    BY <1>1, <1>6, <1>8, <1>9, <1>11, <1>12, <2>1, <2>2, <2>3 DEF n, above
<1>13. CASE i % 2 # 0
  <2>1. i % 2 = 1 /\ i = 2 * Half(i) + 1 /\ Sibling(i) = i - 1
    BY <1>13, Parents
  <2>2. 2 * (Half(i) + 1) - 1 = i /\ 2 * (Half(i) + 1) = i + 1 /\ Sibling(i) + 1 = i
    BY <1>9, <2>1
  <2>3. i + 1 <= n /\ Sibling(i) < n
    BY <1>1, <2>1
  <2>4. HasSibling(i, n)
    BY <2>1 DEF HasSibling
  <2> QED
    BY <1>6, <1>8, <1>9, <1>11, <1>13, <2>2, <2>3, <2>4 DEF n, above
<1> QED
  BY <1>12, <1>13

LEMMA Counts ==
  ASSUME NEW g, NEW l, NEW k \in Nat
  PROVE  /\ Count(g, l, k) \in Nat
         /\ k = 0 => Count(g, l, k) = 0
         /\ \A j \in 0 .. k : Count(g, l, j) <= Count(g, l, k)
         /\ k >= 1 /\ Paired(g, l, k) => Count(g, l, k) = Count(g, l, k - 1) + 1
         /\ k >= 1 /\ ~Paired(g, l, k) => Count(g, l, k) = Count(g, l, k - 1)
<1>1. \A j \in Nat : IsFiniteSet(PairedUpTo(g, l, j)) /\ Count(g, l, j) \in Nat
  <2> SUFFICES ASSUME NEW j \in Nat
               PROVE  IsFiniteSet(PairedUpTo(g, l, j)) /\ Count(g, l, j) \in Nat
    OBVIOUS
  <2>1. IsFiniteSet(1 .. j)
    BY FS_Interval
  <2>2. PairedUpTo(g, l, j) \subseteq 1 .. j
    BY DEF PairedUpTo
  <2> QED
    BY <2>1, <2>2, FS_Subset, FS_CardinalityType DEF Count
<1>2. ASSUME k = 0 PROVE Count(g, l, k) = 0
  <2>1. PairedUpTo(g, l, k) = {}
    BY <1>2 DEF PairedUpTo
  <2> QED
    BY <2>1, FS_EmptySet DEF Count
<1>3. ASSUME NEW j \in 0 .. k PROVE Count(g, l, j) <= Count(g, l, k)
  <2>1. PairedUpTo(g, l, j) \subseteq PairedUpTo(g, l, k)
    BY DEF PairedUpTo
  <2> QED
    BY <1>1, <2>1, FS_Subset DEF Count
<1>4. ASSUME k >= 1, Paired(g, l, k) PROVE Count(g, l, k) = Count(g, l, k - 1) + 1
  <2>1. /\ PairedUpTo(g, l, k) = PairedUpTo(g, l, k - 1) \cup {k}
        /\ k \notin PairedUpTo(g, l, k - 1) /\ k - 1 \in Nat
    BY <1>4 DEF PairedUpTo
  <2> QED
    BY <1>1, <2>1, FS_AddElement DEF Count
<1>5. ASSUME k >= 1, ~Paired(g, l, k) PROVE Count(g, l, k) = Count(g, l, k - 1)
  <2>1. PairedUpTo(g, l, k) = PairedUpTo(g, l, k - 1)
    BY <1>5 DEF PairedUpTo
  <2> QED
    BY <2>1 DEF Count
<1> QED
  BY <1>1, <1>2, <1>3, <1>4, <1>5

(* What of a walk does not change when a level is added to it.             *)
LEMMA WalkExtends ==
  ASSUME NEW g, IsSeq(g), NEW x, NEW l, NEW k \in 0 .. Len(g)
  PROVE  /\ Count(Append(g, x), l, k) = Count(g, l, k)
         /\ k >= 1 => /\ Paired(Append(g, x), l, k) <=> Paired(g, l, k)
                      /\ SiblingNode(Append(g, x), l, k) = SiblingNode(g, l, k)
                      /\ Node(Append(g, x), l, k) = Node(g, l, k)
<1>1. \A j \in 1 .. k : Append(g, x)[j] = g[j]
  BY Appended, SeqFacts
<1>2. PairedUpTo(Append(g, x), l, k) = PairedUpTo(g, l, k)
  BY <1>1 DEF PairedUpTo, Paired
<1> QED
  BY <1>1, <1>2 DEF Count, Paired, SiblingNode, Node

(* The node above a promoted one is the same; the root has no sibling.     *)
LEMMA OneLevelUp ==
  ASSUME LayersOK, pc \in Located, NEW g, WalkOK(g, layers, index), NEW k \in 1 .. Len(g), k <= Len(layers)
  PROVE  /\ IsSeq(layers[k]) /\ g[k] \in Nat /\ g[k] < Len(layers[k])
         /\ Paired(g, layers, k) => k < Len(layers)
         /\ k < Len(layers) =>
              /\ Half(g[k]) < Len(layers[k + 1])
              /\ Paired(g, layers, k) =>
                   layers[k + 1][Half(g[k]) + 1] =
                     IF g[k] % 2 = 0 THEN <<Node(g, layers, k), SiblingNode(g, layers, k)>>
                                     ELSE <<SiblingNode(g, layers, k), Node(g, layers, k)>>
              /\ ~Paired(g, layers, k) => layers[k + 1][Half(g[k]) + 1] = Node(g, layers, k)
<1>1. Len(layers) \in Nat /\ Len(g) \in Nat /\ pc \in Built
  BY SeqFacts DEF LayersOK, WalkOK, Located, Built
<1>2. k \in 1 .. Len(layers)
  BY <1>1
<1>3. IsSeq(layers[k]) /\ g[k] \in Nat /\ g[k] < Len(layers[k]) /\ Len(layers[k]) \in Nat
  BY <1>1, <1>2, SeqFacts DEF LayersOK, WalkOK
<1>4. ASSUME Paired(g, layers, k) PROVE k < Len(layers)
  <2>1. CASE k = Len(layers)
    <3>1. Len(layers[k]) = 1
      BY <2>1 DEF LayersOK
    <3>2. g[k] = 0
      BY <1>3, <3>1
    <3>3. Sibling(g[k]) = 1
      BY <3>2 DEF Sibling
    <3> QED
      BY <1>4, <3>1, <3>3 DEF Paired
  <2> QED
    BY <1>1, <1>2, <2>1
<1>5. ASSUME k < Len(layers)
      PROVE  layers[k + 1] = LayerAbove(layers[k])
  BY <1>1, <1>2, <1>5 DEF LayersOK
<1> QED
  BY <1>3, <1>4, <1>5, NodeAbove DEF Paired, Node, SiblingNode

----------------------------------------------------------------------------
(* build_tree                                                              *)
LEMMA BuildKeeps ==
  ASSUME MerkleInv, RejectEmpty \/ HashLeaves \/ HashLayer \/ RejectIndex
  PROVE  MerkleInv'
<1>1. /\ pc \notin Located /\ pc' \notin Located
      /\ UNCHANGED <<leaves, index, proofVars, pathVars, foldVars>>
  BY DEF RejectEmpty, HashLeaves, HashLayer, RejectIndex, Located, treeVars
<1>2. /\ pc \notin Walked /\ pc' \notin Walked /\ pc \notin Verifying /\ pc' \notin Verifying
      /\ pc' # "path" /\ pc' # "fold" /\ pc' # "accepted"
  BY <1>1 DEF Located, Walked, Verifying
<1>3. GatheredOK' /\ PathOK' /\ FoldOK'
  BY <1>1, <1>2 DEF MerkleInv, GatheredOK, PathOK, FoldOK, proofVars, pathVars, foldVars
<1>4. IsSeq(leaves) /\ IsSeq(layers) /\ index \in Nat
  BY DEF MerkleInv, LayersOK
<1>5. LayersOK'
  <2>1. CASE RejectEmpty
    BY <1>1, <2>1 DEF RejectEmpty, MerkleInv, LayersOK, Built, treeVars
  <2>2. CASE HashLeaves
    <3>1. IsSeq(layers') /\ Len(layers') = 1 /\ layers'[1] = leaves
      <4>1. layers' = <<leaves>> /\ layers' \in Seq({leaves})
        BY <2>2 DEF HashLeaves
      <4> QED
        BY <4>1 DEF IsSeq
    <3>2. Len(leaves) >= 1
      <4>1. PICK S : leaves \in Seq(S)
        BY <1>4 DEF IsSeq
      <4> QED
        BY <2>2, <4>1, EmptySeq, LenProperties DEF HashLeaves
    <3> QED
      BY <1>1, <1>4, <2>2, <3>1, <3>2 DEF HashLeaves, LayersOK, Built, Located
  <2>3. CASE HashLayer
    <3> DEFINE n == Len(layers)
               top == layers[n]
    <3>1. /\ n \in Nat /\ n >= 1 /\ layers[1] = leaves
          /\ \A k \in 1 .. n : IsSeq(layers[k]) /\ Len(layers[k]) >= 1
          /\ \A k \in 1 .. n - 1 : layers[k + 1] = LayerAbove(layers[k]) /\ Len(layers[k]) > 1
          /\ layers' = Append(layers, LayerAbove(top)) /\ Len(top) > 1 /\ pc' = "layers"
      BY <1>4, <2>3, SeqFacts DEF HashLayer, MerkleInv, LayersOK, Built, Top
    <3>2. /\ IsSeq(layers') /\ Len(layers') = n + 1 /\ layers'[n + 1] = LayerAbove(top)
          /\ \A k \in 1 .. n : layers'[k] = layers[k]
      BY <1>4, <3>1, Appended
    <3>3. IsSeq(top) /\ Len(top) \in Nat
      BY <3>1, SeqFacts
    <3>4. IsSeq(LayerAbove(top)) /\ Len(LayerAbove(top)) = HalfUp(Len(top))
      BY <3>1, <3>3, NodeAbove, 0 < Len(top)
    <3>5. Len(LayerAbove(top)) >= 1
      <4>1. \A m \in Nat : m > 1 => HalfUp(m) >= 1
        BY DEF HalfUp
      <4> QED
        BY <3>1, <3>3, <3>4, <4>1
    <3> HIDE DEF n, top
    <3>6. \A k \in 1 .. n + 1 : IsSeq(layers'[k]) /\ Len(layers'[k]) >= 1
      BY <3>1, <3>2, <3>4, <3>5
    <3>7. layers'[n] = top
      BY <3>1, <3>2 DEF top
    <3>8. \A k \in 1 .. n : layers'[k + 1] = LayerAbove(layers'[k]) /\ Len(layers'[k]) > 1
      <4> TAKE k \in 1 .. n
      <4>1. CASE k = n
        BY <3>1, <3>2, <3>7, <4>1
      <4>2. CASE k # n
        BY <3>1, <3>2, <4>2
      <4> QED
        BY <4>1, <4>2
    <3>9. layers'[1] = leaves
      BY <3>1, <3>2
    <3>10. Len(layers') - 1 = n /\ Len(layers') >= 1
      BY <3>1, <3>2
    <3> QED
      BY <1>1, <1>4, <3>1, <3>2, <3>6, <3>8, <3>9, <3>10 DEF LayersOK, Built, Located
  <2>4. CASE RejectIndex
    BY <1>1, <2>4 DEF RejectIndex, MerkleInv, LayersOK, Built, treeVars
  <2> QED
    BY <2>1, <2>2, <2>3, <2>4
<1> QED
  BY <1>3, <1>5 DEF MerkleInv

----------------------------------------------------------------------------
(* inclusion_proof                                                         *)
LEMMA StartProofKeeps ==
  ASSUME MerkleInv, StartProof
  PROVE  MerkleInv'
<1>1. /\ pc = "layers" /\ pc' = "gather" /\ gathered' = <<index>>
      /\ UNCHANGED <<leaves, index, layers, hashes, pathVars, foldVars>>
      /\ Len(layers[Len(layers)]) = 1 /\ index < Len(leaves)
  BY DEF StartProof, treeVars, Top
<1>2. LayersOK'
  BY <1>1 DEF MerkleInv, LayersOK, Built, Located
<1>3. PathOK' /\ FoldOK'
  BY <1>1 DEF MerkleInv, PathOK, FoldOK, pathVars, foldVars, Walked, Verifying
<1>4. IsSeq(gathered') /\ Len(gathered') = 1 /\ gathered'[1] = index
  <2>1. <<index>> \in Seq({index})
    OBVIOUS
  <2> QED
    BY <1>1, <2>1 DEF IsSeq
<1>5. WalkOK(gathered', layers', index')
  BY <1>1, <1>4 DEF MerkleInv, LayersOK, Built, WalkOK
<1>6. hashes' = <<>> /\ IsSeq(hashes') /\ Len(hashes') = 0
  BY <1>1, Empty DEF MerkleInv, GatheredOK, Located
<1>7. Count(gathered', layers', 0) = 0
  BY Counts
<1>8. HashesOK(hashes', gathered', layers')
  BY <1>4, <1>6, <1>7 DEF HashesOK
<1>9. PromotedOK(gathered', layers')
  BY <1>4 DEF PromotedOK
<1>10. GatheredOK'
  BY <1>1, <1>5, <1>8, <1>9 DEF GatheredOK, Located, Walked
<1> QED
  BY <1>2, <1>3, <1>10 DEF MerkleInv

LEMMA GatherKeeps ==
  ASSUME MerkleInv, GatherHash
  PROVE  MerkleInv'
<1> DEFINE n == Len(gathered)
           g == gathered
           l == layers
           h == hashes
           i == gathered[n]
           g2 == Append(gathered, Half(i))
<1>1. /\ pc = "gather" /\ UNCHANGED <<pc, leaves, index, layers, pathVars, foldVars>>
      /\ n <= Len(l) /\ gathered' = g2
      /\ hashes' = IF Paired(g, l, n) THEN Append(h, SiblingNode(g, l, n)) ELSE h
  BY DEF GatherHash, treeVars, Top, Paired, SiblingNode
<1>2. LayersOK' /\ PathOK' /\ FoldOK'
  BY <1>1 DEF MerkleInv, LayersOK, PathOK, FoldOK, pathVars, foldVars, Walked, Verifying
<1>3. /\ LayersOK /\ pc \in Located /\ WalkOK(g, l, index) /\ HashesOK(h, g, l) /\ PromotedOK(g, l)
      /\ IsSeq(g) /\ IsSeq(h) /\ n \in Nat /\ n >= 1 /\ Len(l) \in Nat /\ Len(h) \in Nat
  BY <1>1, SeqFacts DEF MerkleInv, GatheredOK, LayersOK, WalkOK, HashesOK, Located
<1>14. n \in 1 .. Len(g) /\ n <= Len(layers)
  BY <1>1, <1>3
<1>4. /\ i \in Nat /\ i < Len(l[n])
      /\ Paired(g, l, n) => n < Len(l)
      /\ n < Len(l) => /\ Half(i) < Len(l[n + 1])
                       /\ ~Paired(g, l, n) => l[n + 1][Half(i) + 1] = Node(g, l, n)
  BY <1>14, <1>3, OneLevelUp
<1>5. /\ IsSeq(g2) /\ Len(g2) = n + 1 /\ g2[n + 1] = Half(i)
      /\ \A k \in 1 .. n : g2[k] = g[k]
  BY <1>3, Appended
<1>6. \A k \in 0 .. n :
        /\ Count(g2, l, k) = Count(g, l, k)
        /\ k >= 1 => /\ Paired(g2, l, k) <=> Paired(g, l, k)
                     /\ SiblingNode(g2, l, k) = SiblingNode(g, l, k)
                     /\ Node(g2, l, k) = Node(g, l, k)
  BY <1>3, WalkExtends
<1>7. /\ Count(g, l, n - 1) \in Nat /\ Count(g, l, n) \in Nat /\ Len(h) = Count(g, l, n - 1)
      /\ Paired(g, l, n) => Count(g, l, n) = Count(g, l, n - 1) + 1
      /\ ~Paired(g, l, n) => Count(g, l, n) = Count(g, l, n - 1)
      /\ \A k \in 1 .. n : Count(g, l, k) <= Count(g, l, n)
      /\ \A k \in 0 .. n - 1 : Count(g, l, k) \in Nat /\ Count(g, l, k) <= Count(g, l, n - 1)
  BY <1>3, Counts DEF HashesOK
<1>8. Half(i) \in Nat
  BY <1>4, Parents
<1> HIDE DEF n, g, l, h, i, g2
<1>9. WalkOK(g2, l, index)
  <2>1. g2[1] = index /\ Len(g2) <= Len(l) + 1
    BY <1>1, <1>3, <1>5 DEF WalkOK, n
  <2>2. \A k \in 1 .. n : g2[k + 1] = Half(g2[k])
    <3> TAKE k \in 1 .. n
    <3>1. CASE k = n
      BY <1>3, <1>5, <3>1 DEF i, g, n
    <3>2. CASE k # n
      BY <1>3, <1>5, <3>2 DEF WalkOK, n, g
    <3> QED
      BY <3>1, <3>2
  <2>3. \A k \in 1 .. n + 1 : g2[k] \in Nat /\ (k <= Len(l) => g2[k] < Len(l[k]))
    <3> TAKE k \in 1 .. n + 1
    <3>1. CASE k = n + 1
      BY <1>3, <1>4, <1>5, <1>8, <3>1
    <3>2. CASE k # n + 1
      BY <1>3, <1>5, <3>2 DEF WalkOK, n, g
    <3> QED
      BY <3>1, <3>2
  <2> QED
    BY <1>3, <1>5, <2>1, <2>2, <2>3 DEF WalkOK
<1>10. HashesOK(hashes', g2, l)
  <2>1. IsSeq(hashes') /\ Len(hashes') = Count(g, l, n)
    BY <1>1, <1>3, <1>7, Appended
  <2>2. \A p \in 1 .. Len(h) : hashes'[p] = h[p]
    BY <1>1, <1>3, Appended
  <2>3. ASSUME NEW k \in 1 .. n, Paired(g, l, k)
        PROVE  hashes'[Count(g, l, k)] = SiblingNode(g, l, k)
    <3>1. CASE k = n
      BY <1>1, <1>3, <1>7, <2>3, <3>1, Appended
    <3>2. CASE k # n
      <4>1. k \in 1 .. n - 1 /\ k \in Nat /\ k - 1 \in Nat
        BY <1>3, <3>2
      <4>2. Count(g, l, k) = Count(g, l, k - 1) + 1 /\ Count(g, l, k - 1) \in Nat
        BY <2>3, <4>1, Counts
      <4>3. Count(g, l, k) \in 1 .. Len(h)
        BY <1>7, <4>1, <4>2
      <4> QED
        BY <1>3, <2>2, <2>3, <4>1, <4>3 DEF HashesOK, n, g
    <3> QED
      BY <3>1, <3>2
  <2>4. ASSUME NEW p \in 1 .. Len(hashes')
        PROVE  \E k \in 1 .. n : Paired(g, l, k) /\ Count(g, l, k) = p
    <3>1. CASE p \in 1 .. Len(h)
      BY <1>3, <3>1 DEF HashesOK, n, g
    <3>2. CASE p \notin 1 .. Len(h)
      <4>1. Paired(g, l, n) /\ p = Count(g, l, n)
        BY <1>3, <1>7, <2>1, <3>2
      <4> QED
        BY <1>3, <4>1
    <3> QED
      BY <3>1, <3>2
  <2>5. Len(g2) - 1 = n
    BY <1>3, <1>5
  <2>6. \A k \in 1 .. n : /\ Count(g2, l, k) = Count(g, l, k)
                          /\ Paired(g2, l, k) <=> Paired(g, l, k)
                          /\ SiblingNode(g2, l, k) = SiblingNode(g, l, k)
    BY <1>3, <1>6
  <2>7. Count(g2, l, n) = Count(g, l, n)
    BY <1>3, <1>6
  <2> QED
    BY <2>1, <2>3, <2>4, <2>5, <2>6, <2>7 DEF HashesOK
<1>11. PromotedOK(g2, l)
  <2>1. ASSUME NEW a \in 1 .. n, n + 1 <= Len(l), Count(g, l, a - 1) = Count(g, l, n)
        PROVE  Node(g, l, a) = l[n + 1][Half(i) + 1]
    <3>1. a - 1 \in 0 .. n - 1
      BY <1>3
    <3>2. ~Paired(g, l, n) /\ Count(g, l, a - 1) = Count(g, l, n - 1)
      BY <1>7, <2>1, <3>1
    <3>3. Node(g, l, a) = Node(g, l, n)
      BY <1>1, <1>3, <2>1, <3>2 DEF PromotedOK, n, g
    <3> QED
      BY <1>3, <1>4, <2>1, <3>2, <3>3
  <2>2. Node(g2, l, n + 1) = l[n + 1][Half(i) + 1]
    BY <1>5 DEF Node
  <2>3. \A a \in 1 .. n : /\ Node(g2, l, a) = Node(g, l, a)
                          /\ Count(g2, l, a - 1) = Count(g, l, a - 1)
    BY <1>3, <1>6
  <2>4. Count(g2, l, n) = Count(g, l, n) /\ n + 1 - 1 = n
    BY <1>3, <1>6
  <2> SUFFICES ASSUME NEW a \in 1 .. n + 1, NEW b \in 1 .. n + 1, a <= Len(l), b <= Len(l),
                      Count(g2, l, a - 1) = Count(g2, l, b - 1)
               PROVE  Node(g2, l, a) = Node(g2, l, b)
    BY <1>5 DEF PromotedOK
  <2>5. CASE a \in 1 .. n /\ b \in 1 .. n
    BY <1>3, <2>3, <2>5 DEF PromotedOK, n, g
  <2>6. CASE a \in 1 .. n /\ b = n + 1
    <3>1. b - 1 = n /\ Node(g2, l, b) = l[n + 1][Half(i) + 1]
      BY <1>3, <2>2, <2>6
    <3>2. Count(g, l, a - 1) = Count(g, l, n)
      BY <2>3, <2>4, <2>6, <3>1
    <3> QED
      BY <2>1, <2>3, <2>6, <3>1, <3>2
  <2>7. CASE a = n + 1 /\ b \in 1 .. n
    <3>1. a - 1 = n /\ Node(g2, l, a) = l[n + 1][Half(i) + 1]
      BY <1>3, <2>2, <2>7
    <3>2. Count(g, l, b - 1) = Count(g, l, n)
      BY <2>3, <2>4, <2>7, <3>1
    <3> QED
      BY <2>1, <2>3, <2>7, <3>1, <3>2
  <2>8. CASE a = n + 1 /\ b = n + 1
    BY <2>8
  <2> QED
    BY <1>3, <2>5, <2>6, <2>7, <2>8
<1>12. /\ WalkOK(gathered', layers', index') /\ HashesOK(hashes', gathered', layers')
       /\ PromotedOK(gathered', layers')
  BY <1>1, <1>9, <1>10, <1>11 DEF l
<1>13. GatheredOK'
  BY <1>1, <1>12 DEF GatheredOK, Located, Walked
<1> QED
  BY <1>2, <1>13 DEF MerkleInv

----------------------------------------------------------------------------
(* build_proof_path                                                        *)
LEMMA Positions ==
  ASSUME MerkleInv, pc \in Walked
  PROVE  /\ pc \in Located /\ Len(layers) \in Nat /\ Len(layers) >= 1
         /\ Len(gathered) = Len(layers) + 1
         /\ WalkOK(gathered, layers, index) /\ HashesOK(hashes, gathered, layers)
         /\ PromotedOK(gathered, layers)
         /\ Len(hashes) = Count(gathered, layers, Len(layers))
         /\ Len(hashes) = Count(gathered, layers, Len(layers) - 1)
         /\ Len(layers[Len(layers)]) = 1 /\ gathered[Len(layers)] = 0
         /\ Len(path) \in Nat
<1>1. pc \in Located /\ pc \in Built
  BY DEF Located, Walked, Built
<1>2. /\ Len(layers) \in Nat /\ Len(layers) >= 1 /\ Len(gathered) = Len(layers) + 1
      /\ WalkOK(gathered, layers, index) /\ HashesOK(hashes, gathered, layers)
      /\ PromotedOK(gathered, layers) /\ Len(layers[Len(layers)]) = 1 /\ Len(path) \in Nat
  BY <1>1, SeqFacts DEF MerkleInv, LayersOK, GatheredOK, PathOK
<1>3. Len(layers) \in 1 .. Len(gathered) /\ Len(gathered) - 1 = Len(layers)
  BY <1>2
<1>4. ~Paired(gathered, layers, Len(layers))
  <2>1. LayersOK
    BY DEF MerkleInv
  <2>2. \A k \in 1 .. Len(gathered) :
          k <= Len(layers) /\ Paired(gathered, layers, k) => k < Len(layers)
    BY <1>1, <1>2, <2>1, OneLevelUp
  <2> QED
    BY <1>2, <1>3, <2>2
<1>5. Len(hashes) = Count(gathered, layers, Len(layers))
  BY <1>2, <1>3 DEF HashesOK
<1>6. Count(gathered, layers, Len(layers)) = Count(gathered, layers, Len(layers) - 1)
  BY <1>2, <1>4, Counts
<1>7. gathered[Len(layers)] \in Nat /\ gathered[Len(layers)] < 1
  <2>1. \A k \in 1 .. Len(gathered) :
          gathered[k] \in Nat /\ (k <= Len(layers) => gathered[k] < Len(layers[k]))
    BY <1>2 DEF WalkOK
  <2>2. Len(layers) <= Len(layers) /\ Len(layers[Len(layers)]) = 1
    BY <1>2
  <2>3. /\ gathered[Len(layers)] \in Nat
        /\ gathered[Len(layers)] < Len(layers[Len(layers)])
    BY ZenonT(30), <1>3, <2>1, <2>2
  <2> QED
    BY <2>2, <2>3
<1> QED
  BY <1>1, <1>2, <1>5, <1>6, <1>7

LEMMA StartPathKeeps ==
  ASSUME MerkleInv, StartPath
  PROVE  MerkleInv'
<1>1. /\ pc = "gather" /\ pc' = "path" /\ idx' = index /\ levelSize' = Len(leaves)
      /\ UNCHANGED <<leaves, index, layers, hashes, gathered, next, path, foldVars>>
      /\ Len(gathered) > Len(layers)
  BY DEF StartPath, treeVars, proofVars
<1>2. LayersOK' /\ FoldOK'
  BY <1>1 DEF MerkleInv, LayersOK, FoldOK, foldVars, Built, Located, Verifying
<1>3. /\ WalkOK(gathered, layers, index) /\ Len(layers) \in Nat /\ Len(gathered) \in Nat
      /\ Len(layers) >= 1 /\ layers[1] = leaves /\ path = <<>> /\ next = Len(path) /\ IsSeq(path)
  BY <1>1, SeqFacts DEF MerkleInv, LayersOK, GatheredOK, PathOK, WalkOK, Built, Located, Walked
<1>4. Len(gathered) = Len(layers) + 1
  BY <1>1, <1>3 DEF WalkOK
<1>5. GatheredOK'
  BY <1>1, <1>4 DEF MerkleInv, GatheredOK, Located, Walked
<1>6. /\ levelSize' = Len(layers'[1]) /\ idx' = gathered'[1]
      /\ Len(path') = Count(gathered', layers', 1 - 1)
  BY <1>1, <1>3, Counts, Empty DEF WalkOK
<1>7. AtLevel(1)'
  BY <1>6 DEF AtLevel
<1>8. PathOK'
  BY <1>1, <1>3, <1>7 DEF PathOK, Walked
<1> QED
  BY <1>2, <1>5, <1>8 DEF MerkleInv

(* A turn of the loop: the next level, whose hash is there if it has one.  *)
LEMMA BuildLevelKeeps ==
  ASSUME MerkleInv, BuildLevel
  PROVE  MerkleInv'
<1> DEFINE g == gathered
           l == layers
<1>1. /\ pc = "path" /\ levelSize > 1
      /\ UNCHANGED <<leaves, index, layers, hashes, gathered, foldVars>>
  BY DEF BuildLevel, treeVars, proofVars
<1>2. /\ pc \in Located /\ Len(l) \in Nat /\ Len(l) >= 1 /\ Len(g) = Len(l) + 1
      /\ WalkOK(g, l, index) /\ HashesOK(hashes, g, l) /\ Len(hashes) = Count(g, l, Len(l))
      /\ Len(l[Len(l)]) = 1
  BY <1>1, Positions DEF Walked
<1>3. PICK k \in 1 .. Len(l) : AtLevel(k)
  BY <1>1 DEF MerkleInv, PathOK
<1>4. /\ levelSize = Len(l[k]) /\ idx = g[k] /\ next = Len(path) /\ IsSeq(path)
      /\ Len(path) = Count(g, l, k - 1)
      /\ \A j \in 1 .. k - 1 : Paired(g, l, j) =>
           path[Count(g, l, j)] = [hash |-> SiblingNode(g, l, j), position |-> Side(g[j])]
  BY <1>3 DEF AtLevel, MerkleInv, PathOK
<1>5. k < Len(l)
  <2>1. k # Len(l)
    <3>1. levelSize # 1
      BY <1>1
    <3>2. levelSize = Len(l[k]) /\ Len(l[Len(l)]) = 1
      BY <1>2, <1>4
    <3> QED
      BY Zenon, <3>1, <3>2
  <2> QED
    BY <1>2, <2>1
<1>6. /\ IsSeq(l[k]) /\ g[k] \in Nat /\ g[k] < Len(l[k]) /\ Len(l[k]) \in Nat
      /\ g[k + 1] = Half(g[k]) /\ l[k + 1] = LayerAbove(l[k])
  <2>1. k \in 1 .. Len(g) /\ k \in 1 .. Len(g) - 1 /\ k \in 1 .. Len(l) - 1 /\ pc \in Built
    BY <1>1, <1>2, <1>5 DEF Built
  <2>2. IsSeq(l[k]) /\ l[k + 1] = LayerAbove(l[k])
    BY <2>1 DEF MerkleInv, LayersOK
  <2>3. g[k] \in Nat /\ g[k] < Len(l[k]) /\ g[k + 1] = Half(g[k])
    BY <1>2, <1>5, <2>1 DEF WalkOK
  <2> QED
    BY <2>2, <2>3, SeqFacts
<1>7. /\ HasSibling(idx, levelSize) <=> Paired(g, l, k)
      /\ NextLevelSize(levelSize) = Len(l[k + 1])
  BY <1>4, <1>6, NodeAbove DEF Paired, NextLevelSize
<1>8. /\ Count(g, l, k) \in Nat /\ Count(g, l, k - 1) \in Nat
      /\ Paired(g, l, k) => Count(g, l, k) = Count(g, l, k - 1) + 1
      /\ ~Paired(g, l, k) => Count(g, l, k) = Count(g, l, k - 1)
      /\ Count(g, l, k) <= Len(hashes) /\ Len(hashes) \in Nat
  <2>1. k \in Nat /\ k - 1 \in Nat /\ k >= 1 /\ k \in 0 .. Len(l)
    BY <1>2, <1>5
  <2> QED
    BY <1>2, <2>1, Counts
<1>9. ASSUME Paired(g, l, k)
      PROVE  next # Len(hashes) /\ hashes[next + 1] = SiblingNode(g, l, k)
  <2>1. k \in 1 .. Len(g) - 1
    BY <1>2, <1>5
  <2>2. hashes[Count(g, l, k)] = SiblingNode(g, l, k)
    BY <1>2, <1>9, <2>1 DEF HashesOK
  <2> QED
    BY <1>4, <1>8, <1>9, <2>2
<1>10. /\ pc' = "path" /\ idx' = g[k + 1] /\ levelSize' = Len(l[k + 1])
       /\ IF Paired(g, l, k)
          THEN /\ path' = Append(path, [hash |-> SiblingNode(g, l, k), position |-> Side(g[k])])
               /\ next' = next + 1
          ELSE path' = path /\ next' = next
  BY <1>1, <1>4, <1>6, <1>7, <1>9 DEF BuildLevel
<1> DEFINE r == [hash |-> SiblingNode(g, l, k), position |-> Side(g[k])]
<1>11. /\ IsSeq(path') /\ next' = Len(path') /\ Len(path') = Count(g, l, k)
       /\ \A p \in 1 .. Len(path) : path'[p] = path[p]
       /\ Paired(g, l, k) => path'[Count(g, l, k)] = r
  <2> HIDE DEF r
  <2>1. path' = Append(path, r) \/ path' = path
    BY <1>10 DEF r
  <2>2. CASE Paired(g, l, k)
    <3>1. path' = Append(path, r) /\ next' = next + 1
      BY <1>10, <2>2 DEF r
    <3>2. Count(g, l, k) = Len(path) + 1
      BY <1>4, <1>8, <2>2
    <3> QED
      BY <1>4, <3>1, <3>2, Appended
  <2>3. CASE ~Paired(g, l, k)
    BY <1>4, <1>8, <1>10, <2>3
  <2> QED
    BY <2>2, <2>3
<1>12. ASSUME NEW j \in 1 .. k, Paired(g, l, j)
       PROVE  path'[Count(g, l, j)] = [hash |-> SiblingNode(g, l, j), position |-> Side(g[j])]
  <2>1. CASE j = k
    BY <1>11, <1>12, <2>1
  <2>2. CASE j # k
    <3>1. j \in 1 .. k - 1 /\ j \in Nat /\ j >= 1 /\ j \in 0 .. k - 1 /\ k - 1 \in Nat /\ j - 1 \in Nat
      BY <1>2, <2>2
    <3>2. Count(g, l, j) <= Count(g, l, k - 1) /\ Count(g, l, j) = Count(g, l, j - 1) + 1
      BY <1>12, <3>1, Counts
    <3>3. Count(g, l, j) \in Nat /\ Count(g, l, j - 1) \in Nat
      BY <3>1, Counts
    <3>4. Count(g, l, j) \in 1 .. Len(path)
      BY <1>4, <1>8, <3>2, <3>3
    <3> QED
      BY <1>4, <1>11, <1>12, <3>1, <3>4
  <2> QED
    BY <2>1, <2>2
<1>13. AtLevel(k + 1)'
  <2>1. k + 1 - 1 = k
    BY <1>2
  <2> QED
    BY <1>1, <1>10, <1>11, <1>12, <2>1 DEF AtLevel
<1>14. PathOK'
  <2>1. k + 1 \in 1 .. Len(layers')
    BY <1>1, <1>2, <1>5
  <2> QED
    BY <1>10, <1>11, <1>13, <2>1 DEF PathOK, Walked
<1>15. LayersOK' /\ GatheredOK' /\ FoldOK'
  BY <1>1, <1>10 DEF MerkleInv, LayersOK, GatheredOK, FoldOK, foldVars, Located, Walked,
                     Verifying, Built
<1> QED
  BY <1>14, <1>15 DEF MerkleInv

LEMMA EndPathKeeps ==
  ASSUME MerkleInv, EndPath
  PROVE  MerkleInv'
<1>1. /\ pc = "path" /\ pc' = "proved" /\ levelSize <= 1
      /\ UNCHANGED <<leaves, index, layers, hashes, gathered, pathVars, foldVars>>
  BY DEF EndPath, treeVars, proofVars
<1>2. PICK k \in 1 .. Len(layers) : AtLevel(k)
  BY <1>1 DEF MerkleInv, PathOK
<1>3. k = Len(layers)
  <2>1. k \in 1 .. Len(layers) - 1 => Len(layers[k]) > 1
    BY <1>1 DEF MerkleInv, LayersOK, Built
  <2>2. Len(layers) \in Nat /\ Len(layers[k]) \in Nat
    BY <1>1, SeqFacts DEF MerkleInv, LayersOK, Built
  <2>3. levelSize = Len(layers[k])
    BY <1>2 DEF AtLevel
  <2> QED
    BY <1>1, <2>1, <2>2, <2>3
<1>4. AtLevel(Len(layers))'
  BY <1>1, <1>2, <1>3 DEF AtLevel, pathVars
<1>5. PathOK'
  BY <1>1, <1>4 DEF MerkleInv, PathOK, pathVars, Walked
<1>6. LayersOK' /\ GatheredOK' /\ FoldOK'
  BY <1>1 DEF MerkleInv, LayersOK, GatheredOK, FoldOK, foldVars, Located, Walked, Verifying, Built
<1> QED
  BY <1>5, <1>6 DEF MerkleInv

----------------------------------------------------------------------------
(* verify_inclusion                                                        *)
LEMMA OnlyFolds ==
  ASSUME MerkleInv, UNCHANGED <<treeVars, proofVars, pathVars>>,
         pc \in Walked \ {"path"}, pc' \in Walked \ {"path"}
  PROVE  LayersOK' /\ GatheredOK' /\ PathOK'
<1>1. LayersOK' /\ GatheredOK'
  BY DEF MerkleInv, LayersOK, GatheredOK, treeVars, proofVars, Built, Located, Walked
<1>2. AtLevel(Len(layers))'
  BY DEF MerkleInv, PathOK, AtLevel, treeVars, proofVars, pathVars
<1> QED
  BY <1>1, <1>2 DEF MerkleInv, PathOK, pathVars

LEMMA StartVerifyKeeps ==
  ASSUME MerkleInv, NEW h \in LeafHashes, NEW c \in LeafHashes, StartVerify(h, c)
  PROVE  MerkleInv'
<1>1. /\ pc = "proved" /\ claim' = c /\ UNCHANGED <<treeVars, proofVars, pathVars, folded>>
      /\ \/ pc' = "rejected"
         \/ pc' = "fold" /\ current' = c
  BY DEF StartVerify
<1>2. LayersOK' /\ GatheredOK' /\ PathOK'
  BY <1>1, OnlyFolds DEF Walked
<1>3. /\ Len(layers) \in Nat /\ Len(layers) >= 1 /\ Len(gathered) = Len(layers) + 1
      /\ WalkOK(gathered, layers, index) /\ PromotedOK(gathered, layers) /\ Len(path) \in Nat
      /\ layers[1] = leaves /\ folded = 0
  BY <1>1, Positions DEF Walked, MerkleInv, LayersOK, FoldOK, Built, Verifying
<1>4. ASSUME NEW k \in 1 .. Len(layers), Count(gathered, layers, k - 1) = 0
      PROVE  Node(gathered, layers, k) = leaves[index + 1]
  <2>1. Node(gathered, layers, 1) = leaves[index + 1]
    BY <1>3 DEF Node, WalkOK
  <2>2. Count(gathered, layers, 1 - 1) = 0
    BY Counts
  <2>3. k \in 1 .. Len(gathered) /\ 1 \in 1 .. Len(gathered)
    BY <1>3
  <2> QED
    BY <1>3, <1>4, <2>1, <2>2, <2>3 DEF PromotedOK
<1>5. /\ leaves' = leaves /\ index' = index /\ layers' = layers /\ gathered' = gathered
      /\ path' = path /\ folded' = 0
  BY <1>1, <1>3 DEF treeVars, proofVars, pathVars
<1>6. FoldOK'
  BY <1>1, <1>3, <1>4, <1>5 DEF FoldOK, Verifying
<1> QED
  BY <1>2, <1>6 DEF MerkleInv

(* Hash number folded + 1 is the sibling at some level j; the running hash *)
(* becomes the node above, and stays it until the next sibling.            *)
LEMMA FoldKeeps ==
  ASSUME MerkleInv, FoldNode
  PROVE  MerkleInv'
<1> DEFINE g == gathered
           l == layers
           leaf == leaves[index + 1]
<1>1. /\ pc = "fold" /\ pc' = "fold" /\ folded < Len(path) /\ folded' = folded + 1
      /\ UNCHANGED <<treeVars, proofVars, pathVars, claim>>
      /\ current' = Concat(path[folded + 1], current)
  BY DEF FoldNode
<1>2. LayersOK' /\ GatheredOK' /\ PathOK'
  BY <1>1, OnlyFolds DEF Walked
<1>3. /\ pc \in Located /\ Len(l) \in Nat /\ Len(l) >= 1 /\ Len(g) = Len(l) + 1
      /\ WalkOK(g, l, index) /\ HashesOK(hashes, g, l) /\ PromotedOK(g, l)
      /\ Len(path) \in Nat
      /\ Len(hashes) = Count(g, l, Len(l) - 1)
  BY <1>1, Positions DEF Walked
<1>4. /\ LayersOK /\ AtLevel(Len(l)) /\ folded \in Nat
      /\ \A k \in 1 .. Len(l) : Count(g, l, k - 1) = folded => (current = Node(g, l, k) <=> claim = leaf)
  BY <1>1, <1>3 DEF MerkleInv, PathOK, FoldOK, Walked
<1>5. PICK j \in 1 .. Len(l) : Paired(g, l, j) /\ Count(g, l, j) = folded + 1
  <2>1. folded + 1 \in 1 .. Len(hashes) /\ Len(g) - 1 = Len(l)
    BY <1>1, <1>3, <1>4 DEF AtLevel
  <2> QED
    BY <1>3, <2>1 DEF HashesOK
<1>6. j \in 1 .. Len(g) /\ j <= Len(l) /\ j \in Nat /\ j >= 1 /\ j - 1 \in Nat
  BY <1>3
<1>7. Count(g, l, j - 1) = folded
  <2>1. Count(g, l, j - 1) \in Nat
    BY <1>6, Counts
  <2>2. Count(g, l, j) = Count(g, l, j - 1) + 1
    BY <1>5, <1>6, Counts
  <2> QED
    BY <1>4, <1>5, <2>1, <2>2
<1>8. j < Len(l) /\ g[j] \in Nat
  BY <1>3, <1>4, <1>5, <1>6, OneLevelUp
<1>9. l[j + 1][Half(g[j]) + 1] = IF g[j] % 2 = 0 THEN <<Node(g, l, j), SiblingNode(g, l, j)>>
                                                 ELSE <<SiblingNode(g, l, j), Node(g, l, j)>>
  BY <1>3, <1>4, <1>5, <1>6, <1>8, OneLevelUp
<1>10. Node(g, l, j + 1) = l[j + 1][Half(g[j]) + 1] /\ j + 1 \in 1 .. Len(g) /\ j + 1 <= Len(l)
  <2>1. j \in 1 .. Len(g) - 1 /\ j + 1 \in 1 .. Len(g) /\ j + 1 <= Len(l)
    BY <1>3, <1>8
  <2> QED
    BY <1>3, <2>1 DEF WalkOK, Node
<1>11. path[folded + 1] = [hash |-> SiblingNode(g, l, j), position |-> Side(g[j])]
  <2>1. j \in 1 .. Len(l) - 1
    BY <1>3, <1>8
  <2> QED
    BY <1>4, <1>5, <2>1 DEF AtLevel
<1>12. current = Node(g, l, j) <=> claim = leaf
  BY <1>4, <1>7
<1>13. current' = IF g[j] % 2 = 0 THEN <<current, SiblingNode(g, l, j)>>
                                  ELSE <<SiblingNode(g, l, j), current>>
  BY <1>1, <1>11 DEF Concat, Side
<1> HIDE DEF g, l, leaf
<1>14. current' = Node(g, l, j + 1) <=> claim = leaf
  BY <1>9, <1>10, <1>12, <1>13
<1>15. ASSUME NEW k \in 1 .. Len(l), Count(g, l, k - 1) = folded + 1
       PROVE  Node(g, l, k) = Node(g, l, j + 1)
  <2>1. j + 1 - 1 = j /\ k \in 1 .. Len(g)
    BY <1>3
  <2> QED
    BY <1>3, <1>5, <1>10, <1>15, <2>1 DEF PromotedOK
<1>16. /\ leaves' = leaves /\ index' = index /\ layers' = l /\ gathered' = g
       /\ path' = path /\ claim' = claim
  BY <1>1 DEF treeVars, proofVars, pathVars, g, l
<1>17. folded' \in 0 .. Len(path)
  BY <1>1, <1>3, <1>4
<1>18. FoldOK'
  BY <1>1, <1>14, <1>15, <1>16, <1>17 DEF FoldOK, Verifying, leaf
<1> QED
  BY <1>2, <1>18 DEF MerkleInv

(* At the end of the path the walk is at the root.                         *)
LEMMA RootReached ==
  ASSUME MerkleInv, pc = "fold", folded = Len(path)
  PROVE  RootMatches <=> claim = leaves[index + 1]
<1>1. /\ Len(layers) \in Nat /\ Len(layers) >= 1 /\ gathered[Len(layers)] = 0
      /\ Len(path) = Count(gathered, layers, Len(layers) - 1)
  BY Positions DEF Walked, MerkleInv, PathOK, AtLevel
<1>2. Len(layers) \in 1 .. Len(layers)
  BY <1>1
<1>3. current = Node(gathered, layers, Len(layers)) <=> claim = leaves[index + 1]
  BY <1>1, <1>2 DEF MerkleInv, FoldOK
<1>4. Node(gathered, layers, Len(layers)) = Root
  BY <1>1 DEF Node, Root, Top
<1> QED
  BY <1>3, <1>4 DEF RootMatches

LEMMA CompareKeeps ==
  ASSUME MerkleInv, CompareRoot
  PROVE  MerkleInv'
<1>1. /\ pc = "fold" /\ folded = Len(path)
      /\ UNCHANGED <<treeVars, proofVars, pathVars, foldVars>>
      /\ pc' = IF RootMatches THEN "accepted" ELSE "rejected"
  BY DEF CompareRoot
<1>2. LayersOK' /\ GatheredOK' /\ PathOK'
  BY <1>1, OnlyFolds DEF Walked
<1>3. FoldOK'
  BY <1>1, RootReached DEF FoldOK, Verifying, treeVars, foldVars
<1> QED
  BY <1>2, <1>3 DEF MerkleInv

----------------------------------------------------------------------------
LEMMA MerkleInitOK == Init => MerkleInv
<1> SUFFICES ASSUME Init PROVE MerkleInv
  OBVIOUS
<1>1. PICK n \in 0 .. MaxLeaves : leaves \in [1 .. n -> LeafHashes]
  BY DEF Init, Batches
<1>2. leaves \in Seq(LeafHashes)
  BY <1>1, SeqDef, MerkleAssumption
<1>3. IsSeq(leaves) /\ index \in Nat
  BY <1>2, MerkleAssumption DEF Init, IsSeq
<1>4. IsSeq(layers) /\ IsSeq(path) /\ Len(path) = 0
  BY Empty DEF Init
<1> QED
  BY <1>3, <1>4 DEF Init, MerkleInv, LayersOK, GatheredOK, PathOK, FoldOK, Built, Located,
                    Walked, Verifying

LEMMA MerkleInvHolds == Spec => []MerkleInv
<1>1. MerkleInv /\ [Next]_vars => MerkleInv'
  <2> SUFFICES ASSUME MerkleInv, [Next]_vars PROVE MerkleInv'
    OBVIOUS
  <2>1. CASE UNCHANGED vars
    BY <2>1 DEF vars, treeVars, proofVars, pathVars, foldVars, MerkleInv, LayersOK, GatheredOK,
                WalkOK, PathOK, AtLevel, FoldOK
  <2>2. CASE RejectEmpty \/ HashLeaves \/ HashLayer \/ RejectIndex
    BY <2>2, BuildKeeps
  <2>3. CASE StartProof
    BY <2>3, StartProofKeeps
  <2>4. CASE GatherHash
    BY <2>4, GatherKeeps
  <2>5. CASE StartPath
    BY <2>5, StartPathKeeps
  <2>6. CASE BuildLevel
    BY <2>6, BuildLevelKeeps
  <2>7. CASE EndPath
    BY <2>7, EndPathKeeps
  <2>8. ASSUME NEW h \in LeafHashes, NEW c \in LeafHashes, StartVerify(h, c) PROVE MerkleInv'
    BY <2>8, StartVerifyKeeps
  <2>9. CASE FoldNode
    BY <2>9, FoldKeeps
  <2>10. CASE CompareRoot
    BY <2>10, CompareKeeps
  <2> QED
    BY <2>1, <2>2, <2>3, <2>4, <2>5, <2>6, <2>7, <2>8, <2>9, <2>10 DEF Next
<1> QED
  BY <1>1, MerkleInitOK, PTL DEF Spec

(* For every size of batch and every index: what build_proof_path makes of *)
(* an index and a count is what rs_merkle saw in the tree; the hashes of   *)
(* the proof neither run out nor are left over.                            *)
THEOREM HashesAreAligned == Spec => []HashesAligned
<1>1. MerkleInv => HashesAligned
  <2> SUFFICES ASSUME MerkleInv PROVE HashesAligned
    OBVIOUS
  <2>1. ASSUME pc \in {"proved", "fold", "accepted"}
        PROVE  next = Len(hashes) /\ levelSize = 1 /\ idx = 0
    BY <2>1, Positions DEF MerkleInv, PathOK, AtLevel, Walked
  <2>2. ASSUME pc = "path"
        PROVE  \E k \in DOMAIN layers : /\ levelSize = Len(layers[k])
                                        /\ idx = gathered[k]
                                        /\ idx < levelSize
    <3>1. PICK k \in 1 .. Len(layers) : AtLevel(k)
      BY <2>2 DEF MerkleInv, PathOK
    <3>2. /\ WalkOK(gathered, layers, index) /\ DOMAIN layers = 1 .. Len(layers)
          /\ k \in 1 .. Len(gathered) /\ k <= Len(layers)
      BY <2>2, Positions, SeqFacts DEF Walked, MerkleInv, LayersOK
    <3> QED
      BY <3>1, <3>2 DEF AtLevel, WalkOK
  <2> QED
    BY <2>1, <2>2 DEF HashesAligned
<1> QED
  BY <1>1, MerkleInvHolds, PTL

(* For every size of batch and every index: verify_inclusion accepts the   *)
(* leaf the proof was made for, and no other.                              *)
THEOREM ProofsAreConvincing == Spec => []ProofsConvince
<1>1. MerkleInv => ProofsConvince
  BY RootReached DEF MerkleInv, FoldOK, ProofsConvince
<1> QED
  BY <1>1, MerkleInvHolds, PTL

----------------------------------------------------------------------------
(* FoldIsReplacement of module Merkle: RootOf is the root that the builder *)
(* makes, and a fold is that root with another leaf at the index.          *)

(* Powers of two: 1, and what is twice a power.                            *)
LEMMA Powers ==
  ASSUME NEW p \in Nat \ {0}
  PROVE  /\ PowerOfTwo(1)
         /\ PowerOfTwo(2 * p) <=> PowerOfTwo(p)
         /\ PowerOfTwo(p) => p = 1 \/ \E h \in Nat \ {0} : p = 2 * h
<1>1. PowerOfTwo(1)
  <2> SUFFICES ASSUME NEW c \in 1 .. 1, NEW d \in 1 .. 1 PROVE d = 1
    BY DEF PowerOfTwo
  <2> QED
    OBVIOUS
<1>2. ASSUME PowerOfTwo(p) PROVE PowerOfTwo(2 * p)
  <2> SUFFICES ASSUME NEW c \in 1 .. 2 * p, NEW d \in 1 .. 2 * p, c * d = 2 * p, d % 2 # 0
               PROVE  d = 1
    BY DEF PowerOfTwo
  <2>1. PICK k \in Nat : d = 2 * k + 1
    <3>1. d \div 2 \in Nat /\ d = 2 * (d \div 2) + 1
      OBVIOUS
    <3> QED
      BY <3>1
  <2>2. PICK h \in Nat \ {0} : c = 2 * h
    <3>1. CASE c % 2 = 0
      <4>1. c \div 2 \in Nat \ {0} /\ c = 2 * (c \div 2)
        BY <3>1
      <4> QED
        BY <4>1
    <3>2. CASE c % 2 # 0
      <4>1. PICK j \in Nat : c = 2 * j + 1
        <5>1. c \div 2 \in Nat /\ c = 2 * (c \div 2) + 1
          BY <3>2
        <5> QED
          BY <5>1
      <4>2. c * d = 2 * (2 * (j * k) + j + k) + 1 /\ j * k \in Nat
        BY <2>1, <4>1
      <4> DEFINE m == 2 * (j * k) + j + k
      <4>3. m \in Nat /\ 2 * p = 2 * m + 1
        BY <4>2
      <4> HIDE DEF m
      <4> QED
        BY <4>3
    <3> QED
      BY <3>1, <3>2
  <2>3. h * d = p /\ h * d \in Nat
    <3>1. c * d = 2 * (h * d) /\ h * d \in Nat
      BY <2>2
    <3> QED
      BY <3>1
  <2>4. h \in 1 .. p /\ d \in 1 .. p
    <3>1. h <= h * d /\ d <= h * d
      BY <2>2
    <3> QED
      BY <2>2, <2>3, <3>1
  <2> QED
    BY <1>2, <2>3, <2>4 DEF PowerOfTwo
<1>3. ASSUME PowerOfTwo(2 * p) PROVE PowerOfTwo(p)
  <2> SUFFICES ASSUME NEW c \in 1 .. p, NEW d \in 1 .. p, c * d = p PROVE d = 1 \/ d % 2 = 0
    BY DEF PowerOfTwo
  <2>1. 2 * c \in 1 .. 2 * p /\ d \in 1 .. 2 * p /\ (2 * c) * d = 2 * p
    OBVIOUS
  <2> QED
    BY <1>3, <2>1 DEF PowerOfTwo
<1>4. ASSUME PowerOfTwo(p), p # 1 PROVE \E h \in Nat \ {0} : p = 2 * h
  <2>1. 1 * p = p /\ 1 \in 1 .. p /\ p \in 1 .. p
    OBVIOUS
  <2>2. p % 2 = 0
    BY <1>4, <2>1 DEF PowerOfTwo
  <2>3. p \div 2 \in Nat \ {0} /\ p = 2 * (p \div 2)
    BY <2>2
  <2> QED
    BY <2>3
<1> QED
  BY <1>1, <1>2, <1>3, <1>4

(* There is no power of two between another and its double.                *)
LEMMA PowersApart ==
  ASSUME NEW p \in Nat \ {0}, NEW q \in Nat \ {0}, PowerOfTwo(p), PowerOfTwo(q), p < q
  PROVE  2 * p <= q
<1> DEFINE S == {n \in Nat : n # 0 /\ PowerOfTwo(n) =>
                   \A m \in Nat \ {0} : PowerOfTwo(m) /\ n < m => 2 * n <= m}
<1>1. ASSUME NEW n \in Nat, 0 .. n - 1 \subseteq S PROVE n \in S
  <2> SUFFICES ASSUME n # 0, PowerOfTwo(n), NEW m \in Nat \ {0}, PowerOfTwo(m), n < m
               PROVE  2 * n <= m
    OBVIOUS
  <2>1. PICK k \in Nat \ {0} : m = 2 * k
    BY Powers
  <2>2. CASE n = 1
    BY <2>2
  <2>3. CASE n # 1
    <3>1. PICK h \in Nat \ {0} : n = 2 * h
      BY <2>3, Powers
    <3>2. PowerOfTwo(h) /\ PowerOfTwo(k)
      BY <2>1, <3>1, Powers
    <3>3. h \in S /\ h < k
      BY <1>1, <2>1, <3>1
    <3> QED
      BY <2>1, <3>1, <3>2, <3>3
  <2> QED
    BY <2>2, <2>3
<1>2. S \in SUBSET Nat
  OBVIOUS
<1> HIDE DEF S
<1>3. p \in S
  BY <1>1, <1>2, AllNaturals
<1> QED
  BY <1>3 DEF S

LEMMA PerfectOnce ==
  ASSUME NEW n \in Nat, n >= 2, NEW p \in Nat \ {0}, PowerOfTwo(p), p < n, n <= 2 * p
  PROVE  PerfectBelow(n) = p
<1> DEFINE Fits(q) == q < n /\ n <= 2 * q /\ PowerOfTwo(q)
<1>1. p \in 1 .. n /\ Fits(p)
  OBVIOUS
<1>2. ASSUME NEW q \in 1 .. n, Fits(q) PROVE q = p
  <2>1. q \in Nat \ {0}
    OBVIOUS
  <2>2. ~(q < p)
    <3> SUFFICES ASSUME q < p PROVE 2 * q <= p
      BY <1>2
    <3> QED
      BY <1>2, <2>1, PowersApart
  <2>3. ~(p < q)
    <3> SUFFICES ASSUME p < q PROVE 2 * p <= q
      BY <1>2
    <3> QED
      BY <1>2, <2>1, PowersApart
  <2> QED
    BY <2>1, <2>2, <2>3
<1>3. PerfectBelow(n) = CHOOSE q \in 1 .. n : Fits(q)
  BY DEF PerfectBelow
<1> HIDE DEF Fits
<1> QED
  BY <1>1, <1>2, <1>3

(* The largest perfect tree below n leaves, and the one below twice as     *)
(* many, with or without a lone last leaf.                                 *)
LEMMA Perfect ==
  ASSUME NEW n \in Nat, n >= 2
  PROVE  /\ PerfectBelow(n) \in 1 .. n - 1 /\ PowerOfTwo(PerfectBelow(n))
         /\ n <= 2 * PerfectBelow(n)
         /\ PerfectBelow(2 * n) = 2 * PerfectBelow(n)
         /\ PerfectBelow(2 * n - 1) = 2 * PerfectBelow(n)
<1> DEFINE S == {k \in Nat : k >= 2 => \E p \in Nat \ {0} : PowerOfTwo(p) /\ p < k /\ k <= 2 * p}
<1>1. ASSUME NEW k \in Nat, 0 .. k - 1 \subseteq S PROVE k \in S
  <2> SUFFICES ASSUME k >= 2 PROVE \E p \in Nat \ {0} : PowerOfTwo(p) /\ p < k /\ k <= 2 * p
    OBVIOUS
  <2>1. CASE k = 2
    <3>1. PowerOfTwo(1) /\ 1 \in Nat \ {0} /\ 1 < k /\ k <= 2 * 1
      BY <2>1, Powers
    <3> QED
      BY <3>1
  <2>2. CASE k # 2
    <3> DEFINE h == HalfUp(k)
    <3>1. h \in 0 .. k - 1 /\ h >= 2 /\ (k = 2 * h \/ k + 1 = 2 * h)
      <4>1. HalfUp(k) \in Nat /\ (k = 2 * HalfUp(k) \/ k + 1 = 2 * HalfUp(k))
        BY Parents
      <4> QED
        BY <2>2, <4>1
    <3> HIDE DEF h
    <3>2. PICK p \in Nat \ {0} : PowerOfTwo(p) /\ p < h /\ h <= 2 * p
      BY <1>1, <3>1
    <3>3. PowerOfTwo(2 * p) /\ 2 * p \in Nat \ {0}
      BY <3>2, Powers
    <3>4. 2 * p < k /\ k <= 2 * (2 * p)
      BY <3>1, <3>2
    <3> QED
      BY <3>3, <3>4
  <2> QED
    BY <2>1, <2>2
<1>2. S \in SUBSET Nat
  OBVIOUS
<1> HIDE DEF S
<1>3. n \in S
  BY <1>1, <1>2, AllNaturals
<1>4. PICK p \in Nat \ {0} : PowerOfTwo(p) /\ p < n /\ n <= 2 * p
  BY <1>3 DEF S
<1>5. PerfectBelow(n) = p
  BY <1>4, PerfectOnce
<1>6. PowerOfTwo(2 * p) /\ 2 * p \in Nat \ {0}
  BY <1>4, Powers
<1>7. /\ 2 * n \in Nat /\ 2 * n >= 2 /\ 2 * p < 2 * n /\ 2 * n <= 2 * (2 * p)
      /\ 2 * n - 1 \in Nat /\ 2 * n - 1 >= 2 /\ 2 * p < 2 * n - 1 /\ 2 * n - 1 <= 2 * (2 * p)
  BY <1>4
<1>8. PerfectBelow(2 * n) = 2 * p
  BY <1>6, <1>7, PerfectOnce
<1>9. PerfectBelow(2 * n - 1) = 2 * p
  BY <1>6, <1>7, PerfectOnce
<1> QED
  BY <1>4, <1>5, <1>8, <1>9

(* The table of the roots of the leaves of a batch, some up to a size.     *)
RootsOf(seq, t, n) ==
  [lo \in 1 .. Len(seq) - n + 1 |->
     IF n = 1 THEN seq[lo]
     ELSE LET p == PerfectBelow(n) IN <<t[p][lo], t[n - p][lo + p]>>]
Roots(seq, t) == t = [n \in 1 .. Len(seq) |-> RootsOf(seq, t, n)]

LEMMA RootsExist ==
  ASSUME NEW s, IsSeq(s)
  PROVE  \E t : Roots(s, t)
<1> DEFINE L == Len(s)
           Upto(t, n) == t = [i \in 1 .. n |-> RootsOf(s, t, i)]
           S == {n \in Nat : \E t : Upto(t, n)}
<1>1. L \in Nat
  BY SeqFacts
<1>2. ASSUME NEW n \in Nat, 0 .. n - 1 \subseteq S PROVE n \in S
  <2>1. CASE n = 0
    <3> DEFINE t == [i \in 1 .. 0 |-> {}]
    <3>1. t = [i \in 1 .. 0 |-> RootsOf(s, t, i)]
      OBVIOUS
    <3> HIDE DEF t
    <3> QED
      BY <2>1, <3>1
  <2>2. CASE n # 0
    <3>1. n - 1 \in S
      BY <1>2, <2>2
    <3>2. PICK t : Upto(t, n - 1)
      BY <3>1
    <3> DEFINE u == [i \in 1 .. n |-> RootsOf(s, t, i)]
    <3>3. ASSUME NEW i \in 1 .. n PROVE u[i] = RootsOf(s, u, i)
      <4>1. ASSUME NEW j \in 1 .. n - 1 PROVE u[j] = t[j]
        <5>1. j \in 1 .. n /\ t[j] = RootsOf(s, t, j)
          BY <2>2, <3>2
        <5> HIDE DEF RootsOf, Upto
        <5> QED
          BY <5>1
      <4>2. u[i] = RootsOf(s, t, i)
        OBVIOUS
      <4> HIDE DEF u
      <4>3. CASE i = 1
        BY <4>2, <4>3 DEF RootsOf
      <4>4. CASE i # 1
        <5> DEFINE p == PerfectBelow(i)
        <5>1. p \in 1 .. i - 1
          BY <4>4, Perfect
        <5> HIDE DEF p
        <5>2. u[p] = t[p] /\ u[i - p] = t[i - p]
          BY <4>1, <5>1
        <5>3. /\ RootsOf(s, t, i) = [lo \in 1 .. L - i + 1 |-> <<t[p][lo], t[i - p][lo + p]>>]
              /\ RootsOf(s, u, i) = [lo \in 1 .. L - i + 1 |-> <<u[p][lo], u[i - p][lo + p]>>]
          BY <4>4 DEF RootsOf, p
        <5> QED
          BY <4>2, <5>2, <5>3
      <4> QED
        BY <4>3, <4>4
    <3>4. u = [i \in 1 .. n |-> u[i]]
      OBVIOUS
    <3> HIDE DEF u
    <3>5. u = [i \in 1 .. n |-> RootsOf(s, u, i)]
      BY <3>3, <3>4
    <3> QED
      BY <3>5
  <2> QED
    BY <2>1, <2>2
<1>3. S \in SUBSET Nat
  OBVIOUS
<1> HIDE DEF S
<1>4. L \in S
  BY <1>1, <1>2, <1>3, AllNaturals
<1>5. PICK t : Upto(t, L)
  BY <1>4 DEF S
<1> QED
  BY <1>5 DEF Roots

LEMMA RootTable ==
  ASSUME NEW s, IsSeq(s)
  PROVE  \E t : /\ RootOf(s) = t[Len(s)][1]
                /\ \A n \in 1 .. Len(s) : t[n] = RootsOf(s, t, n)
<1> DEFINE t == CHOOSE u : Roots(s, u)
<1>1. Roots(s, t)
  <2>1. \E u : Roots(s, u)
    BY RootsExist
  <2> HIDE DEF Roots
  <2> QED
    BY <2>1
<1>2. RootOf(s) = t[Len(s)][1]
  BY DEF RootOf, Roots, RootsOf
<1> HIDE DEF t
<1>3. \A n \in 1 .. Len(s) : t[n] = RootsOf(s, t, n)
  BY <1>1 DEF Roots
<1> QED
  BY <1>2, <1>3

LEMMA RootEntry ==
  ASSUME NEW s, NEW t, \A n \in 1 .. Len(s) : t[n] = RootsOf(s, t, n), Len(s) \in Nat,
         NEW n \in 1 .. Len(s), NEW lo \in 1 .. Len(s) - n + 1
  PROVE  /\ n = 1 => t[n][lo] = s[lo]
         /\ n # 1 => t[n][lo] = <<t[PerfectBelow(n)][lo], t[n - PerfectBelow(n)][lo + PerfectBelow(n)]>>
BY DEF RootsOf

(* A layer has the root of the one below it.                               *)
LEMMA LayerRoot ==
  ASSUME NEW s, IsSeq(s), Len(s) >= 1
  PROVE  RootOf(LayerAbove(s)) = RootOf(s)
<1> DEFINE a == LayerAbove(s)
           n == Len(s)
           m == Len(a)
<1>1. n \in Nat /\ n >= 1 /\ IsSeq(a) /\ m = HalfUp(n)
  <2>1. Len(s) \in Nat /\ 0 < Len(s)
    BY SeqFacts
  <2> QED
    BY <2>1, NodeAbove
<1>2. m \in Nat /\ m >= 1 /\ (n = 2 * m \/ n + 1 = 2 * m)
  BY <1>1, Parents
<1>3. a = [i \in 1 .. m |-> IF 2 * i <= n THEN <<s[2 * i - 1], s[2 * i]>> ELSE s[2 * i - 1]]
  BY <1>1 DEF LayerAbove
<1>4. PICK t : RootOf(s) = t[n][1] /\ \A k \in 1 .. n : t[k] = RootsOf(s, t, k)
  BY RootTable
<1>5. PICK u : RootOf(a) = u[m][1] /\ \A k \in 1 .. m : u[k] = RootsOf(a, u, k)
  BY <1>1, RootTable
<1>6. ASSUME NEW k \in 1 .. n, NEW lo \in 1 .. n - k + 1
      PROVE  /\ k = 1 => t[k][lo] = s[lo]
             /\ k # 1 => t[k][lo] = <<t[PerfectBelow(k)][lo], t[k - PerfectBelow(k)][lo + PerfectBelow(k)]>>
  BY <1>1, <1>4, RootEntry
<1>7. ASSUME NEW k \in 1 .. m, NEW lo \in 1 .. m - k + 1
      PROVE  /\ k = 1 => u[k][lo] = a[lo]
             /\ k # 1 => u[k][lo] = <<u[PerfectBelow(k)][lo], u[k - PerfectBelow(k)][lo + PerfectBelow(k)]>>
  BY <1>2, <1>5, RootEntry
<1> DEFINE Size(k, lo) == IF 2 * lo - 1 + 2 * k - 1 <= n THEN 2 * k ELSE 2 * k - 1
           S == {k \in Nat : k \in 1 .. m =>
                   \A lo \in 1 .. m - k + 1 : u[k][lo] = t[Size(k, lo)][2 * lo - 1]}
<1> HIDE DEF a, n, m
<1>8. ASSUME NEW k \in 1 .. m, NEW lo \in 1 .. m - k + 1
      PROVE  /\ k \in Nat /\ lo \in Nat /\ lo >= 1 /\ k >= 1
             /\ Size(k, lo) \in 1 .. n /\ 2 * lo - 1 \in 1 .. n - Size(k, lo) + 1
             /\ Size(k, lo) = 2 * k \/ Size(k, lo) = 2 * k - 1
  BY <1>1, <1>2
<1>9. ASSUME NEW k \in Nat, 0 .. k - 1 \subseteq S PROVE k \in S
  <2> SUFFICES ASSUME k \in 1 .. m, NEW lo \in 1 .. m - k + 1
               PROVE  u[k][lo] = t[Size(k, lo)][2 * lo - 1]
    OBVIOUS
  <2>1. /\ lo \in Nat /\ lo >= 1 /\ k >= 1
        /\ Size(k, lo) \in 1 .. n /\ 2 * lo - 1 \in 1 .. n - Size(k, lo) + 1
        /\ Size(k, lo) = 2 * k \/ Size(k, lo) = 2 * k - 1
    BY <1>8
  <2>2. CASE k = 1
    <3>1. u[k][lo] = a[lo] /\ lo \in 1 .. m
      <4>1. lo \in 1 .. m
        BY <1>2, <2>2
      <4> QED
        BY <1>7, <2>2, <4>1
    <3>2. a[lo] = IF 2 * lo <= n THEN <<s[2 * lo - 1], s[2 * lo]>> ELSE s[2 * lo - 1]
      BY <1>3, <3>1
    <3>3. CASE 2 * lo <= n
      <4>1. Size(k, lo) = 2
        BY <2>1, <2>2, <3>3
      <4>2. PerfectBelow(2) = 1
        BY Powers, PerfectOnce
      <4>3. 2 \in 1 .. n /\ 2 * lo - 1 \in 1 .. n - 2 + 1 /\ 1 \in 1 .. n
            /\ 2 * lo - 1 \in 1 .. n - 1 + 1 /\ 2 * lo \in 1 .. n - 1 + 1
        BY <1>1, <1>2, <2>1, <3>3
      <4>4. t[2][2 * lo - 1] = <<t[1][2 * lo - 1], t[2 - 1][2 * lo - 1 + 1]>>
        BY <1>6, <4>2, <4>3
      <4>5. t[1][2 * lo - 1] = s[2 * lo - 1] /\ t[1][2 * lo] = s[2 * lo]
        BY <1>6, <4>3
      <4>6. 2 - 1 = 1 /\ 2 * lo - 1 + 1 = 2 * lo
        BY <2>1
      <4> QED
        BY <3>1, <3>2, <3>3, <4>1, <4>4, <4>5, <4>6
    <3>4. CASE ~(2 * lo <= n)
      <4>1. Size(k, lo) = 1
        BY <2>1, <2>2, <3>4, <1>1
      <4>2. 1 \in 1 .. n /\ 2 * lo - 1 \in 1 .. n - 1 + 1
        BY <2>1, <4>1
      <4>3. t[1][2 * lo - 1] = s[2 * lo - 1]
        BY <1>6, <4>2
      <4> QED
        BY <3>1, <3>2, <3>4, <4>1, <4>3
    <3> QED
      BY <3>3, <3>4
  <2>3. CASE k # 1
    <3> DEFINE p == PerfectBelow(k)
               j == Size(k, lo)
    <3>1. p \in 1 .. k - 1 /\ PerfectBelow(j) = 2 * p
      <4>1. k >= 2
        BY <2>1, <2>3
      <4> QED
        BY <2>1, <4>1, Perfect
    <3>2. u[k][lo] = <<u[p][lo], u[k - p][lo + p]>>
      BY <1>7, <2>3
    <3>3. t[j][2 * lo - 1] = <<t[2 * p][2 * lo - 1], t[j - 2 * p][2 * lo - 1 + 2 * p]>>
      <4>1. j # 1
        BY <2>1, <2>3
      <4> QED
        BY <1>6, <2>1, <3>1, <4>1
    <3> HIDE DEF p
    <3>4. u[p][lo] = t[Size(p, lo)][2 * lo - 1]
      <4>1. p \in S /\ p \in 1 .. m /\ lo \in 1 .. m - p + 1
        BY <1>2, <1>9, <2>1, <3>1
      <4> QED
        BY <4>1
    <3>5. u[k - p][lo + p] = t[Size(k - p, lo + p)][2 * (lo + p) - 1]
      <4>1. k - p \in S /\ k - p \in 1 .. m /\ lo + p \in 1 .. m - (k - p) + 1
        BY <1>2, <1>9, <2>1, <3>1
      <4> QED
        BY <4>1
    <3>6. Size(p, lo) = 2 * p
      BY <1>1, <1>2, <2>1, <3>1
    <3>7. Size(k - p, lo + p) = j - 2 * p
      BY <1>1, <1>2, <2>1, <3>1
    <3>8. 2 * (lo + p) - 1 = 2 * lo - 1 + 2 * p
      BY <2>1, <3>1
    <3> HIDE DEF j, Size
    <3> QED
      BY <3>2, <3>3, <3>4, <3>5, <3>6, <3>7, <3>8 DEF j
  <2> QED
    BY <2>2, <2>3
<1>10. S \in SUBSET Nat
  OBVIOUS
<1> HIDE DEF S
<1>11. m \in S
  BY <1>2, <1>9, <1>10, AllNaturals
<1>12. u[m][1] = t[Size(m, 1)][2 * 1 - 1]
  BY <1>2, <1>11 DEF S
<1>13. Size(m, 1) = n /\ 2 * 1 - 1 = 1
  BY <1>1, <1>2
<1> HIDE DEF Size
<1> QED
  BY <1>4, <1>5, <1>12, <1>13 DEF a, n

----------------------------------------------------------------------------
(* A batch or layer with another hash in the place of one of its nodes.    *)
Put(seq, i, x) == [seq EXCEPT ![i + 1] = x]

LEMMA SameLength ==
  ASSUME NEW m \in Nat, NEW n \in Nat, 1 .. m = 1 .. n
  PROVE  m = n
<1>1. m >= 1 => m \in 1 .. n
  OBVIOUS
<1>2. n >= 1 => n \in 1 .. m
  OBVIOUS
<1> QED
  BY <1>1, <1>2

LEMMA PutFacts ==
  ASSUME NEW s, IsSeq(s), NEW i \in Nat, i < Len(s), NEW x
  PROVE  /\ IsSeq(Put(s, i, x)) /\ Len(Put(s, i, x)) = Len(s) /\ Put(s, i, x)[i + 1] = x
         /\ Put(s, i, x) = [j \in 1 .. Len(s) |-> IF j = i + 1 THEN x ELSE s[j]]
<1>1. Len(s) \in Nat /\ DOMAIN s = 1 .. Len(s)
  BY SeqFacts
<1>2. PICK S : s \in Seq(S)
  BY DEF IsSeq
<1>3. s \in [1 .. Len(s) -> S]
  BY <1>2
<1>4. Put(s, i, x) = [j \in 1 .. Len(s) |-> IF j = i + 1 THEN x ELSE s[j]]
  BY <1>1, <1>3 DEF Put
<1>5. Put(s, i, x) \in [1 .. Len(s) -> S \cup {x}]
  BY <1>3, <1>4
<1>6. Put(s, i, x) \in Seq(S \cup {x})
  BY <1>1, <1>5, SeqDef
<1>7. IsSeq(Put(s, i, x))
  BY <1>6 DEF IsSeq
<1>8. Len(Put(s, i, x)) \in Nat /\ DOMAIN Put(s, i, x) = 1 .. Len(Put(s, i, x))
  BY <1>7, SeqFacts
<1>9. DOMAIN Put(s, i, x) = 1 .. Len(s)
  BY <1>4
<1>10. Len(Put(s, i, x)) = Len(s)
  <2>1. 1 .. Len(Put(s, i, x)) = 1 .. Len(s)
    BY <1>8, <1>9
  <2> QED
    BY <1>1, <1>8, <2>1, SameLength
<1>11. Put(s, i, x)[i + 1] = x
  BY <1>1, <1>4
<1> QED
  BY <1>4, <1>7, <1>10, <1>11

(* The layer above it has another hash in the place of the parent.         *)
LEMMA PutAbove ==
  ASSUME NEW layer, IsSeq(layer), NEW i \in Nat, i < Len(layer), NEW x
  PROVE  LET above(y) == RootOf(Put(LayerAbove(layer), Half(i), y)) IN
         /\ Sibling(i) < Len(layer) =>
              RootOf(Put(layer, i, x)) =
                above(IF i % 2 = 0 THEN <<x, layer[Sibling(i) + 1]>> ELSE <<layer[Sibling(i) + 1], x>>)
         /\ ~(Sibling(i) < Len(layer)) => RootOf(Put(layer, i, x)) = above(x)
<1> DEFINE n == Len(layer)
           a == LayerAbove(layer)
           b == Put(layer, i, x)
           y == IF Sibling(i) < n
                THEN IF i % 2 = 0 THEN <<x, layer[Sibling(i) + 1]>> ELSE <<layer[Sibling(i) + 1], x>>
                ELSE x
<1>1. n \in Nat /\ n >= 1 /\ i < n
  BY SeqFacts
<1>2. IsSeq(b) /\ Len(b) = n /\ b = [j \in 1 .. n |-> IF j = i + 1 THEN x ELSE layer[j]]
  BY PutFacts
<1>3. RootOf(b) = RootOf(LayerAbove(b))
  BY <1>1, <1>2, LayerRoot
<1>4. IsSeq(a) /\ Len(a) = HalfUp(n) /\ Half(i) < HalfUp(n) /\ Half(i) \in Nat /\ HalfUp(n) \in Nat
  BY <1>1, NodeAbove, Parents
<1>10. /\ i = 2 * Half(i) \/ i = 2 * Half(i) + 1
       /\ i % 2 = 0 => i = 2 * Half(i) /\ Sibling(i) = i + 1
       /\ i % 2 # 0 => i = 2 * Half(i) + 1 /\ Sibling(i) = i - 1
  BY Parents
<1>5. Put(a, Half(i), y) = [j \in 1 .. HalfUp(n) |-> IF j = Half(i) + 1 THEN y ELSE a[j]]
  <2> HIDE DEF y, a
  <2> QED
    BY <1>4, PutFacts
<1>6. /\ LayerAbove(b) = [j \in 1 .. HalfUp(n) |->
                            IF 2 * j <= n THEN <<b[2 * j - 1], b[2 * j]>> ELSE b[2 * j - 1]]
      /\ a = [j \in 1 .. HalfUp(n) |->
                IF 2 * j <= n THEN <<layer[2 * j - 1], layer[2 * j]>> ELSE layer[2 * j - 1]]
  BY <1>2 DEF LayerAbove
<1> HIDE DEF a, b, n
<1>7. ASSUME NEW j \in 1 .. HalfUp(n)
      PROVE  LayerAbove(b)[j] = IF j = Half(i) + 1 THEN y ELSE a[j]
  <2>1. /\ j \in Nat /\ j >= 1 /\ 2 * j - 1 \in 1 .. n
        /\ 2 * j <= n => 2 * j \in 1 .. n
        /\ b[2 * j - 1] = IF 2 * j - 1 = i + 1 THEN x ELSE layer[2 * j - 1]
        /\ 2 * j <= n => b[2 * j] = IF 2 * j = i + 1 THEN x ELSE layer[2 * j]
    <3>1. n = 2 * HalfUp(n) \/ n + 1 = 2 * HalfUp(n)
      BY <1>1, Parents
    <3>2. j \in Nat /\ j >= 1 /\ 2 * j - 1 \in 1 .. n /\ (2 * j <= n => 2 * j \in 1 .. n)
      BY <1>1, <1>4, <3>1
    <3> QED
      BY <1>2, <3>2
  <2>2. LayerAbove(b)[j] = IF 2 * j <= n THEN <<b[2 * j - 1], b[2 * j]>> ELSE b[2 * j - 1]
    BY <1>6
  <2>3. a[j] = IF 2 * j <= n THEN <<layer[2 * j - 1], layer[2 * j]>> ELSE layer[2 * j - 1]
    BY <1>6
  <2>4. CASE j # Half(i) + 1
    <3> DEFINE h == Half(i)
    <3>0. h \in Nat /\ (i = 2 * h \/ i = 2 * h + 1) /\ j \in Nat /\ j # h + 1
      BY <1>4, <1>10, <2>1, <2>4
    <3> HIDE DEF h
    <3>1. 2 * j - 1 # i + 1 /\ 2 * j # i + 1
      BY <3>0
    <3> QED
      BY <2>1, <2>2, <2>3, <2>4, <3>1
  <2>5. CASE j = Half(i) + 1 /\ i % 2 = 0
    <3>1. 2 * j - 1 = i + 1 /\ Sibling(i) = i + 1 /\ Sibling(i) + 1 = 2 * j /\ 2 * j # i + 1
      <4>1. i = 2 * Half(i) /\ Sibling(i) = i + 1 /\ j = Half(i) + 1
        BY <1>10, <2>5
      <4> QED
        BY <1>4, <4>1
    <3>2. Sibling(i) < n <=> 2 * j <= n
      BY <1>1, <2>1, <3>1
    <3> QED
      BY <2>1, <2>2, <2>5, <3>1, <3>2 DEF n
  <2>6. CASE j = Half(i) + 1 /\ i % 2 # 0
    <3>1. 2 * j = i + 1 /\ Sibling(i) = i - 1 /\ Sibling(i) + 1 = 2 * j - 1 /\ 2 * j - 1 # i + 1
      <4>1. i = 2 * Half(i) + 1 /\ Sibling(i) = i - 1 /\ j = Half(i) + 1
        BY <1>10, <2>6
      <4> QED
        BY <1>4, <4>1
    <3>2. Sibling(i) < n /\ 2 * j <= n
      BY <1>1, <2>1, <3>1
    <3> QED
      BY <2>1, <2>2, <2>6, <3>1, <3>2 DEF n
  <2> QED
    BY <2>4, <2>5, <2>6
<1> HIDE DEF y
<1>8. LayerAbove(b) = Put(a, Half(i), y)
  <2>1. LayerAbove(b) = [j \in 1 .. HalfUp(n) |-> LayerAbove(b)[j]]
    BY <1>6
  <2> QED
    BY <1>5, <1>7, <2>1
<1>9. RootOf(b) = RootOf(Put(a, Half(i), y))
  BY <1>3, <1>8
<1> QED
  BY <1>9 DEF a, b, y, n

(* The root of a batch of one is its only hash.                            *)
LEMMA LoneRoot ==
  ASSUME NEW s, IsSeq(s), Len(s) = 1
  PROVE  RootOf(s) = s[1]
<1>1. PICK t : RootOf(s) = t[1][1] /\ \A n \in 1 .. 1 : t[n] = RootsOf(s, t, n)
  BY RootTable
<1>2. t[1] = RootsOf(s, t, 1) /\ 1 \in 1 .. 1 - 1 + 1
  BY <1>1
<1> QED
  BY <1>1, <1>2 DEF RootsOf

----------------------------------------------------------------------------
(* The root of level k of the walk with x in the place of its node.        *)
RootWith(k, x) == RootOf(Put(layers[k], gathered[k], x))

(* The running hash stands for the claim: in the place of the node of the  *)
(* walk, on each level with its count, it gives the root that the batch    *)
(* has with the claim in the place of the leaf.                            *)
FoldedRoot ==
  pc = "fold" =>
    \A k \in 1 .. Len(layers) : Count(gathered, layers, k - 1) = folded =>
      RootWith(k, current) = RootOf(Put(leaves, index, claim))

LEMMA RootUp ==
  ASSUME MerkleInv, pc \in Walked, NEW k \in 1 .. Len(layers) - 1, NEW x
  PROVE  /\ ~Paired(gathered, layers, k) => RootWith(k, x) = RootWith(k + 1, x)
         /\ Paired(gathered, layers, k) =>
              RootWith(k, x) = RootWith(k + 1, IF gathered[k] % 2 = 0
                                               THEN <<x, SiblingNode(gathered, layers, k)>>
                                               ELSE <<SiblingNode(gathered, layers, k), x>>)
<1>1. /\ pc \in Located /\ pc \in Built /\ Len(layers) \in Nat
      /\ Len(gathered) = Len(layers) + 1 /\ WalkOK(gathered, layers, index)
  BY Positions DEF Located, Built
<1>2. k \in 1 .. Len(gathered) /\ k \in 1 .. Len(gathered) - 1 /\ k <= Len(layers) /\ k \in 1 .. Len(layers)
  BY <1>1
<1>3. /\ IsSeq(layers[k]) /\ gathered[k] \in Nat /\ gathered[k] < Len(layers[k])
      /\ layers[k + 1] = LayerAbove(layers[k]) /\ gathered[k + 1] = Half(gathered[k])
  BY <1>1, <1>2 DEF MerkleInv, LayersOK, WalkOK
<1>4. /\ Sibling(gathered[k]) < Len(layers[k]) =>
           RootOf(Put(layers[k], gathered[k], x)) =
             RootOf(Put(LayerAbove(layers[k]), Half(gathered[k]),
                        IF gathered[k] % 2 = 0 THEN <<x, layers[k][Sibling(gathered[k]) + 1]>>
                        ELSE <<layers[k][Sibling(gathered[k]) + 1], x>>))
      /\ ~(Sibling(gathered[k]) < Len(layers[k])) =>
           RootOf(Put(layers[k], gathered[k], x)) =
             RootOf(Put(LayerAbove(layers[k]), Half(gathered[k]), x))
  BY <1>3, PutAbove
<1> QED
  BY <1>3, <1>4 DEF RootWith, Paired, SiblingNode

(* Between two siblings the walk only goes up.                             *)
LEMMA RootPromoted ==
  ASSUME MerkleInv, pc \in Walked, NEW a \in 1 .. Len(layers), NEW b \in 1 .. Len(layers),
         Count(gathered, layers, a - 1) = Count(gathered, layers, b - 1), NEW x
  PROVE  RootWith(a, x) = RootWith(b, x)
<1> DEFINE C(k) == Count(gathered, layers, k)
           S == {k \in Nat : \A i, j \in 1 .. Len(layers) :
                   i + k = j /\ C(i - 1) = C(j - 1) => RootWith(i, x) = RootWith(j, x)}
<1>1. ASSUME NEW k \in Nat, 0 .. k - 1 \subseteq S PROVE k \in S
  <2> SUFFICES ASSUME NEW i \in 1 .. Len(layers), NEW j \in 1 .. Len(layers),
                      i + k = j, C(i - 1) = C(j - 1)
               PROVE  RootWith(i, x) = RootWith(j, x)
    OBVIOUS
  <2>1. CASE k = 0
    BY <2>1
  <2>2. CASE k # 0
    <3>1. Len(layers) \in Nat
      BY Positions
    <3>0. k - 1 \in S
      <4>1. k - 1 \in 0 .. k - 1
        BY <2>2
      <4> QED
        BY <1>1, <4>1
    <3> HIDE DEF S
    <3>2. /\ j - 1 \in 1 .. Len(layers) - 1 /\ j - 1 \in 1 .. Len(layers)
          /\ i + (k - 1) = j - 1 /\ j - 1 \in Nat /\ j - 1 >= 1 /\ j - 1 + 1 = j
          /\ i - 1 \in 0 .. j - 1 - 1 /\ j - 1 - 1 \in 0 .. j - 1 /\ j - 1 - 1 \in Nat
          /\ i - 1 \in Nat
      BY <2>2, <3>1
    <3>3. /\ C(i - 1) <= C(j - 1 - 1) /\ C(j - 1 - 1) <= C(j - 1)
          /\ C(i - 1) \in Nat /\ C(j - 1 - 1) \in Nat
      BY <3>2, Counts
    <3>4. C(i - 1) = C(j - 1 - 1) /\ C(j - 1) = C(j - 1 - 1)
      BY <3>3
    <3>5. ~Paired(gathered, layers, j - 1)
      <4> SUFFICES ASSUME Paired(gathered, layers, j - 1) PROVE FALSE
        OBVIOUS
      <4>1. C(j - 1) = C(j - 1 - 1) + 1
        BY <3>2, Counts
      <4> QED
        BY <3>3, <3>4, <4>1
    <3>6. RootWith(j - 1, x) = RootWith(j, x)
      <4>1. RootWith(j - 1, x) = RootWith(j - 1 + 1, x)
        BY <3>2, <3>5, RootUp
      <4> QED
        BY <3>2, <4>1
    <3>7. RootWith(i, x) = RootWith(j - 1, x)
      BY <3>0, <3>2, <3>4 DEF S
    <3> QED
      BY <3>6, <3>7
  <2> QED
    BY <2>1, <2>2
<1>2. S \in SUBSET Nat
  OBVIOUS
<1> HIDE DEF S
<1>3. \A k \in Nat : k \in S
  BY <1>1, <1>2, AllNaturals
<1>4. Len(layers) \in Nat
  BY Positions
<1>5. CASE a <= b
  <2>1. b - a \in S /\ a + (b - a) = b
    BY <1>3, <1>4, <1>5
  <2> QED
    BY <2>1 DEF S
<1>6. CASE b <= a
  <2>1. a - b \in S /\ b + (a - b) = a
    BY <1>3, <1>4, <1>6
  <2> QED
    BY <2>1 DEF S
<1> QED
  BY <1>4, <1>5, <1>6

LEMMA RootStarts ==
  ASSUME MerkleInv, NEW h \in LeafHashes, NEW c \in LeafHashes, StartVerify(h, c)
  PROVE  FoldedRoot'
<1>1. /\ pc = "proved" /\ claim' = c /\ UNCHANGED <<treeVars, proofVars, pathVars, folded>>
      /\ \/ pc' = "rejected"
         \/ pc' = "fold" /\ current' = c
  BY DEF StartVerify
<1>2. /\ Len(layers) \in Nat /\ Len(layers) >= 1 /\ WalkOK(gathered, layers, index)
      /\ layers[1] = leaves /\ folded = 0
  BY <1>1, Positions DEF Walked, MerkleInv, LayersOK, FoldOK, Built, Verifying
<1>3. ASSUME NEW k \in 1 .. Len(layers), Count(gathered, layers, k - 1) = 0
      PROVE  RootWith(k, c) = RootOf(Put(leaves, index, c))
  <2>1. 1 \in 1 .. Len(layers) /\ Count(gathered, layers, 1 - 1) = 0
    BY <1>2, Counts
  <2>2. RootWith(k, c) = RootWith(1, c)
    BY <1>1, <1>3, <2>1, RootPromoted DEF Walked
  <2>3. layers[1] = leaves /\ gathered[1] = index
    BY <1>2 DEF WalkOK
  <2> QED
    BY <2>2, <2>3 DEF RootWith
<1>4. /\ leaves' = leaves /\ index' = index /\ layers' = layers /\ gathered' = gathered
      /\ folded' = 0
  BY <1>1, <1>2 DEF treeVars, proofVars
<1> QED
  BY <1>1, <1>3, <1>4 DEF FoldedRoot, RootWith

(* The next hash of the path is the sibling of the walk on some level.     *)
LEMMA FoldsAt ==
  ASSUME MerkleInv, pc = "fold", folded < Len(path)
  PROVE  \E j \in 1 .. Len(layers) - 1 :
           /\ Paired(gathered, layers, j) /\ gathered[j] \in Nat
           /\ Count(gathered, layers, j - 1) = folded
           /\ Count(gathered, layers, j + 1 - 1) = folded + 1
           /\ path[folded + 1] = [hash |-> SiblingNode(gathered, layers, j), position |-> Side(gathered[j])]
           /\ layers[j + 1][Half(gathered[j]) + 1] =
                 IF gathered[j] % 2 = 0
                 THEN <<Node(gathered, layers, j), SiblingNode(gathered, layers, j)>>
                 ELSE <<SiblingNode(gathered, layers, j), Node(gathered, layers, j)>>
<1> DEFINE g == gathered
           l == layers
<1>3. /\ pc \in Located /\ Len(l) \in Nat /\ Len(l) >= 1 /\ Len(g) = Len(l) + 1
      /\ WalkOK(g, l, index) /\ HashesOK(hashes, g, l) /\ Len(path) \in Nat
      /\ Len(hashes) = Count(g, l, Len(l) - 1)
  BY Positions DEF Walked
<1>4. LayersOK /\ AtLevel(Len(l)) /\ folded \in Nat
  BY <1>3 DEF MerkleInv, PathOK, FoldOK, Walked
<1>5. PICK j \in 1 .. Len(l) : Paired(g, l, j) /\ Count(g, l, j) = folded + 1
  <2>1. folded + 1 \in 1 .. Len(hashes) /\ Len(g) - 1 = Len(l)
    BY <1>3, <1>4 DEF AtLevel
  <2> QED
    BY <1>3, <2>1 DEF HashesOK
<1>6. j \in 1 .. Len(g) /\ j <= Len(l) /\ j \in Nat /\ j >= 1 /\ j - 1 \in Nat /\ j + 1 - 1 = j
  BY <1>3
<1>7. Count(g, l, j - 1) = folded
  <2>1. Count(g, l, j - 1) \in Nat
    BY <1>6, Counts
  <2>2. Count(g, l, j) = Count(g, l, j - 1) + 1
    BY <1>5, <1>6, Counts
  <2> QED
    BY <1>4, <1>5, <2>1, <2>2
<1>8. j < Len(l) /\ g[j] \in Nat
  BY <1>3, <1>4, <1>5, <1>6, OneLevelUp
<1>9. l[j + 1][Half(g[j]) + 1] = IF g[j] % 2 = 0 THEN <<Node(g, l, j), SiblingNode(g, l, j)>>
                                                 ELSE <<SiblingNode(g, l, j), Node(g, l, j)>>
  BY <1>3, <1>4, <1>5, <1>6, <1>8, OneLevelUp
<1>10. j \in 1 .. Len(l) - 1
  BY <1>3, <1>8
<1>11. path[folded + 1] = [hash |-> SiblingNode(g, l, j), position |-> Side(g[j])]
  BY <1>4, <1>5, <1>10 DEF AtLevel
<1> QED
  BY <1>5, <1>6, <1>7, <1>8, <1>9, <1>10, <1>11

LEMMA RootFolds ==
  ASSUME MerkleInv, FoldedRoot, FoldNode
  PROVE  FoldedRoot'
<1> DEFINE g == gathered
           l == layers
           target == RootOf(Put(leaves, index, claim))
<1>1. /\ pc = "fold" /\ folded < Len(path) /\ folded' = folded + 1
      /\ UNCHANGED <<treeVars, proofVars, pathVars, claim>>
      /\ current' = Concat(path[folded + 1], current)
  BY DEF FoldNode
<1>2. PICK j \in 1 .. Len(l) - 1 :
           /\ Paired(g, l, j)
           /\ Count(g, l, j - 1) = folded
           /\ Count(g, l, j + 1 - 1) = folded + 1
           /\ path[folded + 1] = [hash |-> SiblingNode(g, l, j), position |-> Side(g[j])]
  BY <1>1, FoldsAt
<1>3. Len(l) \in Nat /\ pc \in Walked
  BY <1>1, Positions DEF Walked
<1>4. current' = IF g[j] % 2 = 0 THEN <<current, SiblingNode(g, l, j)>>
                                 ELSE <<SiblingNode(g, l, j), current>>
  BY <1>1, <1>2 DEF Concat, Side
<1>5. RootWith(j, current) = target
  <2>1. j \in 1 .. Len(l)
    BY <1>3
  <2> QED
    BY <1>1, <1>2, <2>1 DEF FoldedRoot
<1>6. RootWith(j, current) = RootWith(j + 1, IF g[j] % 2 = 0 THEN <<current, SiblingNode(g, l, j)>>
                                             ELSE <<SiblingNode(g, l, j), current>>)
  BY <1>2, <1>3, RootUp
<1>7. RootWith(j + 1, current') = target
  BY <1>4, <1>5, <1>6
<1>8. ASSUME NEW k \in 1 .. Len(l), Count(g, l, k - 1) = folded + 1
      PROVE  RootWith(k, current') = target
  <2>1. j + 1 \in 1 .. Len(l)
    BY <1>3
  <2> DEFINE x == current'
  <2> HIDE DEF x
  <2>2. RootWith(k, x) = RootWith(j + 1, x)
    BY <1>2, <1>3, <1>8, <2>1, RootPromoted
  <2> QED
    BY <1>7, <2>2 DEF x
<1>9. /\ leaves' = leaves /\ index' = index /\ layers' = l /\ gathered' = g /\ claim' = claim
  BY <1>1 DEF treeVars, proofVars
<1> QED
  BY <1>1, <1>8, <1>9 DEF FoldedRoot, RootWith

(* FoldIsReplacement: whatever leaf is folded up a path, of a batch of any *)
(* size, gives the root of that batch with the leaf put at the position    *)
(* that the path was made for (verify_inclusion, build_proof_path and the  *)
(* promotion of lone nodes by rs_merkle).                                  *)
THEOREM FoldReplacesLeaf == Spec => []FoldIsReplacement
<1>1. Init => FoldedRoot
  BY DEF Init, FoldedRoot
<1>2. MerkleInv /\ FoldedRoot /\ [Next]_vars => FoldedRoot'
  <2> SUFFICES ASSUME MerkleInv, FoldedRoot, [Next]_vars PROVE FoldedRoot'
    OBVIOUS
  <2>1. CASE UNCHANGED vars
    BY <2>1 DEF vars, treeVars, proofVars, pathVars, foldVars, FoldedRoot, RootWith
  <2>2. ASSUME NEW h \in LeafHashes, NEW c \in LeafHashes, StartVerify(h, c) PROVE FoldedRoot'
    BY <2>2, RootStarts
  <2>3. CASE FoldNode
    BY <2>3, RootFolds
  <2>4. CASE pc' # "fold"
    BY <2>4 DEF FoldedRoot
  <2>5. ASSUME RejectEmpty \/ HashLeaves \/ HashLayer \/ RejectIndex \/ StartProof \/ GatherHash
               \/ StartPath \/ BuildLevel \/ EndPath \/ CompareRoot
        PROVE  pc' # "fold"
    BY <2>5 DEF RejectEmpty, HashLeaves, HashLayer, RejectIndex, StartProof, GatherHash, StartPath,
                BuildLevel, EndPath, CompareRoot
  <2> QED
    BY <2>1, <2>2, <2>3, <2>4, <2>5 DEF Next
<1>3. MerkleInv /\ FoldedRoot => FoldIsReplacement
  <2> SUFFICES ASSUME MerkleInv, FoldedRoot, pc = "fold", folded = Len(path)
               PROVE  current = RootOf([leaves EXCEPT ![index + 1] = claim])
    BY DEF FoldIsReplacement
  <2> DEFINE n == Len(layers)
  <2>1. /\ n \in Nat /\ n >= 1 /\ gathered[n] = 0 /\ Len(layers[n]) = 1
        /\ Count(gathered, layers, n - 1) = folded
    BY Positions DEF Walked, MerkleInv, PathOK, AtLevel
  <2>2. IsSeq(layers[n])
    BY <2>1 DEF MerkleInv, LayersOK, Built
  <2>3. RootWith(n, current) = RootOf(Put(leaves, index, claim))
    BY <2>1 DEF FoldedRoot
  <2>4. /\ IsSeq(Put(layers[n], 0, current)) /\ Len(Put(layers[n], 0, current)) = 1
        /\ Put(layers[n], 0, current)[1] = current
    <3> DEFINE s == layers[n]
               c == current
               z == 0
    <3>1. IsSeq(s) /\ Len(s) = 1 /\ z \in Nat /\ z < Len(s) /\ z + 1 = 1
      BY <2>1, <2>2
    <3> HIDE DEF s, c, z
    <3>2. IsSeq(Put(s, z, c)) /\ Len(Put(s, z, c)) = Len(s) /\ Put(s, z, c)[z + 1] = c
      BY <3>1, PutFacts
    <3> QED
      BY <3>1, <3>2 DEF s, c, z
  <2>5. RootWith(n, current) = current
    BY <2>1, <2>4, LoneRoot DEF RootWith
  <2> QED
    BY <2>3, <2>5 DEF Put
<1> QED
  BY <1>1, <1>2, <1>3, MerkleInvHolds, PTL DEF Spec

----------------------------------------------------------------------------
(* VerdictsRight of module Agents, for any tasks, payloads and rules.      *)

(* What a signature is over.                                               *)
Covered(key, id, agent, task, output, status, references) ==
  <<id, agent, key, Sha256(task), Sha256(output), output, status, references>>
SignedBy(key, id, agent, task, output, status, references) ==
  [id |-> id, agent |-> agent, pubkey |-> key, task |-> Sha256(task), hash |-> Sha256(output),
   output |-> output, status |-> status, references |-> references,
   signature |-> [by |-> key, over |-> Covered(key, id, agent, task, output, status, references)]]

(* The records that a Worker or Python code may have signed.               *)
Answer(t) == SignedBy("kw", "w", "worker", t, Solve(t).output,
                      IF Solve(t).ok THEN Completed ELSE Failed, "none")
PythonRecord(p) == SignedBy("kw", "w", "worker", Task("payload", p), <<"payload", p>>, Completed, "none")
Records == {Answer(t) : t \in Tasks} \cup {PythonRecord(p) : p \in Payloads}

(* The Verifier's, of the record and the task it was asked about.          *)
Judged == SignedBy("kv", "v", "verifier", asked, <<"judgement", Judgement(asked)>>,
                   Judgement(asked), record.id)

AgentsInv ==
  /\ signed = Nothing => record = Nothing /\ verdict = Nothing
  /\ signed # Nothing => signed \in Records /\ (record = signed \/ record \in Damage(signed))
  /\ verdict # Nothing => asked \in Tasks /\ verdict = Judged

LEMMA Signing ==
  ASSUME NEW key, NEW id, NEW agent, NEW task, NEW output, NEW status, NEW references
  PROVE  LET a == SignAttestation(key, Attestation(id, agent, task, output, status, references)) IN
         a = SignedBy(key, id, agent, task, output, status, references)
<1> DEFINE a == Attestation(id, agent, task, output, status, references)
           k == [a EXCEPT !.pubkey = key]
<1>1. k = [id |-> id, agent |-> agent, pubkey |-> key, task |-> Sha256(task), hash |-> Sha256(output),
           output |-> output, status |-> status, references |-> references, signature |-> Zero]
  BY DEF Attestation, CanonicalBytes
<1>2. SignAttestation(key, a) = [k EXCEPT !.signature = [by |-> key, over |-> SigningPayload(k)]]
  BY DEF SignAttestation
<1> HIDE DEF a, k
<1>3. SigningPayload(k) = Covered(key, id, agent, task, output, status, references)
  BY <1>1 DEF SigningPayload, Covered
<1>4. SignAttestation(key, a) = SignedBy(key, id, agent, task, output, status, references)
  BY <1>1, <1>2, <1>3 DEF SignedBy
<1> QED
  BY <1>4 DEF a

LEMMA SignedVerifies ==
  ASSUME NEW key, NEW id, NEW agent, NEW task, NEW output, NEW status, NEW references, NEW other
  PROVE  LET a == SignedBy(key, id, agent, task, output, status, references) IN
         /\ VerifyAttestation(a) /\ VerifySignature(a) /\ VerifyFor(a, key)
         /\ other # key => ~VerifyFor(a, other)
BY DEF SignedBy, Covered, VerifyAttestation, VerifySignature, VerifyFor, SigningPayload

(* The answers to tasks are not those of Python code.                      *)
LEMMA Solved ==
  ASSUME NEW t
  PROVE  /\ Solve(t).ok \in BOOLEAN
         /\ \A p : Solve(t).output # <<"payload", p>>
<1>1. CASE t[1] = "kyc"
  BY <1>1 DEF Solve, DecisionOutput
<1>2. CASE t[1] # "kyc" /\ Calculate(t[2]).ok
  BY <1>2 DEF Solve
<1>3. CASE t[1] # "kyc" /\ ~Calculate(t[2]).ok
  BY <1>3 DEF Solve
<1> QED
  BY <1>1, <1>2, <1>3

(* No damage to a signed record, except none, leaves its signature good.   *)
LEMMA DamageShows ==
  ASSUME NEW a \in Records, NEW r \in Damage(a), VerifySignature(r)
  PROVE  r = a
<1>1. PICK task, output, status :
        a = SignedBy("kw", "w", "worker", task, output, status, "none")
  BY DEF Records, Answer, PythonRecord
<1> DEFINE over == Covered("kw", "w", "worker", task, output, status, "none")
<1>2. /\ a = [id |-> "w", agent |-> "worker", pubkey |-> "kw", task |-> Sha256(task),
              hash |-> Sha256(output), output |-> output, status |-> status,
              references |-> "none", signature |-> [by |-> "kw", over |-> over]]
      /\ over = <<"w", "worker", "kw", Sha256(task), Sha256(output), output, status, "none">>
  BY <1>1 DEF SignedBy, Covered
<1> HIDE DEF over
<1>3. ASSUME NEW id, NEW agent, NEW key, NEW t, NEW h, NEW o, NEW s, NEW f,
             r = [id |-> id, agent |-> agent, pubkey |-> key, task |-> t, hash |-> h,
                  output |-> o, status |-> s, references |-> f,
                  signature |-> [by |-> "kw", over |-> over]]
      PROVE  r = a
  <2>1. <<id, agent, key, t, h, o, s, f>> = over
    BY <1>3 DEF VerifySignature, SigningPayload
  <2>2. id = "w" /\ agent = "worker" /\ key = "kw" /\ t = Sha256(task) /\ h = Sha256(output)
        /\ o = output /\ s = status /\ f = "none"
    BY <1>2, <2>1
  <2> QED
    BY <1>2, <1>3, <2>2
<1>4. r # [a EXCEPT !.signature = Zero]
  BY <1>2 DEF VerifySignature, Zero
<1>5. CASE r = [a EXCEPT !.id = "damaged"]
  BY <1>2, <1>3, <1>5
<1>6. CASE r = [a EXCEPT !.agent = "damaged"]
  BY <1>2, <1>3, <1>6
<1>7. CASE r = [a EXCEPT !.pubkey = "kv"]
  BY <1>2, <1>3, <1>7
<1>8. CASE r = [a EXCEPT !.references = "w"]
  BY <1>2, <1>3, <1>8
<1>9. ASSUME NEW t, r = [a EXCEPT !.task = t] PROVE r = a
  BY <1>2, <1>3, <1>9
<1>10. ASSUME NEW s, r = [a EXCEPT !.status = s] PROVE r = a
  BY <1>2, <1>3, <1>10
<1>11. ASSUME NEW o, r = [a EXCEPT !.output = o] PROVE r = a
  BY <1>2, <1>3, <1>11
<1>12. ASSUME NEW o, NEW h, r = [a EXCEPT !.output = o, !.hash = h] PROVE r = a
  BY <1>2, <1>3, <1>12
<1> QED
  BY <1>4, <1>5, <1>6, <1>7, <1>8, <1>9, <1>10, <1>11, <1>12 DEF Damage

LEMMA JudgedRight ==
  ASSUME AgentsInv
  PROVE  VerdictsRight
<1> SUFFICES ASSUME verdict # Nothing PROVE VerdictsRight
  BY DEF VerdictsRight
<1>1. /\ signed # Nothing /\ signed \in Records /\ (record = signed \/ record \in Damage(signed))
      /\ asked \in Tasks /\ verdict = Judged
  BY DEF AgentsInv
<1>2. /\ VerifyAttestation(verdict) /\ VerifyFor(verdict, "kv") /\ ~VerifyFor(verdict, "kw")
  BY <1>1, SignedVerifies DEF Judged
<1>3. verdict.references = record.id /\ verdict.status = Judgement(asked)
  BY <1>1 DEF Judged, SignedBy
<1>4. VerifyAttestation(signed) /\ VerifySignature(signed)
  <2>1. PICK task, output, status :
          signed = SignedBy("kw", "w", "worker", task, output, status, "none")
    BY <1>1 DEF Records, Answer, PythonRecord
  <2> QED
    BY <2>1, SignedVerifies
<1>5. /\ VerifyAttestation(record) <=> record = signed
      /\ VerifySignature(record) <=> record = signed
  BY <1>1, <1>4, DamageShows DEF VerifyAttestation
<1>6. AttestlyVerify(record) = 0 <=> VerifySignature(record)
  BY DEF AttestlyVerify
<1> DEFINE correct == record.status = Completed /\ Solve(asked).ok /\ Solve(asked).output = record.output
<1>7. /\ verdict.status[2] <=> VerifyAttestation(record)
      /\ verdict.status[3] <=> correct
  <2> DEFINE valid == VerifyAttestation(record)
  <2>1. verdict.status = <<"Verified", valid, correct>>
    BY <1>3 DEF Judgement, Verified
  <2> HIDE DEF valid, correct
  <2>2. verdict.status[2] = valid /\ verdict.status[3] = correct
    BY <2>1
  <2> QED
    BY Zenon, <2>2 DEF valid
<1>8. ASSUME record = signed
      PROVE  correct <=> \E t \in Tasks : signed.task = Sha256(CanonicalBytes(t))
                                          /\ SameAnswer(Solve(t), Solve(asked))
  <2>1. CASE signed \in {Answer(t) : t \in Tasks}
    <3>1. PICK u \in Tasks : signed = Answer(u)
      BY <2>1
    <3>2. /\ signed.task = Sha256(u) /\ signed.output = Solve(u).output
          /\ signed.status = IF Solve(u).ok THEN Completed ELSE Failed
      BY <3>1 DEF Answer, SignedBy
    <3>3. signed.status = Completed <=> Solve(u).ok
      BY <3>2 DEF Completed, Failed
    <3>4. \A t : signed.task = Sha256(CanonicalBytes(t)) <=> t = u
      BY <3>2 DEF Sha256, CanonicalBytes
    <3>5. correct <=> SameAnswer(Solve(u), Solve(asked))
      BY <1>8, <3>2, <3>3 DEF SameAnswer
    <3> QED
      BY <3>4, <3>5
  <2>2. CASE signed \in {PythonRecord(p) : p \in Payloads}
    <3>1. PICK p \in Payloads : signed = PythonRecord(p)
      BY <2>2
    <3>2. signed.task = Sha256(Task("payload", p)) /\ signed.output = <<"payload", p>>
      BY <3>1 DEF PythonRecord, SignedBy
    <3>3. ~correct
      BY <1>8, <3>2, Solved
    <3>4. \A t \in Tasks : signed.task # Sha256(CanonicalBytes(t))
      BY <3>2 DEF Tasks, Task, Sha256, CanonicalBytes
    <3> QED
      BY <3>3, <3>4
  <2> QED
    BY <1>1, <2>1, <2>2 DEF Records
<1> HIDE DEF correct
<1> QED
  BY <1>2, <1>3, <1>5, <1>6, <1>7, <1>8 DEF VerdictsRight

LEMMA SignsKeeps ==
  ASSUME AgentsInv, NEW a \in Records, Signs(a)
  PROVE  AgentsInv'
<1>1. signed' = a /\ record' = a /\ signed = Nothing /\ verdict' = verdict
  BY DEF Signs
<1>2. a # Nothing
  <2>1. PICK task, output, status : a = SignedBy("kw", "w", "worker", task, output, status, "none")
    BY DEF Records, Answer, PythonRecord
  <2>2. "agent" \in DOMAIN a
    BY <2>1 DEF SignedBy
  <2>3. "agent" \notin DOMAIN Nothing
    BY DEF Nothing
  <2> QED
    BY <2>2, <2>3
<1>3. verdict' = Nothing
  BY <1>1 DEF AgentsInv
<1> QED
  BY <1>1, <1>2, <1>3 DEF AgentsInv

LEMMA JudgesKeeps ==
  ASSUME AgentsInv, NEW t \in Tasks, Judges(t)
  PROVE  AgentsInv'
<1>1. /\ signed # Nothing /\ asked' = t /\ signed' = signed /\ record' = record
      /\ verdict' = SignAttestation("kv",
           Attestation("v", "verifier", t, <<"judgement", Judgement(t)>>, Judgement(t), record.id))
  BY DEF Judges
<1>2. verdict' = SignedBy("kv", "v", "verifier", t, <<"judgement", Judgement(t)>>, Judgement(t), record.id)
  BY <1>1, Signing
<1>3. Judgement(asked)' = Judgement(t)
  BY <1>1 DEF Judgement
<1>4. verdict' = Judged'
  BY <1>1, <1>2, <1>3 DEF Judged
<1> QED
  BY <1>1, <1>4 DEF AgentsInv

(* VerdictsRight: what a Verifier signs is valid just when the record is   *)
(* as it was signed, and then correct just when both tasks have the same   *)
(* answer (verifier.rs, kyc_agents.rs, attestation.rs, signing.rs).        *)
THEOREM VerdictsAreRight == AgentsSpec => []VerdictsRight
<1>1. AgentsInit => AgentsInv
  BY DEF AgentsInit, AgentsInv
<1>2. AgentsInv /\ [AgentsNext]_agentVars => AgentsInv'
  <2> SUFFICES ASSUME AgentsInv, [AgentsNext]_agentVars PROVE AgentsInv'
    OBVIOUS
  <2>1. CASE UNCHANGED agentVars
    BY <2>1 DEF agentVars, AgentsInv, Judged, Judgement
  <2>2. ASSUME NEW t \in Tasks, Answers(t) PROVE AgentsInv'
    <3>1. Answer(t) \in Records
      BY DEF Records
    <3>2. Signs(Answer(t))
      BY <2>2, Signing DEF Answers, Answer
    <3> QED
      BY <3>1, <3>2, SignsKeeps
  <2>3. ASSUME NEW p \in Payloads, PythonSigns(p) PROVE AgentsInv'
    <3>1. PythonRecord(p) \in Records
      BY DEF Records
    <3>2. Signs(PythonRecord(p))
      BY <2>3, Signing DEF PythonSigns, PythonRecord
    <3> QED
      BY <3>1, <3>2, SignsKeeps
  <2>4. ASSUME NEW t \in Tasks, Judges(t) PROVE AgentsInv'
    BY <2>4, JudgesKeeps
  <2>5. CASE RecordDamaged
    BY <2>5 DEF RecordDamaged, AgentsInv
  <2>6. ASSUME NEW e \in Expressions PROVE Task("calc", e) \in Tasks
    BY DEF Tasks
  <2>7. ASSUME NEW q \in KycRequests PROVE Task("kyc", q) \in Tasks
    BY DEF Tasks
  <2> QED
    BY <2>1, <2>2, <2>3, <2>4, <2>5, <2>6, <2>7
       DEF AgentsNext, WorkerRuns, KycWorkerRuns, VerifierRuns, KycVerifierRuns
<1> QED
  BY <1>1, <1>2, JudgedRight, PTL DEF AgentsSpec

----------------------------------------------------------------------------
(* CalculatedRight of module Calculator, for every expression.             *)

LEMMA FloatsClosed ==
  ASSUME NEW v \in Floats, NEW w \in Floats
  PROVE  /\ Negate(v) \in Floats /\ Multiplied(v, w) \in Floats
         /\ w.num # 0 => Over(v, w) \in Floats
         /\ Plus(v, w) \in Floats /\ Minus(v, w) \in Floats /\ Same(v, v)
<1>1. ASSUME NEW x \in Nat \ {0}, NEW y \in Nat \ {0} PROVE x * y \in Nat \ {0}
  OBVIOUS
<1>2. ASSUME NEW x \in Nat, NEW y \in Nat PROVE x * y \in Nat
  OBVIOUS
<1>3. ASSUME NEW a \in BOOLEAN, NEW x \in Nat, NEW y \in Nat \ {0} PROVE Float(a, x, y) \in Floats
  BY DEF Float, Floats
<1>4. ASSUME NEW x \in Floats
      PROVE  x.neg \in BOOLEAN /\ x.num \in Nat /\ x.den \in Nat \ {0}
  BY DEF Floats
<1>5. ASSUME NEW x \in Floats PROVE Negate(x) \in Floats
  BY <1>3, <1>4 DEF Negate
<1>6. v.den * w.den \in Nat \ {0} /\ v.num * w.num \in Nat /\ v.num * w.den \in Nat /\ w.num * v.den \in Nat
      /\ (w.num # 0 => v.den * w.num \in Nat \ {0})
  BY <1>1, <1>2, <1>4
<1>7. Multiplied(v, w) \in Floats
  BY <1>3, <1>4, <1>6 DEF Multiplied
<1>8. w.num # 0 => Over(v, w) \in Floats
  BY <1>3, <1>4, <1>6 DEF Over
<1>9. ASSUME NEW x \in Floats PROVE Plus(v, x) \in Floats
  <2>1. v.den * x.den \in Nat \ {0} /\ v.num * x.den \in Nat /\ x.num * v.den \in Nat
    BY <1>1, <1>2, <1>4
  <2> DEFINE a == v.num * x.den
             b == x.num * v.den
             den == v.den * x.den
  <2>2. a \in Nat /\ b \in Nat /\ den \in Nat \ {0}
    BY <2>1
  <2>3. Plus(v, x) = IF v.neg = x.neg THEN Float(v.neg, a + b, den)
                     ELSE IF a > b THEN Float(v.neg, a - b, den)
                     ELSE IF b > a THEN Float(x.neg, b - a, den)
                     ELSE Float(FALSE, 0, 1)
    BY DEF Plus
  <2> HIDE DEF a, b, den
  <2>4. CASE v.neg = x.neg
    <3>1. a + b \in Nat
      BY <2>2
    <3> QED
      BY <1>3, <1>4, <2>2, <2>3, <2>4, <3>1
  <2>5. CASE ~(v.neg = x.neg)
    <3>1. CASE a > b
      <4>1. a - b \in Nat
        BY <2>2, <3>1
      <4> QED
        BY <1>3, <1>4, <2>2, <2>3, <2>5, <3>1, <4>1
    <3>2. CASE b > a
      <4>1. b - a \in Nat /\ ~(a > b)
        BY <2>2, <3>2
      <4> QED
        BY <1>3, <1>4, <2>2, <2>3, <2>5, <3>2, <4>1
    <3>3. CASE ~(a > b) /\ ~(b > a)
      <4>1. Float(FALSE, 0, 1) \in Floats
        BY DEF Float, Floats
      <4> QED
        BY <2>3, <2>5, <3>3, <4>1
    <3> QED
      BY <3>1, <3>2, <3>3
  <2> QED
    BY <2>4, <2>5
<1>10. Minus(v, w) \in Floats
  BY <1>5, <1>9 DEF Minus
<1>11. Same(v, v)
  BY DEF Same
<1> QED
  BY <1>5, <1>7, <1>8, <1>9, <1>10, <1>11

(* What the parser may say of the tokens from a position on.               *)
Results(e, lo) == {Wrong} \cup {Parsed(v, q) : v \in Floats, q \in lo .. Len(e) + 1}

LEMMA ResultFacts ==
  ASSUME NEW e, NEW lo
  PROVE  /\ ~Wrong.ok /\ Wrong \in Results(e, lo)
         /\ \A v, q : /\ Parsed(v, q).ok /\ Parsed(v, q).value = v /\ Parsed(v, q).pos = q
                      /\ v \in Floats /\ q \in lo .. Len(e) + 1 => Parsed(v, q) \in Results(e, lo)
         /\ \A r \in Results(e, lo) :
              /\ r.ok \in BOOLEAN
              /\ r.ok => r.value \in Floats /\ r.pos \in lo .. Len(e) + 1
<1>1. ~Wrong.ok /\ Wrong \in Results(e, lo)
  BY DEF Wrong, Results
<1>2. ASSUME NEW v, NEW q
      PROVE  Parsed(v, q).ok /\ Parsed(v, q).value = v /\ Parsed(v, q).pos = q
  BY DEF Parsed
<1>3. ASSUME NEW v \in Floats, NEW q \in lo .. Len(e) + 1 PROVE Parsed(v, q) \in Results(e, lo)
  BY DEF Results
<1>4. ASSUME NEW r \in Results(e, lo)
      PROVE  /\ r.ok \in BOOLEAN
             /\ r.ok => r.value \in Floats /\ r.pos \in lo .. Len(e) + 1
  <2>1. CASE r = Wrong
    BY <2>1 DEF Wrong
  <2>2. CASE r # Wrong
    <3>1. PICK v \in Floats, q \in lo .. Len(e) + 1 : r = Parsed(v, q)
      BY <2>2 DEF Results
    <3>2. r.ok = TRUE /\ r.value = v /\ r.pos = q
      BY <3>1 DEF Parsed
    <3> QED
      BY <3>2
  <2> QED
    BY <2>1, <2>2
<1> QED
  BY <1>1, <1>2, <1>3, <1>4

(* A table of the parser, from position first on.                          *)
Entry(e, at, pos) ==
  [factor   |-> Factor(at, e, pos),
   products |-> [acc \in Floats |-> Products(at, e, pos, acc)],
   sums     |-> [acc \in Floats |-> Sums(at, e, pos, acc)]]
Parses(e, at) == at = [pos \in 1 .. Len(e) + 1 |-> Entry(e, at, pos)]

EntryOK(e, at, pos) ==
  /\ at[pos].factor \in Results(e, pos + 1)
  /\ \A acc \in Floats : at[pos].products[acc] \in Results(e, pos) /\ at[pos].sums[acc] \in Results(e, pos)
TableOK(e, at, first) == \A pos \in first .. Len(e) + 1 : EntryOK(e, at, pos)

(* The operators, the numerals and the end of an expression are different. *)
LEMMA Symbols ==
  ASSUME NEW e \in Seq(Tokens)
  PROVE  /\ Len(e) \in Nat
         /\ \A pos \in 1 .. Len(e) : Peek(e, pos) = e[pos] /\ e[pos] \in Tokens
         /\ Peek(e, Len(e) + 1) = "end" /\ "end" \notin DOMAIN ValueOf /\ "end" \notin Operators
         /\ \A t \in DOMAIN ValueOf : t \notin Operators /\ t # "end" /\ Float(FALSE, ValueOf[t], 1) \in Floats
<1>1. Len(e) \in Nat /\ DOMAIN e = 1 .. Len(e) /\ \A pos \in 1 .. Len(e) : e[pos] \in Tokens
  OBVIOUS
<1>2. ASSUME NEW t \in DOMAIN ValueOf
      PROVE  t \notin Operators /\ t # "end" /\ Float(FALSE, ValueOf[t], 1) \in Floats
  <2>1. t \in Numerals /\ ValueOf[t] \in Nat
    BY CalculatorAssumption
  <2> QED
    BY <2>1, CalculatorAssumption DEF Float, Floats
<1>3. Peek(e, Len(e) + 1) = "end"
  <2>1. Len(e) + 1 \notin 1 .. Len(e)
    BY <1>1
  <2> QED
    BY <1>1, <2>1 DEF Peek
<1>4. "end" \notin Operators
  BY DEF Operators
<1> QED
  BY <1>1, <1>2, <1>3, <1>4 DEF Peek

LEMMA TermOK ==
  ASSUME NEW e \in Seq(Tokens), NEW at, NEW pos \in Nat \ {0}, TableOK(e, at, pos), pos <= Len(e) + 1
  PROVE  Term(at, pos) \in Results(e, pos + 1) /\ Expr(at, pos) \in Results(e, pos + 1)
<1>0. Len(e) \in Nat /\ pos \in pos .. Len(e) + 1
  BY Symbols
<1> DEFINE r == at[pos].factor
<1>1. r \in Results(e, pos + 1)
  BY <1>0 DEF TableOK, EntryOK
<1>2. ASSUME NEW x, x \in Results(e, pos + 1), x.ok
      PROVE  /\ at[x.pos].products[x.value] \in Results(e, pos + 1)
             /\ at[x.pos].sums[x.value] \in Results(e, pos + 1)
  <2>1. x.value \in Floats /\ x.pos \in pos + 1 .. Len(e) + 1
    BY <1>2, ResultFacts
  <2>2. x.pos \in pos .. Len(e) + 1 /\ x.pos \in Nat /\ x.pos >= pos + 1
    BY <1>0, <2>1
  <2>3. at[x.pos].products[x.value] \in Results(e, x.pos) /\ at[x.pos].sums[x.value] \in Results(e, x.pos)
    BY <2>1, <2>2 DEF TableOK, EntryOK
  <2>4. Results(e, x.pos) \subseteq Results(e, pos + 1)
    <3>1. \A q : q \in x.pos .. Len(e) + 1 => q \in pos + 1 .. Len(e) + 1
      BY <1>0, <2>2
    <3> QED
      BY <3>1 DEF Results
  <2> QED
    BY <2>3, <2>4
<1>3. Wrong \in Results(e, pos + 1)
  BY DEF Results
<1>4. Term(at, pos) \in Results(e, pos + 1)
  BY <1>1, <1>2, <1>3 DEF Term
<1> HIDE DEF r
<1>5. Expr(at, pos) \in Results(e, pos + 1)
  BY <1>2, <1>3, <1>4 DEF Expr
<1> QED
  BY <1>4, <1>5

(* The table is read at later positions only.                              *)
Agree(e, at, u, first) == \A pos \in first .. Len(e) + 1 : u[pos] = at[pos]

LEMMA TermSame ==
  ASSUME NEW e \in Seq(Tokens), NEW at, NEW u, NEW pos \in Nat \ {0}, TableOK(e, at, pos),
         Agree(e, at, u, pos), pos <= Len(e) + 1
  PROVE  Term(u, pos) = Term(at, pos) /\ Expr(u, pos) = Expr(at, pos)
<1>0. Len(e) \in Nat /\ pos \in pos .. Len(e) + 1
  BY Symbols
<1> DEFINE r == at[pos].factor
<1>1. r \in Results(e, pos + 1) /\ u[pos].factor = r
  BY <1>0 DEF TableOK, EntryOK, Agree
<1>2. ASSUME NEW x, x \in Results(e, pos + 1), x.ok PROVE u[x.pos] = at[x.pos]
  <2>1. x.pos \in pos + 1 .. Len(e) + 1
    BY <1>2, ResultFacts
  <2>2. x.pos \in pos .. Len(e) + 1
    BY <1>0, <2>1
  <2> QED
    BY <2>2 DEF Agree
<1>3. Term(u, pos) = Term(at, pos)
  BY <1>1, <1>2 DEF Term
<1>4. Term(at, pos) \in Results(e, pos + 1)
  BY TermOK
<1> HIDE DEF r
<1>5. Expr(u, pos) = Expr(at, pos)
  BY <1>2, <1>3, <1>4 DEF Expr
<1> QED
  BY <1>3, <1>5

LEMMA FactorCases ==
  ASSUME NEW e \in Seq(Tokens), NEW at, NEW pos
  PROVE  LET t == Peek(e, pos)
             minus == at[pos + 1].factor
             paren == Expr(at, pos + 1) IN
         /\ t = "-" =>
              Factor(at, e, pos) = IF minus.ok THEN Parsed(Negate(minus.value), minus.pos) ELSE Wrong
         /\ t = "(" =>
              Factor(at, e, pos) = IF paren.ok /\ Peek(e, paren.pos) = ")"
                                   THEN Parsed(paren.value, paren.pos + 1) ELSE Wrong
         /\ t \in DOMAIN ValueOf =>
              t # "-" /\ t # "(" /\ Factor(at, e, pos) = Parsed(Float(FALSE, ValueOf[t], 1), pos + 1)
         /\ t # "-" /\ t # "(" /\ t \notin DOMAIN ValueOf => Factor(at, e, pos) = Wrong
<1>1. Peek(e, pos) \in DOMAIN ValueOf => Peek(e, pos) # "-" /\ Peek(e, pos) # "("
  BY Symbols DEF Operators
<1> QED
  BY <1>1 DEF Factor

LEMMA FactorOK ==
  ASSUME NEW e \in Seq(Tokens), NEW at, NEW pos \in 1 .. Len(e) + 1, TableOK(e, at, pos + 1)
  PROVE  /\ Factor(at, e, pos) \in Results(e, pos + 1)
         /\ \A u : Agree(e, at, u, pos + 1) => Factor(u, e, pos) = Factor(at, e, pos)
<1>0. Len(e) \in Nat /\ pos \in Nat \ {0} /\ pos + 1 \in Nat \ {0} /\ pos + 1 + 1 = pos + 2
  BY Symbols
<1>1. CASE pos = Len(e) + 1
  <2>1. Peek(e, pos) = "end" /\ "end" \notin DOMAIN ValueOf
    BY <1>1, Symbols
  <2>2. \A t : Factor(t, e, pos) = Wrong
    BY <2>1 DEF Factor
  <2> QED
    BY <2>2, ResultFacts
<1>2. CASE pos # Len(e) + 1
  <2>1. pos \in 1 .. Len(e) /\ pos + 1 <= Len(e) + 1 /\ pos + 1 \in pos + 1 .. Len(e) + 1
    BY <1>0, <1>2
  <2> DEFINE t == Peek(e, pos)
             minus(a) == LET r == a[pos + 1].factor IN
                         IF r.ok THEN Parsed(Negate(r.value), r.pos) ELSE Wrong
             paren(a) == LET r == Expr(a, pos + 1) IN
                         IF r.ok /\ Peek(e, r.pos) = ")" THEN Parsed(r.value, r.pos + 1) ELSE Wrong
  <2>2. ASSUME NEW a
        PROVE  /\ t = "-" => Factor(a, e, pos) = minus(a)
               /\ t = "(" => Factor(a, e, pos) = paren(a)
               /\ t \in DOMAIN ValueOf =>
                    Factor(a, e, pos) = Parsed(Float(FALSE, ValueOf[t], 1), pos + 1)
               /\ t # "-" /\ t # "(" /\ t \notin DOMAIN ValueOf => Factor(a, e, pos) = Wrong
    BY FactorCases
  <2>3. CASE t = "-"
    <3> DEFINE r == at[pos + 1].factor
    <3>1. r \in Results(e, pos + 2)
      BY <1>0, <2>1 DEF TableOK, EntryOK
    <3>2. minus(at) \in Results(e, pos + 1)
      <4>1. CASE r.ok
        <5>1. r.value \in Floats /\ r.pos \in pos + 2 .. Len(e) + 1
          BY <3>1, <4>1, ResultFacts
        <5>2. r.pos \in pos + 1 .. Len(e) + 1 /\ Negate(r.value) \in Floats
          <6>1. r.pos \in pos + 1 .. Len(e) + 1
            BY <1>0, <5>1
          <6> HIDE DEF r
          <6>2. Negate(r.value) \in Floats
            BY <5>1, FloatsClosed
          <6> QED
            BY <6>1, <6>2
        <5>3. Parsed(Negate(r.value), r.pos) \in Results(e, pos + 1)
          BY <5>2, ResultFacts
        <5> QED
          BY <4>1, <5>3
      <4>2. CASE ~r.ok
        BY <4>2, ResultFacts
      <4> QED
        BY <4>1, <4>2
    <3>3. \A u : Agree(e, at, u, pos + 1) => minus(u) = minus(at)
      BY <2>1 DEF Agree
    <3> HIDE DEF minus, paren
    <3> QED
      BY <2>2, <2>3, <3>2, <3>3
  <2>4. CASE t = "("
    <3> DEFINE r == Expr(at, pos + 1)
    <3>1. r \in Results(e, pos + 2)
      <4>1. Expr(at, pos + 1) \in Results(e, pos + 1 + 1)
        BY <1>0, <2>1, TermOK
      <4> QED
        BY <1>0, <4>1
    <3> HIDE DEF r
    <3>2. paren(at) \in Results(e, pos + 1)
      <4>1. CASE r.ok /\ Peek(e, r.pos) = ")"
        <5>1. r.value \in Floats /\ r.pos \in pos + 2 .. Len(e) + 1
          BY <3>1, <4>1, ResultFacts
        <5>2. r.pos # Len(e) + 1
          <6>1. Peek(e, Len(e) + 1) # ")"
            BY Symbols
          <6> QED
            BY <4>1, <6>1
        <5>3. r.pos + 1 \in pos + 1 .. Len(e) + 1
          BY <1>0, <5>1, <5>2
        <5>4. Parsed(r.value, r.pos + 1) \in Results(e, pos + 1)
          BY <5>1, <5>3, ResultFacts
        <5> QED
          BY <4>1, <5>4 DEF r
      <4>2. CASE ~(r.ok /\ Peek(e, r.pos) = ")")
        BY <4>2, ResultFacts DEF r
      <4> QED
        BY <4>1, <4>2
    <3>3. \A u : Agree(e, at, u, pos + 1) => paren(u) = paren(at)
      <4>1. \A u : Agree(e, at, u, pos + 1) => Expr(u, pos + 1) = Expr(at, pos + 1)
        BY <1>0, <2>1, TermSame
      <4> QED
        BY <4>1
    <3> HIDE DEF minus, paren
    <3> QED
      BY <2>2, <2>4, <3>2, <3>3
  <2>5. CASE t \in DOMAIN ValueOf
    <3>1. Parsed(Float(FALSE, ValueOf[t], 1), pos + 1) \in Results(e, pos + 1)
      BY <2>1, <2>5, Symbols, ResultFacts
    <3> HIDE DEF minus, paren, t
    <3>2. \A a : Factor(a, e, pos) = Parsed(Float(FALSE, ValueOf[t], 1), pos + 1)
      BY <2>2, <2>5
    <3> QED
      BY <3>1, <3>2
  <2>6. CASE t # "-" /\ t # "(" /\ t \notin DOMAIN ValueOf
    <3> HIDE DEF minus, paren, t
    <3>1. \A a : Factor(a, e, pos) = Wrong
      BY <2>2, <2>6
    <3>2. Wrong \in Results(e, pos + 1)
      BY ResultFacts
    <3> QED
      BY <3>1, <3>2
  <2> QED
    BY <2>3, <2>4, <2>5, <2>6
<1> QED
  BY <1>1, <1>2

(* A loop that has read an operator and what follows it as r goes on at    *)
(* r.pos; the one that has not ends.                                       *)
LEMMA GoesOn ==
  ASSUME NEW e \in Seq(Tokens), NEW at, NEW pos \in 1 .. Len(e) + 1, TableOK(e, at, pos + 1),
         NEW r \in Results(e, pos + 2), r.ok, NEW acc \in Floats
  PROVE  /\ at[r.pos].products[acc] \in Results(e, pos)
         /\ at[r.pos].sums[acc] \in Results(e, pos)
         /\ \A u : Agree(e, at, u, pos + 1) => u[r.pos] = at[r.pos]
<1>1. Len(e) \in Nat /\ pos \in Nat /\ r.pos \in pos + 2 .. Len(e) + 1
  BY Symbols, ResultFacts
<1>2. r.pos \in pos + 1 .. Len(e) + 1 /\ r.pos \in Nat
  BY <1>1
<1>3. at[r.pos].products[acc] \in Results(e, r.pos) /\ at[r.pos].sums[acc] \in Results(e, r.pos)
  BY <1>2 DEF TableOK, EntryOK
<1>4. Results(e, r.pos) \subseteq Results(e, pos)
  <2>1. \A q : q \in r.pos .. Len(e) + 1 => q \in pos .. Len(e) + 1
    BY <1>1
  <2> QED
    BY <2>1 DEF Results
<1> QED
  BY <1>2, <1>3, <1>4 DEF Agree

LEMMA LoopsOK ==
  ASSUME NEW e \in Seq(Tokens), NEW at, NEW pos \in 1 .. Len(e) + 1, TableOK(e, at, pos + 1),
         NEW acc \in Floats
  PROVE  /\ Products(at, e, pos, acc) \in Results(e, pos)
         /\ Sums(at, e, pos, acc) \in Results(e, pos)
         /\ \A u : Agree(e, at, u, pos + 1) =>
              /\ Products(u, e, pos, acc) = Products(at, e, pos, acc)
              /\ Sums(u, e, pos, acc) = Sums(at, e, pos, acc)
<1>0. /\ Len(e) \in Nat /\ pos \in Nat \ {0} /\ pos + 1 \in Nat \ {0} /\ pos + 1 + 1 = pos + 2
      /\ Parsed(acc, pos) \in Results(e, pos) /\ Wrong \in Results(e, pos)
  <2>1. Len(e) \in Nat /\ pos \in pos .. Len(e) + 1
    BY Symbols
  <2> QED
    BY <2>1, ResultFacts
<1>1. ASSUME Peek(e, pos) \in Operators
      PROVE  pos + 1 <= Len(e) + 1 /\ pos + 1 \in pos + 1 .. Len(e) + 1
  <2>1. pos # Len(e) + 1
    <3>1. Peek(e, Len(e) + 1) \notin Operators
      BY Symbols
    <3> QED
      BY <1>1, <3>1
  <2> QED
    BY <1>0, <2>1
<1>2. /\ Products(at, e, pos, acc) \in Results(e, pos)
      /\ \A u : Agree(e, at, u, pos + 1) => Products(u, e, pos, acc) = Products(at, e, pos, acc)
  <2>1. CASE Peek(e, pos) \notin {"*", "/"}
    BY <1>0, <2>1 DEF Products
  <2>2. CASE Peek(e, pos) \in {"*", "/"}
    <3> DEFINE r == at[pos + 1].factor
    <3>1. r \in Results(e, pos + 2)
      BY <1>0, <1>1, <2>2 DEF TableOK, EntryOK, Operators
    <3>2. \A u : Agree(e, at, u, pos + 1) => u[pos + 1] = at[pos + 1]
      BY <1>1, <2>2 DEF Agree, Operators
    <3>3. ASSUME r.ok
          PROVE  /\ Multiplied(acc, r.value) \in Floats
                 /\ r.value.num # 0 => Over(acc, r.value) \in Floats
      <4>1. r.value \in Floats
        BY <3>1, <3>3, ResultFacts
      <4> QED
        BY <4>1, FloatsClosed
    <3>4. ASSUME r.ok, NEW a \in Floats
          PROVE  /\ at[r.pos].products[a] \in Results(e, pos)
                 /\ \A u : Agree(e, at, u, pos + 1) => u[r.pos] = at[r.pos]
      BY <3>1, <3>4, GoesOn
    <3>5. \A t : Products(t, e, pos, acc) =
                   LET q == t[pos + 1].factor IN
                   IF ~q.ok THEN Wrong
                   ELSE IF Peek(e, pos) = "*" THEN t[q.pos].products[Multiplied(acc, q.value)]
                   ELSE IF q.value.num = 0 THEN Wrong
                   ELSE t[q.pos].products[Over(acc, q.value)]
      BY <2>2 DEF Products
    <3>6. Products(at, e, pos, acc) \in Results(e, pos)
      BY <1>0, <3>3, <3>4, <3>5
    <3>7. ASSUME NEW u, Agree(e, at, u, pos + 1)
          PROVE  Products(u, e, pos, acc) = Products(at, e, pos, acc)
      <4>1. u[pos + 1].factor = r /\ (r.ok => u[r.pos] = at[r.pos])
        BY <3>2, <3>3, <3>4, <3>7
      <4> QED
        BY <3>5, <4>1
    <3> QED
      BY <3>6, <3>7
  <2> QED
    BY <2>1, <2>2
<1>3. /\ Sums(at, e, pos, acc) \in Results(e, pos)
      /\ \A u : Agree(e, at, u, pos + 1) => Sums(u, e, pos, acc) = Sums(at, e, pos, acc)
  <2>1. CASE Peek(e, pos) \notin {"+", "-"}
    BY <1>0, <2>1 DEF Sums
  <2>2. CASE Peek(e, pos) \in {"+", "-"}
    <3> DEFINE r == Term(at, pos + 1)
    <3>0. pos + 1 <= Len(e) + 1
      BY <1>1, <2>2 DEF Operators
    <3>1. r \in Results(e, pos + 2)
      <4>1. Term(at, pos + 1) \in Results(e, pos + 1 + 1)
        BY <1>0, <3>0, TermOK
      <4> QED
        BY <1>0, <4>1
    <3>2. \A u : Agree(e, at, u, pos + 1) => Term(u, pos + 1) = r
      BY <1>0, <3>0, TermSame
    <3> HIDE DEF r
    <3>3. ASSUME r.ok
          PROVE  Plus(acc, r.value) \in Floats /\ Minus(acc, r.value) \in Floats
      <4>1. r.value \in Floats
        BY <3>1, <3>3, ResultFacts
      <4> QED
        BY <4>1, FloatsClosed
    <3>4. ASSUME r.ok, NEW a \in Floats
          PROVE  /\ at[r.pos].sums[a] \in Results(e, pos)
                 /\ \A u : Agree(e, at, u, pos + 1) => u[r.pos] = at[r.pos]
      BY <3>1, <3>4, GoesOn
    <3>5. \A t : Sums(t, e, pos, acc) =
                   LET q == Term(t, pos + 1) IN
                   IF ~q.ok THEN Wrong
                   ELSE t[q.pos].sums[IF Peek(e, pos) = "+" THEN Plus(acc, q.value) ELSE Minus(acc, q.value)]
      BY <2>2 DEF Sums
    <3>6. Sums(at, e, pos, acc) \in Results(e, pos)
      BY <1>0, <3>3, <3>4, <3>5 DEF r
    <3>7. ASSUME NEW u, Agree(e, at, u, pos + 1)
          PROVE  Sums(u, e, pos, acc) = Sums(at, e, pos, acc)
      <4>1. Term(u, pos + 1) = r /\ (r.ok => u[r.pos] = at[r.pos])
        BY <3>2, <3>3, <3>4, <3>7
      <4> QED
        BY <3>5, <4>1 DEF r
    <3> QED
      BY <3>6, <3>7
  <2> QED
    BY <2>1, <2>2
<1> QED
  BY <1>2, <1>3

LEMMA EntrySame ==
  ASSUME NEW e \in Seq(Tokens), NEW at, NEW pos \in 1 .. Len(e) + 1, TableOK(e, at, pos + 1)
  PROVE  /\ \A u : Agree(e, at, u, pos + 1) => Entry(e, u, pos) = Entry(e, at, pos)
         /\ \A u : u[pos] = Entry(e, at, pos) => EntryOK(e, u, pos)
<1>1. ASSUME NEW u, Agree(e, at, u, pos + 1)
      PROVE  Entry(e, u, pos) = Entry(e, at, pos)
  <2>1. Factor(u, e, pos) = Factor(at, e, pos)
    BY <1>1, FactorOK
  <2>2. \A acc \in Floats : /\ Products(u, e, pos, acc) = Products(at, e, pos, acc)
                            /\ Sums(u, e, pos, acc) = Sums(at, e, pos, acc)
    BY <1>1, LoopsOK
  <2>3. /\ [acc \in Floats |-> Products(u, e, pos, acc)] = [acc \in Floats |-> Products(at, e, pos, acc)]
        /\ [acc \in Floats |-> Sums(u, e, pos, acc)] = [acc \in Floats |-> Sums(at, e, pos, acc)]
    BY <2>2
  <2> QED
    BY <2>1, <2>3 DEF Entry
<1>2. ASSUME NEW u, u[pos] = Entry(e, at, pos)
      PROVE  EntryOK(e, u, pos)
  <2>1. u[pos].factor = Factor(at, e, pos)
    BY <1>2 DEF Entry
  <2>2. ASSUME NEW acc \in Floats
        PROVE  /\ u[pos].products[acc] = Products(at, e, pos, acc)
               /\ u[pos].sums[acc] = Sums(at, e, pos, acc)
    BY <1>2 DEF Entry
  <2>3. Factor(at, e, pos) \in Results(e, pos + 1)
    BY FactorOK
  <2>4. \A acc \in Floats : /\ Products(at, e, pos, acc) \in Results(e, pos)
                            /\ Sums(at, e, pos, acc) \in Results(e, pos)
    BY LoopsOK
  <2> QED
    BY <2>1, <2>2, <2>3, <2>4 DEF EntryOK
<1> QED
  BY <1>1, <1>2

LEMMA ParserExists ==
  ASSUME NEW e \in Seq(Tokens)
  PROVE  \E at : Parses(e, at) /\ TableOK(e, at, 1)
<1> DEFINE N == Len(e) + 1
           Upto(t, k) == /\ t = [pos \in N + 1 - k .. N |-> Entry(e, t, pos)]
                         /\ TableOK(e, t, N + 1 - k)
           S == {k \in Nat : k <= N => \E t : Upto(t, k)}
<1>1. N \in Nat /\ N >= 1 /\ N = Len(e) + 1
  BY Symbols
<1> HIDE DEF N
<1>2. ASSUME NEW k \in Nat, 0 .. k - 1 \subseteq S PROVE k \in S
  <2> SUFFICES ASSUME k <= N PROVE \E t : Upto(t, k)
    OBVIOUS
  <2>1. CASE k = 0
    <3> DEFINE t == [pos \in N + 1 .. N |-> {}]
    <3>1. N + 1 .. N = {} /\ N + 1 - k = N + 1
      BY <1>1, <2>1
    <3>2. t = [pos \in N + 1 .. N |-> Entry(e, t, pos)]
      BY <3>1
    <3>3. TableOK(e, t, N + 1)
      BY <1>1, <3>1 DEF TableOK
    <3> HIDE DEF t
    <3>4. Upto(t, k)
      BY <3>1, <3>2, <3>3
    <3> QED
      BY <3>4
  <2>2. CASE k # 0
    <3>1. k - 1 \in S /\ k - 1 <= N
      <4>1. k - 1 \in 0 .. k - 1 /\ k - 1 <= N
        BY <1>1, <2>2
      <4> QED
        BY <1>2, <4>1
    <3>2. PICK t : Upto(t, k - 1)
      BY <3>1
    <3> DEFINE lo == N + 1 - k
    <3>3. lo \in 1 .. N /\ N + 1 - (k - 1) = lo + 1 /\ lo \in Nat
      BY <1>1, <2>2
    <3>4. t = [pos \in lo + 1 .. N |-> Entry(e, t, pos)] /\ TableOK(e, t, lo + 1)
      BY <3>2, <3>3
    <3> HIDE DEF lo, S
    <3> DEFINE u == [pos \in lo .. N |-> Entry(e, t, pos)]
    <3>5. ASSUME NEW pos \in lo .. N
          PROVE  /\ pos \in 1 .. Len(e) + 1 /\ TableOK(e, t, pos + 1)
                 /\ Agree(e, t, u, pos + 1) /\ u[pos] = Entry(e, t, pos)
      <4>1. pos \in 1 .. Len(e) + 1 /\ u[pos] = Entry(e, t, pos)
        BY <1>1, <3>3
      <4>2. ASSUME NEW q \in pos + 1 .. Len(e) + 1 PROVE q \in lo + 1 .. N /\ q \in lo .. N
        BY <1>1, <3>3
      <4> HIDE DEF Entry
      <4>3. TableOK(e, t, pos + 1)
        BY <1>1, <3>4, <4>2 DEF TableOK
      <4>4. Agree(e, t, u, pos + 1)
        <5> SUFFICES ASSUME NEW q \in pos + 1 .. Len(e) + 1 PROVE u[q] = t[q]
          BY DEF Agree
        <5>1. u[q] = Entry(e, t, q)
          BY <4>2
        <5>2. t[q] = Entry(e, t, q)
          BY <3>4, <4>2
        <5> QED
          BY <5>1, <5>2
      <4> QED
        BY <4>1, <4>3, <4>4
    <3>6. u = [pos \in lo .. N |-> u[pos]]
      OBVIOUS
    <3> HIDE DEF u
    <3>7. ASSUME NEW pos \in lo .. N
          PROVE  u[pos] = Entry(e, u, pos) /\ EntryOK(e, u, pos)
      BY <3>5, EntrySame
    <3>8. u = [pos \in lo .. N |-> Entry(e, u, pos)]
      BY <3>6, <3>7
    <3>9. TableOK(e, u, lo)
      BY <1>1, <3>7 DEF TableOK
    <3>10. Upto(u, k)
      BY <3>8, <3>9 DEF lo
    <3> QED
      BY <3>10
  <2> QED
    BY <2>1, <2>2
<1>3. S \in SUBSET Nat
  OBVIOUS
<1> HIDE DEF S
<1>4. N \in S
  BY <1>1, <1>2, <1>3, AllNaturals
<1>5. PICK t : Upto(t, N)
  BY <1>1, <1>4 DEF S
<1>6. N + 1 - N = 1
  BY <1>1
<1> QED
  BY <1>1, <1>5, <1>6 DEF Parses

LEMMA ParserTable ==
  ASSUME NEW e \in Seq(Tokens)
  PROVE  /\ \A pos \in 1 .. Len(e) + 1 : Parser(e)[pos] = Entry(e, Parser(e), pos)
         /\ TableOK(e, Parser(e), 1)
<1> DEFINE at == CHOOSE t : Parses(e, t)
<1>1. Parser(e) = at
  BY DEF Parser, Parses, Entry
<1>2. Parses(e, at)
  <2>1. \E t : Parses(e, t)
    BY ParserExists
  <2> HIDE DEF Parses
  <2> QED
    BY <2>1
<1> HIDE DEF at
<1>3. \A pos \in 1 .. Len(e) + 1 : at[pos] = Entry(e, at, pos)
  BY <1>2 DEF Parses
<1> DEFINE N == Len(e) + 1
           S == {k \in Nat : k < N => EntryOK(e, at, N - k)}
<1>4. N \in Nat /\ N >= 1 /\ N = Len(e) + 1
  BY Symbols
<1> HIDE DEF N
<1>5. ASSUME NEW k \in Nat, 0 .. k - 1 \subseteq S PROVE k \in S
  <2> SUFFICES ASSUME k < N PROVE EntryOK(e, at, N - k)
    OBVIOUS
  <2>1. N - k \in 1 .. Len(e) + 1
    BY <1>4
  <2>2. ASSUME NEW q \in N - k + 1 .. N PROVE EntryOK(e, at, q)
    <3>1. N - q \in 0 .. k - 1 /\ N - q < N /\ N - (N - q) = q
      BY <1>4
    <3>2. N - q \in S
      BY <1>5, <3>1
    <3> QED
      BY <3>1, <3>2
  <2>3. TableOK(e, at, N - k + 1)
    BY <1>4, <2>2 DEF TableOK
  <2> QED
    BY <1>3, <2>1, <2>3, EntrySame
<1>6. S \in SUBSET Nat
  OBVIOUS
<1> HIDE DEF S
<1>7. \A k \in Nat : k \in S
  BY <1>5, <1>6, AllNaturals
<1>8. ASSUME NEW pos \in 1 .. Len(e) + 1 PROVE EntryOK(e, at, pos)
  <2>1. N - pos \in S /\ N - pos < N /\ N - (N - pos) = pos
    BY <1>4, <1>7
  <2> QED
    BY <2>1 DEF S
<1> QED
  BY <1>1, <1>3, <1>8 DEF TableOK

----------------------------------------------------------------------------
(* The grammar, by its members.                                            *)
IsFactor(of, e, n, lo, x) ==
  \/ n = 1 /\ e[lo] \in DOMAIN ValueOf /\ x = Float(FALSE, ValueOf[e[lo]], 1)
  \/ n > 1 /\ e[lo] = "-" /\ \E v \in of[n - 1][lo + 1].factor : x = Negate(v)
  \/ n > 2 /\ e[lo] = "(" /\ e[lo + n - 1] = ")" /\ x \in of[n - 2][lo + 1].sum

IsProduct(of, e, n, lo, x) ==
  \/ x \in FactorValues(of, e, n, lo)
  \/ \E k \in 1 .. n - 2 : \E v \in of[k][lo].product, w \in of[n - k - 1][lo + k + 1].factor :
       \/ e[lo + k] = "*" /\ x = Multiplied(v, w)
       \/ e[lo + k] = "/" /\ w.num # 0 /\ x = Over(v, w)

IsSum(of, e, n, lo, x) ==
  \/ x \in ProductValues(of, e, n, lo)
  \/ \E k \in 1 .. n - 2 : \E v \in of[k][lo].sum, w \in of[n - k - 1][lo + k + 1].product :
       \/ e[lo + k] = "+" /\ x = Plus(v, w)
       \/ e[lo + k] = "-" /\ x = Minus(v, w)

LEMMA Members ==
  ASSUME NEW of, NEW e, NEW n, NEW lo, NEW x
  PROVE  /\ x \in FactorValues(of, e, n, lo) <=> IsFactor(of, e, n, lo, x)
         /\ x \in ProductValues(of, e, n, lo) <=> IsProduct(of, e, n, lo, x)
         /\ x \in SumValues(of, e, n, lo) <=> IsSum(of, e, n, lo, x)
<1>1. x \in FactorValues(of, e, n, lo) <=> IsFactor(of, e, n, lo, x)
  BY DEF FactorValues, IsFactor
<1>2. x \in ProductValues(of, e, n, lo) <=> IsProduct(of, e, n, lo, x)
  <2> DEFINE A(k) == {Multiplied(v, w) : v \in of[k][lo].product, w \in of[n - k - 1][lo + k + 1].factor}
             B(k) == {Over(v, w) : v \in of[k][lo].product,
                                   w \in {y \in of[n - k - 1][lo + k + 1].factor : y.num # 0}}
  <2>1. ProductValues(of, e, n, lo) = FactorValues(of, e, n, lo)
          \cup (UNION {A(k) : k \in Splits(e, "*", n, lo)})
          \cup (UNION {B(k) : k \in Splits(e, "/", n, lo)})
    BY DEF ProductValues
  <2>2. ASSUME NEW k
        PROVE  /\ x \in A(k) <=> \E v \in of[k][lo].product, w \in of[n - k - 1][lo + k + 1].factor :
                                  x = Multiplied(v, w)
               /\ x \in B(k) <=> \E v \in of[k][lo].product, w \in of[n - k - 1][lo + k + 1].factor :
                                  w.num # 0 /\ x = Over(v, w)
    OBVIOUS
  <2> HIDE DEF A, B
  <2> DEFINE P == UNION {A(k) : k \in Splits(e, "*", n, lo)}
             Q == UNION {B(k) : k \in Splits(e, "/", n, lo)}
  <2>4. x \in ProductValues(of, e, n, lo) <=>
          \/ x \in FactorValues(of, e, n, lo)
          \/ \E k \in 1 .. n - 2 : e[lo + k] = "*" /\ x \in A(k)
          \/ \E k \in 1 .. n - 2 : e[lo + k] = "/" /\ x \in B(k)
    <3>1. x \in P <=> \E k \in 1 .. n - 2 : e[lo + k] = "*" /\ x \in A(k)
      BY DEF Splits
    <3>2. x \in Q <=> \E k \in 1 .. n - 2 : e[lo + k] = "/" /\ x \in B(k)
      BY DEF Splits
    <3>3. ProductValues(of, e, n, lo) = FactorValues(of, e, n, lo) \cup P \cup Q
      BY <2>1
    <3> HIDE DEF P, Q
    <3>4. x \in ProductValues(of, e, n, lo) <=> x \in FactorValues(of, e, n, lo) \/ x \in P \/ x \in Q
      BY <3>3
    <3> QED
      BY <3>1, <3>2, <3>4
  <2> QED
    BY <2>2, <2>4 DEF IsProduct
<1>3. x \in SumValues(of, e, n, lo) <=> IsSum(of, e, n, lo, x)
  <2> DEFINE A(k) == {Plus(v, w) : v \in of[k][lo].sum, w \in of[n - k - 1][lo + k + 1].product}
             B(k) == {Minus(v, w) : v \in of[k][lo].sum, w \in of[n - k - 1][lo + k + 1].product}
  <2>1. SumValues(of, e, n, lo) = ProductValues(of, e, n, lo)
          \cup (UNION {A(k) : k \in Splits(e, "+", n, lo)})
          \cup (UNION {B(k) : k \in Splits(e, "-", n, lo)})
    BY DEF SumValues
  <2>2. ASSUME NEW k
        PROVE  /\ x \in A(k) <=> \E v \in of[k][lo].sum, w \in of[n - k - 1][lo + k + 1].product :
                                  x = Plus(v, w)
               /\ x \in B(k) <=> \E v \in of[k][lo].sum, w \in of[n - k - 1][lo + k + 1].product :
                                  x = Minus(v, w)
    OBVIOUS
  <2> HIDE DEF A, B
  <2> DEFINE P == UNION {A(k) : k \in Splits(e, "+", n, lo)}
             Q == UNION {B(k) : k \in Splits(e, "-", n, lo)}
  <2>4. x \in SumValues(of, e, n, lo) <=>
          \/ x \in ProductValues(of, e, n, lo)
          \/ \E k \in 1 .. n - 2 : e[lo + k] = "+" /\ x \in A(k)
          \/ \E k \in 1 .. n - 2 : e[lo + k] = "-" /\ x \in B(k)
    <3>1. x \in P <=> \E k \in 1 .. n - 2 : e[lo + k] = "+" /\ x \in A(k)
      BY DEF Splits
    <3>2. x \in Q <=> \E k \in 1 .. n - 2 : e[lo + k] = "-" /\ x \in B(k)
      BY DEF Splits
    <3>3. SumValues(of, e, n, lo) = ProductValues(of, e, n, lo) \cup P \cup Q
      BY <2>1
    <3> HIDE DEF P, Q
    <3>4. x \in SumValues(of, e, n, lo) <=> x \in ProductValues(of, e, n, lo) \/ x \in P \/ x \in Q
      BY <3>3
    <3> QED
      BY <3>1, <3>2, <3>4
  <2> QED
    BY <2>2, <2>4 DEF IsSum
<1> QED
  BY <1>1, <1>2, <1>3

Row(e, of, n) ==
  [lo \in 1 .. Len(e) - n + 1 |->
     [factor  |-> FactorValues(of, e, n, lo),
      product |-> ProductValues(of, e, n, lo),
      sum     |-> SumValues(of, e, n, lo)]]
Derives(e, of) == of = [n \in 0 .. Len(e) |-> Row(e, of, n)]

LEMMA RowSame ==
  ASSUME NEW e, NEW n \in Nat, NEW t, NEW u, \A k \in 0 .. n - 1 : u[k] = t[k]
  PROVE  Row(e, u, n) = Row(e, t, n)
<1>1. /\ n > 1 => u[n - 1] = t[n - 1]
      /\ n > 2 => u[n - 2] = t[n - 2]
      /\ \A k \in 1 .. n - 2 : u[k] = t[k] /\ u[n - k - 1] = t[n - k - 1]
  <2>1. /\ n > 1 => n - 1 \in 0 .. n - 1
        /\ n > 2 => n - 2 \in 0 .. n - 1
        /\ \A k \in 1 .. n - 2 : k \in 0 .. n - 1 /\ n - k - 1 \in 0 .. n - 1
    OBVIOUS
  <2> QED
    BY <2>1
<1>2. ASSUME NEW lo
      PROVE  /\ FactorValues(u, e, n, lo) = FactorValues(t, e, n, lo)
             /\ ProductValues(u, e, n, lo) = ProductValues(t, e, n, lo)
             /\ SumValues(u, e, n, lo) = SumValues(t, e, n, lo)
  <2>1. \A x : IsFactor(u, e, n, lo, x) <=> IsFactor(t, e, n, lo, x)
    BY <1>1 DEF IsFactor
  <2>2. FactorValues(u, e, n, lo) = FactorValues(t, e, n, lo)
    <3>1. \A x : x \in FactorValues(u, e, n, lo) <=> x \in FactorValues(t, e, n, lo)
      BY <2>1, Members
    <3> QED
      BY <3>1
  <2>3. \A x : IsProduct(u, e, n, lo, x) <=> IsProduct(t, e, n, lo, x)
    BY <1>1, <2>2 DEF IsProduct
  <2>4. ProductValues(u, e, n, lo) = ProductValues(t, e, n, lo)
    <3>1. \A x : x \in ProductValues(u, e, n, lo) <=> x \in ProductValues(t, e, n, lo)
      BY <2>3, Members
    <3> QED
      BY <3>1
  <2>5. \A x : IsSum(u, e, n, lo, x) <=> IsSum(t, e, n, lo, x)
    BY <1>1, <2>4 DEF IsSum
  <2>6. SumValues(u, e, n, lo) = SumValues(t, e, n, lo)
    <3>1. \A x : x \in SumValues(u, e, n, lo) <=> x \in SumValues(t, e, n, lo)
      BY <2>5, Members
    <3> QED
      BY <3>1
  <2> QED
    BY <2>2, <2>4, <2>6
<1> QED
  BY <1>2 DEF Row

LEMMA GrammarExists ==
  ASSUME NEW e \in Seq(Tokens)
  PROVE  \E of : Derives(e, of)
<1> DEFINE Upto(t, n) == t = [k \in 0 .. n |-> Row(e, t, k)]
           S == {n \in Nat : \E t : Upto(t, n)}
<1>1. ASSUME NEW n \in Nat, 0 .. n - 1 \subseteq S PROVE n \in S
  <2>1. PICK t : n # 0 => Upto(t, n - 1)
    <3>1. n # 0 => n - 1 \in S
      BY <1>1
    <3> QED
      BY <3>1
  <2> DEFINE u == [k \in 0 .. n |-> Row(e, t, k)]
  <2>2. ASSUME NEW k \in 0 .. n - 1 PROVE u[k] = t[k]
    <3>1. k \in 0 .. n /\ n # 0
      OBVIOUS
    <3> HIDE DEF Row
    <3>2. t[k] = Row(e, t, k)
      BY <2>1, <3>1
    <3> QED
      BY <3>1, <3>2
  <2>3. u = [k \in 0 .. n |-> u[k]]
    OBVIOUS
  <2>4. \A k \in 0 .. n : u[k] = Row(e, t, k)
    OBVIOUS
  <2> HIDE DEF u
  <2>5. ASSUME NEW k \in 0 .. n PROVE u[k] = Row(e, u, k)
    <3>1. k \in Nat /\ \A j \in 0 .. k - 1 : j \in 0 .. n - 1
      OBVIOUS
    <3>2. \A j \in 0 .. k - 1 : u[j] = t[j]
      BY <2>2, <3>1
    <3> QED
      BY <2>4, <3>1, <3>2, RowSame
  <2>6. Upto(u, n)
    BY <2>3, <2>5
  <2> QED
    BY <2>6
<1>2. S \in SUBSET Nat
  OBVIOUS
<1> HIDE DEF S
<1>3. Len(e) \in S
  BY <1>1, <1>2, AllNaturals, Symbols
<1> QED
  BY <1>3 DEF S, Derives

LEMMA GrammarTable ==
  ASSUME NEW e \in Seq(Tokens), NEW n \in 0 .. Len(e), NEW lo \in 1 .. Len(e) - n + 1
  PROVE  /\ Grammar(e)[n][lo].factor = FactorValues(Grammar(e), e, n, lo)
         /\ Grammar(e)[n][lo].product = ProductValues(Grammar(e), e, n, lo)
         /\ Grammar(e)[n][lo].sum = SumValues(Grammar(e), e, n, lo)
<1> DEFINE of == CHOOSE t : Derives(e, t)
<1>1. Grammar(e) = of
  BY DEF Grammar, Derives, Row
<1>2. Derives(e, of)
  <2>1. \E t : Derives(e, t)
    BY GrammarExists
  <2> HIDE DEF Derives
  <2> QED
    BY <2>1
<1> HIDE DEF of
<1>3. of[n] = Row(e, of, n)
  BY <1>2 DEF Derives
<1> QED
  BY <1>1, <1>3 DEF Row

LEMMA Reads ==
  ASSUME NEW e \in Seq(Tokens), NEW pos \in 1 .. Len(e) + 1, NEW acc \in Floats
  PROVE  LET at == Parser(e) IN
         /\ at[pos].factor = Factor(at, e, pos)
         /\ at[pos].products[acc] = Products(at, e, pos, acc)
         /\ at[pos].sums[acc] = Sums(at, e, pos, acc)
<1> DEFINE at == Parser(e)
<1>1. at[pos] = Entry(e, at, pos)
  BY ParserTable
<1> HIDE DEF at
<1> QED
  BY <1>1 DEF Entry, at

(* Where a loop ends.                                                      *)
LEMMA LoopEnds ==
  ASSUME NEW e \in Seq(Tokens), NEW pos \in 1 .. Len(e) + 1, NEW acc \in Floats
  PROVE  /\ Peek(e, pos) \notin {"*", "/"} => Parser(e)[pos].products[acc] = Parsed(acc, pos)
         /\ Peek(e, pos) \notin {"+", "-"} => Parser(e)[pos].sums[acc] = Parsed(acc, pos)
<1> DEFINE at == Parser(e)
<1>1. /\ at[pos].products[acc] = Products(at, e, pos, acc)
      /\ at[pos].sums[acc] = Sums(at, e, pos, acc)
  BY Reads
<1> HIDE DEF at
<1> QED
  BY <1>1 DEF Products, Sums, at

(* What the grammar derives the parser finds: n tokens from lo on.         *)
Complete(e, n) ==
  \A lo \in 1 .. Len(e) - n + 1 :
    /\ \A v \in Grammar(e)[n][lo].factor :
         v \in Floats /\ Parser(e)[lo].factor = Parsed(v, lo + n)
    /\ \A v \in Grammar(e)[n][lo].product :
         v \in Floats /\ Term(Parser(e), lo) = Parser(e)[lo + n].products[v]
    /\ \A v \in Grammar(e)[n][lo].sum :
         /\ v \in Floats
         /\ Peek(e, lo + n) \notin {"*", "/"} => Expr(Parser(e), lo) = Parser(e)[lo + n].sums[v]

LEMMA FactorComplete ==
  ASSUME NEW e \in Seq(Tokens), NEW n \in 0 .. Len(e), NEW lo \in 1 .. Len(e) - n + 1,
         \A k \in 0 .. n - 1 : Complete(e, k), NEW v \in Grammar(e)[n][lo].factor
  PROVE  v \in Floats /\ Parser(e)[lo].factor = Parsed(v, lo + n)
<1> DEFINE at == Parser(e)
           of == Grammar(e)
           N == Len(e)
<1>1. N \in Nat /\ n \in Nat /\ lo \in Nat /\ lo >= 1 /\ lo \in 1 .. Len(e) + 1 /\ lo + n <= N + 1
  BY Symbols
<1>2. IsFactor(of, e, n, lo, v)
  <2>1. v \in FactorValues(of, e, n, lo)
    BY GrammarTable
  <2> QED
    BY <2>1, Members
<1>3. n >= 1 /\ lo \in 1 .. N /\ Peek(e, lo) = e[lo]
  <2>1. n >= 1
    <3>1. n = 1 \/ n > 1 \/ n > 2
      <4> HIDE DEF of
      <4> QED
        BY <1>2 DEF IsFactor
    <3> QED
      BY <1>1, <3>1
  <2>2. lo \in 1 .. N
    BY <1>1, <2>1
  <2> QED
    BY <2>1, <2>2, Symbols
<1>4. at[lo].factor = Factor(at, e, lo)
  <2>1. Float(FALSE, 0, 1) \in Floats
    BY DEF Float, Floats
  <2> QED
    BY <1>1, <2>1, Reads
<1>5. /\ e[lo] = "-" => Factor(at, e, lo) = IF at[lo + 1].factor.ok
                           THEN Parsed(Negate(at[lo + 1].factor.value), at[lo + 1].factor.pos) ELSE Wrong
      /\ e[lo] = "(" => Factor(at, e, lo) = IF Expr(at, lo + 1).ok /\ Peek(e, Expr(at, lo + 1).pos) = ")"
                           THEN Parsed(Expr(at, lo + 1).value, Expr(at, lo + 1).pos + 1) ELSE Wrong
      /\ e[lo] \in DOMAIN ValueOf => Factor(at, e, lo) = Parsed(Float(FALSE, ValueOf[e[lo]], 1), lo + 1)
  BY <1>3, FactorCases
<1>6. CASE n = 1 /\ e[lo] \in DOMAIN ValueOf /\ v = Float(FALSE, ValueOf[e[lo]], 1)
  <2>1. v \in Floats
    BY <1>6, Symbols
  <2>2. at[lo].factor = Parsed(v, lo + n)
    BY <1>4, <1>5, <1>6
  <2> QED
    BY <2>1, <2>2
<1>7. ASSUME n > 1, e[lo] = "-", NEW w \in of[n - 1][lo + 1].factor, v = Negate(w)
      PROVE  v \in Floats /\ Parser(e)[lo].factor = Parsed(v, lo + n)
  <2>0. N \in Nat /\ n \in Nat /\ lo \in Nat /\ n > 1 /\ lo >= 1 /\ lo + n <= N + 1
    BY <1>1, <1>7
  <2>1. n - 1 \in 0 .. n - 1 /\ lo + 1 \in 1 .. N - (n - 1) + 1 /\ lo + 1 + (n - 1) = lo + n
    <3> HIDE DEF N
    <3>1. n - 1 \in 0 .. n - 1
      BY <2>0
    <3>2. lo + 1 \in 1 .. N - (n - 1) + 1
      BY <2>0
    <3>3. lo + 1 + (n - 1) = lo + n
      BY <2>0
    <3> QED
      BY <3>1, <3>2, <3>3
  <2>2. w \in Floats /\ at[lo + 1].factor = Parsed(w, lo + n)
    BY <1>7, <2>1 DEF Complete
  <2>3. v \in Floats
    BY <1>7, <2>2, FloatsClosed
  <2>4. at[lo].factor = Parsed(v, lo + n)
    <3> DEFINE r == at[lo + 1].factor
    <3>1. r.ok /\ r.value = w /\ r.pos = lo + n
      BY <2>2 DEF Parsed
    <3>2. Factor(at, e, lo) = IF r.ok THEN Parsed(Negate(r.value), r.pos) ELSE Wrong
      BY <1>5, <1>7
    <3> HIDE DEF r, at
    <3> QED
      BY <1>4, <1>7, <3>1, <3>2
  <2> HIDE DEF at
  <2> QED
    BY <2>3, <2>4 DEF at
<1>8. ASSUME n > 2, e[lo] = "(", e[lo + n - 1] = ")", v \in of[n - 2][lo + 1].sum
      PROVE  v \in Floats /\ Parser(e)[lo].factor = Parsed(v, lo + n)
  <2> DEFINE q == lo + n - 1
  <2>1. /\ n - 2 \in 0 .. n - 1 /\ lo + 1 \in 1 .. N - (n - 2) + 1 /\ lo + 1 + (n - 2) = q
        /\ q \in 1 .. N /\ q \in 1 .. Len(e) + 1 /\ q + 1 = lo + n
    <3>0. N \in Nat /\ n \in Nat /\ lo \in Nat /\ n > 2 /\ lo >= 1 /\ lo + n <= N + 1 /\ q = lo + n - 1 /\ N = Len(e)
      BY <1>1, <1>8
    <3> HIDE DEF q, N
    <3>1. n - 2 \in 0 .. n - 1
      BY <3>0
    <3>2. lo + 1 + (n - 2) = q /\ q + 1 = lo + n
      BY <3>0
    <3>3. lo + 1 \in 1 .. N - (n - 2) + 1
      BY <3>0
    <3>4. q \in 1 .. N /\ q \in 1 .. N + 1
      BY <3>0
    <3> QED
      BY <3>0, <3>1, <3>2, <3>3, <3>4
  <2>2. Peek(e, q) = ")"
    BY <1>8, <2>1, Symbols
  <2> HIDE DEF q
  <2>3. v \in Floats /\ (Peek(e, q) \notin {"*", "/"} => Expr(at, lo + 1) = at[q].sums[v])
    BY <1>8, <2>1 DEF Complete
  <2>4. Expr(at, lo + 1) = Parsed(v, q)
    BY <2>1, <2>2, <2>3, LoopEnds
  <2>5. at[lo].factor = Parsed(v, lo + n)
    <3> DEFINE r == Expr(at, lo + 1)
    <3>1. r.ok /\ r.value = v /\ r.pos = q
      BY <2>4 DEF Parsed
    <3>2. Factor(at, e, lo) = IF r.ok /\ Peek(e, r.pos) = ")" THEN Parsed(r.value, r.pos + 1) ELSE Wrong
      BY <1>5, <1>8
    <3> HIDE DEF r, at
    <3> QED
      BY <1>4, <2>1, <2>2, <3>1, <3>2
  <2> HIDE DEF at
  <2> QED
    BY <2>3, <2>5 DEF at
<1> HIDE DEF at, of
<1> QED
  BY <1>2, <1>6, <1>7, <1>8 DEF IsFactor, at

LEMMA ProductComplete ==
  ASSUME NEW e \in Seq(Tokens), NEW n \in 0 .. Len(e), NEW lo \in 1 .. Len(e) - n + 1,
         \A k \in 0 .. n - 1 : Complete(e, k), NEW v \in Grammar(e)[n][lo].product
  PROVE  v \in Floats /\ Term(Parser(e), lo) = Parser(e)[lo + n].products[v]
<1> DEFINE at == Parser(e)
           of == Grammar(e)
<1>9. \A k \in 1 .. n - 2 :
        /\ k \in 0 .. n - 1 /\ n - k - 1 \in 0 .. n - 1
        /\ lo \in 1 .. Len(e) - k + 1 /\ lo + k + 1 \in 1 .. Len(e) - (n - k - 1) + 1
        /\ lo + k + 1 + (n - k - 1) = lo + n
        /\ lo + k \in 1 .. Len(e) + 1 /\ Peek(e, lo + k) = e[lo + k]
  <2>1. Len(e) \in Nat /\ \A pos \in 1 .. Len(e) : Peek(e, pos) = e[pos]
    BY Symbols
  <2> SUFFICES ASSUME NEW k \in 1 .. n - 2
               PROVE  /\ k \in 0 .. n - 1 /\ n - k - 1 \in 0 .. n - 1
                      /\ lo \in 1 .. Len(e) - k + 1 /\ lo + k + 1 \in 1 .. Len(e) - (n - k - 1) + 1
                      /\ lo + k + 1 + (n - k - 1) = lo + n
                      /\ lo + k \in 1 .. Len(e) + 1 /\ Peek(e, lo + k) = e[lo + k]
    OBVIOUS
  <2>2. /\ Len(e) \in Nat /\ n \in Nat /\ lo \in Nat /\ k \in Nat
        /\ 1 <= k /\ k + 2 <= n /\ 1 <= lo /\ lo + n <= Len(e) + 1
    BY <2>1
  <2>3. k \in 0 .. n - 1 /\ n - k - 1 \in 0 .. n - 1
    BY <2>2
  <2>4. lo \in 1 .. Len(e) - k + 1 /\ lo + k + 1 \in 1 .. Len(e) - (n - k - 1) + 1
    BY <2>2
  <2>5. lo + k + 1 + (n - k - 1) = lo + n
    BY <2>2
  <2>6. lo + k \in 1 .. Len(e) /\ lo + k \in 1 .. Len(e) + 1
    BY <2>2
  <2> QED
    BY <2>1, <2>3, <2>4, <2>5, <2>6
<1>1. IsProduct(of, e, n, lo, v)
  <2>1. v \in ProductValues(of, e, n, lo)
    BY GrammarTable
  <2> QED
    BY <2>1, Members
<1>2. CASE v \in FactorValues(of, e, n, lo)
  <2>1. v \in Grammar(e)[n][lo].factor
    BY <1>2, GrammarTable
  <2>2. v \in Floats /\ at[lo].factor = Parsed(v, lo + n)
    BY <2>1, FactorComplete
  <2> HIDE DEF at
  <2>3. Term(at, lo) = at[lo + n].products[v]
    BY <2>2, ResultFacts DEF Term
  <2> QED
    BY <2>2, <2>3 DEF at
<1>3. ASSUME NEW k \in 1 .. n - 2, NEW a \in of[k][lo].product, NEW b \in of[n - k - 1][lo + k + 1].factor,
             \/ e[lo + k] = "*" /\ v = Multiplied(a, b)
             \/ e[lo + k] = "/" /\ b.num # 0 /\ v = Over(a, b)
      PROVE  v \in Floats /\ Term(Parser(e), lo) = Parser(e)[lo + n].products[v]
  <2> DEFINE q == lo + k
  <2>1. /\ k \in 0 .. n - 1 /\ n - k - 1 \in 0 .. n - 1
        /\ lo \in 1 .. Len(e) - k + 1 /\ q + 1 \in 1 .. Len(e) - (n - k - 1) + 1
        /\ q + 1 + (n - k - 1) = lo + n
        /\ q \in 1 .. Len(e) + 1 /\ Peek(e, q) = e[lo + k]
    BY <1>9
  <2>2. a \in Floats /\ Term(at, lo) = at[q].products[a]
    BY <2>1 DEF Complete
  <2> HIDE DEF q
  <2>3. b \in Floats /\ at[q + 1].factor = Parsed(b, lo + n)
    <3> DEFINE m == n - k - 1
    <3>1. b \in Grammar(e)[m][q + 1].factor
      BY DEF q
    <3>2. Complete(e, m) /\ q + 1 \in 1 .. Len(e) - m + 1 /\ q + 1 + m = lo + n
      BY <2>1
    <3> HIDE DEF m
    <3>3. b \in Floats /\ Parser(e)[q + 1].factor = Parsed(b, q + 1 + m)
      BY <3>1, <3>2 DEF Complete
    <3> QED
      BY <3>2, <3>3
  <2>4. at[q].products[a] = Products(at, e, q, a)
    BY <2>1, <2>2, Reads
  <2>5. v \in Floats
    BY <1>3, <2>2, <2>3, FloatsClosed
  <2> HIDE DEF at
  <2>6. Products(at, e, q, a) = at[lo + n].products[v]
    <3>1. \/ Peek(e, q) = "*" /\ v = Multiplied(a, b)
          \/ Peek(e, q) = "/" /\ b.num # 0 /\ v = Over(a, b)
      BY <1>3, <2>1 DEF q
    <3> DEFINE r == at[q + 1].factor
    <3>2. r.ok /\ r.value = b /\ r.pos = lo + n
      BY <2>3 DEF Parsed
    <3> QED
      BY <3>1, <3>2 DEF Products
  <2> QED
    BY <2>2, <2>4, <2>5, <2>6 DEF at
<1> HIDE DEF of
<1> QED
  BY <1>1, <1>2, <1>3 DEF IsProduct

LEMMA SumComplete ==
  ASSUME NEW e \in Seq(Tokens), NEW n \in 0 .. Len(e), NEW lo \in 1 .. Len(e) - n + 1,
         \A k \in 0 .. n - 1 : Complete(e, k), NEW v \in Grammar(e)[n][lo].sum
  PROVE  /\ v \in Floats
         /\ Peek(e, lo + n) \notin {"*", "/"} => Expr(Parser(e), lo) = Parser(e)[lo + n].sums[v]
<1> DEFINE at == Parser(e)
           of == Grammar(e)
<1>0. lo + n \in 1 .. Len(e) + 1
  BY Symbols
<1>9. \A k \in 1 .. n - 2 :
        /\ k \in 0 .. n - 1 /\ n - k - 1 \in 0 .. n - 1
        /\ lo \in 1 .. Len(e) - k + 1 /\ lo + k + 1 \in 1 .. Len(e) - (n - k - 1) + 1
        /\ lo + k + 1 + (n - k - 1) = lo + n
        /\ lo + k \in 1 .. Len(e) + 1 /\ Peek(e, lo + k) = e[lo + k]
  <2>1. Len(e) \in Nat /\ \A pos \in 1 .. Len(e) : Peek(e, pos) = e[pos]
    BY Symbols
  <2> SUFFICES ASSUME NEW k \in 1 .. n - 2
               PROVE  /\ k \in 0 .. n - 1 /\ n - k - 1 \in 0 .. n - 1
                      /\ lo \in 1 .. Len(e) - k + 1 /\ lo + k + 1 \in 1 .. Len(e) - (n - k - 1) + 1
                      /\ lo + k + 1 + (n - k - 1) = lo + n
                      /\ lo + k \in 1 .. Len(e) + 1 /\ Peek(e, lo + k) = e[lo + k]
    OBVIOUS
  <2>2. /\ Len(e) \in Nat /\ n \in Nat /\ lo \in Nat /\ k \in Nat
        /\ 1 <= k /\ k + 2 <= n /\ 1 <= lo /\ lo + n <= Len(e) + 1
    BY <2>1
  <2>3. k \in 0 .. n - 1 /\ n - k - 1 \in 0 .. n - 1
    BY <2>2
  <2>4. lo \in 1 .. Len(e) - k + 1 /\ lo + k + 1 \in 1 .. Len(e) - (n - k - 1) + 1
    BY <2>2
  <2>5. lo + k + 1 + (n - k - 1) = lo + n
    BY <2>2
  <2>6. lo + k \in 1 .. Len(e) /\ lo + k \in 1 .. Len(e) + 1
    BY <2>2
  <2> QED
    BY <2>1, <2>3, <2>4, <2>5, <2>6
<1>1. IsSum(of, e, n, lo, v)
  <2>1. v \in SumValues(of, e, n, lo)
    BY GrammarTable
  <2> QED
    BY <2>1, Members
<1>2. CASE v \in ProductValues(of, e, n, lo)
  <2>1. v \in Grammar(e)[n][lo].product
    BY <1>2, GrammarTable
  <2>2. v \in Floats /\ Term(at, lo) = at[lo + n].products[v]
    BY <2>1, ProductComplete
  <2>3. ASSUME Peek(e, lo + n) \notin {"*", "/"} PROVE Term(at, lo) = Parsed(v, lo + n)
    BY <1>0, <2>2, <2>3, LoopEnds
  <2> HIDE DEF at
  <2>4. ASSUME Peek(e, lo + n) \notin {"*", "/"} PROVE Expr(at, lo) = at[lo + n].sums[v]
    BY <2>3, <2>4, ResultFacts DEF Expr
  <2> QED
    BY <2>2, <2>4 DEF at
<1>3. ASSUME NEW k \in 1 .. n - 2, NEW a \in of[k][lo].sum, NEW b \in of[n - k - 1][lo + k + 1].product,
             \/ e[lo + k] = "+" /\ v = Plus(a, b)
             \/ e[lo + k] = "-" /\ v = Minus(a, b)
      PROVE  /\ v \in Floats
             /\ Peek(e, lo + n) \notin {"*", "/"} => Expr(Parser(e), lo) = Parser(e)[lo + n].sums[v]
  <2> DEFINE q == lo + k
  <2>1. /\ k \in 0 .. n - 1 /\ n - k - 1 \in 0 .. n - 1
        /\ lo \in 1 .. Len(e) - k + 1 /\ q + 1 \in 1 .. Len(e) - (n - k - 1) + 1
        /\ q + 1 + (n - k - 1) = lo + n
        /\ q \in 1 .. Len(e) + 1 /\ Peek(e, q) = e[lo + k]
    BY <1>9
  <2>2. a \in Floats /\ (Peek(e, q) \notin {"*", "/"} => Expr(at, lo) = at[q].sums[a])
    BY <2>1 DEF Complete
  <2>3. Expr(at, lo) = at[q].sums[a]
    BY <1>3, <2>1, <2>2
  <2> HIDE DEF q
  <2>4. b \in Floats /\ Term(at, q + 1) = at[lo + n].products[b]
    <3> DEFINE m == n - k - 1
    <3>1. b \in Grammar(e)[m][q + 1].product
      BY DEF q
    <3>2. Complete(e, m) /\ q + 1 \in 1 .. Len(e) - m + 1 /\ q + 1 + m = lo + n
      BY <2>1
    <3> HIDE DEF m
    <3>3. b \in Floats /\ Term(Parser(e), q + 1) = Parser(e)[q + 1 + m].products[b]
      BY <3>1, <3>2 DEF Complete
    <3> QED
      BY <3>2, <3>3
  <2>5. at[q].sums[a] = Sums(at, e, q, a)
    BY <2>1, <2>2, Reads
  <2>6. v \in Floats
    BY <1>3, <2>2, <2>4, FloatsClosed
  <2>7. ASSUME Peek(e, lo + n) \notin {"*", "/"} PROVE Expr(at, lo) = at[lo + n].sums[v]
    <3>1. Term(at, q + 1) = Parsed(b, lo + n)
      BY <1>0, <2>4, <2>7, LoopEnds
    <3> HIDE DEF at
    <3>2. \/ Peek(e, q) = "+" /\ v = Plus(a, b)
          \/ Peek(e, q) = "-" /\ v = Minus(a, b)
      BY <1>3, <2>1 DEF q
    <3>3. Term(at, q + 1).ok /\ Term(at, q + 1).value = b /\ Term(at, q + 1).pos = lo + n
      BY <3>1 DEF Parsed
    <3>4. Sums(at, e, q, a) = at[lo + n].sums[v]
      BY <3>2, <3>3 DEF Sums
    <3> QED
      BY <2>3, <2>5, <3>4
  <2> HIDE DEF at
  <2> QED
    BY <2>6, <2>7 DEF at
<1> HIDE DEF of
<1> QED
  BY <1>1, <1>2, <1>3 DEF IsSum

LEMMA AllComplete ==
  ASSUME NEW e \in Seq(Tokens), NEW n \in 0 .. Len(e)
  PROVE  Complete(e, n)
<1> DEFINE S == {k \in Nat : k <= Len(e) => Complete(e, k)}
<1>0. Len(e) \in Nat
  BY Symbols
<1>1. ASSUME NEW k \in Nat, 0 .. k - 1 \subseteq S PROVE k \in S
  <2> SUFFICES ASSUME k <= Len(e) PROVE Complete(e, k)
    OBVIOUS
  <2>1. k \in 0 .. Len(e)
    BY <1>0
  <2>2. \A j \in 0 .. k - 1 : Complete(e, j)
    <3> SUFFICES ASSUME NEW j \in 0 .. k - 1 PROVE Complete(e, j)
      OBVIOUS
    <3>1. j \in S /\ j <= Len(e)
      BY <1>0, <1>1
    <3> QED
      BY <3>1
  <2> HIDE DEF S
  <2> SUFFICES ASSUME NEW lo \in 1 .. Len(e) - k + 1
               PROVE  /\ \A v \in Grammar(e)[k][lo].factor :
                           v \in Floats /\ Parser(e)[lo].factor = Parsed(v, lo + k)
                      /\ \A v \in Grammar(e)[k][lo].product :
                           v \in Floats /\ Term(Parser(e), lo) = Parser(e)[lo + k].products[v]
                      /\ \A v \in Grammar(e)[k][lo].sum :
                           /\ v \in Floats
                           /\ Peek(e, lo + k) \notin {"*", "/"} =>
                                Expr(Parser(e), lo) = Parser(e)[lo + k].sums[v]
    BY DEF Complete
  <2> QED
    BY <2>1, <2>2, FactorComplete, ProductComplete, SumComplete
<1>2. S \in SUBSET Nat
  OBVIOUS
<1> HIDE DEF S
<1>3. n \in S
  BY <1>1, <1>2, AllNaturals
<1> QED
  BY <1>0, <1>3 DEF S

(* The parser finds nothing else.                                          *)
LEMMA Derived ==
  ASSUME NEW e \in Seq(Tokens), NEW n \in 0 .. Len(e), NEW lo \in 1 .. Len(e) - n + 1, NEW x
  PROVE  /\ IsFactor(Grammar(e), e, n, lo, x) => x \in Grammar(e)[n][lo].factor
         /\ IsProduct(Grammar(e), e, n, lo, x) => x \in Grammar(e)[n][lo].product
         /\ IsSum(Grammar(e), e, n, lo, x) => x \in Grammar(e)[n][lo].sum
         /\ x \in Grammar(e)[n][lo].factor => x \in Grammar(e)[n][lo].product
         /\ x \in Grammar(e)[n][lo].product => x \in Grammar(e)[n][lo].sum
<1> DEFINE of == Grammar(e)
<1>1. /\ of[n][lo].factor = FactorValues(of, e, n, lo)
      /\ of[n][lo].product = ProductValues(of, e, n, lo)
      /\ of[n][lo].sum = SumValues(of, e, n, lo)
  BY GrammarTable
<1> HIDE DEF of
<1>2. /\ x \in FactorValues(of, e, n, lo) <=> IsFactor(of, e, n, lo, x)
      /\ x \in ProductValues(of, e, n, lo) <=> IsProduct(of, e, n, lo, x)
      /\ x \in SumValues(of, e, n, lo) <=> IsSum(of, e, n, lo, x)
  BY Members
<1>3. /\ x \in FactorValues(of, e, n, lo) => IsProduct(of, e, n, lo, x)
      /\ x \in ProductValues(of, e, n, lo) => IsSum(of, e, n, lo, x)
  BY DEF IsProduct, IsSum
<1> QED
  BY <1>1, <1>2, <1>3 DEF of

(* An operator at q, between what it joins: the tokens from lo to q, and   *)
(* those from q + 1 to p.                                                  *)
LEMMA Joined ==
  ASSUME NEW e \in Seq(Tokens), NEW lo \in Nat \ {0}, NEW q \in Nat, NEW p \in Nat,
         lo < q, q + 1 < p, p <= Len(e) + 1, NEW a, NEW b
  PROVE  LET of == Grammar(e) IN
         /\ a \in of[q - lo][lo].product /\ b \in of[p - (q + 1)][q + 1].factor =>
              /\ Peek(e, q) = "*" => Multiplied(a, b) \in of[p - lo][lo].product
              /\ Peek(e, q) = "/" /\ b.num # 0 => Over(a, b) \in of[p - lo][lo].product
         /\ a \in of[q - lo][lo].sum /\ b \in of[p - (q + 1)][q + 1].product =>
              /\ Peek(e, q) = "+" => Plus(a, b) \in of[p - lo][lo].sum
              /\ Peek(e, q) = "-" => Minus(a, b) \in of[p - lo][lo].sum
<1> DEFINE of == Grammar(e)
           k == q - lo
           n == p - lo
<1>1. /\ n \in 0 .. Len(e) /\ lo \in 1 .. Len(e) - n + 1 /\ k \in 1 .. n - 2
      /\ n - k - 1 = p - (q + 1) /\ lo + k = q /\ lo + k + 1 = q + 1
  <2>1. Len(e) \in Nat
    BY Symbols
  <2> QED
    BY <2>1
<1>2. Peek(e, q) = e[q]
  <2>1. q \in 1 .. Len(e)
    <3>1. Len(e) \in Nat
      BY Symbols
    <3> QED
      BY <3>1
  <2> QED
    BY <2>1, Symbols
<1> HIDE DEF of, k, n
<1>3. ASSUME NEW x
      PROVE  /\ IsProduct(of, e, n, lo, x) => x \in of[n][lo].product
             /\ IsSum(of, e, n, lo, x) => x \in of[n][lo].sum
  BY <1>1, Derived DEF of
<1>4. ASSUME a \in of[k][lo].product, b \in of[p - (q + 1)][q + 1].factor
      PROVE  /\ Peek(e, q) = "*" => Multiplied(a, b) \in of[n][lo].product
             /\ Peek(e, q) = "/" /\ b.num # 0 => Over(a, b) \in of[n][lo].product
  <2>1. b \in of[n - k - 1][lo + k + 1].factor /\ Peek(e, q) = e[lo + k]
    BY <1>1, <1>2, <1>4
  <2>2. /\ Peek(e, q) = "*" => IsProduct(of, e, n, lo, Multiplied(a, b))
        /\ Peek(e, q) = "/" /\ b.num # 0 => IsProduct(of, e, n, lo, Over(a, b))
    BY <1>1, <1>4, <2>1 DEF IsProduct
  <2> QED
    BY <1>3, <2>2
<1>5. ASSUME a \in of[k][lo].sum, b \in of[p - (q + 1)][q + 1].product
      PROVE  /\ Peek(e, q) = "+" => Plus(a, b) \in of[n][lo].sum
             /\ Peek(e, q) = "-" => Minus(a, b) \in of[n][lo].sum
  <2>1. b \in of[n - k - 1][lo + k + 1].product /\ Peek(e, q) = e[lo + k]
    BY <1>1, <1>2, <1>5
  <2>2. /\ Peek(e, q) = "+" => IsSum(of, e, n, lo, Plus(a, b))
        /\ Peek(e, q) = "-" => IsSum(of, e, n, lo, Minus(a, b))
    BY <1>1, <1>5, <2>1 DEF IsSum
  <2> QED
    BY <1>3, <2>2
<1> QED
  BY <1>4, <1>5 DEF of, k, n

(* A result r for the tokens from lo on is one of the values that the      *)
(* grammar gives to the tokens it has taken.                               *)
FactorGiven(e, lo, r) == r.ok => r.value \in Grammar(e)[r.pos - lo][lo].factor
ProductGiven(e, lo, r) == r.ok => r.value \in Grammar(e)[r.pos - lo][lo].product
SumGiven(e, lo, r) == r.ok => r.value \in Grammar(e)[r.pos - lo][lo].sum

SoundAt(e, pos) ==
  /\ FactorGiven(e, pos, Parser(e)[pos].factor)
  /\ \A lo \in 1 .. pos - 1 :
       /\ \A acc \in Grammar(e)[pos - lo][lo].product :
            ProductGiven(e, lo, Parser(e)[pos].products[acc])
       /\ \A acc \in Grammar(e)[pos - lo][lo].sum :
            SumGiven(e, lo, Parser(e)[pos].sums[acc])

LEMMA TermSound ==
  ASSUME NEW e \in Seq(Tokens), NEW pos \in 1 .. Len(e) + 1,
         \A q \in pos .. Len(e) + 1 : SoundAt(e, q)
  PROVE  /\ Term(Parser(e), pos) \in Results(e, pos + 1) /\ Expr(Parser(e), pos) \in Results(e, pos + 1)
         /\ ProductGiven(e, pos, Term(Parser(e), pos)) /\ SumGiven(e, pos, Expr(Parser(e), pos))
<1> DEFINE at == Parser(e)
           r == at[pos].factor
           t == Term(at, pos)
<1>1. Len(e) \in Nat /\ pos \in Nat \ {0} /\ pos <= Len(e) + 1 /\ pos \in pos .. Len(e) + 1
  BY Symbols
<1>2. TableOK(e, at, pos)
  <2>1. TableOK(e, at, 1) /\ \A q \in pos .. Len(e) + 1 : q \in 1 .. Len(e) + 1
    BY <1>1, ParserTable
  <2> QED
    BY <2>1 DEF TableOK
<1> HIDE DEF at
<1>3. t \in Results(e, pos + 1) /\ Expr(at, pos) \in Results(e, pos + 1) /\ r \in Results(e, pos + 1)
  <2>1. r \in Results(e, pos + 1)
    BY <1>1, <1>2 DEF TableOK, EntryOK
  <2>2. Term(at, pos) \in Results(e, pos + 1) /\ Expr(at, pos) \in Results(e, pos + 1)
    BY <1>1, <1>2, TermOK
  <2> QED
    BY <2>1, <2>2
<1>4. ASSUME NEW x \in Results(e, pos + 1), x.ok
      PROVE  /\ x.pos - pos \in 0 .. Len(e) /\ pos \in 1 .. Len(e) - (x.pos - pos) + 1
             /\ x.pos \in pos .. Len(e) + 1 /\ pos \in 1 .. x.pos - 1
  <2>1. x.pos \in pos + 1 .. Len(e) + 1
    BY <1>4, ResultFacts
  <2> QED
    BY <1>1, <2>1
<1>5. ProductGiven(e, pos, t)
  <2> SUFFICES ASSUME t.ok PROVE t.value \in Grammar(e)[t.pos - pos][pos].product
    BY DEF ProductGiven
  <2>1. r.ok /\ t = at[r.pos].products[r.value]
    BY <1>3, ResultFacts DEF Term, Wrong
  <2>2. r.value \in Grammar(e)[r.pos - pos][pos].factor
    BY <1>1, <2>1 DEF SoundAt, FactorGiven, at
  <2> HIDE DEF r, t
  <2>3. r.value \in Grammar(e)[r.pos - pos][pos].product
    <3> DEFINE n == r.pos - pos
               x == r.value
    <3>1. n \in 0 .. Len(e) /\ pos \in 1 .. Len(e) - n + 1 /\ x \in Grammar(e)[n][pos].factor
      BY <1>3, <1>4, <2>1, <2>2
    <3> HIDE DEF n, x
    <3>2. x \in Grammar(e)[n][pos].product
      BY <3>1, Derived
    <3> QED
      BY <3>2 DEF n, x
  <2>4. SoundAt(e, r.pos) /\ pos \in 1 .. r.pos - 1
    BY <1>3, <1>4, <2>1
  <2>5. ProductGiven(e, pos, at[r.pos].products[r.value])
    BY <2>3, <2>4 DEF SoundAt, at
  <2> QED
    BY <2>1, <2>5 DEF ProductGiven
<1>6. SumGiven(e, pos, Expr(at, pos))
  <2> DEFINE s == Expr(at, pos)
  <2> SUFFICES ASSUME s.ok PROVE s.value \in Grammar(e)[s.pos - pos][pos].sum
    BY DEF SumGiven
  <2>1. t.ok /\ s = at[t.pos].sums[t.value]
    BY <1>3, ResultFacts DEF Expr, Wrong
  <2> HIDE DEF r, t, s
  <2>2. t.value \in Grammar(e)[t.pos - pos][pos].product
    BY <1>5, <2>1 DEF ProductGiven
  <2>3. t.value \in Grammar(e)[t.pos - pos][pos].sum
    <3> DEFINE n == t.pos - pos
               x == t.value
    <3>1. n \in 0 .. Len(e) /\ pos \in 1 .. Len(e) - n + 1 /\ x \in Grammar(e)[n][pos].product
      BY <1>3, <1>4, <2>1, <2>2
    <3> HIDE DEF n, x
    <3>2. x \in Grammar(e)[n][pos].sum
      BY <3>1, Derived
    <3> QED
      BY <3>2 DEF n, x
  <2>4. SoundAt(e, t.pos) /\ pos \in 1 .. t.pos - 1
    BY <1>3, <1>4, <2>1
  <2>5. SumGiven(e, pos, at[t.pos].sums[t.value])
    BY <2>3, <2>4 DEF SoundAt, at
  <2> QED
    BY <2>1, <2>5 DEF SumGiven
<1> QED
  BY <1>3, <1>5, <1>6 DEF at, t

LEMMA FactorSound ==
  ASSUME NEW e \in Seq(Tokens), NEW pos \in 1 .. Len(e) + 1,
         \A q \in pos + 1 .. Len(e) + 1 : SoundAt(e, q)
  PROVE  FactorGiven(e, pos, Parser(e)[pos].factor)
<1> DEFINE at == Parser(e)
           f == at[pos].factor
           of == Grammar(e)
<1>1. Len(e) \in Nat /\ pos \in Nat \ {0}
  BY Symbols
<1>2. f = Factor(at, e, pos)
  <2>1. Float(FALSE, 0, 1) \in Floats
    BY DEF Float, Floats
  <2> QED
    BY <2>1, Reads
<1> SUFFICES ASSUME f.ok PROVE f.value \in of[f.pos - pos][pos].factor
  BY DEF FactorGiven
<1>3. pos \in 1 .. Len(e) /\ Peek(e, pos) = e[pos]
  <2>1. pos # Len(e) + 1
    <3> SUFFICES ASSUME pos = Len(e) + 1 PROVE FALSE
      OBVIOUS
    <3>1. Peek(e, pos) # "-" /\ Peek(e, pos) # "(" /\ Peek(e, pos) \notin DOMAIN ValueOf
      BY Symbols
    <3> HIDE DEF at
    <3>2. Factor(at, e, pos) = Wrong
      BY <3>1, FactorCases
    <3> QED
      BY <1>2, <3>2, ResultFacts
  <2>2. pos \in 1 .. Len(e)
    BY <1>1, <2>1
  <2> QED
    BY <2>2, Symbols
<1>4. \A q \in pos + 1 .. Len(e) + 1 : SoundAt(e, q)
  OBVIOUS
<1> DEFINE m == at[pos + 1].factor
           p == Expr(at, pos + 1)
<1>5. /\ e[pos] = "-" => f = IF m.ok THEN Parsed(Negate(m.value), m.pos) ELSE Wrong
      /\ e[pos] = "(" => f = IF p.ok /\ Peek(e, p.pos) = ")" THEN Parsed(p.value, p.pos + 1) ELSE Wrong
      /\ e[pos] \in DOMAIN ValueOf => f = Parsed(Float(FALSE, ValueOf[e[pos]], 1), pos + 1)
      /\ e[pos] # "-" /\ e[pos] # "(" /\ e[pos] \notin DOMAIN ValueOf => f = Wrong
  <2> HIDE DEF at
  <2> QED
    BY <1>2, <1>3, FactorCases
<1>6. m \in Results(e, pos + 2) /\ FactorGiven(e, pos + 1, m)
  <2>1. pos + 1 \in 1 .. Len(e) + 1 /\ pos + 1 \in pos + 1 .. Len(e) + 1 /\ pos + 1 + 1 = pos + 2
    BY <1>1, <1>3
  <2>2. m \in Results(e, pos + 1 + 1)
    BY <2>1, ParserTable DEF TableOK, EntryOK
  <2>3. FactorGiven(e, pos + 1, m)
    BY <1>4, <2>1 DEF SoundAt
  <2> QED
    BY <2>1, <2>2, <2>3
<1>7. p \in Results(e, pos + 2) /\ SumGiven(e, pos + 1, p)
  <2> DEFINE after == pos + 1
  <2>1. after \in 1 .. Len(e) + 1 /\ after + 1 = pos + 2 /\ \A q \in after .. Len(e) + 1 : SoundAt(e, q)
    BY <1>1, <1>3, <1>4
  <2> HIDE DEF after
  <2>2. Expr(Parser(e), after) \in Results(e, after + 1) /\ SumGiven(e, after, Expr(Parser(e), after))
    BY <2>1, TermSound
  <2> QED
    BY <2>1, <2>2 DEF after
<1> HIDE DEF at, f, of, m, p
<1>8. ASSUME NEW n \in 1 .. Len(e), NEW x, f = Parsed(x, pos + n), pos + n <= Len(e) + 1,
             IsFactor(of, e, n, pos, x)
      PROVE  f.value \in of[f.pos - pos][pos].factor
  <2>1. n \in 0 .. Len(e) /\ pos \in 1 .. Len(e) - n + 1
    BY <1>1, <1>8
  <2>2. x \in of[n][pos].factor
    BY <1>8, <2>1, Derived DEF of
  <2>3. f.value = x /\ f.pos = pos + n
    BY <1>8 DEF Parsed
  <2>4. f.pos - pos = n
    BY <1>1, <2>3
  <2> QED
    BY <2>2, <2>3, <2>4
<1>9. CASE e[pos] = "-"
  <2>1. m.ok /\ f = Parsed(Negate(m.value), m.pos)
    BY <1>5, <1>9, ResultFacts
  <2> DEFINE n == m.pos - pos
  <2>2. m.pos \in pos + 2 .. Len(e) + 1
    BY <1>6, <2>1, ResultFacts
  <2>3. n \in 1 .. Len(e) /\ n > 1 /\ pos + n = m.pos /\ pos + n <= Len(e) + 1 /\ m.pos - (pos + 1) = n - 1
    BY <1>1, <2>2
  <2>4. m.value \in of[n - 1][pos + 1].factor
    BY <1>6, <2>1, <2>3 DEF FactorGiven, of
  <2> HIDE DEF n
  <2>5. IsFactor(of, e, n, pos, Negate(m.value))
    BY <1>9, <2>3, <2>4 DEF IsFactor
  <2> QED
    BY <1>8, <2>1, <2>3, <2>5
<1>10. CASE e[pos] = "("
  <2>1. p.ok /\ Peek(e, p.pos) = ")" /\ f = Parsed(p.value, p.pos + 1)
    BY <1>5, <1>10, ResultFacts
  <2> DEFINE n == p.pos + 1 - pos
  <2>2. p.pos \in pos + 2 .. Len(e) + 1
    BY <1>7, <2>1, ResultFacts
  <2>3. p.pos # Len(e) + 1
    <3>1. Peek(e, Len(e) + 1) # ")"
      BY Symbols
    <3> QED
      BY <2>1, <3>1
  <2>4. /\ n \in 1 .. Len(e) /\ n > 2 /\ pos + n = p.pos + 1 /\ pos + n <= Len(e) + 1
        /\ p.pos - (pos + 1) = n - 2 /\ pos + n - 1 = p.pos /\ p.pos \in 1 .. Len(e)
    BY <1>1, <2>2, <2>3
  <2>5. p.value \in of[n - 2][pos + 1].sum
    BY <1>7, <2>1, <2>4 DEF SumGiven, of
  <2>6. e[p.pos] = ")"
    BY <2>1, <2>4, Symbols
  <2> HIDE DEF n
  <2>7. IsFactor(of, e, n, pos, p.value)
    BY <1>10, <2>4, <2>5, <2>6 DEF IsFactor
  <2> QED
    BY <1>8, <2>1, <2>4, <2>7
<1>11. CASE e[pos] \in DOMAIN ValueOf
  <2>1. f = Parsed(Float(FALSE, ValueOf[e[pos]], 1), pos + 1)
    BY <1>5, <1>11
  <2>2. 1 \in 1 .. Len(e) /\ pos + 1 <= Len(e) + 1
    BY <1>1, <1>3
  <2>3. IsFactor(of, e, 1, pos, Float(FALSE, ValueOf[e[pos]], 1))
    BY <1>11 DEF IsFactor
  <2> QED
    BY <1>8, <2>1, <2>2, <2>3
<1>12. e[pos] = "-" \/ e[pos] = "(" \/ e[pos] \in DOMAIN ValueOf
  BY <1>5, ResultFacts
<1> QED
  BY <1>9, <1>10, <1>11, <1>12

LEMMA LoopsSound ==
  ASSUME NEW e \in Seq(Tokens), NEW pos \in 1 .. Len(e) + 1,
         \A q \in pos + 1 .. Len(e) + 1 : SoundAt(e, q), NEW lo \in 1 .. pos - 1, NEW acc \in Floats
  PROVE  /\ acc \in Grammar(e)[pos - lo][lo].product =>
              ProductGiven(e, lo, Parser(e)[pos].products[acc])
         /\ acc \in Grammar(e)[pos - lo][lo].sum =>
              SumGiven(e, lo, Parser(e)[pos].sums[acc])
<1> DEFINE at == Parser(e)
           of == Grammar(e)
<1>1. Len(e) \in Nat /\ pos \in Nat \ {0} /\ lo \in Nat \ {0} /\ lo < pos
  BY Symbols
<1>2. at[pos].products[acc] = Products(at, e, pos, acc) /\ at[pos].sums[acc] = Sums(at, e, pos, acc)
  BY Reads
<1>3. ASSUME Peek(e, pos) \in Operators
      PROVE  pos + 1 \in 1 .. Len(e) + 1 /\ pos + 1 \in pos + 1 .. Len(e) + 1 /\ pos + 1 + 1 = pos + 2
  <2>1. pos # Len(e) + 1
    <3>1. Peek(e, Len(e) + 1) \notin Operators
      BY Symbols
    <3> QED
      BY <1>3, <3>1
  <2> QED
    BY <1>1, <2>1
<1>4. ASSUME NEW r \in Results(e, pos + 2), r.ok
      PROVE  /\ r.pos \in Nat /\ pos + 1 < r.pos /\ r.pos <= Len(e) + 1
             /\ SoundAt(e, r.pos) /\ lo \in 1 .. r.pos - 1
  <2>1. r.pos \in pos + 2 .. Len(e) + 1
    BY <1>4, ResultFacts
  <2>2. r.pos \in pos + 1 .. Len(e) + 1 /\ r.pos \in Nat /\ pos + 1 < r.pos /\ lo \in 1 .. r.pos - 1
    BY <1>1, <2>1
  <2> QED
    BY <2>1, <2>2
<1>5. ASSUME acc \in of[pos - lo][lo].product
      PROVE  ProductGiven(e, lo, at[pos].products[acc])
  <2>1. CASE Peek(e, pos) \notin {"*", "/"}
    <3>1. Products(at, e, pos, acc) = Parsed(acc, pos)
      BY <2>1 DEF Products
    <3> HIDE DEF at
    <3>2. at[pos].products[acc].value = acc /\ at[pos].products[acc].pos = pos
      BY <1>2, <3>1 DEF Parsed
    <3> QED
      BY <1>5, <3>2 DEF ProductGiven
  <2>2. CASE Peek(e, pos) \in {"*", "/"}
    <3> DEFINE r == at[pos + 1].factor
               after == pos + 1
    <3>1. after \in 1 .. Len(e) + 1 /\ after \in pos + 1 .. Len(e) + 1 /\ after + 1 = pos + 2
      BY <1>3, <2>2 DEF Operators
    <3>2. r \in Results(e, pos + 2) /\ FactorGiven(e, after, r)
      <4>1. r \in Results(e, after + 1)
        BY <3>1, ParserTable DEF TableOK, EntryOK
      <4>2. FactorGiven(e, after, r)
        BY <3>1 DEF SoundAt
      <4> QED
        BY <3>1, <4>1, <4>2
    <3> SUFFICES ASSUME at[pos].products[acc].ok PROVE ProductGiven(e, lo, at[pos].products[acc])
      BY DEF ProductGiven
    <3>3. at[pos].products[acc] =
            IF ~r.ok THEN Wrong
            ELSE IF Peek(e, pos) = "*" THEN at[r.pos].products[Multiplied(acc, r.value)]
            ELSE IF r.value.num = 0 THEN Wrong
            ELSE at[r.pos].products[Over(acc, r.value)]
      BY <1>2, <2>2 DEF Products
    <3> HIDE DEF r
    <3>4. r.ok /\ (Peek(e, pos) = "*" \/ (Peek(e, pos) = "/" /\ r.value.num # 0))
      <4> HIDE DEF at
      <4> QED
        BY <2>2, <3>3, ResultFacts
    <3>5. PICK x : /\ at[pos].products[acc] = at[r.pos].products[x]
                   /\ x \in of[r.pos - lo][lo].product
      <4> DEFINE p == r.pos
                 b == r.value
      <4>1. p \in Nat /\ pos + 1 < p /\ p <= Len(e) + 1
        BY <1>4, <3>2, <3>4
      <4>2. b \in of[p - (pos + 1)][pos + 1].factor
        BY <3>2, <3>4 DEF FactorGiven
      <4> HIDE DEF at, p, b
      <4>3. /\ Peek(e, pos) = "*" => Multiplied(acc, b) \in of[p - lo][lo].product
            /\ Peek(e, pos) = "/" /\ b.num # 0 => Over(acc, b) \in of[p - lo][lo].product
        <5> HIDE DEF of
        <5> QED
          BY <1>1, <1>5, <4>1, <4>2, Joined DEF of
      <4>4. CASE Peek(e, pos) = "*"
        BY <3>3, <3>4, <4>3, <4>4 DEF p, b
      <4>5. CASE Peek(e, pos) = "/" /\ b.num # 0
        BY <3>3, <3>4, <4>3, <4>5 DEF p, b
      <4> QED
        BY <3>4, <4>4, <4>5 DEF b
    <3>6. SoundAt(e, r.pos) /\ lo \in 1 .. r.pos - 1
      BY <1>4, <3>2, <3>4
    <3> QED
      BY <3>5, <3>6 DEF SoundAt
  <2> QED
    BY <2>1, <2>2
<1>6. ASSUME acc \in of[pos - lo][lo].sum
      PROVE  SumGiven(e, lo, at[pos].sums[acc])
  <2>1. CASE Peek(e, pos) \notin {"+", "-"}
    <3>1. Sums(at, e, pos, acc) = Parsed(acc, pos)
      BY <2>1 DEF Sums
    <3> HIDE DEF at
    <3>2. at[pos].sums[acc].value = acc /\ at[pos].sums[acc].pos = pos
      BY <1>2, <3>1 DEF Parsed
    <3> QED
      BY <1>6, <3>2 DEF SumGiven
  <2>2. CASE Peek(e, pos) \in {"+", "-"}
    <3> DEFINE r == Term(at, pos + 1)
               after == pos + 1
    <3>1. after \in 1 .. Len(e) + 1 /\ after + 1 = pos + 2 /\ \A q \in after .. Len(e) + 1 : SoundAt(e, q)
      BY <1>3, <2>2 DEF Operators
    <3>2. r \in Results(e, pos + 2) /\ ProductGiven(e, after, r)
      <4> HIDE DEF after
      <4>1. Term(Parser(e), after) \in Results(e, after + 1) /\ ProductGiven(e, after, Term(Parser(e), after))
        BY <3>1, TermSound
      <4> QED
        BY <3>1, <4>1 DEF after
    <3> SUFFICES ASSUME at[pos].sums[acc].ok PROVE SumGiven(e, lo, at[pos].sums[acc])
      BY DEF SumGiven
    <3>3. at[pos].sums[acc] =
            IF ~r.ok THEN Wrong
            ELSE at[r.pos].sums[IF Peek(e, pos) = "+" THEN Plus(acc, r.value) ELSE Minus(acc, r.value)]
      BY <1>2, <2>2 DEF Sums
    <3> HIDE DEF r
    <3>4. r.ok
      <4> HIDE DEF at
      <4> QED
        BY <2>2, <3>3, ResultFacts
    <3>5. PICK x : /\ at[pos].sums[acc] = at[r.pos].sums[x]
                   /\ x \in of[r.pos - lo][lo].sum
      <4> DEFINE p == r.pos
                 b == r.value
      <4>1. p \in Nat /\ pos + 1 < p /\ p <= Len(e) + 1
        BY <1>4, <3>2, <3>4
      <4>2. b \in of[p - (pos + 1)][pos + 1].product
        BY <3>2, <3>4 DEF ProductGiven
      <4> HIDE DEF at, p, b
      <4>3. /\ Peek(e, pos) = "+" => Plus(acc, b) \in of[p - lo][lo].sum
            /\ Peek(e, pos) = "-" => Minus(acc, b) \in of[p - lo][lo].sum
        <5> HIDE DEF of
        <5> QED
          BY <1>1, <1>6, <4>1, <4>2, Joined DEF of
      <4>4. CASE Peek(e, pos) = "+"
        BY <3>3, <3>4, <4>3, <4>4 DEF p, b
      <4>5. CASE Peek(e, pos) = "-"
        BY <3>3, <3>4, <4>3, <4>5 DEF p, b
      <4> QED
        BY <2>2, <4>4, <4>5
    <3>6. SoundAt(e, r.pos) /\ lo \in 1 .. r.pos - 1
      BY <1>4, <3>2, <3>4
    <3> QED
      BY <3>5, <3>6 DEF SoundAt
  <2> QED
    BY <2>1, <2>2
<1> QED
  BY <1>5, <1>6

LEMMA AllSound ==
  ASSUME NEW e \in Seq(Tokens), NEW pos \in 1 .. Len(e) + 1
  PROVE  SoundAt(e, pos)
<1> DEFINE N == Len(e) + 1
           S == {k \in Nat : k < N => SoundAt(e, N - k)}
<1>0. N \in Nat /\ N = Len(e) + 1 /\ Len(e) \in Nat
  BY Symbols
<1> HIDE DEF N
<1>1. ASSUME NEW k \in Nat, 0 .. k - 1 \subseteq S PROVE k \in S
  <2> DEFINE p == N - k
  <2> SUFFICES ASSUME k < N PROVE SoundAt(e, p)
    OBVIOUS
  <2>1. p \in 1 .. Len(e) + 1
    BY <1>0
  <2>2. ASSUME NEW q \in p + 1 .. Len(e) + 1 PROVE SoundAt(e, q)
    <3>1. N - q \in 0 .. k - 1 /\ N - q < N /\ N - (N - q) = q
      BY <1>0
    <3>2. N - q \in S
      BY <1>1, <3>1
    <3> QED
      BY <3>1, <3>2
  <2> HIDE DEF p, S
  <2>3. FactorGiven(e, p, Parser(e)[p].factor)
    BY <2>1, <2>2, FactorSound
  <2>4. ASSUME NEW lo \in 1 .. p - 1, NEW acc,
               acc \in Grammar(e)[p - lo][lo].product \/ acc \in Grammar(e)[p - lo][lo].sum
        PROVE  acc \in Floats
    <3> DEFINE n == p - lo
    <3>1. n \in 0 .. Len(e) /\ lo \in 1 .. Len(e) - n + 1
      BY <1>0, <2>1
    <3> HIDE DEF n
    <3>2. Complete(e, n)
      BY <3>1, AllComplete
    <3> QED
      BY <2>4, <3>1, <3>2 DEF Complete, n
  <2>5. \A lo \in 1 .. p - 1 : \A acc \in Floats :
          /\ acc \in Grammar(e)[p - lo][lo].product => ProductGiven(e, lo, Parser(e)[p].products[acc])
          /\ acc \in Grammar(e)[p - lo][lo].sum => SumGiven(e, lo, Parser(e)[p].sums[acc])
    BY <2>1, <2>2, LoopsSound
  <2> QED
    BY <2>3, <2>4, <2>5 DEF SoundAt
<1>2. S \in SUBSET Nat
  OBVIOUS
<1> HIDE DEF S
<1>3. N - pos \in S /\ N - pos < N /\ N - (N - pos) = pos
  BY <1>0, <1>1, <1>2, AllNaturals
<1> QED
  BY <1>3 DEF S

(* calculate answers exactly the sequences that the grammar derives, with  *)
(* the one value that it gives them, however long they are.                *)
THEOREM CalculatesRight == \A e \in Seq(Tokens) : CalculatedRight(e)
<1> TAKE e \in Seq(Tokens)
<1> DEFINE n == Len(e)
           r == Expr(Parser(e), 1)
<1>1. n \in 0 .. Len(e) /\ 1 \in 1 .. Len(e) - n + 1 /\ 1 + n = Len(e) + 1 /\ Len(e) + 1 \in 1 .. Len(e) + 1
      /\ Len(e) + 1 - 1 = n
  BY Symbols
<1>2. ASSUME NEW v \in Values(e) PROVE v \in Floats /\ r = Parsed(v, n + 1)
  <2>1. v \in Grammar(e)[n][1].sum
    BY DEF Values
  <2>2. v \in Floats /\ (Peek(e, 1 + n) \notin {"*", "/"} => r = Parser(e)[1 + n].sums[v])
    <3> HIDE DEF n
    <3>1. Complete(e, n)
      BY <1>1, AllComplete
    <3> QED
      BY <1>1, <2>1, <3>1 DEF Complete
  <2>3. Peek(e, n + 1) = "end"
    BY Symbols
  <2>4. Parser(e)[n + 1].sums[v] = Parsed(v, n + 1)
    BY <1>1, <2>2, <2>3, LoopEnds
  <2> QED
    BY <1>1, <2>2, <2>3, <2>4
<1>3. ASSUME r.ok, r.pos = n + 1 PROVE r.value \in Values(e)
  <2>1. 1 \in 1 .. Len(e) + 1 /\ \A q \in 1 .. Len(e) + 1 : SoundAt(e, q)
    BY <1>1, AllSound, Symbols
  <2>2. SumGiven(e, 1, r)
    BY <2>1, TermSound
  <2>3. r.value \in Grammar(e)[r.pos - 1][1].sum
    BY <1>3, <2>2 DEF SumGiven
  <2> QED
    BY <1>1, <1>3, <2>3 DEF Values
<1> DEFINE c == Calculate(e)
<1>4. c = IF r.ok /\ r.pos = n + 1 THEN [ok |-> TRUE, value |-> r.value] ELSE Wrong
  BY DEF Calculate
<1> HIDE DEF r, n, c
<1>5. ASSUME NEW v \in Values(e) PROVE c.ok /\ Same(v, c.value)
  <2>1. r.ok /\ r.pos = n + 1 /\ r.value = v
    BY <1>2 DEF Parsed
  <2>2. c.ok /\ c.value = v
    BY <1>4, <2>1
  <2>3. Same(v, v)
    BY <1>2, FloatsClosed
  <2> QED
    BY <2>2, <2>3
<1>6. c.ok \in BOOLEAN /\ (c.ok => Values(e) # {})
  <2>1. CASE r.ok /\ r.pos = n + 1
    BY <1>3, <1>4, <2>1
  <2>2. CASE ~(r.ok /\ r.pos = n + 1)
    BY <1>4, <2>2 DEF Wrong
  <2> QED
    BY <2>1, <2>2
<1> QED
  BY <1>5, <1>6 DEF CalculatedRight, c

(* The same of every expression that the runs make of Pieces.              *)
THEOREM CalculatorIsRight == CalculatorSpec => []CalculatorRight
<1> DEFINE Inv == expression \in Seq(Tokens)
<1>1. CalculatorInit => Inv
  BY DEF CalculatorInit
<1>2. Inv /\ [CalculatorNext]_calculatorVars => Inv'
  <2> SUFFICES ASSUME Inv, [CalculatorNext]_calculatorVars PROVE Inv'
    OBVIOUS
  <2>1. CASE CalculatorNext
    <3>1. PICK piece \in Pieces : expression' = expression \o piece
      BY <2>1 DEF CalculatorNext
    <3>2. piece \in Seq(Tokens)
      BY CalculatorAssumption
    <3> QED
      BY <3>1, <3>2, ConcatProperties
  <2>2. CASE UNCHANGED calculatorVars
    BY <2>2 DEF calculatorVars
  <2> QED
    BY <2>1, <2>2
<1>3. Inv => CalculatorRight
  BY CalculatesRight DEF CalculatorRight
<1> QED
  BY <1>1, <1>2, <1>3, PTL DEF CalculatorSpec
=============================================================================
