------------------------------- MODULE Merkle --------------------------------
(***************************************************************************)
(* get_block_merkle_proof: the position of a transaction in its block and  *)
(* the path from it to the root, for the contracts of Citrea.  The tree is *)
(* built level by level (BitcoinMerkleTree::new), the path is read off it  *)
(* (get_idx_path) and folded again (calculate_root_with_merkle_proof).     *)
(* One iteration of a loop is one step; an index out of range, a failed    *)
(* assertion and ilog2(0) panic.                                           *)
(*                                                                         *)
(* Abstractions.  A hash is the pair of what it was made from, a leaf the  *)
(* position of its transaction: no two inputs collide.  Vectors count from *)
(* zero, as in the code.                                                   *)
(***************************************************************************)
EXTENDS Integers, FiniteSets

CONSTANTS
  MaxTransactions,   \* bound: transactions in a block
  Ilog2,             \* usize::ilog of the standard library, for 1..MaxTransactions
  Zero,              \* the hash of 32 zero bytes
  NULL

VARIABLES
  txs, target, witness,   \* the block's size, where the transaction is, which tree
  pc,
  nodes, depth,           \* BitcoinMerkleTree
  path, level, position,  \* of the loop that climbs or folds
  hash                    \* combined_hash

vars == <<txs, target, witness, pc, nodes, depth, path, level, position, hash>>
block == <<txs, target, witness>>

ASSUME MerkleAssumption ==
  /\ MaxTransactions \in Nat /\ NULL \notin Nat
  /\ Ilog2 \in [1..MaxTransactions -> Nat]
  /\ \A n \in 1..MaxTransactions :
       Ilog2[n] = IF n = 1 THEN 0 ELSE Ilog2[n \div 2] + 1
-----------------------------------------------------------------------------
Hash(left, right) == <<left, right>>

Length(vec) == Cardinality(DOMAIN vec)
Push(vec, x) == [i \in 0..Length(vec) |-> IF i = Length(vec) THEN x ELSE vec[i]]

(* The coinbase commits to the witness tree: its leaf there is zero.       *)
LeafOfId(i) == i

Leaf(i) == IF witness /\ i = 0 THEN Zero ELSE i

Leaves == [i \in 0..(txs - 1) |-> Leaf(i)]

(* The level over a level: the last node of an odd one is hashed with      *)
(* itself.                                                                 *)
AboveLong(below) ==
  [i \in 0..(Length(below) \div 2) |->
     Hash(below[2 * i % Length(below)], below[(2 * i + 1) % Length(below)])]

Above(below) ==
  [i \in 0..((Length(below) - 1) \div 2) |->
     Hash(below[2 * i], below[IF 2 * i + 1 < Length(below) THEN 2 * i + 1 ELSE 2 * i])]

Top == Length(nodes) - 1
Root == nodes[Top][0]

(* Where the other half of the node's hash is.                             *)
SiblingOrSelf(l, i) == IF i = Length(nodes[l]) - 1 THEN i ELSE IF i % 2 = 1 THEN i - 1 ELSE i + 1

Sibling(l, i) ==
  IF i % 2 = 1 THEN i - 1 ELSE IF i = Length(nodes[l]) - 1 THEN i ELSE i + 1

Fold(i, own, other) == IF i % 2 = 0 THEN Hash(own, other) ELSE Hash(other, own)
-----------------------------------------------------------------------------
(* The transaction is that of the outpoint the user gives, the coinbase    *)
(* too: nothing looks at what it is.  A block without it is a mistake of   *)
(* the service the block comes from.                                       *)
Init ==
  /\ txs \in 0..MaxTransactions
  /\ target \in (0..(txs - 1)) \cup {NULL}
  /\ witness \in BOOLEAN
  /\ pc = "find"
  /\ nodes = <<>> /\ depth = 0 /\ path = <<>> /\ level = 0 /\ position = 0 /\ hash = NULL

(* BitcoinMerkleTree::new up to its loop.                                  *)
Plant ==
  IF txs = 0 THEN pc' = "error" /\ UNCHANGED <<nodes, depth>>
  ELSE IF txs = 1 THEN pc' = "panic" /\ UNCHANGED <<nodes, depth>>
  ELSE /\ pc' = "build"
       /\ depth' = Ilog2[txs - 1] + 1
       /\ nodes' = Push(<<>>, Leaves)

FindLate ==
  /\ pc = "find"
  /\ Plant
  /\ UNCHANGED <<block, path, level, position, hash>>

(* The transaction is looked up before the tree is built.                  *)
Find ==
  /\ pc = "find"
  /\ IF target = NULL THEN pc' = "error" /\ UNCHANGED <<nodes, depth>> ELSE Plant
  /\ UNCHANGED <<block, path, level, position, hash>>

AddLevel ==
  /\ pc = "build" /\ Length(nodes[Top]) > 1
  /\ nodes' = Push(nodes, Above(nodes[Top]))
  /\ UNCHANGED <<block, pc, depth, path, level, position, hash>>

StartClimbAtNone ==
  /\ pc = "build" /\ Length(nodes[Top]) < 1
  /\ pc' = IF target < Length(nodes[0]) THEN "climb" ELSE "panic"
  /\ level' = 0 /\ position' = target
  /\ UNCHANGED <<block, nodes, depth, path, hash>>

(* get_idx_path asserts that the index is of a leaf.                       *)
StartClimb ==
  /\ pc = "build" /\ Length(nodes[Top]) <= 1
  /\ pc' = IF target < Length(nodes[0]) THEN "climb" ELSE "panic"
  /\ level' = 0 /\ position' = target
  /\ UNCHANGED <<block, nodes, depth, path, hash>>

Climb ==
  /\ pc = "climb" /\ level < Top
  /\ IF Sibling(level, position) \in DOMAIN nodes[level]
     THEN /\ path' = Push(path, nodes[level][Sibling(level, position)])
          /\ level' = level + 1 /\ position' = position \div 2
          /\ UNCHANGED pc
     ELSE pc' = "panic" /\ UNCHANGED <<path, level, position>>
  /\ UNCHANGED <<block, nodes, depth, hash>>

StartFold ==
  /\ pc = "climb" /\ level >= Top
  /\ pc' = "fold"
  /\ level' = 0 /\ position' = target /\ hash' = Leaf(target)
  /\ UNCHANGED <<block, nodes, depth, path>>

FoldLevel ==
  /\ pc = "fold" /\ level < depth
  /\ IF level \in DOMAIN path
     THEN /\ hash' = Fold(position, hash, path[level])
          /\ level' = level + 1 /\ position' = position \div 2
          /\ UNCHANGED pc
     ELSE pc' = "panic" /\ UNCHANGED <<hash, level, position>>
  /\ UNCHANGED <<block, nodes, depth, path>>

(* What the fold computes is dropped: the path goes out unchecked.         *)
Finish ==
  /\ pc = "fold" /\ level >= depth
  /\ pc' = "done"
  /\ UNCHANGED <<block, nodes, depth, path, level, position, hash>>

Next == Find \/ AddLevel \/ StartClimb \/ Climb \/ StartFold \/ FoldLevel \/ Finish

Spec == Init /\ [][Next]_vars
FairSpec == Spec /\ WF_vars(Next)
-----------------------------------------------------------------------------
Vector(vec) == DOMAIN vec = 0..(Length(vec) - 1)

(* Every variable keeps its type: the tree has at most one level more than *)
(* its depth, and the path one node for a level.                           *)
TypeOK ==
  /\ txs \in 0..MaxTransactions /\ target \in (0..(txs - 1)) \cup {NULL}
  /\ witness \in BOOLEAN
  /\ pc \in {"find", "build", "climb", "fold", "done", "error", "panic"}
  /\ depth \in Nat /\ level \in 0..depth
  /\ position \in 0..MaxTransactions
  /\ Vector(nodes) /\ Length(nodes) \in 0..(depth + 1)
  /\ \A l \in DOMAIN nodes : Vector(nodes[l]) /\ Length(nodes[l]) \in 1..txs
  /\ Vector(path) /\ Length(path) \in 0..depth

(* No index of the three loops is out of range and no search that fails    *)
(* panics: the one panic is ilog2 of the zero that a lone coinbase leaves, *)
(* when it is the transaction that is asked for.                           *)
OnlyLonePanics == pc = "panic" => txs = 1 /\ target = 0

(* The path leads from the transaction, at the position that is returned,  *)
(* to the root of the tree: what the code computes and drops.              *)
ProofVerifies == pc = "done" => hash = Root

(* The root as Bitcoin defines it, from above: the right half of a tree of *)
(* height h at j is there if one of its leaves is, and else the left one   *)
(* is doubled; in the witness tree the first leaf is zero.                 *)
Pow2[h \in Nat] == IF h = 0 THEN 1 ELSE 2 * Pow2[h - 1]

Ground(first) == [j \in Nat |-> IF j = 0 THEN first ELSE j]

Over(below, width, n) ==
  [j \in Nat |-> <<below[2 * j],
                   below[IF (2 * j + 1) * width < n THEN 2 * j + 1 ELSE 2 * j]>>]

Bitcoin(n, first) ==
  LET tree[h \in Nat] == IF h = 0 THEN Ground(first) ELSE Over(tree[h - 1], Pow2[h - 1], n)
  IN  tree

Tree == Bitcoin(txs, IF witness THEN Zero ELSE 0)
Height == CHOOSE h \in 0..txs : Pow2[h] >= txs /\ \A k \in 0..(h - 1) : Pow2[k] < txs

(* The proof is against the root that the block's header or its coinbase   *)
(* commits to, and is as long as that tree is high.                        *)
RootIsBitcoins == pc = "done" => hash = Tree[Height][0] /\ Length(path) = Height

(* Steps still ahead at most: no level has as many nodes as the one below, *)
(* and no more levels are climbed and folded than there are nodes.         *)
Ahead ==
  CASE pc = "find"  -> 3 * MaxTransactions + 4
    [] pc = "build" -> 2 * MaxTransactions + 3 + Length(nodes[Top])
    [] pc = "climb" -> MaxTransactions + 2 + (depth - level)
    [] pc = "fold"  -> 1 + (depth - level)
    [] pc \in {"done", "error", "panic"} -> 0

(* None of the three loops runs on: each turn has less ahead of it.        *)
LoopsGoOn == [][Ahead' < Ahead]_vars

(* A transaction of a block of two or more gets its proof, the coinbase    *)
(* too, and the last of an odd level.                                      *)
Answers == (pc = "find" /\ target # NULL /\ txs > 1) ~> (pc = "done")
-----------------------------------------------------------------------------
(* The tree between the steps: each level is the one over the level below, *)
(* and the levels that are missing are those the depth counts.             *)
TreeInv ==
  pc \in {"build", "climb", "fold", "done"} =>
    /\ target # NULL /\ txs > 1 /\ Top >= 0 /\ nodes[0] = Leaves
    /\ \A l \in 0..(Top - 1) : Length(nodes[l]) > 1 /\ nodes[l + 1] = Above(nodes[l])
    /\ depth = IF Length(nodes[Top]) = 1 THEN Top
               ELSE Top + 1 + Ilog2[Length(nodes[Top]) - 1]
    /\ pc # "build" => Length(nodes[Top]) = 1

(* Each level holds Bitcoin's nodes of its height, as many as cover the    *)
(* block and no more.                                                      *)
LevelsInv ==
  pc \in {"build", "climb", "fold", "done"} =>
    \A l \in 0..Top :
      /\ (Length(nodes[l]) - 1) * Pow2[l] < txs /\ txs <= Length(nodes[l]) * Pow2[l]
      /\ l + Length(nodes[l]) <= txs
      /\ \A j \in DOMAIN nodes[l] : nodes[l][j] = Tree[l][j]

(* The positions on the way up from the transaction, and the path beside   *)
(* them.                                                                   *)
Way(pos, end) ==
  /\ pos[0] = target
  /\ \A l \in 0..end : pos[l] \in DOMAIN nodes[l]
  /\ \A l \in 0..(end - 1) : /\ pos[l + 1] = pos[l] \div 2
                             /\ path[l] = nodes[l][Sibling(l, pos[l])]

PathInv ==
  /\ pc \in {"find", "build"} => Length(path) = 0 /\ level = 0
  /\ pc = "climb" =>
       /\ Length(path) = level
       /\ \E pos \in [0..level -> Nat] : Way(pos, level) /\ position = pos[level]
  /\ pc = "fold" =>
       /\ Length(path) = depth
       /\ \E pos \in [0..depth -> Nat] :
            Way(pos, depth) /\ position = pos[level] /\ hash = nodes[level][pos[level]]
  /\ pc = "done" => Length(path) = depth
=============================================================================
