---------------------------- MODULE MerkleProofs -----------------------------
(***************************************************************************)
(* Theorems about Merkle for blocks of any size and any transaction.       *)
(***************************************************************************)
EXTENDS Merkle, FiniteSetTheorems, WellFoundedInduction, TLAPS

(* Vectors.                                                                *)
LEMMA VectorLength ==
  ASSUME NEW n \in Nat, NEW vec, DOMAIN vec = 0..(n - 1)
  PROVE  Length(vec) = n /\ Vector(vec)
<1>1. Cardinality(0..(n - 1)) = n
  BY FS_Interval
<1>2. QED
  BY <1>1 DEF Length, Vector

LEMMA PushVector ==
  ASSUME NEW vec, NEW x, Vector(vec), Length(vec) \in Nat
  PROVE  /\ Vector(Push(vec, x)) /\ Length(Push(vec, x)) = Length(vec) + 1
         /\ DOMAIN Push(vec, x) = 0..Length(vec)
         /\ Push(vec, x)[Length(vec)] = x
         /\ \A i \in 0..(Length(vec) - 1) : Push(vec, x)[i] = vec[i]
<1>1. DOMAIN Push(vec, x) = 0..((Length(vec) + 1) - 1)
  BY DEF Push
<1>2. Length(Push(vec, x)) = Length(vec) + 1 /\ Vector(Push(vec, x))
  BY <1>1, VectorLength
<1>3. Push(vec, x)[Length(vec)] = x
  BY DEF Push
<1>4. \A i \in 0..(Length(vec) - 1) : Push(vec, x)[i] = vec[i]
  BY DEF Push
<1>5. QED
  BY <1>1, <1>2, <1>3, <1>4

LEMMA AboveVector ==
  ASSUME NEW below, Vector(below), Length(below) \in Nat, Length(below) > 1
  PROVE  /\ Vector(Above(below)) /\ Length(Above(below)) = ((Length(below) - 1) \div 2) + 1
         /\ Length(Above(below)) < Length(below) /\ Length(Above(below)) \in Nat
         /\ Length(Above(below)) >= 1
         /\ Length(Above(below)) - 1 = (Length(below) - 1) \div 2
<1> DEFINE n == ((Length(below) - 1) \div 2) + 1
<1>1. n \in Nat /\ n >= 1 /\ n < Length(below) /\ n - 1 = (Length(below) - 1) \div 2
  OBVIOUS
<1>2. DOMAIN Above(below) = 0..(n - 1)
  BY <1>1 DEF Above
<1> HIDE DEF n
<1>3. Length(Above(below)) = n /\ Vector(Above(below))
  BY <1>1, <1>2, VectorLength
<1>4. QED
  BY <1>1, <1>3 DEF n

(* The step of the proof: a node is the fold of either child with its      *)
(* sibling.                                                                *)
LEMMA FoldIsAbove ==
  ASSUME NEW l, Vector(nodes[l]), Length(nodes[l]) \in Nat, Length(nodes[l]) > 1,
         NEW i \in 0..(Length(nodes[l]) - 1)
  PROVE  /\ Sibling(l, i) \in DOMAIN nodes[l]
         /\ i \div 2 \in DOMAIN Above(nodes[l])
         /\ Above(nodes[l])[i \div 2] = Fold(i, nodes[l][i], nodes[l][Sibling(l, i)])
<1> DEFINE below == nodes[l]
           n == Length(below)
           h == i \div 2
<1>1. h \in 0..((n - 1) \div 2)
  OBVIOUS
<1>2. Above(below)[h] = Hash(below[2 * h], below[IF 2 * h + 1 < n THEN 2 * h + 1 ELSE 2 * h])
  BY <1>1 DEF Above
<1>3. h \in DOMAIN Above(below)
  BY <1>1 DEF Above
<1>4. CASE i % 2 = 1
  <2>1. 2 * h = i - 1 /\ 2 * h + 1 = i /\ 2 * h + 1 < n
    BY <1>4
  <2>2. Sibling(l, i) = i - 1
    BY <1>4 DEF Sibling
  <2>3. Above(below)[h] = Hash(below[i - 1], below[i])
    BY <1>2, <2>1
  <2>4. Fold(i, below[i], below[Sibling(l, i)]) = Hash(below[i - 1], below[i])
    BY <1>4, <2>2 DEF Fold
  <2>5. i - 1 \in 0..(n - 1)
    BY <2>1, <1>1
  <2>6. QED
    BY <1>3, <2>2, <2>3, <2>4, <2>5 DEF Vector
<1>5. CASE i % 2 # 1 /\ i = n - 1
  <2>1. 2 * h = i /\ ~(2 * h + 1 < n) /\ i % 2 = 0
    BY <1>5
  <2>2. Sibling(l, i) = i
    BY <1>5 DEF Sibling
  <2>3. Above(below)[h] = Hash(below[i], below[i])
    BY <1>2, <2>1
  <2>4. Fold(i, below[i], below[Sibling(l, i)]) = Hash(below[i], below[i])
    BY <2>1, <2>2 DEF Fold
  <2>5. QED
    BY <1>3, <2>2, <2>3, <2>4 DEF Vector
<1>6. CASE i % 2 # 1 /\ i # n - 1
  <2>1. 2 * h = i /\ 2 * h + 1 < n /\ i % 2 = 0
    BY <1>6
  <2>2. Sibling(l, i) = i + 1
    BY <1>6 DEF Sibling
  <2>3. Above(below)[h] = Hash(below[i], below[i + 1])
    BY <1>2, <2>1
  <2>4. Fold(i, below[i], below[Sibling(l, i)]) = Hash(below[i], below[i + 1])
    BY <2>1, <2>2 DEF Fold
  <2>5. i + 1 \in 0..(n - 1)
    BY <1>6
  <2>6. QED
    BY <1>3, <2>2, <2>3, <2>4, <2>5 DEF Vector
<1>7. QED
  BY <1>4, <1>5, <1>6

(* One level more is one halving of what the logarithm counts.             *)
LEMMA Halving ==
  ASSUME NEW n \in 2..MaxTransactions, NEW m, m = ((n - 1) \div 2) + 1
  PROVE  /\ n - 1 \in 1..MaxTransactions /\ Ilog2[n - 1] \in Nat
         /\ m = 1 => Ilog2[n - 1] = 0
         /\ m # 1 => m - 1 \in 1..MaxTransactions /\ Ilog2[n - 1] = Ilog2[m - 1] + 1
                     /\ Ilog2[m - 1] \in Nat
<1>1. n - 1 \in 1..MaxTransactions /\ Ilog2[n - 1] \in Nat
  BY MerkleAssumption
<1>2. ASSUME m = 1 PROVE Ilog2[n - 1] = 0
  <2>1. n - 1 = 1
    BY <1>2
  <2>2. QED
    BY <1>1, <2>1, MerkleAssumption
<1>3. ASSUME m # 1
      PROVE  m - 1 \in 1..MaxTransactions /\ Ilog2[n - 1] = Ilog2[m - 1] + 1
             /\ Ilog2[m - 1] \in Nat
  <2>1. m - 1 = (n - 1) \div 2 /\ n - 1 # 1 /\ m - 1 \in 1..MaxTransactions
    BY <1>1, <1>3, MerkleAssumption
  <2>2. QED
    BY <1>1, <2>1, MerkleAssumption
<1>4. QED
  BY <1>1, <1>2, <1>3
-----------------------------------------------------------------------------
IInv == TypeOK /\ OnlyLonePanics /\ TreeInv /\ PathInv /\ ProofVerifies

LEMMA EmptyVector ==
  Vector(<<>>) /\ Length(<<>>) = 0
<1>1. DOMAIN <<>> = 0..(0 - 1)
  OBVIOUS
<1>2. QED
  BY <1>1, VectorLength

LEMMA InitInv == Init => IInv
<1> SUFFICES ASSUME Init PROVE IInv
  OBVIOUS
<1>1. nodes = <<>> /\ path = <<>> /\ level = 0 /\ depth = 0 /\ pc = "find"
  BY DEF Init
<1>2. DOMAIN nodes = {}
  BY <1>1
<1>3. txs \in 0..MaxTransactions /\ target \in (0..(txs - 1)) \cup {NULL}
  BY DEF Init
<1>4. witness \in BOOLEAN
  BY DEF Init
<1>5. position \in 0..MaxTransactions
  BY MerkleAssumption DEF Init
<1>6. TypeOK
  BY <1>1, <1>2, <1>3, <1>4, <1>5, EmptyVector DEF TypeOK
<1>7. OnlyLonePanics /\ TreeInv /\ ProofVerifies
  BY <1>1 DEF OnlyLonePanics, TreeInv, ProofVerifies
<1>8. PathInv
  BY <1>1, EmptyVector DEF PathInv
<1>9. QED
  BY <1>6, <1>7, <1>8 DEF IInv

LEMMA OneLevel == \A d \in Nat : 1 \in 0..(d + 1)
  OBVIOUS

LEMMA FindInv ==
  ASSUME IInv, Find
  PROVE  IInv'
<1>1. UNCHANGED <<txs, target, witness, path, level, position, hash>> /\ pc = "find"
  BY DEF Find, block
<1>2. Length(path) = 0 /\ level = 0
  BY <1>1 DEF IInv, PathInv
<1>3. CASE target = NULL \/ txs = 0
  <2>1. pc' = "error" /\ UNCHANGED <<nodes, depth>>
    BY <1>3 DEF Find, Plant
  <2>2. TypeOK'
    BY <1>1, <2>1 DEF IInv, TypeOK
  <2>3. OnlyLonePanics' /\ TreeInv' /\ PathInv' /\ ProofVerifies'
    BY <2>1 DEF OnlyLonePanics, TreeInv, PathInv, ProofVerifies
  <2>4. QED
    BY <2>2, <2>3 DEF IInv
<1>4. CASE target # NULL /\ txs = 1
  <2>1. pc' = "panic" /\ UNCHANGED <<nodes, depth>> /\ target = 0
    BY <1>4 DEF Find, Plant, IInv, TypeOK
  <2>2. TypeOK'
    BY <1>1, <2>1 DEF IInv, TypeOK
  <2>3. OnlyLonePanics' /\ TreeInv' /\ PathInv' /\ ProofVerifies'
    BY <1>1, <1>4, <2>1 DEF OnlyLonePanics, TreeInv, PathInv, ProofVerifies
  <2>4. QED
    BY <2>2, <2>3 DEF IInv
<1>5. CASE target # NULL /\ txs # 0 /\ txs # 1
  <2>1. txs \in 2..MaxTransactions /\ target \in 0..(txs - 1)
    BY <1>5 DEF IInv, TypeOK
  <2>2. pc' = "build" /\ depth' = Ilog2[txs - 1] + 1 /\ nodes' = Push(<<>>, Leaves)
    BY <1>5, <2>1 DEF Find, Plant
  <2>3. Length(Leaves) = txs /\ Vector(Leaves)
    BY <2>1, VectorLength DEF Leaves
  <2>4. Vector(nodes') /\ Length(nodes') = 1 /\ nodes'[0] = Leaves /\ DOMAIN nodes' = 0..0
    BY <2>2, EmptyVector, PushVector
  <2>5. Ilog2[txs - 1] \in Nat
    BY <2>1, MerkleAssumption
  <2>6. Leaves' = Leaves
    BY <1>1 DEF Leaves, Leaf
  <2>7. \A l \in DOMAIN nodes' : l = 0
    BY <2>4
  <2>8. TypeOK'
    <3>1. depth' \in Nat /\ level' \in 0..depth' /\ Length(path') \in 0..depth' /\ Vector(path')
      BY <1>1, <1>2, <2>2, <2>5 DEF IInv, TypeOK
    <3>2. \A l \in DOMAIN nodes' : Vector(nodes'[l]) /\ Length(nodes'[l]) \in 1..txs'
      BY <1>1, <2>1, <2>3, <2>4, <2>7
    <3>3. Length(nodes') \in 0..(depth' + 1)
      BY <2>4, <3>1, OneLevel
    <3>4. /\ txs' \in 0..MaxTransactions /\ target' \in (0..(txs' - 1)) \cup {NULL}
          /\ position' \in 0..MaxTransactions /\ pc' = "build"
      BY <1>1, <2>2 DEF IInv, TypeOK
    <3>5. witness' \in BOOLEAN
      BY <1>1 DEF IInv, TypeOK
    <3>6. QED
      BY <2>4, <3>1, <3>2, <3>3, <3>4, <3>5 DEF TypeOK
  <2>9. Top' = 0 /\ Length(nodes'[Top']) = txs
    BY <2>3, <2>4 DEF Top
  <2>10. TreeInv'
    BY <1>1, <1>5, <2>1, <2>2, <2>4, <2>5, <2>6, <2>9 DEF TreeInv
  <2>11. OnlyLonePanics' /\ PathInv' /\ ProofVerifies'
    BY <1>1, <1>2, <2>2 DEF OnlyLonePanics, PathInv, ProofVerifies
  <2>12. QED
    BY <2>8, <2>10, <2>11 DEF IInv
<1>6. QED
  BY <1>3, <1>4, <1>5

LEMMA AddLevelInv ==
  ASSUME IInv, AddLevel
  PROVE  IInv'
<1> DEFINE n == Length(nodes[Top])
           m == ((n - 1) \div 2) + 1
<1>1. UNCHANGED <<txs, target, witness, path, level, position, hash, pc, depth>>
      /\ pc = "build" /\ n > 1 /\ nodes' = Push(nodes, Above(nodes[Top]))
  BY DEF AddLevel, block
<1>2. Length(path) = 0 /\ level = 0
  BY <1>1 DEF IInv, PathInv
<1>3. /\ Vector(nodes) /\ Length(nodes) \in 0..(depth + 1)
      /\ \A l \in DOMAIN nodes : Vector(nodes[l]) /\ Length(nodes[l]) \in 1..txs
      /\ txs \in 0..MaxTransactions /\ depth \in Nat
  BY DEF IInv, TypeOK
<1>4. Top \in Nat /\ Length(nodes) = Top + 1 /\ Top \in DOMAIN nodes
  BY <1>1, <1>3 DEF IInv, TreeInv, Top, Vector
<1>5. Vector(nodes[Top]) /\ n \in 2..MaxTransactions /\ n <= txs
  BY <1>1, <1>3, <1>4, MerkleAssumption
<1>6. Vector(Above(nodes[Top])) /\ Length(Above(nodes[Top])) = m /\ m \in 1..(n - 1)
  BY <1>5, AboveVector
<1>7. /\ Vector(nodes') /\ Length(nodes') = Top + 2 /\ DOMAIN nodes' = 0..(Top + 1)
      /\ nodes'[Top + 1] = Above(nodes[Top])
      /\ \A l \in 0..Top : nodes'[l] = nodes[l]
  BY <1>1, <1>3, <1>4, PushVector
<1>8. Top' = Top + 1
  BY <1>4, <1>7 DEF Top
<1>9. depth = Top + 1 + Ilog2[n - 1]
  BY <1>1 DEF IInv, TreeInv
<1>10. /\ n - 1 \in 1..MaxTransactions /\ Ilog2[n - 1] \in Nat
       /\ m = 1 => Ilog2[n - 1] = 0
       /\ m # 1 => m - 1 \in 1..MaxTransactions /\ Ilog2[n - 1] = Ilog2[m - 1] + 1
                   /\ Ilog2[m - 1] \in Nat
  BY <1>5, Halving
<1> HIDE DEF n, m
<1>11. depth' = IF m = 1 THEN Top' ELSE Top' + 1 + Ilog2[m - 1]
  BY <1>1, <1>4, <1>8, <1>9, <1>10
<1>12. Length(nodes'[Top']) = m
  BY <1>6, <1>7, <1>8
<1>13. TreeInv'
  <2>1. nodes[0] = Leaves /\ Leaves' = Leaves /\ target' # NULL /\ txs' > 1
        /\ \A l \in 0..(Top - 1) : Length(nodes[l]) > 1 /\ nodes[l + 1] = Above(nodes[l])
    BY <1>1 DEF IInv, TreeInv, Leaves, Leaf
  <2>2. nodes'[0] = Leaves'
    BY <1>4, <1>7, <2>1
  <2>3. \A l \in 0..Top : Length(nodes'[l]) > 1 /\ nodes'[l + 1] = Above(nodes'[l])
    <3>1. ASSUME NEW l \in 0..(Top - 1)
          PROVE  Length(nodes'[l]) > 1 /\ nodes'[l + 1] = Above(nodes'[l])
      <4>1. l \in 0..Top /\ l + 1 \in 0..Top
        BY <1>4
      <4>2. QED
        BY <1>7, <2>1, <4>1
    <3>2. nodes'[Top + 1] = Above(nodes'[Top]) /\ Length(nodes'[Top]) > 1
      BY <1>1, <1>4, <1>7 DEF n
    <3>3. QED
      BY <1>4, <3>1, <3>2
  <2>4. QED
    BY <1>1, <1>4, <1>8, <1>11, <1>12, <2>1, <2>2, <2>3 DEF TreeInv
<1>14. TypeOK'
  <2>1. \A l \in DOMAIN nodes' : Vector(nodes'[l]) /\ Length(nodes'[l]) \in 1..txs'
    <3>1. ASSUME NEW l \in 0..Top PROVE Vector(nodes'[l]) /\ Length(nodes'[l]) \in 1..txs'
      BY <1>1, <1>3, <1>4, <1>7 DEF Vector
    <3>2. Vector(nodes'[Top + 1]) /\ Length(nodes'[Top + 1]) \in 1..txs'
      BY <1>1, <1>3, <1>5, <1>6, <1>7
    <3>3. QED
      BY <1>4, <1>7, <3>1, <3>2
  <2>2. Length(nodes') \in 0..(depth' + 1)
    BY <1>1, <1>4, <1>7, <1>9, <1>10
  <2>3. witness' \in BOOLEAN
    BY <1>1 DEF IInv, TypeOK
  <2>4. /\ txs' \in 0..MaxTransactions /\ target' \in (0..(txs' - 1)) \cup {NULL}
        /\ position' \in 0..MaxTransactions /\ pc' = "build"
        /\ depth' \in Nat /\ level' \in 0..depth' /\ Length(path') \in 0..depth' /\ Vector(path')
    BY <1>1 DEF IInv, TypeOK
  <2>5. QED
    BY <1>7, <2>1, <2>2, <2>3, <2>4 DEF TypeOK
<1>15. OnlyLonePanics' /\ PathInv' /\ ProofVerifies'
  BY <1>1, <1>2 DEF OnlyLonePanics, PathInv, ProofVerifies
<1>16. QED
  BY <1>13, <1>14, <1>15 DEF IInv

(* The tree once it is built.                                              *)
Built ==
  /\ Vector(nodes) /\ depth \in Nat /\ depth = Top /\ Length(nodes) = depth + 1
  /\ \A l \in 0..depth : l \in DOMAIN nodes /\ Vector(nodes[l]) /\ Length(nodes[l]) \in 1..txs
  /\ \A l \in 0..(depth - 1) : Length(nodes[l]) > 1 /\ nodes[l + 1] = Above(nodes[l])
  /\ Length(nodes[depth]) = 1
  /\ nodes[0] = Leaves /\ Length(nodes[0]) = txs
  /\ target \in 0..(txs - 1) /\ txs \in 0..MaxTransactions /\ txs > 1

LEMMA BuiltTree ==
  ASSUME IInv, pc \in {"build", "climb", "fold"}, Length(nodes[Top]) <= 1
  PROVE  Built
<1>1. /\ Vector(nodes) /\ Length(nodes) \in 0..(depth + 1) /\ depth \in Nat
      /\ \A l \in DOMAIN nodes : Vector(nodes[l]) /\ Length(nodes[l]) \in 1..txs
      /\ txs \in 0..MaxTransactions /\ target \in (0..(txs - 1)) \cup {NULL}
  BY DEF IInv, TypeOK
<1>2. /\ target # NULL /\ txs > 1 /\ Top >= 0 /\ nodes[0] = Leaves
      /\ \A l \in 0..(Top - 1) : Length(nodes[l]) > 1 /\ nodes[l + 1] = Above(nodes[l])
      /\ depth = IF Length(nodes[Top]) = 1 THEN Top
                 ELSE Top + 1 + Ilog2[Length(nodes[Top]) - 1]
  BY DEF IInv, TreeInv
<1>3. Top \in Nat /\ Length(nodes) = Top + 1 /\ DOMAIN nodes = 0..Top
  BY <1>1, <1>2 DEF Top, Vector
<1>4. Length(nodes[Top]) = 1 /\ depth = Top
  <2>1. Length(nodes[Top]) \in 1..txs
    BY <1>1, <1>3
  <2>2. Length(nodes[Top]) = 1
    BY <1>1, <2>1, MerkleAssumption
  <2>3. QED
    BY <1>2, <2>2
<1>5. Length(Leaves) = txs
  <2>1. DOMAIN Leaves = 0..(txs - 1) /\ txs \in Nat
    BY <1>1, MerkleAssumption DEF Leaves
  <2>2. QED
    BY <2>1, VectorLength
<1>6. QED
  BY <1>1, <1>2, <1>3, <1>4, <1>5 DEF Built

LEMMA BuiltStep ==
  ASSUME IInv, Built, UNCHANGED <<block, nodes, depth>>, pc' \in {"climb", "fold", "done"},
         level' \in 0..depth, position' \in 0..MaxTransactions,
         Vector(path'), Length(path') \in 0..depth
  PROVE  TypeOK' /\ TreeInv' /\ OnlyLonePanics'
<1>1. UNCHANGED <<txs, target, witness>> /\ nodes' = nodes /\ depth' = depth
  BY DEF block
<1>2. witness' \in BOOLEAN
  BY <1>1 DEF IInv, TypeOK
<1>3. /\ txs' \in 0..MaxTransactions /\ target' \in (0..(txs' - 1)) \cup {NULL}
      /\ depth' \in Nat /\ Vector(nodes') /\ Length(nodes') \in 0..(depth' + 1)
      /\ \A l \in DOMAIN nodes' : Vector(nodes'[l]) /\ Length(nodes'[l]) \in 1..txs'
  BY <1>1 DEF IInv, TypeOK
<1>4. TypeOK'
  BY <1>1, <1>2, <1>3 DEF TypeOK
<1>5. Top' = Top /\ Leaves' = Leaves
  BY <1>1 DEF Top, Leaves, Leaf
<1>6. target' # NULL
  BY <1>1, MerkleAssumption DEF Built
<1>7. TreeInv'
  BY <1>1, <1>5, <1>6 DEF TreeInv, Built
<1>8. OnlyLonePanics'
  BY DEF OnlyLonePanics
<1>9. QED
  BY <1>4, <1>7, <1>8

LEMMA StartClimbInv ==
  ASSUME IInv, StartClimb
  PROVE  IInv'
<1>1. UNCHANGED <<block, nodes, depth>> /\ path' = path /\ level' = 0 /\ position' = target
      /\ pc = "build" /\ Length(nodes[Top]) <= 1
  BY DEF StartClimb
<1>2. Built
  BY <1>1, BuiltTree
<1>3. target < Length(nodes[0]) /\ target \in 0..MaxTransactions /\ target \in Nat
      /\ target \in DOMAIN nodes[0]
  BY <1>2, MerkleAssumption DEF Built, Leaves
<1>4. pc' = "climb"
  BY <1>3 DEF StartClimb
<1>5. Length(path) = 0 /\ Vector(path) /\ depth \in Nat
  BY <1>1 DEF IInv, PathInv, TypeOK
<1>6. level' \in 0..depth /\ Length(path') \in 0..depth /\ Vector(path')
  BY <1>1, <1>5
<1>7. TypeOK' /\ TreeInv' /\ OnlyLonePanics'
  BY <1>1, <1>2, <1>3, <1>4, <1>6, BuiltStep
<1>8. PathInv'
  <2> DEFINE pos == [l \in 0..0 |-> target]
  <2>1. pos \in [0..0 -> Nat] /\ pos[0] = target
    BY <1>3
  <2>2. target' = target /\ nodes' = nodes
    BY <1>1 DEF block
  <2>3. pos[0] = target' /\ \A l \in 0..level' : pos[l] \in DOMAIN nodes'[l]
    BY <1>1, <1>3, <2>1, <2>2
  <2>4. Length(path') = level' /\ position' = pos[level']
    BY <1>1, <1>5, <2>1
  <2>5. pos \in [0..level' -> Nat] /\ 0..(level' - 1) = {}
    BY <1>1, <2>1
  <2> HIDE DEF pos
  <2>6. QED
    BY <1>4, <2>3, <2>4, <2>5 DEF PathInv, Way
<1>9. ProofVerifies'
  BY <1>4 DEF ProofVerifies
<1>10. QED
  BY <1>7, <1>8, <1>9 DEF IInv

(* One step up.                                                            *)
LEMMA WayUp ==
  ASSUME Built, NEW l \in 0..(depth - 1), NEW i \in DOMAIN nodes[l]
  PROVE  /\ i \in Nat /\ i \div 2 \in Nat
         /\ Sibling(l, i) \in DOMAIN nodes[l]
         /\ i \div 2 \in DOMAIN nodes[l + 1]
         /\ nodes[l + 1][i \div 2] = Fold(i, nodes[l][i], nodes[l][Sibling(l, i)])
<1>1. Vector(nodes[l]) /\ Length(nodes[l]) \in Nat /\ Length(nodes[l]) > 1
      /\ nodes[l + 1] = Above(nodes[l])
  BY MerkleAssumption DEF Built
<1>2. i \in 0..(Length(nodes[l]) - 1)
  BY <1>1 DEF Vector
<1>3. i \in Nat /\ i \div 2 \in Nat
  BY <1>1, <1>2
<1>4. QED
  BY <1>1, <1>2, <1>3, FoldIsAbove

LEMMA NodeInRange ==
  ASSUME Built, NEW l \in 0..depth, NEW i \in DOMAIN nodes[l]
  PROVE  i \in 0..MaxTransactions /\ i \in Nat
<1>1. Vector(nodes[l]) /\ Length(nodes[l]) \in 1..txs /\ txs \in 0..MaxTransactions
  BY DEF Built
<1>2. i \in 0..(Length(nodes[l]) - 1)
  BY <1>1 DEF Vector
<1>3. QED
  BY <1>1, <1>2, MerkleAssumption

LEMMA ClimbInv ==
  ASSUME IInv, Climb
  PROVE  IInv'
<1>1. UNCHANGED <<block, nodes, depth, hash>> /\ pc = "climb" /\ level < Top
  BY DEF Climb
<1>2. Built
  BY <1>1, BuiltTree DEF IInv, TreeInv
<1>3. target' = target /\ nodes' = nodes /\ depth' = depth
  BY <1>1 DEF block
<1>4. Length(path) = level /\ Vector(path) /\ level \in 0..(depth - 1) /\ depth \in Nat
  BY <1>1, <1>2 DEF IInv, PathInv, TypeOK, Built
<1>5. PICK pos \in [0..level -> Nat] : Way(pos, level) /\ position = pos[level]
  BY <1>1 DEF IInv, PathInv
<1>6. position \in DOMAIN nodes[level] /\ pos[level] = position
  BY <1>4, <1>5 DEF Way
<1>7. /\ position \in Nat /\ position \div 2 \in Nat
      /\ Sibling(level, position) \in DOMAIN nodes[level]
      /\ position \div 2 \in DOMAIN nodes[level + 1]
  BY <1>2, <1>4, <1>6, WayUp
<1>8. /\ path' = Push(path, nodes[level][Sibling(level, position)])
      /\ level' = level + 1 /\ position' = position \div 2 /\ pc' = "climb"
  BY <1>1, <1>7 DEF Climb
<1>9. level' \in 0..depth /\ level + 1 \in 0..depth /\ level \in Nat
  BY <1>4, <1>8
<1>10. /\ Vector(path') /\ Length(path') = level'
       /\ path'[level] = nodes[level][Sibling(level, position)]
       /\ \A l \in 0..(level - 1) : path'[l] = path[l]
  BY <1>4, <1>8, <1>9, PushVector
<1>11. position' \in 0..MaxTransactions
  BY <1>2, <1>7, <1>8, <1>9, NodeInRange
<1>12. TypeOK' /\ TreeInv' /\ OnlyLonePanics'
  BY <1>1, <1>2, <1>8, <1>9, <1>10, <1>11, BuiltStep
<1>13. PathInv'
  <2>1. PICK way \in [0..(level + 1) -> Nat] :
          way[level + 1] = position \div 2 /\ \A l \in 0..level : way[l] = pos[l]
    <3> DEFINE w == [l \in 0..(level + 1) |-> IF l = level + 1 THEN position \div 2 ELSE pos[l]]
    <3>1. w \in [0..(level + 1) -> Nat]
      BY <1>5, <1>7, <1>9
    <3>2. w[level + 1] = position \div 2 /\ \A l \in 0..level : w[l] = pos[l]
      BY <1>9
    <3> HIDE DEF w
    <3>3. QED
      BY <3>1, <3>2
  <2>2. way[0] = target'
    BY <1>3, <1>5, <1>9, <2>1 DEF Way
  <2>3. \A l \in 0..(level + 1) : way[l] \in DOMAIN nodes'[l]
    <3>1. ASSUME NEW l \in 0..level PROVE way[l] \in DOMAIN nodes'[l]
      BY <1>3, <1>5, <2>1 DEF Way
    <3>2. way[level + 1] \in DOMAIN nodes'[level + 1]
      BY <1>3, <1>7, <2>1
    <3>3. QED
      BY <1>9, <3>1, <3>2
  <2>4. ASSUME NEW l \in 0..level
        PROVE  /\ way[l + 1] = way[l] \div 2
               /\ path'[l] = nodes'[l][Sibling(l, way[l])']
    <3>1. Sibling(l, way[l])' = Sibling(l, way[l])
      BY <1>3 DEF Sibling
    <3>2. CASE l = level
      BY <1>3, <1>6, <1>9, <1>10, <2>1, <3>1, <3>2
    <3>3. CASE l # level
      <4>1. l \in 0..(level - 1) /\ l + 1 \in 0..level
        BY <1>9, <3>3
      <4>2. pos[l + 1] = pos[l] \div 2 /\ path[l] = nodes[l][Sibling(l, pos[l])]
        BY <1>5, <4>1 DEF Way
      <4>3. way[l + 1] = pos[l + 1] /\ way[l] = pos[l] /\ path'[l] = path[l]
        BY <1>10, <2>1, <4>1
      <4>4. QED
        BY <1>3, <3>1, <4>2, <4>3
    <3>4. QED
      BY <3>2, <3>3
  <2>5. way \in [0..level' -> Nat] /\ position' = way[level']
    BY <1>8, <2>1
  <2>6. Way(way, level)'
    <3>1. \A l \in 0..(level' - 1) : l \in 0..level
      BY <1>8, <1>9
    <3>2. QED
      BY <1>8, <2>2, <2>3, <2>4, <3>1 DEF Way
  <2>7. QED
    BY <1>8, <1>10, <2>5, <2>6 DEF PathInv
<1>14. ProofVerifies'
  BY <1>8 DEF ProofVerifies
<1>15. QED
  BY <1>12, <1>13, <1>14 DEF IInv

LEMMA StartFoldInv ==
  ASSUME IInv, StartFold
  PROVE  IInv'
<1>1. UNCHANGED <<block, nodes, depth, path>> /\ pc = "climb" /\ level >= Top
      /\ pc' = "fold" /\ level' = 0 /\ position' = target /\ hash' = Leaf(target)
  BY DEF StartFold
<1>2. Built
  BY <1>1, BuiltTree DEF IInv, TreeInv
<1>3. target' = target /\ nodes' = nodes /\ depth' = depth /\ path' = path
  BY <1>1 DEF block
<1>4. Length(path) = level /\ Vector(path) /\ level = depth /\ depth \in Nat
  BY <1>1, <1>2 DEF IInv, PathInv, TypeOK, Built
<1>5. PICK pos \in [0..level -> Nat] : Way(pos, level) /\ position = pos[level]
  BY <1>1 DEF IInv, PathInv
<1>6. pos[0] = target /\ target \in DOMAIN nodes[0]
  BY <1>4, <1>5 DEF Way
<1>7. nodes[0][target] = Leaf(target)
  <2>1. nodes[0] = Leaves /\ target \in 0..(txs - 1)
    BY <1>2, MerkleAssumption DEF Built
  <2>2. QED
    BY <2>1 DEF Leaves
<1>8. level' \in 0..depth /\ position' \in 0..MaxTransactions
  BY <1>1, <1>2, <1>4, MerkleAssumption DEF Built
<1>9. TypeOK' /\ TreeInv' /\ OnlyLonePanics'
  BY <1>1, <1>2, <1>3, <1>4, <1>8, BuiltStep
<1>10. PathInv'
  <2>1. Way(pos, depth)'
    <3>1. \A l, i : Sibling(l, i)' = Sibling(l, i)
      BY <1>3 DEF Sibling
    <3>2. QED
      BY <1>3, <1>4, <1>5, <3>1 DEF Way
  <2>2. pos \in [0..depth' -> Nat] /\ position' = pos[level'] /\ hash' = nodes'[level'][pos[level']]
        /\ Length(path') = depth'
    BY <1>1, <1>3, <1>4, <1>5, <1>6, <1>7
  <2>3. QED
    BY <1>1, <2>1, <2>2 DEF PathInv
<1>11. ProofVerifies'
  BY <1>1 DEF ProofVerifies
<1>12. QED
  BY <1>9, <1>10, <1>11 DEF IInv

LEMMA FoldLevelInv ==
  ASSUME IInv, FoldLevel
  PROVE  IInv'
<1>1. UNCHANGED <<block, nodes, depth, path>> /\ pc = "fold" /\ level < depth
  BY DEF FoldLevel
<1>2. Built
  BY <1>1, BuiltTree DEF IInv, TreeInv
<1>3. target' = target /\ nodes' = nodes /\ depth' = depth /\ path' = path
  BY <1>1 DEF block
<1>4. Length(path) = depth /\ Vector(path) /\ level \in 0..(depth - 1) /\ depth \in Nat
  BY <1>1 DEF IInv, PathInv, TypeOK
<1>5. PICK pos \in [0..depth -> Nat] :
        Way(pos, depth) /\ position = pos[level] /\ hash = nodes[level][pos[level]]
  BY <1>1 DEF IInv, PathInv
<1>6. level \in DOMAIN path
  BY <1>4 DEF Vector
<1>7. /\ hash' = Fold(position, hash, path[level])
      /\ level' = level + 1 /\ position' = position \div 2 /\ pc' = "fold"
  BY <1>1, <1>6 DEF FoldLevel
<1>8. level' \in 0..depth /\ level + 1 \in 0..depth /\ level \in 0..depth
  BY <1>4, <1>7
<1>9. /\ pos[level] \in DOMAIN nodes[level] /\ pos[level + 1] \in DOMAIN nodes[level + 1]
      /\ pos[level + 1] = pos[level] \div 2 /\ path[level] = nodes[level][Sibling(level, pos[level])]
  BY <1>4, <1>5, <1>8 DEF Way
<1>10. nodes[level + 1][pos[level] \div 2] =
         Fold(pos[level], nodes[level][pos[level]], nodes[level][Sibling(level, pos[level])])
  BY <1>2, <1>4, <1>9, WayUp
<1>11. hash' = nodes[level + 1][pos[level + 1]] /\ position' = pos[level + 1]
  BY <1>5, <1>7, <1>9, <1>10
<1>12. position' \in 0..MaxTransactions
  BY <1>2, <1>8, <1>9, <1>11, NodeInRange
<1>13. TypeOK' /\ TreeInv' /\ OnlyLonePanics'
  BY <1>1, <1>2, <1>3, <1>4, <1>7, <1>8, <1>12, BuiltStep
<1>14. PathInv'
  <2>1. Way(pos, depth)'
    <3>1. \A l, i : Sibling(l, i)' = Sibling(l, i)
      BY <1>3 DEF Sibling
    <3>2. QED
      BY <1>3, <1>5, <3>1 DEF Way
  <2>2. pos \in [0..depth' -> Nat] /\ position' = pos[level'] /\ hash' = nodes'[level'][pos[level']]
        /\ Length(path') = depth'
    BY <1>3, <1>4, <1>5, <1>7, <1>11
  <2>3. QED
    BY <1>7, <2>1, <2>2 DEF PathInv
<1>15. ProofVerifies'
  BY <1>7 DEF ProofVerifies
<1>16. QED
  BY <1>13, <1>14, <1>15 DEF IInv

LEMMA FinishInv ==
  ASSUME IInv, Finish
  PROVE  IInv'
<1>1. UNCHANGED <<block, nodes, depth, path, level, position, hash>> /\ pc = "fold"
      /\ level >= depth /\ pc' = "done"
  BY DEF Finish
<1>2. Built
  BY <1>1, BuiltTree DEF IInv, TreeInv
<1>3. level \in 0..depth /\ position \in 0..MaxTransactions /\ Vector(path)
      /\ Length(path) \in 0..depth /\ depth \in Nat
  BY DEF IInv, TypeOK
<1>4. TypeOK' /\ TreeInv' /\ OnlyLonePanics'
  BY <1>1, <1>2, <1>3, BuiltStep
<1>5. PathInv'
  BY <1>1 DEF IInv, PathInv
<1>6. PICK pos \in [0..depth -> Nat] :
        Way(pos, depth) /\ position = pos[level] /\ hash = nodes[level][pos[level]]
  BY <1>1 DEF IInv, PathInv
<1>7. level = depth /\ depth = Top /\ pos[depth] \in DOMAIN nodes[depth]
  BY <1>1, <1>2, <1>3, <1>6 DEF Built, Way
<1>8. pos[depth] = 0
  <2>1. Vector(nodes[depth]) /\ Length(nodes[depth]) = 1
    BY <1>2, <1>3 DEF Built
  <2>2. QED
    BY <1>7, <2>1 DEF Vector
<1>9. hash' = Root'
  BY <1>1, <1>6, <1>7, <1>8 DEF Root, Top
<1>10. QED
  BY <1>4, <1>5, <1>9 DEF IInv, ProofVerifies

LEMMA IInvAlways == Spec => []IInv
<1>1. IInv /\ UNCHANGED vars => IInv'
  <2> SUFFICES ASSUME IInv, UNCHANGED vars PROVE IInv'
    OBVIOUS
  <2>1. UNCHANGED <<txs, target, witness, pc, nodes, depth, path, level, position, hash>>
    BY DEF vars
  <2>2. TypeOK' /\ OnlyLonePanics' /\ ProofVerifies'
    BY <2>1 DEF IInv, TypeOK, OnlyLonePanics, ProofVerifies, Root, Top
  <2>3. TreeInv'
    BY <2>1 DEF IInv, TreeInv, Top, Leaves, Leaf
  <2>4. PathInv'
    <3>1. \A pos, end : Way(pos, end)' = Way(pos, end)
      BY <2>1 DEF Way, Sibling
    <3>2. QED
      BY <2>1, <3>1 DEF IInv, PathInv
  <2>5. QED
    BY <2>2, <2>3, <2>4 DEF IInv
<1>2. IInv /\ [Next]_vars => IInv'
  BY <1>1, FindInv, AddLevelInv, StartClimbInv, ClimbInv, StartFoldInv, FoldLevelInv, FinishInv
     DEF Next
<1>3. QED
  BY <1>2, InitInv, PTL DEF Spec

(* The variables keep their types for every block: the tree is never       *)
(* higher than the depth that was computed before it.                      *)
THEOREM MerkleTypes == Spec => []TypeOK
<1>1. IInv => TypeOK
  BY DEF IInv
<1>2. QED
  BY <1>1, IInvAlways, PTL

(* No block and no transaction make the three loops read out of range, and *)
(* only the lone coinbase of its block, asked for, panics.                 *)
THEOREM MerkleOnlyLonePanics == Spec => []OnlyLonePanics
<1>1. IInv => OnlyLonePanics
  BY DEF IInv
<1>2. QED
  BY <1>1, IInvAlways, PTL

(* For every block and transaction the path folds to the root of the tree. *)
THEOREM MerkleProofVerifies == Spec => []ProofVerifies
<1>1. IInv => ProofVerifies
  BY DEF IInv
<1>2. QED
  BY <1>1, IInvAlways, PTL
-----------------------------------------------------------------------------
(* The reference tree is defined by recursion.  That the two recursions    *)
(* have a solution is proved from their finite parts: a part up to every   *)
(* height exists, two parts agree where both are defined, and so the       *)
(* values of the parts are a solution.  Each induction takes the least     *)
(* element of a set of counterexamples.                                    *)
(* A set of numbers that has an element has a least one.                   *)
LEMMA LeastNumber ==
  ASSUME NEW T \in SUBSET Nat, T # {}
  PROVE  \E x \in T : \A y \in T : x <= y
<1>1. {p \in Nat \X Nat : p[1] < p[2]} = OpToRel(<, Nat)
  BY DEF OpToRel
<1>2. PICK R : IsWellFoundedOn(R, Nat) /\ R = {p \in Nat \X Nat : p[1] < p[2]}
  BY <1>1, NatLessThanWellFounded
<1>3. \A x, y \in Nat : x < y => <<x, y>> \in R
  BY <1>2
<1>4. PICK x \in T : \A y \in T : <<y, x>> \notin R
  BY <1>2, WFMin
<1>5. ASSUME NEW y \in T PROVE x <= y
  <2>1. x \in Nat /\ y \in Nat
    OBVIOUS
  <2>2. ~(y < x)
    BY <1>3, <1>4, <2>1
  <2> QED
    BY <2>1, <2>2
<1> QED
  BY <1>5


PowersUpTo(f, k) == f = [h \in 0..k |-> IF h = 0 THEN 1 ELSE 2 * f[h - 1]]

LEMMA PowersAgree ==
  ASSUME NEW k \in Nat, NEW m \in Nat, NEW f, NEW g, PowersUpTo(f, k), PowersUpTo(g, m)
  PROVE  \A h \in Nat : h <= k /\ h <= m => f[h] = g[h]
<1> DEFINE D == {h \in Nat : h <= k /\ h <= m /\ f[h] # g[h]}
<1>1. ASSUME D # {} PROVE FALSE
  <2>1. PICK x \in D : \A y \in D : x <= y
    BY <1>1, LeastNumber
  <2>2. x \in 0..k /\ x \in 0..m /\ f[x] # g[x]
    OBVIOUS
  <2>3. x # 0
    BY <2>2 DEF PowersUpTo
  <2>4. x - 1 \in Nat /\ ~(x <= x - 1) /\ x - 1 <= k /\ x - 1 <= m
    BY <2>2, <2>3
  <2>5. f[x - 1] = g[x - 1]
    BY <2>1, <2>4
  <2>6. QED
    BY <2>2, <2>3, <2>5 DEF PowersUpTo
<1>2. QED
  BY <1>1

LEMMA PowersExist ==
  \A k \in Nat : \E f : PowersUpTo(f, k)
<1> DEFINE D == {k \in Nat : ~ \E f : PowersUpTo(f, k)}
<1>1. ASSUME D # {} PROVE FALSE
  <2>1. PICK x \in D : \A y \in D : x <= y
    BY <1>1, LeastNumber
  <2>2. x # 0
    <3>1. PowersUpTo([h \in 0..0 |-> 1], 0)
      BY DEF PowersUpTo
    <3>2. QED
      BY <3>1
  <2>3. x - 1 \in Nat /\ ~(x <= x - 1)
    BY <2>2
  <2>4. PICK f : PowersUpTo(f, x - 1)
    BY <2>1, <2>3
  <2> DEFINE g == [h \in 0..x |-> IF h = x THEN 2 * f[x - 1] ELSE f[h]]
  <2>5. PowersUpTo(g, x)
    <3>1. ASSUME NEW h \in 0..x PROVE g[h] = IF h = 0 THEN 1 ELSE 2 * g[h - 1]
      <4>1. CASE h = x
        BY <2>2, <4>1
      <4>2. CASE h # x
        <5>1. h \in 0..(x - 1) /\ g[h] = f[h] /\ (h # 0 => g[h - 1] = f[h - 1])
          BY <2>3, <4>2
        <5>2. f[h] = IF h = 0 THEN 1 ELSE 2 * f[h - 1]
          BY <2>4, <5>1 DEF PowersUpTo
        <5>3. QED
          BY <5>1, <5>2
      <4>3. QED
        BY <4>1, <4>2
    <3>2. DOMAIN g = 0..x /\ g = [h \in 0..x |-> g[h]]
      OBVIOUS
    <3> HIDE DEF g
    <3>3. QED
      BY <3>1, <3>2 DEF PowersUpTo
  <2>6. QED
    BY <2>5
<1>2. QED
  BY <1>1

LEMMA PowersOfTwo ==
  /\ Pow2[0] = 1
  /\ \A h \in Nat : Pow2[h] \in Nat /\ Pow2[h] >= 1 /\ Pow2[h + 1] = 2 * Pow2[h]
<1> DEFINE f == [h \in Nat |-> (CHOOSE g : PowersUpTo(g, h))[h]]
           Solves(g) == g = [h \in Nat |-> IF h = 0 THEN 1 ELSE 2 * g[h - 1]]
<1>1. ASSUME NEW h \in Nat PROVE f[h] = IF h = 0 THEN 1 ELSE 2 * f[h - 1]
  <2>1. PICK a : a = (CHOOSE g : PowersUpTo(g, h)) /\ PowersUpTo(a, h) /\ f[h] = a[h]
    BY PowersExist
  <2>2. CASE h = 0
    BY <2>1, <2>2 DEF PowersUpTo
  <2>3. CASE h # 0
    <3>1. h - 1 \in Nat /\ h - 1 <= h
      BY <2>3
    <3>2. PICK b : PowersUpTo(b, h - 1) /\ f[h - 1] = b[h - 1]
      BY <3>1, PowersExist
    <3>3. a[h - 1] = b[h - 1]
      BY <2>1, <3>1, <3>2, PowersAgree
    <3> HIDE DEF f
    <3>4. a[h] = 2 * a[h - 1]
      <4>1. h \in 0..h
        OBVIOUS
      <4>2. QED
        BY <2>1, <2>3, <4>1 DEF PowersUpTo
    <3>5. QED
      BY <2>1, <2>3, <3>2, <3>3, <3>4
  <2>4. QED
    BY <2>2, <2>3
<1>2. Solves(f)
  <2>1. f = [h \in Nat |-> f[h]]
    OBVIOUS
  <2> HIDE DEF f
  <2>2. QED
    BY <1>1, <2>1
<1>3. Solves(Pow2)
  <2>1. Pow2 = CHOOSE g : Solves(g)
    BY DEF Pow2
  <2> HIDE DEF f, Solves
  <2>2. QED
    BY <1>2, <2>1
<1> HIDE DEF f
<1>4. Pow2[0] = 1 /\ \A h \in Nat : Pow2[h + 1] = 2 * Pow2[h]
  <2>1. \A h \in Nat : h + 1 \in Nat /\ h + 1 # 0 /\ (h + 1) - 1 = h
    OBVIOUS
  <2>2. QED
    BY <1>3, <2>1
<1>5. \A h \in Nat : Pow2[h] \in Nat /\ Pow2[h] >= 1
  <2> DEFINE D == {h \in Nat : ~(Pow2[h] \in Nat /\ Pow2[h] >= 1)}
  <2>1. ASSUME D # {} PROVE FALSE
    <3>1. PICK x \in D : \A y \in D : x <= y
      BY <2>1, LeastNumber
    <3>2. x # 0
      BY <1>4
    <3>3. x - 1 \in Nat /\ ~(x <= x - 1) /\ (x - 1) + 1 = x
      BY <3>2
    <3>4. Pow2[x - 1] \in Nat /\ Pow2[x - 1] >= 1
      BY <3>1, <3>3
    <3>5. Pow2[x] = 2 * Pow2[x - 1]
      BY <1>4, <3>3
    <3>6. QED
      BY <3>4, <3>5
  <2>2. QED
    BY <2>1
<1>6. QED
  BY <1>4, <1>5
(* The same for the tree over n leaves.                                    *)
TreeUpTo(t, k, n, first) ==
  t = [h \in 0..k |-> IF h = 0 THEN Ground(first) ELSE Over(t[h - 1], Pow2[h - 1], n)]

LEMMA TreesAgree ==
  ASSUME NEW n, NEW first, NEW k \in Nat, NEW m \in Nat, NEW t, NEW u,
         TreeUpTo(t, k, n, first), TreeUpTo(u, m, n, first)
  PROVE  \A h \in Nat : h <= k /\ h <= m => t[h] = u[h]
<1> DEFINE D == {h \in Nat : h <= k /\ h <= m /\ t[h] # u[h]}
<1>1. ASSUME D # {} PROVE FALSE
  <2>1. PICK x \in D : \A y \in D : x <= y
    BY <1>1, LeastNumber
  <2>2. x \in 0..k /\ x \in 0..m /\ t[x] # u[x]
    OBVIOUS
  <2>3. x # 0
    BY <2>2 DEF TreeUpTo
  <2>4. x - 1 \in Nat /\ ~(x <= x - 1) /\ x - 1 <= k /\ x - 1 <= m
    BY <2>2, <2>3
  <2>5. t[x - 1] = u[x - 1]
    BY <2>1, <2>4
  <2>6. QED
    BY <2>2, <2>3, <2>5 DEF TreeUpTo
<1>2. QED
  BY <1>1

LEMMA TreesExist ==
  ASSUME NEW n, NEW first
  PROVE  \A k \in Nat : \E t : TreeUpTo(t, k, n, first)
<1> DEFINE D == {k \in Nat : ~ \E t : TreeUpTo(t, k, n, first)}
<1>1. ASSUME D # {} PROVE FALSE
  <2>1. PICK x \in D : \A y \in D : x <= y
    BY <1>1, LeastNumber
  <2>2. x # 0
    <3>1. TreeUpTo([h \in 0..0 |-> Ground(first)], 0, n, first)
      BY DEF TreeUpTo
    <3>2. QED
      BY <3>1
  <2>3. x - 1 \in Nat /\ ~(x <= x - 1)
    BY <2>2
  <2>4. PICK t : TreeUpTo(t, x - 1, n, first)
    BY <2>1, <2>3
  <2> DEFINE u == [h \in 0..x |-> IF h = x THEN Over(t[x - 1], Pow2[x - 1], n) ELSE t[h]]
  <2>5. TreeUpTo(u, x, n, first)
    <3>1. ASSUME NEW h \in 0..x
          PROVE  u[h] = IF h = 0 THEN Ground(first) ELSE Over(u[h - 1], Pow2[h - 1], n)
      <4>1. CASE h = x
        BY <2>2, <4>1
      <4>2. CASE h # x
        <5>1. h \in 0..(x - 1) /\ u[h] = t[h] /\ (h # 0 => u[h - 1] = t[h - 1])
          BY <2>3, <4>2
        <5>2. t[h] = IF h = 0 THEN Ground(first) ELSE Over(t[h - 1], Pow2[h - 1], n)
          BY <2>4, <5>1 DEF TreeUpTo
        <5>3. QED
          BY <5>1, <5>2
      <4>3. QED
        BY <4>1, <4>2
    <3>2. DOMAIN u = 0..x /\ u = [h \in 0..x |-> u[h]]
      OBVIOUS
    <3> HIDE DEF u
    <3>3. QED
      BY <3>1, <3>2 DEF TreeUpTo
  <2>6. QED
    BY <2>5
<1>2. QED
  BY <1>1

LEMMA BitcoinLevels ==
  ASSUME NEW n, NEW first
  PROVE  /\ Bitcoin(n, first)[0] = Ground(first)
         /\ \A h \in Nat :
              Bitcoin(n, first)[h + 1] = Over(Bitcoin(n, first)[h], Pow2[h], n)
<1> DEFINE f == [h \in Nat |-> (CHOOSE t : TreeUpTo(t, h, n, first))[h]]
           Solves(t) == t = [h \in Nat |-> IF h = 0 THEN Ground(first)
                                           ELSE Over(t[h - 1], Pow2[h - 1], n)]
<1>1. ASSUME NEW h \in Nat
      PROVE  f[h] = IF h = 0 THEN Ground(first) ELSE Over(f[h - 1], Pow2[h - 1], n)
  <2>1. PICK a : a = (CHOOSE t : TreeUpTo(t, h, n, first)) /\ TreeUpTo(a, h, n, first)
                 /\ f[h] = a[h]
    BY TreesExist
  <2>2. CASE h = 0
    BY <2>1, <2>2 DEF TreeUpTo
  <2>3. CASE h # 0
    <3>1. h - 1 \in Nat /\ h - 1 <= h
      BY <2>3
    <3>2. PICK b : TreeUpTo(b, h - 1, n, first) /\ f[h - 1] = b[h - 1]
      BY <3>1, TreesExist
    <3>3. a[h - 1] = b[h - 1]
      BY <2>1, <3>1, <3>2, TreesAgree
    <3> HIDE DEF f
    <3>4. a[h] = Over(a[h - 1], Pow2[h - 1], n)
      <4>1. h \in 0..h
        OBVIOUS
      <4>2. QED
        BY <2>1, <2>3, <4>1 DEF TreeUpTo
    <3>5. QED
      BY <2>1, <2>3, <3>2, <3>3, <3>4
  <2>4. QED
    BY <2>2, <2>3
<1>2. Solves(f)
  <2>1. f = [h \in Nat |-> f[h]]
    OBVIOUS
  <2> HIDE DEF f
  <2>2. QED
    BY <1>1, <2>1
<1>3. Solves(Bitcoin(n, first))
  <2>1. Bitcoin(n, first) = CHOOSE t : Solves(t)
    BY DEF Bitcoin
  <2> HIDE DEF f, Solves
  <2>2. QED
    BY <1>2, <2>1
<1>4. \A h \in Nat : h + 1 \in Nat /\ h + 1 # 0 /\ (h + 1) - 1 = h
  OBVIOUS
<1> HIDE DEF f
<1>5. QED
  BY <1>3, <1>4

-----------------------------------------------------------------------------
LEMMA TreeKept ==
  ASSUME UNCHANGED <<txs, witness>>
  PROVE  Tree' = Tree
BY DEF Tree

(* What Bitcoin's tree has at a place.                                     *)
LEMMA TreeNodes ==
  ASSUME NEW h \in Nat, NEW j \in Nat
  PROVE  /\ Tree[0][j] = IF witness /\ j = 0 THEN Zero ELSE j
         /\ Tree[h + 1][j] =
              <<Tree[h][2 * j], Tree[h][IF (2 * j + 1) * Pow2[h] < txs THEN 2 * j + 1 ELSE 2 * j]>>
<1> DEFINE first == IF witness THEN Zero ELSE 0
<1>1. Tree = Bitcoin(txs, first)
  BY DEF Tree
<1>2. (IF j = 0 THEN first ELSE j) = IF witness /\ j = 0 THEN Zero ELSE j
  OBVIOUS
<1> HIDE DEF first
<1>3. Tree[0] = Ground(first) /\ Tree[h + 1] = Over(Tree[h], Pow2[h], txs)
  BY <1>1, BitcoinLevels
<1>4. Ground(first)[j] = IF j = 0 THEN first ELSE j
  BY DEF Ground
<1>5. \A t, w : Over(t, w, txs)[j] = <<t[2 * j], t[IF (2 * j + 1) * w < txs THEN 2 * j + 1 ELSE 2 * j]>>
  BY DEF Over
<1>6. Tree[0][j] = IF witness /\ j = 0 THEN Zero ELSE j
  BY <1>2, <1>3, <1>4
<1>7. PICK t, w : t = Tree[h] /\ w = Pow2[h]
  OBVIOUS
<1>8. Over(t, w, txs)[j] = <<t[2 * j], t[IF (2 * j + 1) * w < txs THEN 2 * j + 1 ELSE 2 * j]>>
  BY <1>5
<1>9. Tree[h + 1][j] =
        <<Tree[h][2 * j], Tree[h][IF (2 * j + 1) * Pow2[h] < txs THEN 2 * j + 1 ELSE 2 * j]>>
  BY <1>3, <1>7, <1>8
<1>10. QED
  BY <1>6, <1>9

LEMMA Monotone ==
  \A a, b, w \in Nat : a <= b => a * w <= b * w
<1> TAKE a, b, w \in Nat
<1> HAVE a <= b
<1>1. PICK c \in Nat : b = a + c
  <2>1. b - a \in Nat /\ b = a + (b - a)
    OBVIOUS
  <2>2. QED
    BY <2>1
<1>2. b * w = a * w + c * w /\ c * w \in Nat /\ a * w \in Nat
  BY <1>1
<1>3. QED
  BY <1>2

(* Nodes that cover a block cover it after they are paired, and a node has *)
(* a right half in the code where it has one in the reference.             *)
LEMMA Pairing ==
  ASSUME NEW n \in Nat, NEW len \in Nat, NEW w \in Nat, len > 1,
         (len - 1) * w < n, n <= len * w,
         NEW m, m = ((len - 1) \div 2) + 1
  PROVE  /\ m \in Nat /\ (m - 1) * (2 * w) < n /\ n <= m * (2 * w)
         /\ \A j \in 0..(m - 1) : (2 * j + 1) * w < n <=> 2 * j + 1 < len
<1>1. /\ m \in Nat /\ m - 1 \in Nat /\ 2 * (m - 1) \in Nat /\ len - 1 \in Nat /\ 2 * m \in Nat
      /\ 2 * (m - 1) <= len - 1 /\ len <= 2 * m
  OBVIOUS
<1>2. (2 * (m - 1)) * w <= (len - 1) * w /\ len * w <= (2 * m) * w
  BY <1>1, Monotone
<1>3. (m - 1) * (2 * w) = (2 * (m - 1)) * w /\ m * (2 * w) = (2 * m) * w
  BY <1>1
<1>4. (len - 1) * w \in Nat /\ len * w \in Nat /\ (2 * (m - 1)) * w \in Nat /\ (2 * m) * w \in Nat
  BY <1>1
<1>5. (2 * (m - 1)) * w < n /\ n <= (2 * m) * w
  BY <1>2, <1>4
<1>6. ASSUME NEW j \in 0..(m - 1)
      PROVE  (2 * j + 1) * w < n <=> 2 * j + 1 < len
  <2>1. 2 * j + 1 \in Nat /\ (2 * j + 1) * w \in Nat
    BY <1>1
  <2>2. ASSUME 2 * j + 1 < len PROVE (2 * j + 1) * w < n
    <3>1. 2 * j + 1 <= len - 1
      BY <2>1, <2>2
    <3>2. (2 * j + 1) * w <= (len - 1) * w
      BY <1>1, <2>1, <3>1, Monotone
    <3>3. QED
      BY <1>4, <2>1, <3>2
  <2>3. ASSUME ~(2 * j + 1 < len) PROVE ~((2 * j + 1) * w < n)
    <3>1. len <= 2 * j + 1
      BY <2>1, <2>3
    <3>2. len * w <= (2 * j + 1) * w
      BY <2>1, <3>1, Monotone
    <3>3. QED
      BY <1>4, <2>1, <3>2
  <2>4. QED
    BY <2>2, <2>3
<1>7. QED
  BY <1>1, <1>3, <1>5, <1>6

LEMMA FindLevels ==
  ASSUME IInv, Find
  PROVE  LevelsInv'
<1>1. UNCHANGED <<txs, target, witness>>
  BY DEF Find, block
<1>2. CASE target = NULL \/ txs = 0 \/ txs = 1
  BY <1>2 DEF Find, Plant, LevelsInv
<1>3. CASE target # NULL /\ txs # 0 /\ txs # 1
  <2>1. txs \in 2..MaxTransactions /\ target \in 0..(txs - 1) /\ txs \in Nat
    BY <1>3, MerkleAssumption DEF IInv, TypeOK
  <2>2. nodes' = Push(<<>>, Leaves)
    BY <1>3, <2>1 DEF Find, Plant
  <2>3. Length(Leaves) = txs /\ DOMAIN Leaves = 0..(txs - 1)
    BY <2>1, VectorLength DEF Leaves
  <2>4. Length(nodes') = 1 /\ nodes'[0] = Leaves
    BY <2>2, EmptyVector, PushVector
  <2>5. Top' = 0
    BY <2>4 DEF Top
  <2>6. \A j \in 0..(txs - 1) : Leaves[j] = Tree[0][j]
    <3>1. \A j \in 0..(txs - 1) : j \in Nat /\ Leaves[j] = Leaf(j)
      BY <2>1 DEF Leaves
    <3>2. QED
      BY <3>1, TreeNodes DEF Leaf
  <2>7. Tree' = Tree
    BY <1>1, TreeKept
  <2>8. (txs - 1) * Pow2[0] < txs /\ txs <= txs * Pow2[0] /\ 0 + txs <= txs
    BY <2>1, PowersOfTwo
  <2>9. /\ Length(nodes'[0]) = txs /\ \A j \in DOMAIN nodes'[0] : nodes'[0][j] = Tree[0][j]
    BY <2>3, <2>4, <2>6
  <2>10. \A l \in 0..Top' : l = 0
    BY <2>5
  <2>11. txs' = txs
    BY <1>1
  <2>12. QED
    BY <2>7, <2>8, <2>9, <2>10, <2>11 DEF LevelsInv
<1>4. QED
  BY <1>2, <1>3

LEMMA AddLevelLevels ==
  ASSUME IInv, LevelsInv, AddLevel
  PROVE  LevelsInv'
<1> DEFINE below == nodes[Top]
           n == Length(below)
           m == ((n - 1) \div 2) + 1
<1>1. UNCHANGED <<txs, target, witness, pc>> /\ pc = "build" /\ n > 1
      /\ nodes' = Push(nodes, Above(below))
  BY DEF AddLevel, block
<1>2. /\ Vector(nodes) /\ Length(nodes) \in Nat
      /\ \A l \in DOMAIN nodes : Vector(nodes[l]) /\ Length(nodes[l]) \in 1..txs
      /\ txs \in Nat
  BY MerkleAssumption DEF IInv, TypeOK
<1>3. Top \in Nat /\ Length(nodes) = Top + 1 /\ Top \in DOMAIN nodes
  BY <1>1, <1>2 DEF IInv, TreeInv, Top, Vector
<1>4. Vector(below) /\ n \in Nat /\ n >= 1
  BY <1>2, <1>3
<1>5. /\ Vector(Above(below)) /\ Length(Above(below)) = m /\ m < n /\ m \in Nat
  BY <1>1, <1>4, AboveVector
<1>6. /\ Length(nodes') = Top + 2
      /\ nodes'[Top + 1] = Above(below)
      /\ \A l \in 0..Top : nodes'[l] = nodes[l]
  BY <1>1, <1>2, <1>3, PushVector
<1>7. Top' = Top + 1
  BY <1>3, <1>6 DEF Top
<1>8. /\ \A l \in 0..Top :
           /\ (Length(nodes[l]) - 1) * Pow2[l] < txs /\ txs <= Length(nodes[l]) * Pow2[l]
           /\ l + Length(nodes[l]) <= txs
           /\ \A j \in DOMAIN nodes[l] : nodes[l][j] = Tree[l][j]
  BY <1>1 DEF LevelsInv
<1>9. /\ (n - 1) * Pow2[Top] < txs /\ txs <= n * Pow2[Top] /\ Top + n <= txs
      /\ \A j \in DOMAIN below : below[j] = Tree[Top][j]
  BY <1>3, <1>8
<1>10. Pow2[Top] \in Nat /\ Pow2[Top + 1] = 2 * Pow2[Top]
  BY <1>3, PowersOfTwo
<1> DEFINE w == Pow2[Top]
<1>11. w \in Nat /\ (n - 1) * w < txs /\ txs <= n * w
  BY <1>9, <1>10
<1>12. m = ((n - 1) \div 2) + 1
  OBVIOUS
<1> HIDE DEF w, m, n
<1>13. /\ (m - 1) * (2 * w) < txs /\ txs <= m * (2 * w)
       /\ \A j \in 0..(m - 1) : (2 * j + 1) * w < txs <=> 2 * j + 1 < n
  BY <1>1, <1>2, <1>4, <1>11, <1>12, Pairing
<1>14. (m - 1) * Pow2[Top + 1] < txs /\ txs <= m * Pow2[Top + 1] /\ (Top + 1) + m <= txs
  BY <1>2, <1>3, <1>4, <1>5, <1>9, <1>10, <1>13 DEF w
<1>15. ASSUME NEW j \in 0..(m - 1)
       PROVE  Above(below)[j] = Tree[Top + 1][j]
  <2>1. j \in Nat /\ j \in 0..((n - 1) \div 2) /\ 2 * j \in 0..(n - 1)
    BY <1>1, <1>4, <1>5, <1>12
  <2>2. Above(below)[j] = <<below[2 * j], below[IF 2 * j + 1 < n THEN 2 * j + 1 ELSE 2 * j]>>
    BY <2>1 DEF Above, Hash, n
  <2>3. Tree[Top + 1][j] =
          <<Tree[Top][2 * j], Tree[Top][IF (2 * j + 1) * w < txs THEN 2 * j + 1 ELSE 2 * j]>>
    BY <1>3, <2>1, TreeNodes DEF w
  <2>4. DOMAIN below = 0..(n - 1)
    BY <1>4 DEF Vector, n
  <2>5. below[2 * j] = Tree[Top][2 * j]
    BY <1>9, <2>1, <2>4
  <2>6. 2 * j + 1 < n => below[2 * j + 1] = Tree[Top][2 * j + 1]
    <3>1. 2 * j + 1 < n => 2 * j + 1 \in 0..(n - 1)
      BY <1>4, <2>1
    <3>2. QED
      BY <1>9, <2>4, <3>1
  <2>7. QED
    BY <1>13, <2>2, <2>3, <2>5, <2>6
<1>16. DOMAIN Above(below) = 0..(m - 1)
  BY <1>5 DEF Vector
<1>17. Tree' = Tree
  BY <1>1, TreeKept
<1>18. ASSUME NEW l \in 0..(Top + 1)
       PROVE  /\ (Length(nodes'[l]) - 1) * Pow2[l] < txs /\ txs <= Length(nodes'[l]) * Pow2[l]
              /\ l + Length(nodes'[l]) <= txs
              /\ \A j \in DOMAIN nodes'[l] : nodes'[l][j] = Tree[l][j]
  <2>1. CASE l = Top + 1
    BY <1>5, <1>6, <1>14, <1>15, <1>16, <2>1
  <2>2. CASE l # Top + 1
    <3>1. l \in 0..Top /\ nodes'[l] = nodes[l]
      BY <1>3, <1>6, <2>2
    <3>2. QED
      BY <1>8, <3>1
  <2>3. QED
    BY <2>1, <2>2
<1>19. txs' = txs
  BY <1>1
<1>20. QED
  BY <1>7, <1>17, <1>18, <1>19 DEF LevelsInv

LEMMA SameLevels ==
  ASSUME LevelsInv, UNCHANGED <<txs, witness, nodes>>,
         pc' \in {"build", "climb", "fold", "done"} => pc \in {"build", "climb", "fold", "done"}
  PROVE  LevelsInv'
<1>1. Tree' = Tree /\ txs' = txs /\ nodes' = nodes
  BY TreeKept
<1>2. Top' = Top
  BY <1>1 DEF Top
<1>3. QED
  BY <1>1, <1>2 DEF LevelsInv

LEMMA LevelsAlways == Spec => [](IInv /\ LevelsInv)
<1>1. Init => LevelsInv
  BY DEF Init, LevelsInv
<1>2. ASSUME IInv, LevelsInv, [Next]_vars
      PROVE  LevelsInv'
  <2>1. CASE Find
    BY <1>2, <2>1, FindLevels
  <2>2. CASE AddLevel
    BY <1>2, <2>2, AddLevelLevels
  <2>3. CASE StartClimb
    BY <1>2, <2>3, SameLevels DEF StartClimb, block
  <2>4. CASE Climb
    BY <1>2, <2>4, SameLevels DEF Climb, block
  <2>5. CASE StartFold
    BY <1>2, <2>5, SameLevels DEF StartFold, block
  <2>6. CASE FoldLevel
    BY <1>2, <2>6, SameLevels DEF FoldLevel, block
  <2>7. CASE Finish
    BY <1>2, <2>7, SameLevels DEF Finish, block
  <2>8. CASE UNCHANGED vars
    BY <1>2, <2>8, SameLevels DEF vars
  <2>9. QED
    BY <1>2, <2>1, <2>2, <2>3, <2>4, <2>5, <2>6, <2>7, <2>8 DEF Next
<1>3. IInv /\ LevelsInv /\ [Next]_vars => LevelsInv'
  BY <1>2
<1>4. QED
  BY <1>1, <1>3, IInvAlways, PTL DEF Spec

(* The proof that goes out is against the root that Bitcoin's header or    *)
(* coinbase commits to, and has that tree's height, for every block.       *)
THEOREM MerkleRootIsBitcoins == Spec => []RootIsBitcoins
<1>1. ASSUME IInv, LevelsInv, pc = "done"
      PROVE  hash = Tree[Height][0] /\ Length(path) = Height
  <2>1. hash = nodes[Top][0]
    BY <1>1 DEF IInv, ProofVerifies, Root
  <2>2. Length(path) = depth
    BY <1>1 DEF IInv, PathInv
  <2>3. /\ Top >= 0 /\ Length(nodes[Top]) = 1 /\ depth = Top
        /\ \A l \in 0..(Top - 1) : Length(nodes[l]) > 1
    BY <1>1 DEF IInv, TreeInv
  <2>4. /\ Vector(nodes) /\ Length(nodes) \in Nat /\ txs \in Nat
        /\ \A l \in DOMAIN nodes : Vector(nodes[l]) /\ Length(nodes[l]) \in 1..txs
    BY <1>1, MerkleAssumption DEF IInv, TypeOK
  <2>5. Top \in Nat /\ DOMAIN nodes = 0..Top
    BY <2>3, <2>4 DEF Top, Vector
  <2>6. \A l \in 0..Top :
          /\ (Length(nodes[l]) - 1) * Pow2[l] < txs /\ txs <= Length(nodes[l]) * Pow2[l]
          /\ l + Length(nodes[l]) <= txs
          /\ \A j \in DOMAIN nodes[l] : nodes[l][j] = Tree[l][j]
    BY <1>1 DEF LevelsInv
  <2>7. Top \in 0..txs /\ Pow2[Top] >= txs
    <3>1. Pow2[Top] \in Nat
      BY <2>5, PowersOfTwo
    <3>2. Top \in 0..Top
      BY <2>5
    <3>3. txs <= 1 * Pow2[Top] /\ Top + 1 <= txs
      BY <2>3, <2>6, <3>2
    <3>4. QED
      BY <2>4, <2>5, <3>1, <3>3
  <2>8. ASSUME NEW k \in 0..(Top - 1) PROVE Pow2[k] < txs
    <3>1. k \in Nat /\ k \in 0..Top /\ Length(nodes[k]) > 1 /\ Length(nodes[k]) \in Nat
      BY <2>3, <2>4, <2>5
    <3>2. (Length(nodes[k]) - 1) * Pow2[k] < txs /\ Pow2[k] \in Nat
      BY <2>6, <3>1, PowersOfTwo
    <3>3. Length(nodes[k]) - 1 \in Nat /\ 1 <= Length(nodes[k]) - 1
      BY <3>1
    <3>4. 1 * Pow2[k] <= (Length(nodes[k]) - 1) * Pow2[k]
          /\ (Length(nodes[k]) - 1) * Pow2[k] \in Nat
      BY <3>2, <3>3, Monotone
    <3>5. QED
      BY <2>4, <3>2, <3>4
  <2> DEFINE High(h) == Pow2[h] >= txs /\ \A k \in 0..(h - 1) : Pow2[k] < txs
  <2>9. High(Top)
    BY <2>7, <2>8
  <2>10. \A h \in 0..txs : High(h) => h = Top
    <3> SUFFICES ASSUME NEW h \in 0..txs, High(h), h # Top PROVE FALSE
      OBVIOUS
    <3>1. h \in Nat /\ Pow2[h] \in Nat /\ Pow2[Top] \in Nat
      <4>1. h \in Nat
        BY <2>4
      <4>2. QED
        BY <2>5, <4>1, PowersOfTwo
    <3>2. CASE h < Top
      <4>1. h \in 0..(Top - 1)
        BY <2>5, <3>2
      <4>2. QED
        BY <2>4, <2>8, <3>1, <4>1
    <3>3. CASE Top < h
      <4>1. Top \in 0..(h - 1)
        BY <2>5, <3>3
      <4>2. QED
        BY <2>4, <2>7, <3>1, <4>1
    <3>4. QED
      BY <2>4, <2>5, <3>2, <3>3
  <2>11. Height = CHOOSE h \in 0..txs : High(h)
    BY DEF Height
  <2> HIDE DEF High
  <2>12. Height = Top
    BY <2>7, <2>9, <2>10, <2>11
  <2>13. 0 \in DOMAIN nodes[Top]
    BY <2>3, <2>4, <2>5 DEF Vector
  <2>14. nodes[Top][0] = Tree[Top][0]
    BY <2>5, <2>6, <2>13
  <2>15. QED
    BY <2>1, <2>2, <2>3, <2>12, <2>14
<1>2. IInv /\ LevelsInv => RootIsBitcoins
  BY <1>1 DEF RootIsBitcoins
<1>3. QED
  BY <1>2, LevelsAlways, PTL
-----------------------------------------------------------------------------
(* The loops: how far each is from its end.                                *)
LEMMA AheadAt ==
  /\ pc = "find" => Ahead = 3 * MaxTransactions + 4
  /\ pc = "build" => Ahead = 2 * MaxTransactions + 3 + Length(nodes[Top])
  /\ pc = "climb" => Ahead = MaxTransactions + 2 + (depth - level)
  /\ pc = "fold" => Ahead = 1 + (depth - level)
  /\ pc \in {"done", "error", "panic"} => Ahead = 0
<1>1. pc = "find" => Ahead = 3 * MaxTransactions + 4
  BY DEF Ahead
<1>2. pc = "build" => Ahead = 2 * MaxTransactions + 3 + Length(nodes[Top])
  BY DEF Ahead
<1>3. pc = "climb" => Ahead = MaxTransactions + 2 + (depth - level)
  BY DEF Ahead
<1>4. pc = "fold" => Ahead = 1 + (depth - level)
  BY DEF Ahead
<1>5. pc \in {"done", "error", "panic"} => Ahead = 0
  BY DEF Ahead
<1>6. QED
  BY <1>1, <1>2, <1>3, <1>4, <1>5

LEMMA AheadNext ==
  /\ (pc = "find")' => Ahead' = 3 * MaxTransactions + 4
  /\ (pc = "build")' => Ahead' = 2 * MaxTransactions + 3 + Length(nodes[Top])'
  /\ (pc = "climb")' => Ahead' = MaxTransactions + 2 + (depth' - level')
  /\ (pc = "fold")' => Ahead' = 1 + (depth' - level')
  /\ (pc \in {"done", "error", "panic"})' => Ahead' = 0
<1>1. (pc = "find")' => Ahead' = 3 * MaxTransactions + 4
  BY DEF Ahead
<1>2. (pc = "build")' => Ahead' = 2 * MaxTransactions + 3 + Length(nodes[Top])'
  BY DEF Ahead
<1>3. (pc = "climb")' => Ahead' = MaxTransactions + 2 + (depth' - level')
  BY DEF Ahead
<1>4. (pc = "fold")' => Ahead' = 1 + (depth' - level')
  BY DEF Ahead
<1>5. (pc \in {"done", "error", "panic"})' => Ahead' = 0
  BY DEF Ahead
<1>6. QED
  BY <1>1, <1>2, <1>3, <1>4, <1>5

(* A level of the tree is never wider, nor the tree higher, than the block *)
(* has transactions.                                                       *)
LEMMA Sizes ==
  ASSUME IInv, LevelsInv
  PROVE  /\ MaxTransactions \in Nat /\ depth \in Nat /\ level \in Nat /\ level <= depth
         /\ pc = "build" => Length(nodes[Top]) \in 1..MaxTransactions
         /\ pc \in {"climb", "fold"} => depth = Top /\ depth <= MaxTransactions
<1>1. MaxTransactions \in Nat /\ depth \in Nat /\ level \in Nat /\ level <= depth
  BY MerkleAssumption DEF IInv, TypeOK
<1>2. txs \in Nat /\ txs <= MaxTransactions
  BY MerkleAssumption DEF IInv, TypeOK
<1>3. ASSUME pc \in {"build", "climb", "fold"}
      PROVE  Top \in Nat /\ Length(nodes[Top]) \in 1..txs /\ Top + Length(nodes[Top]) <= txs
  <2>1. Top >= 0
    BY <1>3 DEF IInv, TreeInv
  <2>2. /\ Vector(nodes) /\ Length(nodes) \in Nat
        /\ \A l \in DOMAIN nodes : Length(nodes[l]) \in 1..txs
    BY <1>1 DEF IInv, TypeOK
  <2>3. Top \in Nat /\ Top \in DOMAIN nodes /\ Top \in 0..Top
    BY <2>1, <2>2 DEF Top, Vector
  <2>4. Top + Length(nodes[Top]) <= txs
    BY <1>3, <2>3 DEF LevelsInv
  <2>5. QED
    BY <2>2, <2>3, <2>4
<1>4. pc \in {"climb", "fold"} => Length(nodes[Top]) = 1 /\ depth = Top
  BY DEF IInv, TreeInv
<1>5. ASSUME pc = "build" PROVE Length(nodes[Top]) \in 1..MaxTransactions
  <2>1. Length(nodes[Top]) \in 1..txs
    BY <1>3, <1>5
  <2>2. QED
    BY <1>1, <1>2, <2>1
<1>6. ASSUME pc \in {"climb", "fold"} PROVE depth <= MaxTransactions
  <2>1. Top + Length(nodes[Top]) <= txs /\ Top \in Nat
    BY <1>3, <1>6
  <2>2. Length(nodes[Top]) = 1 /\ depth = Top
    BY <1>4, <1>6
  <2>3. QED
    BY <1>1, <1>2, <2>1, <2>2
<1>7. QED
  BY <1>1, <1>4, <1>5, <1>6

LEMMA FindAhead ==
  ASSUME IInv', LevelsInv', Find
  PROVE  Ahead' < Ahead
<1>1. Ahead = 3 * MaxTransactions + 4 /\ MaxTransactions \in Nat
  BY AheadAt, MerkleAssumption DEF Find
<1>2. pc' \in {"error", "panic"} \/ pc' = "build"
  BY DEF Find, Plant
<1>3. CASE pc' \in {"error", "panic"}
  <2>1. Ahead' = 0
    BY <1>3, AheadNext
  <2>2. QED
    BY <1>1, <2>1
<1>4. CASE pc' = "build"
  <2>1. Ahead' = 2 * MaxTransactions + 3 + Length(nodes[Top])'
    BY <1>4, AheadNext
  <2>2. PICK n : n = Length(nodes[Top])'
    OBVIOUS
  <2>3. n \in 1..MaxTransactions
    <3>1. (pc = "build" => Length(nodes[Top]) \in 1..MaxTransactions)'
      BY Sizes, PTL
    <3>2. QED
      BY <1>4, <2>2, <3>1
  <2>4. Ahead' = 2 * MaxTransactions + 3 + n
    BY <2>1, <2>2
  <2>5. QED
    BY <1>1, <2>3, <2>4
<1>5. QED
  BY <1>2, <1>3, <1>4

LEMMA AddLevelAhead ==
  ASSUME IInv, LevelsInv, AddLevel
  PROVE  Ahead' < Ahead
<1>1. /\ pc = "build" /\ pc' = "build" /\ Length(nodes[Top]) > 1
      /\ nodes' = Push(nodes, Above(nodes[Top]))
  BY DEF AddLevel
<1>2. Top >= 0 /\ Vector(nodes) /\ Length(nodes) \in Nat
  BY <1>1 DEF IInv, TypeOK, TreeInv
<1>3. Top \in DOMAIN nodes /\ Top + 1 = Length(nodes)
  BY <1>2 DEF Top, Vector
<1>4. Vector(nodes[Top]) /\ Length(nodes[Top]) \in 1..txs /\ txs \in Nat
  BY <1>3, MerkleAssumption DEF IInv, TypeOK
<1>5. Length(nodes') = Length(nodes) + 1 /\ nodes'[Length(nodes)] = Above(nodes[Top])
  BY <1>1, <1>2, PushVector
<1>6. Top' = Length(nodes)
  <2>1. Top' = Length(nodes') - 1
    BY DEF Top
  <2>2. QED
    BY <1>2, <1>5, <2>1
<1>7. Length(nodes[Top])' = Length(Above(nodes[Top]))
  <2>1. Length(nodes[Top])' = Length(nodes'[Top'])
    OBVIOUS
  <2>2. QED
    BY <1>5, <1>6, <2>1
<1>8. /\ Length(Above(nodes[Top])) \in Nat /\ Length(nodes[Top]) \in Nat
      /\ Length(Above(nodes[Top])) < Length(nodes[Top])
  <2>1. Length(nodes[Top]) \in Nat
    BY <1>4
  <2>2. QED
    BY <1>1, <1>4, <2>1, AboveVector
<1>9. /\ Ahead = 2 * MaxTransactions + 3 + Length(nodes[Top])
      /\ Ahead' = 2 * MaxTransactions + 3 + Length(Above(nodes[Top]))
  BY <1>1, <1>7, AheadAt, AheadNext
<1>10. QED
  BY <1>8, <1>9, MerkleAssumption

LEMMA StepAhead ==
  ASSUME IInv, LevelsInv, StartClimb \/ Climb \/ StartFold \/ FoldLevel \/ Finish, OnlyLonePanics'
  PROVE  Ahead' < Ahead
<1>1. /\ MaxTransactions \in Nat /\ depth \in Nat /\ level \in Nat /\ level <= depth
      /\ pc = "build" => Length(nodes[Top]) \in 1..MaxTransactions
      /\ pc \in {"climb", "fold"} => depth = Top /\ depth <= MaxTransactions
  BY Sizes
<1>2. pc' # "panic" /\ depth' = depth
  <2>1. pc \in {"build", "climb", "fold"} /\ UNCHANGED <<block, depth>>
    BY DEF StartClimb, Climb, StartFold, FoldLevel, Finish
  <2>2. txs > 1 /\ txs' = txs
    BY <2>1 DEF IInv, TreeInv, block
  <2>3. txs \in Nat
    BY MerkleAssumption DEF IInv, TypeOK
  <2>4. QED
    BY <2>1, <2>2, <2>3 DEF OnlyLonePanics
<1>3. CASE StartClimb
  <2>1. pc = "build" /\ pc' = "climb" /\ level' = 0 /\ Length(nodes[Top]) <= 1
    BY <1>2, <1>3 DEF StartClimb
  <2>2. Built
    BY <2>1, BuiltTree
  <2>3. Length(nodes[Top]) = 1 /\ depth <= MaxTransactions
    <3>1. Length(nodes[Top]) = 1
      BY <1>1, <2>1
    <3>2. depth = Top /\ Top \in Nat /\ txs \in Nat /\ txs <= MaxTransactions
      BY <1>1, <2>2, MerkleAssumption DEF Built
    <3>3. Top \in 0..Top
      BY <3>2
    <3>4. Top + Length(nodes[Top]) <= txs
      BY <2>1, <3>3 DEF LevelsInv
    <3>5. QED
      BY <1>1, <3>1, <3>2, <3>4
  <2>4. Ahead = 2 * MaxTransactions + 3 + 1 /\ Ahead' = MaxTransactions + 2 + (depth - 0)
    BY <1>2, <2>1, <2>3, AheadAt, AheadNext
  <2>5. QED
    BY <1>1, <2>3, <2>4
<1>4. CASE Climb
  <2>1. pc = "climb" /\ pc' = "climb" /\ level' = level + 1
    BY <1>2, <1>4 DEF Climb
  <2>2. /\ Ahead = MaxTransactions + 2 + (depth - level)
        /\ Ahead' = MaxTransactions + 2 + (depth - (level + 1))
    BY <1>2, <2>1, AheadAt, AheadNext
  <2>3. QED
    BY <1>1, <2>2
<1>5. CASE StartFold
  <2>1. pc = "climb" /\ pc' = "fold" /\ level' = 0
    BY <1>5 DEF StartFold
  <2>2. Ahead = MaxTransactions + 2 + (depth - level) /\ Ahead' = 1 + (depth - 0)
    BY <1>2, <2>1, AheadAt, AheadNext
  <2>3. QED
    BY <1>1, <2>1, <2>2
<1>6. CASE FoldLevel
  <2>1. pc = "fold" /\ pc' = "fold" /\ level' = level + 1
    BY <1>2, <1>6 DEF FoldLevel
  <2>2. Ahead = 1 + (depth - level) /\ Ahead' = 1 + (depth - (level + 1))
    BY <1>2, <2>1, AheadAt, AheadNext
  <2>3. QED
    BY <1>1, <2>2
<1>7. CASE Finish
  <2>1. pc = "fold" /\ pc' = "done"
    BY <1>7 DEF Finish
  <2>2. Ahead = 1 + (depth - level) /\ Ahead' = 0
    BY <2>1, AheadAt, AheadNext
  <2>3. QED
    BY <1>1, <2>2
<1>8. QED
  BY <1>3, <1>4, <1>5, <1>6, <1>7

(* The search, the building of the tree, the climb and the fold each end:  *)
(* every step leaves less to do, for every block and transaction.          *)
THEOREM MerkleLoopsGoOn == Spec => LoopsGoOn
<1>1. ASSUME IInv, LevelsInv, IInv', LevelsInv', [Next]_vars
      PROVE  [Ahead' < Ahead]_vars
  <2>1. OnlyLonePanics'
    BY <1>1 DEF IInv
  <2>2. QED
    BY <1>1, <2>1, FindAhead, AddLevelAhead, StepAhead DEF Next
<1>2. IInv /\ LevelsInv /\ (IInv /\ LevelsInv)' /\ [Next]_vars => [Ahead' < Ahead]_vars
  BY <1>1
<1>3. QED
  BY <1>2, LevelsAlways, PTL DEF Spec, LoopsGoOn
=============================================================================
