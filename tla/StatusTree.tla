------------------------------ MODULE StatusTree ------------------------------
(***************************************************************************)
(* The tree over the statuses of the issued credentials: the class         *)
(* ActiveStatusTree of integrations/issuance/src/status-tree.ts and the    *)
(* part of authorization.compact that climbs a path to its root.           *)
(*                                                                         *)
(* A hash is injective and tells a leaf from a node, so it is what it was  *)
(* made of: the zero leaf is the empty tuple, a leaf a 1-tuple, a node a   *)
(* pair.  An entry is one of IssuerAuthority.statusEntries(), its `id`     *)
(* standing for the handle and the credential root.                        *)
(***************************************************************************)
EXTENDS Integers, SequencesExt

CONSTANT Depth  \* 16 in the code

Leaf(id) == <<id>>

Node(left, right) == <<left, right>>

Above(node, sibling, right) == IF right THEN Node(sibling, node) ELSE Node(node, sibling)

Default[level \in 0 .. Depth] ==
  IF level = 0 THEN <<>> ELSE Node(Default[level - 1], Default[level - 1])

Levels == [i \in 1 .. Depth |-> i - 1]

At(nodes, level, position) ==
  IF <<level, position>> \in DOMAIN nodes THEN nodes[<<level, position>>] ELSE Default[level]

Sibling(position) == IF position % 2 = 1 THEN position - 1 ELSE position + 1

(* The leaf is set, then every node on the way to the root.                *)
Insert(nodes, index, leaf) ==
  LET Climb(m, level) ==
        LET position == index \div 2 ^ level
            node == Above(m[<<level, position>>], At(m, level, Sibling(position)), position % 2 = 1)
        IN  (<<level + 1, position \div 2>> :> node) @@ m
  IN  FoldLeft(Climb, (<<0, index>> :> leaf) @@ nodes, Levels)

CanBuild(entries) ==
  /\ Len(entries) <= 2 ^ Depth
  /\ \A i, j \in DOMAIN entries : entries[i].id = entries[j].id => i = j

(* The constructor: an entry keeps its position, a revoked one no leaf.    *)
Build(entries) ==
  FoldLeftDomain(LAMBDA nodes, i : IF entries[i].revoked THEN nodes
                                   ELSE Insert(nodes, i - 1, Leaf(entries[i].id)),
                 <<>>, entries)

RootOf(nodes) == At(nodes, Depth, 0)

Path(nodes, index) ==
  [level \in 0 .. Depth - 1 |->
     LET position == index \div 2 ^ level
     IN  [sibling |-> At(nodes, level, Sibling(position)), right |-> position % 2 = 1]]

(* What the circuit makes of a leaf and a path.                            *)
Recomputed(leaf, path) ==
  FoldLeft(LAMBDA node, level : Above(node, path[level].sibling, path[level].right), leaf, Levels)
=============================================================================
