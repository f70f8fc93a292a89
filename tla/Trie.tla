-------------------------------- MODULE Trie --------------------------------
(***************************************************************************)
(* The account trie as the state computer sees it through go-ethereum:    *)
(* a world state maps keys (KeyLen-bit paths) to account values; Commit   *)
(* stores one node per occupied path prefix, and a node's identity is its *)
(* content (a node "hash" is the node itself), so identical subtries of   *)
(* two roots are the same nodes.  A leaf stands for an account's value    *)
(* blob, every other node for a branch/extension node stored under its    *)
(* hash.  NodeIteration is the position sequence trie.NodeIterator yields *)
(* with Next(true): pre-order, children in key order, nothing for the     *)
(* empty trie.                                                            *)
(***************************************************************************)
EXTENDS Integers, Sequences, SequencesExt, Functions

CONSTANT KeyLen   \* bits per account key

ASSUME KeyLen \in Nat \ {0}

Key == [1 .. KeyLen -> {0, 1}]

Absent == "absent"

Present(st) == {k \in DOMAIN st : st[k] /= Absent}

\* Some present key lies under path p.
Occupied(st, p) == \E k \in Present(st) : IsPrefix(p, k)

\* The node stored for path p of state st.
RECURSIVE TrieNode(_, _)
TrieNode(st, p) ==
  LET kids == SelectSeq(<<Append(p, 0), Append(p, 1)>>, LAMBDA q : Occupied(st, q))
  IN [path     |-> p,
      leaf     |-> Len(p) = KeyLen,
      value    |-> IF Len(p) = KeyLen THEN st[p] ELSE Absent,
      children |-> [j \in 1 .. Len(kids) |-> TrieNode(st, kids[j])]]

\* The root of the state trie of st (the root of an empty trie has no
\* children and names no stored node).
StateRoot(st) == TrieNode(st, <<>>)

EmptyRoot == StateRoot([k \in Key |-> Absent])

\* Pre-order walk of the nodes under n.
RECURSIVE Preorder(_)
Preorder(n) == <<n>> \o FlattenSeq([j \in DOMAIN n.children |-> Preorder(n.children[j])])

\* stateTrie.NodeIterator(nil) stepped with Next(true) until it stops.
NodeIteration(root) == IF root = EmptyRoot THEN <<>> ELSE Preorder(root)

NodesOf(root) == Range(NodeIteration(root))

=============================================================================
