---------------------------- MODULE StateComputer ----------------------------
(***************************************************************************)
(* StateComputer.ComputeBlockStateTrie (pkg/db/level/state_computer.go).  *)
(* Given a block and its parent it opens a state DB at the parent's root, *)
(* lets the go-ethereum processor execute the block, lets the validator   *)
(* check the result against the header, commits the trie (pruning empty   *)
(* accounts from the EIP-158 block on), then walks the committed trie and *)
(* returns every node.  The trie database is shared by all calls and      *)
(* keeps what every commit wrote.                                         *)
(*                                                                         *)
(* The chain is fixed by the constants: a genesis state and the accounts  *)
(* each block writes.  The store may start without some genesis nodes    *)
(* (LostPaths): a partially synced or damaged database.                   *)
(***************************************************************************)
EXTENDS Trie, FiniteSets

CONSTANTS
  Genesis,     \* the genesis world state
  Writes,      \* Writes[b]: the accounts block b touches, with their new value
  Fork,        \* first block of EIP-158
  LostPaths    \* paths of genesis trie nodes the store does not hold

N == Len(Writes)
Blocks == 1 .. N

ASSUME Genesis \in [Key -> STRING]
ASSUME \A b \in Blocks : DOMAIN Writes[b] \subseteq Key

Touched(b) == DOMAIN Writes[b]

\* params.ChainConfig.IsEIP158(number).
IsEIP158(b) == b >= Fork

\* The processor's effect on the state DB: the touched accounts take
\* their new values.
Execute(pre, b) == [k \in Key |-> IF k \in Touched(b) THEN Writes[b][k] ELSE pre[k]]

\* StateDB.Finalise(deleteEmptyObjects): touched empty accounts are
\* removed when the flag is set.
Finalise(st, dirty, deleteEmpty) ==
  [k \in Key |-> IF deleteEmpty /\ k \in dirty /\ st[k] = "empty" THEN Absent ELSE st[k]]

\* The canonical state after block b, and the root its header records.
RECURSIVE StateOf(_)
StateOf(b) ==
  IF b = 0 THEN Genesis
  ELSE Finalise(Execute(StateOf(b - 1), b), Touched(b), IsEIP158(b))

HeaderRoot(b) == StateRoot(StateOf(b))

CanonicalNodes == UNION {NodesOf(HeaderRoot(b)) : b \in 0 .. N}

VARIABLES
  trieDB,   \* the trie nodes the state database holds
  returned  \* returned[b]: what the latest call for block b returned

vars == <<trieDB, returned>>

Outcome == {"none", "openTrie", "execution", "validation", "commit", "ok"}

Result(b, outcome, root, nodes) ==
  [block |-> b, outcome |-> outcome, root |-> root, nodes |-> nodes]

Return(b, r) == returned' = [returned EXCEPT ![b] = r]

Init ==
  /\ trieDB = {n \in NodesOf(HeaderRoot(0)) : n.path \notin LostPaths}
  /\ returned = [b \in Blocks |-> Result(b, "none", EmptyRoot, <<>>)]

\* stateDBFactory.NewStateDB / db.OpenTrie: the root node must resolve.
Resolvable(root) == root = EmptyRoot \/ root \in trieDB

\* processor.Process fails when it reads an account whose trie path runs
\* through a node the store lacks.
MissingOnPath(b) ==
  \E n \in NodesOf(HeaderRoot(b - 1)) :
    n \notin trieDB /\ \E k \in Touched(b) : IsPrefix(n.path, k)

\* The states Process may leave behind: the right one, or one that lost
\* a write (the validator is there to catch it).
ProcessResults(b) ==
  LET pre == StateOf(b - 1)
      good == Execute(pre, b)
  IN {good} \cup {[good EXCEPT ![k] = pre[k]] : k \in Touched(b)}

\* validator.ValidateState: the root of the processed state, finalised by
\* the chain's rule for this block, must be the header's root.
ValidateState(b, post) ==
  StateRoot(Finalise(post, Touched(b), IsEIP158(b))) = HeaderRoot(b)

\* sc.blockChain.Config().IsEIP158(block.Number()).
CommitFlag(b) == IsEIP158(b)

CommittedRoot(b, post) == StateRoot(Finalise(post, Touched(b), CommitFlag(b)))

\* stateTrie.Commit writes the nodes that differ from the parent trie's;
\* unchanged subtries are referenced by hash and not rewritten.  A commit
\* that fails may have written any part of them.
DirtyNodes(b, post) == NodesOf(CommittedRoot(b, post)) \ NodesOf(HeaderRoot(b - 1))

\* Mutant: the processed state is committed without Finalise.
CommitUnfinalised(b, post) == trieDB' = trieDB \cup NodesOf(StateRoot(post))

Commit(b, post) == trieDB' = trieDB \cup DirtyNodes(b, post)

\* persistStateTrieNodes over store db: OpenTrie, then one result per
\* iterator position.  The iterator stops when a child does not resolve
\* and the loop never asks it why, so the nodes gathered so far are
\* returned with no error.  Node(hash) of a position the iterator has
\* resolved always succeeds.
PersistStateTrieNodes(b, root, db) ==
  LET walk == NodeIteration(root)
      stop == SelectInSeq(walk, LAMBDA n : n \notin db)
  IN IF ~(root = EmptyRoot \/ root \in db)
     THEN Result(b, "openTrie", root, <<>>)
     ELSE Result(b, "ok", root, IF stop = 0 THEN walk ELSE SubSeq(walk, 1, stop - 1))

\* Mutant: the trie is committed before the validator has looked at it.
CreateStateTrieForBlockCommitFirst(b, post) ==
  /\ Commit(b, post)
  /\ \/ ~ValidateState(b, post) /\ Return(b, Result(b, "validation", EmptyRoot, <<>>))
     \/ ValidateState(b, post) /\ Return(b, PersistStateTrieNodes(b, CommittedRoot(b, post), trieDB'))

\* createStateTrieForBlock after a successful Process, followed by
\* persistStateTrieNodes on the committed root.
CreateStateTrieForBlock(b, post) ==
  \/ /\ ~ValidateState(b, post)
     /\ Return(b, Result(b, "validation", EmptyRoot, <<>>))
     /\ UNCHANGED trieDB
  \/ /\ ValidateState(b, post)
     /\ Commit(b, post)
     /\ Return(b, PersistStateTrieNodes(b, CommittedRoot(b, post), trieDB'))
  \/ /\ ValidateState(b, post)
     /\ \E written \in SUBSET DirtyNodes(b, post) : trieDB' = trieDB \cup written
     /\ Return(b, Result(b, "commit", EmptyRoot, <<>>))

\* A caller asks for the state trie of block b with parent b - 1.
ComputeBlockStateTrie(b) ==
  LET parentRoot == HeaderRoot(b - 1) IN
  \/ /\ ~Resolvable(parentRoot)
     /\ Return(b, Result(b, "openTrie", EmptyRoot, <<>>))
     /\ UNCHANGED trieDB
  \/ /\ Resolvable(parentRoot)
     /\ Return(b, Result(b, "execution", EmptyRoot, <<>>))
     /\ UNCHANGED trieDB
  \/ /\ Resolvable(parentRoot)
     /\ ~MissingOnPath(b)
     /\ \E post \in ProcessResults(b) : CreateStateTrieForBlock(b, post)

Next == \E b \in Blocks : ComputeBlockStateTrie(b)

Spec == Init /\ [][Next]_vars

-----------------------------------------------------------------------------
(* Properties.                                                             *)

\* Every node some commit could produce.
CommittableNodes ==
  CanonicalNodes \cup
    UNION {UNION {NodesOf(CommittedRoot(b, p)) : p \in ProcessResults(b)} : b \in Blocks}

TypeOK ==
  /\ trieDB \subseteq CommittableNodes
  /\ \A b \in Blocks :
       /\ returned[b].block = b
       /\ returned[b].outcome \in Outcome
       /\ returned[b].nodes \in Seq(CommittableNodes)

\* Spec 8: a block the validator rejects leaves nothing in the store, so
\* the shared trie database only ever holds nodes of canonical states.
StoreHoldsCanonicalNodesOnly == trieDB \subseteq CanonicalNodes

\* Spec 4.2: a successful call returns every node reachable from the
\* committed root, leaves and internal nodes, and an empty state yields
\* no nodes.
ExtractsWholeTrie ==
  \A b \in Blocks : returned[b].outcome = "ok" => Range(returned[b].nodes) = NodesOf(returned[b].root)
=============================================================================
