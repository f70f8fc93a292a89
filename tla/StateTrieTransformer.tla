------------------------- MODULE StateTrieTransformer -------------------------
(***************************************************************************)
(* EthStateTrieTransformer.Execute (pkg/transformers/eth_state_trie.go).  *)
(* For each block number i of start..end it reads the header, decodes the *)
(* state root, fetches the state and storage trie nodes under that root,  *)
(* and writes every state node, then every storage node, to IPFS.  Each   *)
(* collaborator call is one step and may fail; the first failure returns. *)
(* Node contents are abstracted to counts; a publication is recorded as   *)
(* the pair <<block, trie>>.                                              *)
(***************************************************************************)
EXTENDS BlockNumbers, Sequences, FiniteSets

CONSTANTS
  Ranges,     \* the <<start, end>> pairs Execute is called with
  MaxNodes    \* most nodes one trie fetch returns, per trie

ASSUME Ranges \subseteq BlockNumber \X BlockNumber
ASSUME MaxNodes \in Nat

VARIABLES
  start, end,     \* Execute's arguments
  i,              \* the loop counter
  pc,             \* where Execute is
  stateLeft,      \* state trie nodes of block i not yet written
  storageLeft,    \* storage trie nodes of block i not yet written
  fetchedNodes,   \* fetchedNodes[b]: nodes the database returned for block b
  headerFetches,  \* history: the block numbers whose header was read
  published,      \* history: <<block, trie>> of every successful Write
  result          \* Pending until Execute returns Nil or an error

vars == <<start, end, i, pc, stateLeft, storageLeft, fetchedNodes,
          headerFetches, published, result>>

Phase == {"fetchHeader", "untagged", "fetchTrie", "writeState", "writeStorage"}

\* What Execute returns: nil, or an error with the phase its message
\* names and the block number it names ({} when the message has none).
Err(phase, blocks) == [outcome |-> "error", phase |-> phase, blocks |-> blocks]
Nil == [outcome |-> "nil", phase |-> "none", blocks |-> {}]
Pending == [outcome |-> "pending", phase |-> "none", blocks |-> {}]

Error == [outcome : {"error"}, phase : Phase, blocks : SUBSET BlockNumber]

Return(err) == pc' = "done" /\ result' = err

Init ==
  /\ \E r \in Ranges : start = r[1] /\ end = r[2]
  /\ i = start
  /\ pc = "loop"
  /\ stateLeft = 0
  /\ storageLeft = 0
  /\ fetchedNodes = [b \in BlockNumber |-> 0]
  /\ headerFetches = <<>>
  /\ published = <<>>
  /\ result = Pending

\* Mutant: the loop runs while i < end.
EnterBlockBelowEnd ==
  /\ pc = "loop"
  /\ i < end
  /\ pc' = "getRoot"
  /\ UNCHANGED <<start, end, i, stateLeft, storageLeft, fetchedNodes,
                 headerFetches, published, result>>

\* for i := startingBlockNumber; i <= endingBlockNumber; ...
EnterBlock ==
  /\ pc = "loop"
  /\ i <= end
  /\ pc' = "getRoot"
  /\ UNCHANGED <<start, end, i, stateLeft, storageLeft, fetchedNodes,
                 headerFetches, published, result>>

\* The loop condition fails: return nil.
ReturnNil ==
  /\ pc = "loop"
  /\ ~(i <= end)
  /\ Return(Nil)
  /\ UNCHANGED <<start, end, i, stateLeft, storageLeft, fetchedNodes,
                 headerFetches, published>>

\* getStateRootForBlock: read the raw header, then decode it.  A read
\* error is wrapped with the block number; a decode error is returned as
\* the decoder produced it.
GetStateRootForBlock ==
  /\ pc = "getRoot"
  /\ headerFetches' = Append(headerFetches, i)
  /\ \/ Return(Err("fetchHeader", {i}))
     \/ Return(Err("untagged", {}))
     \/ pc' = "getTrie" /\ UNCHANGED result
  /\ UNCHANGED <<start, end, i, stateLeft, storageLeft, fetchedNodes, published>>

\* database.GetStateAndStorageTrieNodes(root).
GetStateAndStorageTrieNodes ==
  /\ pc = "getTrie"
  /\ \/ /\ Return(Err("fetchTrie", {i}))
        /\ UNCHANGED <<stateLeft, storageLeft, fetchedNodes>>
     \/ \E n, m \in 0 .. MaxNodes :
          /\ stateLeft' = n
          /\ storageLeft' = m
          /\ fetchedNodes' = [fetchedNodes EXCEPT ![i] = n + m]
          /\ pc' = "writeState"
          /\ UNCHANGED result
  /\ UNCHANGED <<start, end, i, headerFetches, published>>

\* Mutant: the node loop runs one step past the end of the slice.
WriteStateNodeUnguarded ==
  /\ pc = "writeState"
  /\ \/ /\ Return(Err("writeState", {}))
        /\ UNCHANGED <<stateLeft, published>>
     \/ /\ published' = Append(published, <<i, "state">>)
        /\ stateLeft' = stateLeft - 1
        /\ UNCHANGED <<pc, result>>
  /\ UNCHANGED <<start, end, i, storageLeft, fetchedNodes, headerFetches>>

\* Mutant: a failed Write returns nil instead of the error.
WriteStateNodeReturnsNil ==
  /\ pc = "writeState"
  /\ stateLeft > 0
  /\ \/ /\ Return(Nil)
        /\ UNCHANGED <<stateLeft, published>>
     \/ /\ published' = Append(published, <<i, "state">>)
        /\ stateLeft' = stateLeft - 1
        /\ UNCHANGED <<pc, result>>
  /\ UNCHANGED <<start, end, i, storageLeft, fetchedNodes, headerFetches>>

\* One iteration of writeStateTrieNodesToIpfs: stateTriePublisher.Write.
WriteStateNode ==
  /\ pc = "writeState"
  /\ stateLeft > 0
  /\ \/ /\ Return(Err("writeState", {}))
        /\ UNCHANGED <<stateLeft, published>>
     \/ /\ published' = Append(published, <<i, "state">>)
        /\ stateLeft' = stateLeft - 1
        /\ UNCHANGED <<pc, result>>
  /\ UNCHANGED <<start, end, i, storageLeft, fetchedNodes, headerFetches>>

\* Mutant: the state node loop may stop before the last node.
StateNodesWrittenEarly ==
  /\ pc = "writeState"
  /\ pc' = "writeStorage"
  /\ UNCHANGED <<start, end, i, stateLeft, storageLeft, fetchedNodes,
                 headerFetches, published, result>>

\* writeStateTrieNodesToIpfs has ranged over every node and returns nil.
StateNodesWritten ==
  /\ pc = "writeState"
  /\ stateLeft = 0
  /\ pc' = "writeStorage"
  /\ UNCHANGED <<start, end, i, stateLeft, storageLeft, fetchedNodes,
                 headerFetches, published, result>>

\* Mutant: a failed Write is logged and the loop goes on.
WriteStorageNodeIgnoresError ==
  /\ pc = "writeStorage"
  /\ storageLeft > 0
  /\ \/ /\ storageLeft' = storageLeft - 1
        /\ UNCHANGED <<published, pc, result>>
     \/ /\ published' = Append(published, <<i, "storage">>)
        /\ storageLeft' = storageLeft - 1
        /\ UNCHANGED <<pc, result>>
  /\ UNCHANGED <<start, end, i, stateLeft, fetchedNodes, headerFetches>>

\* One iteration of writeStorageTrieNodesToIpfs: storageTriePublisher.Write.
WriteStorageNode ==
  /\ pc = "writeStorage"
  /\ storageLeft > 0
  /\ \/ /\ Return(Err("writeStorage", {}))
        /\ UNCHANGED <<storageLeft, published>>
     \/ /\ published' = Append(published, <<i, "storage">>)
        /\ storageLeft' = storageLeft - 1
        /\ UNCHANGED <<pc, result>>
  /\ UNCHANGED <<start, end, i, stateLeft, fetchedNodes, headerFetches>>

\* Mutant: i is incremented twice per iteration.
StorageNodesWrittenSkip ==
  /\ pc = "writeStorage"
  /\ storageLeft = 0
  /\ i' = Wrap(i + 2)
  /\ pc' = "loop"
  /\ UNCHANGED <<start, end, stateLeft, storageLeft, fetchedNodes,
                 headerFetches, published, result>>

\* writeStorageTrieNodesToIpfs returns nil; the loop body ends with i++.
StorageNodesWritten ==
  /\ pc = "writeStorage"
  /\ storageLeft = 0
  /\ i' = Wrap(i + 1)
  /\ pc' = "loop"
  /\ UNCHANGED <<start, end, stateLeft, storageLeft, fetchedNodes,
                 headerFetches, published, result>>

Next ==
  \/ EnterBlock
  \/ ReturnNil
  \/ GetStateRootForBlock
  \/ GetStateAndStorageTrieNodes
  \/ WriteStateNode
  \/ StateNodesWritten
  \/ WriteStorageNode
  \/ StorageNodesWritten

\* Execute runs on one goroutine and every collaborator call returns.
Spec == Init /\ [][Next]_vars /\ WF_vars(Next)

-----------------------------------------------------------------------------
(* Derived state used by the properties.                                   *)

\* Number of successful Writes of an artifact of block b.
PublishedFor(b) == Cardinality({k \in 1 .. Len(published) : published[k][1] = b})

\* Blocks whose loop iteration has ended (i has moved past them).
Completed == {b \in start .. end : b < i}

IsError(r) == r \in Error

-----------------------------------------------------------------------------
(* Properties.                                                             *)

TypeOK ==
  /\ start \in BlockNumber /\ end \in BlockNumber /\ i \in BlockNumber
  /\ pc \in {"loop", "getRoot", "getTrie", "writeState", "writeStorage", "done"}
  /\ stateLeft \in 0 .. MaxNodes /\ storageLeft \in 0 .. MaxNodes
  /\ fetchedNodes \in [BlockNumber -> 0 .. 2 * MaxNodes]
  /\ headerFetches \in Seq(BlockNumber)
  /\ published \in Seq(BlockNumber \X {"state", "storage"})
  /\ result \in {Pending, Nil} \cup Error

\* Spec 8: the loop reads the header of start, start+1, ... in turn, each
\* exactly once, and never one outside the range (the i <= end; i++ loop).
ExactlyOnceInOrder ==
  \A k \in 1 .. Len(headerFetches) :
    /\ headerFetches[k] = start + k - 1
    /\ headerFetches[k] <= end

\* A block the loop has moved past had every state and storage node the
\* database returned for it written, and no node of a block not yet
\* reached was written (writeState/StorageTrieNodesToIpfs before i++).
CompletedBlocksFullyPublished ==
  \A b \in BlockNumber :
    /\ b \in Completed => PublishedFor(b) = fetchedNodes[b]
    /\ b >= i => PublishedFor(b) = 0 \/ (b = i /\ pc \in {"writeState", "writeStorage", "done"})

\* Execute returns nil only after reading and publishing every block of
\* the range: no error on the way was dropped.
NilMeansRangePublished ==
  result = Nil =>
    /\ Len(headerFetches) = Cardinality(start .. end)
    /\ \A b \in start .. end : PublishedFor(b) = fetchedNodes[b]

\* Spec 7: every error Execute returns says which phase produced it.
ErrorsCarryPhase == IsError(result) => result.phase /= "untagged"

\* Spec 4.4: a range with end < start is rejected with an error.
InvalidRangeRejected == (end < start /\ pc = "done") => IsError(result)

\* Every call of Execute returns.
Terminates == <>(pc = "done")

\* The loop implements RangeExecution: the block counter is the abstract
\* next block, and the call's outcome is the abstract status.
Abstract == INSTANCE RangeExecution WITH
  lo <- start, hi <- end, next <- i,
  status <- IF pc /= "done" THEN "running"
            ELSE IF result = Nil THEN "ok" ELSE "failed"

RefinesRangeExecution == Abstract!Spec
=============================================================================
