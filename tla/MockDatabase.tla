---------------------------- MODULE MockDatabase ----------------------------
(***************************************************************************)
(* test_helpers.MockDatabase (src/test_helpers/mock_database.go): the      *)
(* chain database tests hand to a transformer.  Bodies and headers are    *)
(* served from a queue the test sets; each call records the block number  *)
(* it was passed, returns the sticky error if one is set, and otherwise   *)
(* pops the head of the queue -- indexing an empty queue panics.  State   *)
(* trie nodes are returned whole, not consumed.  Byte slices are model    *)
(* values; errors are "nil" or "err".                                     *)
(***************************************************************************)
EXTENDS Sequences, SequencesExt

CONSTANTS
  Bytes,      \* the byte slices a test may queue
  Roots,      \* the roots GetStateTrieNodes may be passed
  BlockNums,  \* the block numbers the getters may be passed
  MaxQueue    \* the longest [][]byte a test sets

\* bodyByBlockNumber... and headerByBlockNumber... fields, per kind.
Kinds == {"body", "header"}
ErrValues == {"nil", "err"}
NoRoot == "noRoot"

VARIABLES
  errOf,            \* kind -> the error the getter returns
  returnBytes,      \* kind -> the queue of byte slices still to serve
  passed,           \* kind -> the block numbers passed so far
  stateTrieNodesErr, stateTrieNodesPassedRoot, stateTrieNodesReturnBytes,
  reply,            \* what the last call returned
  panicked          \* a getter indexed an empty queue

mockVars == <<errOf, returnBytes, passed, stateTrieNodesErr,
              stateTrieNodesPassedRoot, stateTrieNodesReturnBytes, reply, panicked>>

NoReply == [val |-> <<>>, err |-> "nil"]

\* NewMockDatabase: every field nil.
Init ==
  /\ errOf = [k \in Kinds |-> "nil"]
  /\ returnBytes = [k \in Kinds |-> <<>>]
  /\ passed = [k \in Kinds |-> <<>>]
  /\ stateTrieNodesErr = "nil"
  /\ stateTrieNodesPassedRoot = NoRoot
  /\ stateTrieNodesReturnBytes = <<>>
  /\ reply = NoReply
  /\ panicked = FALSE

trieVars == <<stateTrieNodesErr, stateTrieNodesPassedRoot, stateTrieNodesReturnBytes>>

\* Mutant: the slices are appended to what is left of the queue.
SetReturnBytesAppends(k, q) ==
  /\ returnBytes' = [returnBytes EXCEPT ![k] = @ \o q]
  /\ UNCHANGED <<errOf, passed, trieVars, reply, panicked>>

\* Set{Body,Header}ByBlockNumberReturnBytes: the queue is replaced.
SetReturnBytes(k, q) ==
  /\ returnBytes' = [returnBytes EXCEPT ![k] = q]
  /\ UNCHANGED <<errOf, passed, trieVars, reply, panicked>>

SetStateTrieNodesReturnBytes(q) ==
  /\ stateTrieNodesReturnBytes' = q
  /\ UNCHANGED <<errOf, returnBytes, passed, stateTrieNodesErr,
                 stateTrieNodesPassedRoot, reply, panicked>>

\* Set{Body,Header}ByBlockNumberError.
SetError(k, e) ==
  /\ errOf' = [errOf EXCEPT ![k] = e]
  /\ UNCHANGED <<returnBytes, passed, trieVars, reply, panicked>>

SetStateTrieNodesError(e) ==
  /\ stateTrieNodesErr' = e
  /\ UNCHANGED <<errOf, returnBytes, passed, stateTrieNodesPassedRoot,
                 stateTrieNodesReturnBytes, reply, panicked>>

\* The steps of GetBlock{Body,Header}ByBlockNumber.
RecordCall(k, n) == passed' = [passed EXCEPT ![k] = Append(@, n)]

ReturnSetError(k) ==
  /\ errOf[k] /= "nil" /\ reply' = [val |-> <<>>, err |-> errOf[k]]
  /\ UNCHANGED <<returnBytes, panicked>>

IndexEmptyQueue(k) ==
  /\ errOf[k] = "nil" /\ returnBytes[k] = <<>> /\ panicked' = TRUE
  /\ UNCHANGED <<returnBytes, reply>>

ServeHead(k) ==
  /\ errOf[k] = "nil" /\ returnBytes[k] /= <<>>
  /\ reply' = [val |-> <<Head(returnBytes[k])>>, err |-> "nil"]
  /\ returnBytes' = [returnBytes EXCEPT ![k] = Tail(@)]
  /\ UNCHANGED panicked

\* Mutant: the served slice is not dropped from the queue.
GetByNumberKeepsHead(k, n) ==
  /\ RecordCall(k, n)
  /\ \/ ReturnSetError(k) \/ IndexEmptyQueue(k)
     \/ /\ errOf[k] = "nil" /\ returnBytes[k] /= <<>>
        /\ reply' = [val |-> <<Head(returnBytes[k])>>, err |-> "nil"]
        /\ UNCHANGED <<returnBytes, panicked>>
  /\ UNCHANGED <<errOf, trieVars>>

\* Mutant: an empty queue yields nil bytes and a nil error, no panic.
GetByNumberEmptyReturnsNil(k, n) ==
  /\ RecordCall(k, n)
  /\ \/ ReturnSetError(k) \/ ServeHead(k)
     \/ errOf[k] = "nil" /\ returnBytes[k] = <<>> /\ reply' = NoReply
        /\ UNCHANGED <<returnBytes, panicked>>
  /\ UNCHANGED <<errOf, trieVars>>

\* Mutant: the block number is recorded only when bytes are served.
GetByNumberRecordsOnSuccess(k, n) ==
  /\ \/ (ReturnSetError(k) \/ IndexEmptyQueue(k)) /\ UNCHANGED passed
     \/ ServeHead(k) /\ RecordCall(k, n)
  /\ UNCHANGED <<errOf, trieVars>>

\* GetBlock{Body,Header}ByBlockNumber: record n; a set error is returned
\* and nothing consumed; else returnBytes[0] is served and dropped, and
\* on an empty queue the index panics.
GetByNumber(k, n) ==
  /\ RecordCall(k, n)
  /\ ReturnSetError(k) \/ IndexEmptyQueue(k) \/ ServeHead(k)
  /\ UNCHANGED <<errOf, trieVars>>

\* GetStateTrieNodes: remember the root, return the set slices and error.
GetStateTrieNodes(root) ==
  /\ stateTrieNodesPassedRoot' = root
  /\ reply' = [val |-> stateTrieNodesReturnBytes, err |-> stateTrieNodesErr]
  /\ UNCHANGED <<errOf, returnBytes, passed, stateTrieNodesErr,
                 stateTrieNodesReturnBytes, panicked>>

\* Any call a test makes on the mock; after a panic the test is over.
Next ==
  /\ ~panicked
  /\ \/ \E k \in Kinds, q \in BoundedSeq(Bytes, MaxQueue) : SetReturnBytes(k, q)
     \/ \E q \in BoundedSeq(Bytes, MaxQueue) : SetStateTrieNodesReturnBytes(q)
     \/ \E k \in Kinds, e \in ErrValues : SetError(k, e)
     \/ \E e \in ErrValues : SetStateTrieNodesError(e)
     \/ \E k \in Kinds, n \in BlockNums : GetByNumber(k, n)
     \/ \E r \in Roots : GetStateTrieNodes(r)

\* AssertGet{BlockBody,BlockHeader}ByBlockNumberCalledWith: the test's
\* expectation on the recorded block numbers.
AssertCalledWith(k, blockNumbers) == passed[k] = blockNumbers

\* The mock's fields hold what the setters and getters put there; in
\* particular a queue never holds more slices than one setter call gave.
TypeOK ==
  /\ errOf \in [Kinds -> ErrValues]
  /\ returnBytes \in [Kinds -> BoundedSeq(Bytes, MaxQueue)]
  /\ passed \in [Kinds -> Seq(BlockNums)]
  /\ stateTrieNodesErr \in ErrValues
  /\ stateTrieNodesPassedRoot \in Roots \cup {NoRoot}
  /\ stateTrieNodesReturnBytes \in BoundedSeq(Bytes, MaxQueue)
  /\ reply \in [val : BoundedSeq(Bytes, MaxQueue), err : ErrValues]
  /\ panicked \in BOOLEAN
=============================================================================
