------------------------- MODULE MockedTransactions -------------------------
(***************************************************************************)
(* A unit test of EthBlockTransactionsTransformer with MockDatabase as    *)
(* its chain database: the test first calls the mock's setters (and, as   *)
(* its own checks, the mock's other getters) a few times, then calls      *)
(* Execute once on one goroutine.  Every GetBlockBodyByBlockNumber the    *)
(* transformer makes is the mock's: a set error fails the call, a queued  *)
(* slice is published, and an exhausted queue panics.                     *)
(***************************************************************************)
EXTENDS BlockNumbers, Sequences, SequencesExt

CONSTANTS Ranges, Bytes, Roots, MaxQueue, MaxSetupCalls

VARIABLES
  start, end, i, pc, bodyFetches, published, result,
  errOf, returnBytes, passed, stateTrieNodesErr, stateTrieNodesPassedRoot,
  stateTrieNodesReturnBytes, reply, panicked,
  phase,        \* "setup" while the test configures the mock, then "execute"
  setupCalls,   \* mock calls the test has made before Execute
  queued,       \* history: the body queue when Execute was called
  written       \* history: the body slices passed to publisher.Write

txVars == <<start, end, i, pc, bodyFetches, published, result>>
dbVars == <<errOf, returnBytes, passed, stateTrieNodesErr, stateTrieNodesPassedRoot,
            stateTrieNodesReturnBytes, reply, panicked>>
Mock == INSTANCE MockDatabase WITH BlockNums <- BlockNumber
Tx == INSTANCE BlockTransactionsTransformer
vars == <<txVars, dbVars, phase, setupCalls, queued, written>>

Init ==
  /\ Tx!Init /\ Mock!Init
  /\ phase = "setup" /\ setupCalls = 0
  /\ queued = <<>> /\ written = <<>>

\* The test calls the mock's setters, or its header and state trie getters,
\* before Execute; the body getter is left to the transformer.
Setup ==
  /\ phase = "setup" /\ setupCalls < MaxSetupCalls
  /\ Mock!Next /\ passed'["body"] = passed["body"]
  /\ setupCalls' = setupCalls + 1
  /\ UNCHANGED <<txVars, phase, queued, written>>

CallExecute ==
  /\ phase = "setup"
  /\ phase' = "execute"
  /\ queued' = returnBytes["body"]
  /\ UNCHANGED <<txVars, dbVars, setupCalls, written>>

\* t.database.GetBlockBodyByBlockNumber(i) answered by the mock; on a
\* panic the test dies with Execute still in the call.
FetchBody ==
  /\ phase = "execute" /\ pc = "getBody"
  /\ Mock!GetByNumber("body", i)
  /\ \/ panicked' /\ UNCHANGED txVars
     \/ ~panicked' /\ Tx!GetBlockBodyByBlockNumber
        /\ (pc' = "done") = (reply'.err /= "nil")
  /\ UNCHANGED <<phase, setupCalls, queued, written>>

\* publisher.Write(blockData) with the slice the mock served.
WriteBody ==
  /\ phase = "execute"
  /\ Tx!PublisherWrite
  /\ written' = IF pc' = "loop" THEN written \o reply.val ELSE written
  /\ UNCHANGED <<dbVars, phase, setupCalls, queued>>

\* Execute's other steps touch neither the mock nor the publisher.
TxOther ==
  /\ phase = "execute"
  /\ Tx!CheckRange \/ Tx!EnterBlock \/ Tx!ReturnNil
  /\ UNCHANGED <<dbVars, phase, setupCalls, queued, written>>

\* A panic ends the test.
Next == ~panicked /\ (Setup \/ CallExecute \/ FetchBody \/ WriteBody \/ TxOther)

-----------------------------------------------------------------------------
\* Blocks start..end as the sequence a test passes to AssertCalledWith.
Blocks(lo, hi) == [k \in 1 .. hi - lo + 1 |-> lo + k - 1]

\* Execute publishes, in block order, exactly the slices the test queued,
\* one per block: none is skipped, repeated or served to the wrong block.
WrittenBodiesAreQueuedInOrder == IsPrefix(written, queued)

\* Once Execute is called, the mock panics (index out of range) only on
\* the first block past the bodies the test queued, with no error set;
\* and Execute returns nil only if the test queued a body per block.
PanicsOnlyPastQueue ==
  /\ (phase = "execute" /\ panicked) =>
       i - start = Len(queued) /\ errOf["body"] = "nil" /\ pc = "getBody"
  /\ result = Tx!Nil => Len(queued) >= end - start + 1

\* After Execute returns, AssertGetBlockBodyByBlockNumberCalledWith holds
\* for start..end on success and start..i when the body read failed.
BodyCallsAssertable ==
  /\ result = Tx!Nil => Mock!AssertCalledWith("body", Blocks(start, end))
  /\ result = Tx!Err("getBlockRlp") => Mock!AssertCalledWith("body", Blocks(start, i))
=============================================================================
