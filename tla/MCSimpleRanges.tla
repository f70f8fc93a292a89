---------------------------- MODULE MCSimpleRanges ----------------------------
(***************************************************************************)
(* The block RLP transformer (pkg/transformer.go), the block transactions *)
(* transformer (eth_block_transactions.go), and a unit test running the   *)
(* latter against test_helpers.MockDatabase.  They share nothing.  One is *)
(* explored over all its inputs per behaviour (focus); the two            *)
(* transformers out of focus run on a fixed inverted range, and the unit  *)
(* test out of focus is never started, so the state spaces nearly add.    *)
(***************************************************************************)
EXTENDS BlockNumbers

CONSTANTS b1, b2, root1

VARIABLES
  focus,
  rStart, rEnd, rI, rPc, rFetches, rPublished, rResult,
  tStart, tEnd, tI, tPc, tFetches, tPublished, tResult,
  sStart, sEnd, sI, sPc, sFetches, sPublished, sResult,
  mErrOf, mReturnBytes, mPassed, mTrieErr, mTrieRoot, mTrieBytes, mReply,
  mPanicked, mPhase, mSetupCalls, mQueued, mWritten

rlpVars == <<rStart, rEnd, rI, rPc, rFetches, rPublished, rResult>>
txVars == <<tStart, tEnd, tI, tPc, tFetches, tPublished, tResult>>
mockVars == <<sStart, sEnd, sI, sPc, sFetches, sPublished, sResult, mErrOf, mReturnBytes, mPassed, mTrieErr, mTrieRoot, mTrieBytes,
              mReply, mPanicked, mPhase, mSetupCalls, mQueued, mWritten>>
vars == <<focus, rlpVars, txVars, mockVars>>

\* Ranges of up to three blocks, empty and inverted ones included, that
\* stop short of the largest block number.
MCRanges == {r \in BlockNumber \X BlockNumber : r[2] < MaxInt /\ r[2] - r[1] \in -2 .. 2}

\* The unit test's ranges: inverted, and one to three blocks.
MockRanges == {<<0, -1>>, <<0, 0>>, <<0, 1>>, <<0, 2>>}

Rlp == INSTANCE BlockTransformer WITH
  Ranges <- MCRanges, start <- rStart, end <- rEnd, i <- rI, pc <- rPc,
  blockFetches <- rFetches, published <- rPublished, result <- rResult

Tx == INSTANCE BlockTransactionsTransformer WITH
  Ranges <- MCRanges, start <- tStart, end <- tEnd, i <- tI, pc <- tPc,
  bodyFetches <- tFetches, published <- tPublished, result <- tResult

Test == INSTANCE MockedTransactions WITH
  Ranges <- MockRanges, Bytes <- {b1, b2}, Roots <- {root1}, MaxQueue <- 2,
  MaxSetupCalls <- 2,
  start <- sStart, end <- sEnd, i <- sI, pc <- sPc,
  bodyFetches <- sFetches, published <- sPublished, result <- sResult,
  errOf <- mErrOf, returnBytes <- mReturnBytes, passed <- mPassed,
  stateTrieNodesErr <- mTrieErr, stateTrieNodesPassedRoot <- mTrieRoot,
  stateTrieNodesReturnBytes <- mTrieBytes, reply <- mReply,
  panicked <- mPanicked, phase <- mPhase, setupCalls <- mSetupCalls,
  queued <- mQueued, written <- mWritten

RlpStep == Rlp!Next /\ UNCHANGED <<focus, txVars, mockVars>>
TxStep == Tx!Next /\ UNCHANGED <<focus, rlpVars, mockVars>>
TestStep == focus = "mock" /\ Test!Next /\ UNCHANGED <<focus, rlpVars, txVars>>

\* A transformer out of focus is called on the inverted range 0..-1.
Init ==
  /\ focus \in {"rlp", "tx", "mock"}
  /\ Rlp!Init /\ (focus /= "rlp" => rStart = 0 /\ rEnd = -1)
  /\ Tx!Init /\ (focus /= "tx" => tStart = 0 /\ tEnd = -1)
  /\ Test!Init /\ (focus /= "mock" => sStart = 0 /\ sEnd = -1)

\* Execute runs on one goroutine and every collaborator call returns; the
\* unit test is not assumed to finish (the mock may panic).
Spec ==
  /\ Init
  /\ [][RlpStep \/ TxStep \/ TestStep]_vars
  /\ WF_vars(RlpStep) /\ WF_vars(TxStep)

RlpTypeOK == Rlp!TypeOK
RlpFetchPublishLockStep == Rlp!FetchPublishLockStep
RlpRefinesRangeExecution == Rlp!RefinesRangeExecution
TxTypeOK == Tx!TypeOK
TxInvalidRangeRejectedWithoutIO == Tx!InvalidRangeRejectedWithoutIO
TxFetchPublishLockStep == Tx!FetchPublishLockStep
TxRefinesRangeExecution == Tx!RefinesRangeExecution
MockTypeOK == Test!Mock!TypeOK
WrittenBodiesAreQueuedInOrder == Test!WrittenBodiesAreQueuedInOrder
PanicsOnlyPastQueue == Test!PanicsOnlyPastQueue
BodyCallsAssertable == Test!BodyCallsAssertable
=============================================================================
