--------------------------- MODULE BlockTransformer ---------------------------
(***************************************************************************)
(* Transformer.Execute (pkg/transformer.go): for each block number i of   *)
(* start..end it asks the vulcanize block repository for the block, reads *)
(* the block's RLP from the chain database, and writes it to IPFS.  Each  *)
(* call is one step and may fail; the first failure returns an            *)
(* ExecuteError naming the call.  There is no range check.  Block data is *)
(* abstracted to the block number it belongs to.                          *)
(***************************************************************************)
EXTENDS BlockNumbers, Sequences

CONSTANT Ranges   \* the <<start, end>> pairs Execute is called with

ASSUME Ranges \subseteq BlockNumber \X BlockNumber

VARIABLES
  start, end,    \* Execute's arguments
  i,             \* the loop counter
  pc,            \* where Execute is
  blockFetches,  \* history: the block numbers passed to GetBlock
  published,     \* history: the blocks whose RLP Publisher.Write accepted
  result         \* Pending until Execute returns Nil or an error

vars == <<start, end, i, pc, blockFetches, published, result>>

\* The messages ExecuteError carries: GetVulcanizeBlockErr, GetBlockRlpErr,
\* PutIpldErr.
Phase == {"getVulcanizeBlock", "getBlockRlp", "putIpld"}

Err(phase) == [outcome |-> "error", phase |-> phase]
Nil == [outcome |-> "nil", phase |-> "none"]
Pending == [outcome |-> "pending", phase |-> "none"]

Error == [outcome : {"error"}, phase : Phase]

Return(r) == pc' = "done" /\ result' = r

Init ==
  /\ \E r \in Ranges : start = r[1] /\ end = r[2]
  /\ i = start
  /\ pc = "loop"
  /\ blockFetches = <<>>
  /\ published = <<>>
  /\ result = Pending

\* for i := startingBlockNumber; i <= endingBlockNumber; ...
EnterBlock ==
  /\ pc = "loop"
  /\ i <= end
  /\ pc' = "getBlock"
  /\ UNCHANGED <<start, end, i, blockFetches, published, result>>

\* The loop condition fails: return nil.
ReturnNil ==
  /\ pc = "loop"
  /\ ~(i <= end)
  /\ Return(Nil)
  /\ UNCHANGED <<start, end, i, blockFetches, published>>

\* Mutant: the error is built but not returned; the body goes on.
GetBlockMissingReturn ==
  /\ pc = "getBlock"
  /\ blockFetches' = Append(blockFetches, i)
  /\ \/ result' = Err("getVulcanizeBlock") /\ pc' = "get"
     \/ pc' = "get" /\ UNCHANGED result
  /\ UNCHANGED <<start, end, i, published>>

\* t.BlockRepository.GetBlock(i).
GetBlock ==
  /\ pc = "getBlock"
  /\ blockFetches' = Append(blockFetches, i)
  /\ \/ Return(Err("getVulcanizeBlock"))
     \/ pc' = "get" /\ UNCHANGED result
  /\ UNCHANGED <<start, end, i, published>>

\* t.Database.Get(block): the block's RLP.
DatabaseGet ==
  /\ pc = "get"
  /\ \/ Return(Err("getBlockRlp"))
     \/ pc' = "write" /\ UNCHANGED result
  /\ UNCHANGED <<start, end, i, blockFetches, published>>

\* Mutant: a failed Write is logged and the loop goes on.
PublisherWriteIgnoresError ==
  /\ pc = "write"
  /\ \/ UNCHANGED published
     \/ published' = Append(published, i)
  /\ i' = Wrap(i + 1)
  /\ pc' = "loop"
  /\ UNCHANGED <<start, end, blockFetches, result>>

\* Mutant: a failed Write returns nil.
PublisherWriteReturnsNil ==
  /\ pc = "write"
  /\ \/ Return(Nil) /\ UNCHANGED <<i, published>>
     \/ /\ published' = Append(published, i)
        /\ i' = Wrap(i + 1)
        /\ pc' = "loop"
        /\ UNCHANGED result
  /\ UNCHANGED <<start, end, blockFetches>>

\* t.Publisher.Write(blockData), then (log and) i++.
PublisherWrite ==
  /\ pc = "write"
  /\ \/ Return(Err("putIpld")) /\ UNCHANGED <<i, published>>
     \/ /\ published' = Append(published, i)
        /\ i' = Wrap(i + 1)
        /\ pc' = "loop"
        /\ UNCHANGED result
  /\ UNCHANGED <<start, end, blockFetches>>

Next ==
  \/ EnterBlock
  \/ ReturnNil
  \/ GetBlock
  \/ DatabaseGet
  \/ PublisherWrite

\* Execute runs on one goroutine and every collaborator call returns.
Spec == Init /\ [][Next]_vars /\ WF_vars(Next)

-----------------------------------------------------------------------------
(* Properties.                                                             *)

\* Also: Execute has returned exactly when it has a result.
TypeOK ==
  /\ start \in BlockNumber /\ end \in BlockNumber /\ i \in BlockNumber
  /\ pc \in {"loop", "getBlock", "get", "write", "done"}
  /\ blockFetches \in Seq(BlockNumber)
  /\ published \in Seq(BlockNumber)
  /\ result \in {Pending, Nil} \cup Error
  /\ (pc = "done") = (result /= Pending)

\* Spec 7: blocks are fetched in increasing order from start, each once,
\* never past end; every fetched block but the one in hand was published,
\* in the same order, so nothing past the first failure is touched.
FetchPublishLockStep ==
  /\ \A k \in 1 .. Len(blockFetches) :
       blockFetches[k] = start + k - 1 /\ blockFetches[k] <= end
  /\ Len(blockFetches) - Len(published) \in {0, 1}
  /\ published = SubSeq(blockFetches, 1, Len(published))

\* The loop implements RangeExecution.
AbstractStatus ==
  IF pc /= "done" THEN "running" ELSE IF result = Nil THEN "ok" ELSE "failed"

Abstract == INSTANCE RangeExecution WITH
  lo <- start, hi <- end, next <- i, status <- AbstractStatus

RefinesRangeExecution == Abstract!Spec
=============================================================================
