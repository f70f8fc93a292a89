--------------------- MODULE BlockTransactionsTransformer ---------------------
(***************************************************************************)
(* EthBlockTransactionsTransformer.Execute                                 *)
(* (pkg/transformers/eth_block_transactions.go): an inverted range is      *)
(* refused with ErrInvalidRange; otherwise, for each block number i of     *)
(* start..end, the block body is read from the chain database and written *)
(* to IPFS.  The first failure returns an ExecuteError naming the call.   *)
(* Body data is abstracted to the block number it belongs to.             *)
(***************************************************************************)
EXTENDS BlockNumbers, Sequences

CONSTANT Ranges   \* the <<start, end>> pairs Execute is called with

ASSUME Ranges \subseteq BlockNumber \X BlockNumber

VARIABLES
  start, end,   \* Execute's arguments
  i,            \* the loop counter
  pc,           \* where Execute is
  bodyFetches,  \* history: the block numbers passed to GetBlockBodyByBlockNumber
  published,    \* history: the blocks whose body publisher.Write accepted
  result        \* Pending until Execute returns Nil or an error

vars == <<start, end, i, pc, bodyFetches, published, result>>

\* ErrInvalidRange, and the messages ExecuteError carries: GetBlockRlpErr,
\* PutIpldErr.
Phase == {"invalidRange", "getBlockRlp", "putIpld"}

Err(phase) == [outcome |-> "error", phase |-> phase]
Nil == [outcome |-> "nil", phase |-> "none"]
Pending == [outcome |-> "pending", phase |-> "none"]

Error == [outcome : {"error"}, phase : Phase]

Return(r) == pc' = "done" /\ result' = r

Init ==
  /\ \E r \in Ranges : start = r[1] /\ end = r[2]
  /\ i = start
  /\ pc = "check"
  /\ bodyFetches = <<>>
  /\ published = <<>>
  /\ result = Pending

\* Mutant: the range check is missing.
CheckRangeDropped ==
  /\ pc = "check"
  /\ pc' = "loop"
  /\ UNCHANGED <<start, end, i, bodyFetches, published, result>>

\* Mutant: the range check also refuses a one-block range.
CheckRangeNotEmpty ==
  /\ pc = "check"
  /\ \/ end <= start /\ Return(Err("invalidRange"))
     \/ ~(end <= start) /\ pc' = "loop" /\ UNCHANGED result
  /\ UNCHANGED <<start, end, i, bodyFetches, published>>

\* if endingBlockNumber < startingBlockNumber { return ErrInvalidRange }
CheckRange ==
  /\ pc = "check"
  /\ \/ end < start /\ Return(Err("invalidRange"))
     \/ ~(end < start) /\ pc' = "loop" /\ UNCHANGED result
  /\ UNCHANGED <<start, end, i, bodyFetches, published>>

\* for i := startingBlockNumber; i <= endingBlockNumber; ...
EnterBlock ==
  /\ pc = "loop"
  /\ i <= end
  /\ pc' = "getBody"
  /\ UNCHANGED <<start, end, i, bodyFetches, published, result>>

\* The loop condition fails: return nil.
ReturnNil ==
  /\ pc = "loop"
  /\ ~(i <= end)
  /\ Return(Nil)
  /\ UNCHANGED <<start, end, i, bodyFetches, published>>

\* Mutant: the error is built but not returned; the body goes on.
GetBlockBodyMissingReturn ==
  /\ pc = "getBody"
  /\ bodyFetches' = Append(bodyFetches, i)
  /\ \/ result' = Err("getBlockRlp") /\ pc' = "write"
     \/ pc' = "write" /\ UNCHANGED result
  /\ UNCHANGED <<start, end, i, published>>

\* t.database.GetBlockBodyByBlockNumber(i).
GetBlockBodyByBlockNumber ==
  /\ pc = "getBody"
  /\ bodyFetches' = Append(bodyFetches, i)
  /\ \/ Return(Err("getBlockRlp"))
     \/ pc' = "write" /\ UNCHANGED result
  /\ UNCHANGED <<start, end, i, published>>

\* Mutant: the loop counter is advanced before the body is written.
PublisherWriteAfterIncrement ==
  /\ pc = "write"
  /\ \/ Return(Err("putIpld")) /\ UNCHANGED <<i, published>>
     \/ /\ published' = Append(published, Wrap(i + 1))
        /\ i' = Wrap(i + 1)
        /\ pc' = "loop"
        /\ UNCHANGED result
  /\ UNCHANGED <<start, end, bodyFetches>>

\* Mutant: a failed Write returns nil.
PublisherWriteReturnsNil ==
  /\ pc = "write"
  /\ \/ Return(Nil) /\ UNCHANGED <<i, published>>
     \/ /\ published' = Append(published, i)
        /\ i' = Wrap(i + 1)
        /\ pc' = "loop"
        /\ UNCHANGED result
  /\ UNCHANGED <<start, end, bodyFetches>>

\* t.publisher.Write(blockData), then (log and) i++.
PublisherWrite ==
  /\ pc = "write"
  /\ \/ Return(Err("putIpld")) /\ UNCHANGED <<i, published>>
     \/ /\ published' = Append(published, i)
        /\ i' = Wrap(i + 1)
        /\ pc' = "loop"
        /\ UNCHANGED result
  /\ UNCHANGED <<start, end, bodyFetches>>

Next ==
  \/ CheckRange
  \/ EnterBlock
  \/ ReturnNil
  \/ GetBlockBodyByBlockNumber
  \/ PublisherWrite

\* Execute runs on one goroutine and every collaborator call returns.
Spec == Init /\ [][Next]_vars /\ WF_vars(Next)

-----------------------------------------------------------------------------
(* Properties.                                                             *)

\* Also: Execute has returned exactly when it has a result.
TypeOK ==
  /\ start \in BlockNumber /\ end \in BlockNumber /\ i \in BlockNumber
  /\ pc \in {"check", "loop", "getBody", "write", "done"}
  /\ bodyFetches \in Seq(BlockNumber)
  /\ published \in Seq(BlockNumber)
  /\ result \in {Pending, Nil} \cup Error
  /\ (pc = "done") = (result /= Pending)

\* Spec 4.4 and 7: when end < start, Execute returns InvalidRangeError and
\* makes no fetch or publish call; a valid range is never refused.
InvalidRangeRejectedWithoutIO ==
  /\ (end < start /\ pc = "done") =>
       result = Err("invalidRange") /\ bodyFetches = <<>> /\ published = <<>>
  /\ result = Err("invalidRange") => end < start

\* Spec 7: bodies are fetched in increasing order from start, each once,
\* never past end; the published bodies are the fetched ones, in order,
\* all but the one in hand.
FetchPublishLockStep ==
  /\ \A k \in 1 .. Len(bodyFetches) :
       bodyFetches[k] = start + k - 1 /\ bodyFetches[k] <= end
  /\ Len(bodyFetches) - Len(published) \in {0, 1}
  /\ published = SubSeq(bodyFetches, 1, Len(published))

\* The call implements RangeExecution, ErrInvalidRange being its Reject.
AbstractStatus ==
  CASE pc /= "done"                -> "running"
    [] result = Nil                 -> "ok"
    [] result = Err("invalidRange") -> "rejected"
    [] OTHER                        -> "failed"

Abstract == INSTANCE RangeExecution WITH
  lo <- start, hi <- end, next <- i, status <- AbstractStatus

RefinesRangeExecution == Abstract!Spec
=============================================================================
