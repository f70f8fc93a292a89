---------------------------- MODULE BodyDecomposer ----------------------------
(***************************************************************************)
(* The body decomposer (the block transactions DAG putter), whose source  *)
(* is not in the repository; only its test (dag_putter_test.go) is.      *)
(* DagPut decodes the raw body (the decoder's error is returned), then     *)
(* adds one EthTransactionNode per transaction, in order, through the     *)
(* adder; the first failing Add aborts with its error.  The test expects  *)
(* exactly two Adds, both transaction nodes, for a body of two            *)
(* transactions, so no parent node goes through the adder -- where spec   *)
(* 4.3 also publishes a parent.  A body is its number of transactions.    *)
(***************************************************************************)
EXTENDS Naturals, Sequences, SequencesExt

CONSTANT MaxTxs   \* most transactions in a body

VARIABLES
  pc,         \* where DagPut is
  txs,        \* the number of transactions the body decodes to
  j,          \* transaction nodes added so far
  added,      \* history: the nodes the adder accepted, in order
  result      \* "pending", "ok", "decodeError" or "publishError"

vars == <<pc, txs, j, added, result>>

TxNode(n) == [kind |-> "tx", index |-> n]

Return(r) == pc' = "done" /\ result' = r

Init ==
  /\ pc = "decode"
  /\ txs \in 0 .. MaxTxs
  /\ j = 0
  /\ added = <<>>
  /\ result = "pending"

\* Decoder.Decode(raw, &types.Body{}).
Decode ==
  /\ pc = "decode"
  /\ \/ Return("decodeError")
     \/ pc' = "addTxs" /\ UNCHANGED result
  /\ UNCHANGED <<txs, j, added>>

\* Mutant: the transaction loop runs while j <= len(transactions).
AddTransactionNodeInclusive ==
  /\ pc = "addTxs"
  /\ j <= txs
  /\ \/ Return("publishError") /\ UNCHANGED <<j, added>>
     \/ /\ added' = Append(added, TxNode(j + 1))
        /\ j' = j + 1
        /\ UNCHANGED <<pc, result>>
  /\ UNCHANGED txs

\* adder.Add(EthTransactionNode) for transaction j + 1.
AddTransactionNode ==
  /\ pc = "addTxs"
  /\ j < txs
  /\ \/ Return("publishError") /\ UNCHANGED <<j, added>>
     \/ /\ added' = Append(added, TxNode(j + 1))
        /\ j' = j + 1
        /\ UNCHANGED <<pc, result>>
  /\ UNCHANGED txs

\* Every transaction node is in: DagPut returns their CIDs and no error.
ReturnNodes ==
  /\ pc = "addTxs"
  /\ j = txs
  /\ Return("ok")
  /\ UNCHANGED <<txs, j, added>>

Next == Decode \/ AddTransactionNode \/ ReturnNodes

Spec == Init /\ [][Next]_vars

-----------------------------------------------------------------------------
(* Properties.                                                             *)

\* The nodes a body with txs transactions is published as: one per
\* transaction, in order.
Expected == [n \in 1 .. txs |-> TxNode(n)]

\* The adder only ever takes the body's transaction nodes, in order; when
\* DagPut returns no error it took all k of them and nothing else (the
\* test's AssertAddCalled(2, &EthTransactionNode{}) for k = 2); a decode
\* failure adds nothing; a failed Add is returned as the error with fewer
\* than k nodes added.
DecomposePublishesBody ==
  /\ IsPrefix(added, Expected)
  /\ result = "ok" => added = Expected
  /\ result = "decodeError" => added = <<>>
  /\ result = "publishError" => Len(added) < txs
=============================================================================
