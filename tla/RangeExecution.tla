--------------------------- MODULE RangeExecution ---------------------------
(***************************************************************************)
(* What every range transformer promises (spec 4.4, 7): the blocks lo..hi *)
(* are completed one at a time in ascending order, none skipped and none  *)
(* repeated; the first failure ends the call; nothing else does.  An      *)
(* inverted range may be rejected before any block is attempted.  Block    *)
(* numbers here are mathematical integers: next never wraps.               *)
(***************************************************************************)
EXTENDS Integers

VARIABLES
  lo, hi,   \* the range passed to Execute
  next,     \* the lowest block not yet completed
  status    \* "running", "ok", "failed" or "rejected"

vars == <<lo, hi, next, status>>

CONSTANT Ranges   \* the <<start, end>> pairs Execute may be called with

Init ==
  /\ \E r \in Ranges : lo = r[1] /\ hi = r[2]
  /\ next = lo
  /\ status = "running"

\* One block is completed: all its artifacts fetched, transformed, published.
Complete ==
  /\ status = "running"
  /\ next <= hi
  /\ next' = next + 1
  /\ UNCHANGED <<lo, hi, status>>

\* Some call made while working on block next fails; the call returns.
Fail ==
  /\ status = "running"
  /\ next <= hi
  /\ status' = "failed"
  /\ UNCHANGED <<lo, hi, next>>

\* The range is exhausted and Execute returns nil.
Finish ==
  /\ status = "running"
  /\ next > hi
  /\ status' = "ok"
  /\ UNCHANGED <<lo, hi, next>>

\* An inverted range is refused with InvalidRangeError before any I/O.
Reject ==
  /\ status = "running"
  /\ hi < lo
  /\ status' = "rejected"
  /\ UNCHANGED <<lo, hi, next>>

Next == Complete \/ Fail \/ Finish \/ Reject

Spec == Init /\ [][Next]_vars /\ WF_vars(Next)
=============================================================================
