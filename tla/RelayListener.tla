---------------------------- MODULE RelayListener ----------------------------
(***************************************************************************)
(* RelayListener.Accept and Close (go-libp2p-circuit/listen.go).  The     *)
(* relay's stream handler (not in this repository) offers relayed         *)
(* connections on the unbuffered channel incoming; Accept takes one,      *)
(* writes the relay's SUCCESS response on its stream and returns it, or   *)
(* resets the stream and returns the error; Accept also returns when the  *)
(* relay's context is done.  Close does nothing.  The caller is a loop    *)
(* that calls Accept again after each return until it closes the         *)
(* listener.                                                              *)
(***************************************************************************)
CONSTANT Conns   \* relayed connections the relay handler may offer

VARIABLES
  conn,     \* conn[c]: where relayed connection c is
  accept,   \* the caller: "idle", "selecting" (blocked in Accept), "responding"
  cur,      \* the connection Accept is writing the response to
  ctxDone,  \* the relay's context is done
  closed    \* the caller has called Close

vars == <<conn, accept, cur, ctxDone, closed>>

ConnState == {"none", "offered", "taken", "returned", "reset"}
None == "none"

Init ==
  /\ conn = [c \in Conns |-> "none"]
  /\ accept = "idle"
  /\ cur = None
  /\ ctxDone = FALSE
  /\ closed = FALSE

\* The relay handler blocks in incoming <- c.
Offer(c) ==
  /\ conn[c] = "none"
  /\ ~ctxDone
  /\ conn' = [conn EXCEPT ![c] = "offered"]
  /\ UNCHANGED <<accept, cur, ctxDone, closed>>

\* The caller calls Accept, unless it has closed the listener.
CallAccept ==
  /\ accept = "idle"
  /\ ~closed
  /\ accept' = "selecting"
  /\ UNCHANGED <<conn, cur, ctxDone, closed>>

\* select case c := <-l.incoming.
TakeIncoming(c) ==
  /\ accept = "selecting"
  /\ conn[c] = "offered"
  /\ conn' = [conn EXCEPT ![c] = "taken"]
  /\ accept' = "responding"
  /\ cur' = c
  /\ UNCHANGED <<ctxDone, closed>>

\* Mutant: a failed response is returned without resetting the stream.
WriteResponseNoReset ==
  /\ accept = "responding"
  /\ \/ conn' = [conn EXCEPT ![cur] = "returned"]
     \/ UNCHANGED conn
  /\ accept' = "idle"
  /\ cur' = None
  /\ UNCHANGED <<ctxDone, closed>>

\* writeResponse(c.Stream, SUCCESS): on error c.Stream.Reset() and return
\* the error, otherwise return c.
WriteResponse ==
  /\ accept = "responding"
  /\ \/ conn' = [conn EXCEPT ![cur] = "returned"]
     \/ conn' = [conn EXCEPT ![cur] = "reset"]
  /\ accept' = "idle"
  /\ cur' = None
  /\ UNCHANGED <<ctxDone, closed>>

\* Mutant: Accept receives from incoming alone.
AcceptCtxDoneMissing == FALSE

\* select case <-l.ctx.Done(): return nil, l.ctx.Err().
AcceptCtxDone ==
  /\ accept = "selecting"
  /\ ctxDone
  /\ accept' = "idle"
  /\ UNCHANGED <<conn, cur, ctxDone, closed>>

\* The relay's context is cancelled.
Cancel ==
  /\ ~ctxDone
  /\ ctxDone' = TRUE
  /\ UNCHANGED <<conn, accept, cur, closed>>

\* RelayListener.Close: returns nil and changes nothing in the relay.
Close ==
  /\ ~closed
  /\ closed' = TRUE
  /\ UNCHANGED <<conn, accept, cur, ctxDone>>

\* The steps of Accept itself.
Accepting == (\E c \in Conns : TakeIncoming(c)) \/ WriteResponse \/ AcceptCtxDone

Next ==
  \/ \E c \in Conns : Offer(c)
  \/ CallAccept
  \/ Accepting
  \/ Cancel
  \/ Close

\* Accept is scheduled while it can run; relayed connections, calls,
\* cancellation and Close come from outside.
Spec == Init /\ [][Next]_vars /\ WF_vars(Accepting)

-----------------------------------------------------------------------------
(* Properties.                                                             *)

\* Also: exactly the connection in cur is taken, while Accept responds.
TypeOK ==
  /\ conn \in [Conns -> ConnState]
  /\ accept \in {"idle", "selecting", "responding"}
  /\ cur \in Conns \cup {None}
  /\ ctxDone \in BOOLEAN /\ closed \in BOOLEAN
  /\ \A c \in Conns : (conn[c] = "taken") = (accept = "responding" /\ cur = c)

\* Once the relay's context is done, a blocked Accept returns.
CancelUnblocksAccept == ctxDone ~> (accept /= "selecting")

\* net.Listener's contract, which manet.Listener keeps: Close makes a
\* blocked Accept return.
CloseUnblocksAccept == closed ~> (accept /= "selecting")
=============================================================================
