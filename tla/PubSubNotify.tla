---------------------------- MODULE PubSubNotify ----------------------------
(***************************************************************************)
(* PubSubNotif.Connected (go-libp2p-floodsub/notify.go).  For every new   *)
(* connection the swarm reports, a goroutine opens a pubsub stream to the *)
(* peer and then either hands it to the pubsub process loop over the      *)
(* unbuffered channel newPeers or, once the pubsub context is done,       *)
(* resets it.  The process loop (not in this repository) is modelled as   *)
(* a receiver on newPeers that returns when the context is done.          *)
(***************************************************************************)
CONSTANT Conns   \* the connections the swarm reports

VARIABLES
  g,        \* g[c]: the goroutine Connected(c) started
  stream,   \* stream[c]: the pubsub stream it opened
  ctxDone,  \* p.ctx is cancelled
  loop      \* the pubsub process loop: "running" or "exited"

vars == <<g, stream, ctxDone, loop>>

GoroutineState == {"none", "newStream", "select", "exited"}
StreamState == {"none", "open", "delivered", "reset"}

Init ==
  /\ g = [c \in Conns |-> "none"]
  /\ stream = [c \in Conns |-> "none"]
  /\ ctxDone = FALSE
  /\ loop = "running"

\* The swarm calls Connected(c): go func() { ... }().
Connected(c) ==
  /\ g[c] = "none"
  /\ g' = [g EXCEPT ![c] = "newStream"]
  /\ UNCHANGED <<stream, ctxDone, loop>>

\* Mutant: the NewStream error is logged and the goroutine goes on.
NewStreamMissingReturn(c) ==
  /\ g[c] = "newStream"
  /\ \/ g' = [g EXCEPT ![c] = "select"] /\ UNCHANGED stream
     \/ /\ g' = [g EXCEPT ![c] = "select"]
        /\ stream' = [stream EXCEPT ![c] = "open"]
  /\ UNCHANGED <<ctxDone, loop>>

\* p.host.NewStream(p.ctx, ...): on error the goroutine logs and returns.
NewStream(c) ==
  /\ g[c] = "newStream"
  /\ \/ g' = [g EXCEPT ![c] = "exited"] /\ UNCHANGED stream
     \/ /\ g' = [g EXCEPT ![c] = "select"]
        /\ stream' = [stream EXCEPT ![c] = "open"]
  /\ UNCHANGED <<ctxDone, loop>>

\* select case p.newPeers <- s: the process loop takes the stream.
HandOff(c) ==
  /\ g[c] = "select"
  /\ loop = "running"
  /\ g' = [g EXCEPT ![c] = "exited"]
  /\ stream' = [stream EXCEPT ![c] = "delivered"]
  /\ UNCHANGED <<ctxDone, loop>>

\* Mutant: the goroutine only sends, with no context case.
ResetOnDoneMissing(c) == FALSE

\* select case <-p.ctx.Done(): s.Reset().
ResetOnDone(c) ==
  /\ g[c] = "select"
  /\ ctxDone
  /\ g' = [g EXCEPT ![c] = "exited"]
  /\ stream' = [stream EXCEPT ![c] = "reset"]
  /\ UNCHANGED <<ctxDone, loop>>

\* The pubsub context is cancelled.
Cancel ==
  /\ ~ctxDone
  /\ ctxDone' = TRUE
  /\ UNCHANGED <<g, stream, loop>>

\* The process loop takes its ctx.Done() case and returns.
LoopExit ==
  /\ loop = "running"
  /\ ctxDone
  /\ loop' = "exited"
  /\ UNCHANGED <<g, stream, ctxDone>>

Goroutine(c) == NewStream(c) \/ HandOff(c) \/ ResetOnDone(c)

Next ==
  \/ \E c \in Conns : Connected(c) \/ Goroutine(c)
  \/ Cancel
  \/ LoopExit

\* Every goroutine is scheduled while it can run, and the process loop
\* keeps selecting; connections and cancellation come from outside.
Spec ==
  /\ Init /\ [][Next]_vars
  /\ \A c \in Conns : WF_vars(Goroutine(c))
  /\ WF_vars(LoopExit)

-----------------------------------------------------------------------------
(* Properties.                                                             *)

\* Also: a goroutine holds an open stream exactly while it is in select.
TypeOK ==
  /\ g \in [Conns -> GoroutineState]
  /\ stream \in [Conns -> StreamState]
  /\ ctxDone \in BOOLEAN
  /\ loop \in {"running", "exited"}
  /\ \A c \in Conns : (g[c] = "select") = (stream[c] = "open")

\* Every stream a Connected goroutine opens is eventually handed to the
\* process loop or reset: no goroutine is left blocked on newPeers holding
\* a stream after pubsub has shut down.
StreamsSettle ==
  \A c \in Conns : (stream[c] = "open") ~> (stream[c] \in {"delivered", "reset"})
=============================================================================
