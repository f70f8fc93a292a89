------------------------------ MODULE Upgrader ------------------------------
(***************************************************************************)
(* One connection through the libp2p transport upgrader                   *)
(* (go-libp2p-transport-upgrader/upgrader.go), dialled by the websocket   *)
(* transport (go-ws-transport/websocket.go Dial) or handed in by a        *)
(* listener (UpgradeInbound).  upgrade runs the address filter, the       *)
(* private-network protector, the security handshake and then setupMuxer, *)
(* which starts a goroutine for Muxer.NewConn and selects between its     *)
(* completion and the caller's context.  The context may be cancelled at  *)
(* any time.  The properties are about who owns the raw connection when   *)
(* the call returns.                                                      *)
(***************************************************************************)
EXTENDS Naturals

CONSTANTS
  Peers,                 \* peer IDs an outbound dial may be given ("" is none)
  ForcePrivateNetworks   \* values pnet.ForcePrivateNetwork may have

VARIABLES
  dir,        \* "outbound" (websocket Dial) or "inbound" (UpgradeInbound)
  p,          \* the peer ID passed down ("" for inbound)
  filter,     \* u.Filters: "nil", or whether it blocks the remote address
  protector,  \* u.Protector /= nil
  forcePnet,  \* pnet.ForcePrivateNetwork
  pc,         \* where the upgrading goroutine is
  raw,        \* the manet.Conn: "none" (not dialled yet), "open", "closed"
  secure,     \* u.Secure: "insecure" (insecure.Transport) or "secio"
  secured,    \* setupSecurity returned a secured connection
  remote,     \* the secured connection's RemotePeer()
  ctxDone,    \* the caller's context is cancelled
  mux,        \* the NewConn goroutine: "none", "running", "done"
  muxOut,     \* what NewConn produced: "none", "conn", "err"
  result      \* "pending", "conn" (a transportConn), or the error returned

vars == <<dir, p, filter, protector, forcePnet, pc, raw, secure, secured, remote, ctxDone,
          mux, muxOut, result>>

Errors == {"maDial", "nilPeer", "blocked", "protect", "notInPrivateNetwork",
           "security", "muxer", "ctx"}

Return(r) == pc' = "done" /\ result' = r

\* The error paths of upgrade that call conn.Close() before returning.
CloseAndReturn(r) == raw' = "closed" /\ Return(r)

Init ==
  /\ \/ dir = "outbound" /\ p \in Peers /\ raw = "none" /\ pc = "dial"
     \/ dir = "inbound" /\ p = "" /\ raw = "open" /\ pc = "filter"
  /\ filter \in {"nil", "pass", "block"}
  /\ protector \in BOOLEAN
  /\ forcePnet \in ForcePrivateNetworks
  /\ secure \in {"insecure", "secio"}
  /\ secured = FALSE
  /\ remote = ""
  /\ ctxDone = FALSE
  /\ mux = "none"
  /\ muxOut = "none"
  /\ result = "pending"

\* WebsocketTransport.maDial: a failed dial leaves nothing open.
MaDial ==
  /\ pc = "dial"
  /\ \/ Return("maDial") /\ UNCHANGED raw
     \/ raw' = "open" /\ pc' = "upgradeOutbound" /\ UNCHANGED result
  /\ UNCHANGED <<dir, p, filter, protector, forcePnet, secure, secured, remote, ctxDone, mux, muxOut>>

\* UpgradeOutbound: a dial without a peer ID is refused.
UpgradeOutbound ==
  /\ pc = "upgradeOutbound"
  /\ \/ p = "" /\ Return("nilPeer")
     \/ p /= "" /\ pc' = "filter" /\ UNCHANGED result
  /\ UNCHANGED <<dir, p, filter, protector, forcePnet, secure, raw, secured, remote, ctxDone, mux, muxOut>>

\* upgrade: a remote address the filters block is closed and refused.
Filter ==
  /\ pc = "filter"
  /\ \/ filter = "block" /\ CloseAndReturn("blocked")
     \/ filter /= "block" /\ pc' = "protect" /\ UNCHANGED <<raw, result>>
  /\ UNCHANGED <<dir, p, filter, protector, forcePnet, secure, secured, remote, ctxDone, mux, muxOut>>

\* Mutant: the ForcePrivateNetwork branch is missing.
ProtectIgnoresForce ==
  /\ pc = "protect"
  /\ \/ protector /\ CloseAndReturn("protect")
     \/ pc' = "security" /\ UNCHANGED <<raw, result>>
  /\ UNCHANGED <<dir, p, filter, protector, forcePnet, secure, secured, remote, ctxDone, mux, muxOut>>

\* upgrade: Protector.Protect, which may fail, or, with no protector,
\* the ForcePrivateNetwork refusal (which does not close the connection).
Protect ==
  /\ pc = "protect"
  /\ \/ protector /\ CloseAndReturn("protect")
     \/ protector /\ pc' = "security" /\ UNCHANGED <<raw, result>>
     \/ ~protector /\ forcePnet /\ Return("notInPrivateNetwork") /\ UNCHANGED raw
     \/ ~protector /\ ~forcePnet /\ pc' = "security" /\ UNCHANGED <<raw, result>>
  /\ UNCHANGED <<dir, p, filter, protector, forcePnet, secure, secured, remote, ctxDone, mux, muxOut>>

\* The RemotePeer a successful handshake reports.  setupSecurity calls
\* SecureOutbound(conn, p) when it has a peer and SecureInbound(conn) when
\* p is "".  insecure.Transport records the peer dialled, or none ("") for
\* an accepted connection; a secure transport (secio, not in the
\* repository) authenticates the dialled peer, or learns the remote's.
HandshakeRemotes ==
  IF p /= "" THEN {p}
  ELSE IF secure = "insecure" THEN {""} ELSE Peers \ {""}

\* Mutant: setupSecurity always calls SecureInbound.
SetupSecurityAlwaysInbound ==
  /\ pc = "security"
  /\ \/ secure /= "insecure" /\ CloseAndReturn("security") /\ UNCHANGED <<secured, remote>>
     \/ /\ secured' = TRUE /\ pc' = "muxer" /\ UNCHANGED <<raw, result>>
        /\ remote' \in IF secure = "insecure" THEN {""} ELSE Peers \ {""}
  /\ UNCHANGED <<dir, p, filter, protector, forcePnet, secure, ctxDone, mux, muxOut>>

\* Mutant: the security error closes the connection but is not returned.
SetupSecurityMissingReturn ==
  /\ pc = "security"
  /\ \/ secure /= "insecure" /\ raw' = "closed" /\ result' = "security" /\ pc' = "muxer"
        /\ UNCHANGED <<secured, remote>>
     \/ secured' = TRUE /\ remote' \in HandshakeRemotes /\ pc' = "muxer" /\ UNCHANGED <<raw, result>>
  /\ UNCHANGED <<dir, p, filter, protector, forcePnet, secure, ctxDone, mux, muxOut>>

\* setupSecurity: the handshake takes the context; a secure transport's may
\* fail, and a failure closes the connection.  The insecure transport's
\* never fails.
SetupSecurity ==
  /\ pc = "security"
  /\ \/ secure /= "insecure" /\ CloseAndReturn("security") /\ UNCHANGED <<secured, remote>>
     \/ secured' = TRUE /\ remote' \in HandshakeRemotes /\ pc' = "muxer" /\ UNCHANGED <<raw, result>>
  /\ UNCHANGED <<dir, p, filter, protector, forcePnet, secure, ctxDone, mux, muxOut>>

\* setupMuxer: go func() { defer close(done); smconn, err = NewConn(...) }.
SpawnMuxer ==
  /\ pc = "muxer"
  /\ mux' = "running"
  /\ pc' = "select"
  /\ UNCHANGED <<dir, p, filter, protector, forcePnet, secure, raw, secured, remote, ctxDone, muxOut, result>>

\* The goroutine: Muxer.NewConn returns, then close(done).  NewConn takes
\* no context and may never return.
MuxerNewConn ==
  /\ mux = "running"
  /\ mux' = "done"
  /\ muxOut' \in {"conn", "err"}
  /\ UNCHANGED <<dir, p, filter, protector, forcePnet, secure, pc, raw, secured, remote, ctxDone, result>>

\* The caller cancels its context.
Cancel ==
  /\ ~ctxDone
  /\ pc /= "done"
  /\ ctxDone' = TRUE
  /\ UNCHANGED <<dir, p, filter, protector, forcePnet, secure, pc, raw, secured, remote, mux, muxOut, result>>

\* select case <-done: NewConn's result; an error closes the connection
\* (upgrade's conn.Close()), success returns the transportConn.
SelectDone ==
  /\ pc = "select"
  /\ mux = "done"
  /\ \/ muxOut = "conn" /\ Return("conn") /\ UNCHANGED raw
     \/ muxOut = "err" /\ CloseAndReturn("muxer")
  /\ UNCHANGED <<dir, p, filter, protector, forcePnet, secure, secured, remote, ctxDone, mux, muxOut>>

\* Mutant: setupMuxer waits on done alone, with no context case.
SelectCtxMissing == FALSE

\* Mutant: the context branch returns without upgrade closing the conn.
SelectCtxNoClose ==
  /\ pc = "select"
  /\ ctxDone
  /\ Return("ctx")
  /\ UNCHANGED <<dir, p, filter, protector, forcePnet, secure, raw, secured, remote, ctxDone, mux, muxOut>>

\* select case <-ctx.Done(): ctx.Err(), and upgrade closes the connection;
\* the NewConn goroutine is left to finish on its own.
SelectCtx ==
  /\ pc = "select"
  /\ ctxDone
  /\ CloseAndReturn("ctx")
  /\ UNCHANGED <<dir, p, filter, protector, forcePnet, secure, secured, remote, ctxDone, mux, muxOut>>

\* The steps of the goroutine that called Dial or UpgradeInbound.
Upgrading ==
  MaDial \/ UpgradeOutbound \/ Filter \/ Protect \/ SetupSecurity \/ SpawnMuxer
    \/ SelectDone \/ SelectCtx

Next == Upgrading \/ MuxerNewConn \/ Cancel

\* The upgrading goroutine is scheduled while it can run; NewConn and the
\* caller's cancellation are not assumed to ever happen.
Spec == Init /\ [][Next]_vars /\ WF_vars(Upgrading)

-----------------------------------------------------------------------------
(* Properties.                                                             *)

\* Also: the call has returned exactly when it has a result.
TypeOK ==
  /\ dir \in {"outbound", "inbound"}
  /\ p \in Peers \cup {""}
  /\ filter \in {"nil", "pass", "block"}
  /\ protector \in BOOLEAN /\ forcePnet \in BOOLEAN
  /\ pc \in {"dial", "upgradeOutbound", "filter", "protect", "security",
             "muxer", "select", "done"}
  /\ raw \in {"none", "open", "closed"}
  /\ secure \in {"insecure", "secio"} /\ remote \in Peers \cup {""}
  /\ secured \in BOOLEAN /\ ctxDone \in BOOLEAN
  /\ mux \in {"none", "running", "done"}
  /\ muxOut \in {"none", "conn", "err"}
  /\ result \in {"pending", "conn"} \cup Errors
  /\ (pc = "done") = (result /= "pending")

\* The returns found to leave the raw connection open (see the findings).
LeakingReturns == {"nilPeer", "notInPrivateNetwork"}

\* Once the call has returned, the raw connection it was handed, or dialled,
\* is open exactly when it lives on inside the returned transportConn: a
\* failed upgrade never leaves a socket nobody will close.
ConnReleasedOnReturn ==
  (pc = "done" /\ raw /= "none") => ((result = "conn") = (raw = "open"))

\* The same, for every return but the two that leak.
ConnReleasedOnOtherReturns ==
  (pc = "done" /\ raw /= "none" /\ result \notin LeakingReturns) =>
    ((result = "conn") = (raw = "open"))

\* A connection upgrade returns passed the filter, was protected when
\* private networks are forced, is secured, and carries the muxed
\* connection NewConn produced; a dialled one is secured as the peer
\* dialled, and only a connection accepted over the insecure transport
\* has no remote peer.
ReturnedConnMeetsPolicy ==
  result = "conn" =>
    /\ filter /= "block"
    /\ forcePnet => protector
    /\ secured
    /\ dir = "outbound" => remote = p
    /\ remote = "" => dir = "inbound" /\ secure = "insecure"
    /\ muxOut = "conn"
    /\ raw = "open"

\* Cancelling the context makes the upgrade return, even when NewConn,
\* which takes no context, never does (the select in setupMuxer).
CancelUnblocksUpgrade == ctxDone ~> (pc = "done")
=============================================================================
