------------------------------ MODULE MCNetwork ------------------------------
(***************************************************************************)
(* The goroutines that hand data over unbuffered channels or give up when *)
(* their context ends, and the mock routing client's value store.  A      *)
(* behaviour checks one part, chosen by focus in Init:                     *)
(*  - "handoffs": the floodsub Connected goroutines and the relay          *)
(*    listener's Accept side by side (separate contexts, nothing shared);  *)
(*  - "providers": one FindProvidersAsync call of the mock client;         *)
(*  - "values": PutValue and GetValue of the mock client on a few keys;    *)
(*  - "reuseport": Listen and Close of the reuseport transport, with       *)
(*    dialer rebuilds, on one network;                                     *)
(*  - "routed": two routed-host Connect calls to one peer, with address    *)
(*    expiry and disconnects.                                              *)
(* The variables of the other parts keep their initial values.            *)
(***************************************************************************)
EXTENDS Sequences, TLC

CONSTANTS c1, c2, r1, r2, p1, p2, p3, v1, v2, l1, l2, l3, k1, k2, pT, pO, a1, a2

VARIABLES
  focus,
  g, stream, pubsubCtxDone, loop,
  conn, accept, cur, relayCtxDone, closed,
  provs, max, i, pc, received, searchCtxDone, reader,
  store, got,
  lpc, sock, registry, dialer,
  rpc, given, addrs, pstore, connected, dropped, ret, rop

notifyVars == <<g, stream, pubsubCtxDone, loop>>
relayVars == <<conn, accept, cur, relayCtxDone, closed>>
searchVars == <<provs, max, i, pc, received, searchCtxDone, reader>>
valueVars == <<store, got>>
reuseVars == <<lpc, sock, registry, dialer>>
routedVars == <<rpc, given, addrs, pstore, connected, dropped, ret, rop>>
vars == <<focus, notifyVars, relayVars, searchVars, valueVars, reuseVars, routedVars>>

Notify == INSTANCE PubSubNotify WITH Conns <- {c1, c2}, ctxDone <- pubsubCtxDone
Relay == INSTANCE RelayListener WITH Conns <- {r1, r2}, ctxDone <- relayCtxDone
Search == INSTANCE ProviderSearch WITH Peers <- {p1, p2, p3}, MaxMax <- 3,
                                       ctxDone <- searchCtxDone

\* Routing keys that share their first base32 characters.
MCRoutingKeys == {<<0>>, <<1>>, <<0, 0>>, <<0, 1>>}

Values == INSTANCE MockRoutingValues WITH Binaries <- MCRoutingKeys, Values <- {v1, v2}

Reuse == INSTANCE ReuseportListeners WITH Calls <- {l1, l2, l3}, pc <- lpc

Routed == INSTANCE RoutedHost WITH Callers <- {k1, k2}, Target <- pT, Other <- pO,
                                   AddrOf <- (pT :> {a1}) @@ (pO :> {a2}), pc <- rpc,
                                   op <- rop

Init ==
  /\ focus \in {"handoffs", "providers", "values", "reuseport", "routed"}
  /\ Notify!Init /\ Relay!Init /\ Values!Init /\ Reuse!Init
  /\ Search!Init
  /\ Routed!Init
  /\ focus /= "routed" => given = [k \in {k1, k2} |-> {}]
  /\ focus /= "providers" => provs = <<>> /\ max = 0

\* A step of the part in focus f that leaves the other parts alone.
Only(f, A, others) == focus = f /\ A /\ UNCHANGED <<focus, others>>

NotifyOthers == <<relayVars, searchVars, valueVars, reuseVars, routedVars>>
RelayOthers == <<notifyVars, searchVars, valueVars, reuseVars, routedVars>>
SearchOthers == <<notifyVars, relayVars, valueVars, reuseVars, routedVars>>

Next ==
  \/ Only("handoffs", Notify!Next, NotifyOthers)
  \/ Only("handoffs", Relay!Next, RelayOthers)
  \/ Only("providers", Search!Next, SearchOthers)
  \/ Only("values", Values!Next, <<notifyVars, relayVars, searchVars, reuseVars, routedVars>>)
  \/ Only("reuseport", Reuse!Next, <<notifyVars, relayVars, searchVars, valueVars, routedVars>>)
  \/ Only("routed", Routed!Next, <<notifyVars, relayVars, searchVars, valueVars, reuseVars>>)

\* The fairness of each module: its goroutines are scheduled while they
\* can run; connections, calls, cancellation, Close and giving up reading
\* come from outside.  Each condition is guarded by its focus, so that it
\* constrains only the behaviours of its own part.
Spec ==
  /\ Init /\ [][Next]_vars
  /\ \A c \in {c1, c2} : WF_vars(Only("handoffs", Notify!Goroutine(c), NotifyOthers))
  /\ WF_vars(Only("handoffs", Notify!LoopExit, NotifyOthers))
  /\ WF_vars(Only("handoffs", Relay!Accepting, RelayOthers))
  /\ WF_vars(Only("providers", Search!Goroutine, SearchOthers))

NotifyTypeOK == Notify!TypeOK
StreamsSettle == Notify!StreamsSettle
RelayTypeOK == Relay!TypeOK
CancelUnblocksAccept == Relay!CancelUnblocksAccept
CloseUnblocksAccept == Relay!CloseUnblocksAccept
SearchTypeOK == Search!TypeOK
ReceivesFirstMax == Search!ReceivesFirstMax
CancelClosesChannel == Search!CancelClosesChannel
DialerMatchesRegistry == Reuse!DialerMatchesRegistry
ConnectNilMeansConnected == Routed!ConnectNilMeansConnected
=============================================================================
