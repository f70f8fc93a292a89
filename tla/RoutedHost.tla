------------------------------ MODULE RoutedHost ------------------------------
(***************************************************************************)
(* RoutedHost.Connect and findPeerAddrs (go-libp2p/p2p/host/routed/       *)
(* routed.go), for callers connecting to one target peer.  Connect         *)
(* returns at once if the network has a connection to the peer; else it  *)
(* adds the addresses it was given to the peerstore, reads the peer's      *)
(* addresses back, asks the routing system if there are none (rejecting   *)
(* an answer for another peer), and lets the wrapped host connect with    *)
(* the addresses it has.  Each of these calls takes its own lock, so      *)
(* other callers, address expiry (TempAddrTTL) and disconnects interleave *)
(* between them.  NewStream is Connect with no address given, then the    *)
(* wrapped host's NewStream, which uses the connection or redials with    *)
(* the peerstore's addresses.                                             *)
(***************************************************************************)
CONSTANTS
  Callers,   \* concurrent Connect calls
  Target,    \* the peer they connect to
  Other,     \* another peer the routing system may answer for
  AddrOf     \* AddrOf[p]: the addresses peer p listens on

Addrs == AddrOf[Target] \cup AddrOf[Other]

VARIABLES
  pc,         \* pc[k]: where caller k is
  given,      \* given[k]: the addresses caller k passed in pi.Addrs
  addrs,      \* addrs[k]: Connect's local addrs
  pstore,     \* the peerstore's addresses for Target
  connected,  \* the network has a connection to Target
  dropped,    \* history: callers whose connection closed while they were
              \* between Connect's nil and the wrapped host's NewStream
  ret,        \* ret[k]: what caller k's call returned, "pending" before
  op          \* op[k]: the call caller k made, "connect" or "newStream"

vars == <<pc, given, addrs, pstore, connected, dropped, ret, op>>

\* routing.FindPeer returning an error.
NotFound == [ok |-> FALSE, id |-> Other, addrs |-> {}]

\* Answers a routing system can give: a peer's own addresses, or none.
RoutingAnswers == {NotFound} \cup
  UNION {{[ok |-> TRUE, id |-> p, addrs |-> ads] : ads \in {{}, AddrOf[p]}} : p \in {Target, Other}}

Init ==
  /\ pc = [k \in Callers |-> "checkConns"]
  /\ op \in [Callers -> {"connect", "newStream"}]
  /\ given \in [Callers -> {{}, AddrOf[Target]}]
  /\ \A k \in Callers : op[k] = "newStream" => given[k] = {}
  /\ addrs = [k \in Callers |-> {}]
  /\ pstore = {}
  /\ connected = FALSE
  /\ dropped = {}
  /\ ret = [k \in Callers |-> "pending"]

Goto(k, l) == pc' = [pc EXCEPT ![k] = l]

Return(k, r) == Goto(k, "done") /\ ret' = [ret EXCEPT ![k] = r]

\* Connect returns r: to its caller, or inside NewStream, where an error is
\* returned and nil goes on to the wrapped host's NewStream.
ConnectReturn(k, r) ==
  IF op[k] = "newStream" /\ r = "nil"
  THEN Goto(k, "hostNewStream") /\ UNCHANGED ret
  ELSE Return(k, r)

CheckConns(k) ==
  /\ pc[k] = "checkConns"
  /\ IF connected THEN ConnectReturn(k, "nil") ELSE Goto(k, "addGiven") /\ UNCHANGED ret
  /\ UNCHANGED <<given, addrs, pstore, connected, dropped, op>>

\* if len(pi.Addrs) > 0 { Peerstore().AddAddrs(pi.ID, pi.Addrs, TempAddrTTL) }
AddGiven(k) ==
  /\ pc[k] = "addGiven"
  /\ pstore' = pstore \cup given[k]
  /\ Goto(k, "readAddrs")
  /\ UNCHANGED <<given, addrs, connected, dropped, ret, op>>

\* addrs := Peerstore().Addrs(pi.ID); if none, ask the routing system.
ReadAddrs(k) ==
  /\ pc[k] = "readAddrs"
  /\ addrs' = [addrs EXCEPT ![k] = pstore]
  /\ Goto(k, IF pstore = {} THEN "findPeer" ELSE "hostConnect")
  /\ UNCHANGED <<given, pstore, connected, dropped, ret, op>>

\* findPeerAddrs: rh.route.FindPeer(ctx, id); an error, or an answer for
\* another peer ("routing failure"), is returned; otherwise its addresses
\* become addrs.  They are not added to the peerstore.
FindPeerAddrs(k) ==
  /\ pc[k] = "findPeer"
  /\ \E pi \in RoutingAnswers :
       IF ~pi.ok \/ pi.id /= Target THEN ConnectReturn(k, "err") /\ UNCHANGED addrs
       ELSE Goto(k, "hostConnect") /\ addrs' = [addrs EXCEPT ![k] = pi.addrs] /\ UNCHANGED ret
  /\ UNCHANGED <<given, pstore, connected, dropped, op>>

\* Mutant: an empty address list is taken as nothing to do.
HostConnectEmptyIsNil(k) ==
  /\ pc[k] = "hostConnect"
  /\ \/ connected /\ ConnectReturn(k, "nil") /\ UNCHANGED connected
     \/ ~connected /\ addrs[k] /= {} /\ connected' = TRUE /\ ConnectReturn(k, "nil")
     \/ ~connected /\ addrs[k] /= {} /\ ConnectReturn(k, "err") /\ UNCHANGED connected
     \/ ~connected /\ addrs[k] = {} /\ ConnectReturn(k, "nil") /\ UNCHANGED connected
  /\ UNCHANGED <<given, addrs, pstore, dropped, op>>

\* return rh.host.Connect(ctx, pi) with pi.Addrs = addrs, even when the
\* routing answer had no address: the wrapped host returns nil if a
\* connection exists by now, else dials one of the addresses, or fails
\* (no address, or every dial failed).
HostConnect(k) ==
  /\ pc[k] = "hostConnect"
  /\ \/ connected /\ ConnectReturn(k, "nil") /\ UNCHANGED connected
     \/ ~connected /\ addrs[k] /= {} /\ connected' = TRUE /\ ConnectReturn(k, "nil")
     \/ ~connected /\ ConnectReturn(k, "err") /\ UNCHANGED connected
  /\ UNCHANGED <<given, addrs, pstore, dropped, op>>

\* return rh.host.NewStream(ctx, p, pids...): the wrapped host opens the
\* stream on a connection to p if there is one, and otherwise dials p with
\* the peerstore's addresses, which need not hold those Connect used.
HostNewStream(k) ==
  /\ pc[k] = "hostNewStream"
  /\ \/ connected /\ Return(k, "nil") /\ UNCHANGED connected
     \/ ~connected
        /\ \/ pstore /= {} /\ connected' = TRUE /\ Return(k, "nil")
           \/ Return(k, "err") /\ UNCHANGED connected
  /\ UNCHANGED <<given, addrs, pstore, dropped, op>>

\* The temporary addresses expire.
Expire ==
  /\ pstore /= {}
  /\ pstore' = {}
  /\ UNCHANGED <<pc, given, addrs, connected, dropped, ret, op>>

\* The connection to the peer closes.
Disconnect ==
  /\ connected
  /\ connected' = FALSE
  /\ dropped' = dropped \cup {k \in Callers : pc[k] = "hostNewStream"}
  /\ UNCHANGED <<pc, given, addrs, pstore, ret, op>>

Next ==
  \/ \E k \in Callers :
       CheckConns(k) \/ AddGiven(k) \/ ReadAddrs(k) \/ FindPeerAddrs(k) \/ HostConnect(k)
       \/ HostNewStream(k)
  \/ Expire
  \/ Disconnect

Spec == Init /\ [][Next]_vars

-----------------------------------------------------------------------------
(* Properties.                                                             *)

ConnectNilMeansConnected ==
  [][\A k \in Callers :
       \/ ret[k] = "pending" /\ ret'[k] = "nil"
       \/ pc[k] /= "hostNewStream" /\ pc'[k] = "hostNewStream"
       => connected']_vars
=============================================================================
