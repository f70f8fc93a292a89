------------------------- MODULE ReuseportListeners -------------------------
(***************************************************************************)
(* The reuseport TCP transport's listeners (go-reuseport-transport/        *)
(* listen.go) on one network (tcp4 or tcp6: each has its own registry).   *)
(* Listen opens a reuseport socket, checks and wraps it, then, under the  *)
(* network's mutex, registers the listener and drops the cached dialer.   *)
(* If reuseport is unavailable or fails, Listen falls back to a plain      *)
(* listener that is never registered.  Close takes the mutex, removes the *)
(* listener and drops the dialer, releases the mutex and only then closes *)
(* the socket.  The dialer (dial.go, not in the repository) is rebuilt     *)
(* from the registered listeners, under the mutex, when a dial finds none. *)
(* Each call of Listen is a model value of Calls; its listener is named    *)
(* after it.  The steps of Listen before the mutex touch nothing shared   *)
(* and form one step.                                                      *)
(***************************************************************************)
CONSTANT Calls   \* the Listen calls

VARIABLES
  pc,        \* pc[c]: where call c, and then the listener it returned, is
  sock,      \* sock[c]: the state of the socket call c opened
  registry,  \* network.listeners
  dialer     \* network.dialer: nil, or built from a set of listeners

vars == <<pc, sock, registry, dialer>>

NoDialer == [built |-> FALSE, from |-> {}]
DialerFrom(ls) == [built |-> TRUE, from |-> ls]

ListenState == {"idle", "opened", "err", "listening", "fallback", "closing", "closed"}
SockState == {"none", "open", "closed"}

Init ==
  /\ pc = [c \in Calls |-> "idle"]
  /\ sock = [c \in Calls |-> "none"]
  /\ registry = {}
  /\ dialer = NoDialer

\* Listen up to n.mu.Lock(): DialArgs and the protocol switch
\* (ErrWrongProto), the fallback to manet.Listen when reuseport is not
\* available or its Listen fails, then the TCPAddr check and
\* WrapNetListener, which close the new socket when they fail.
ListenOpen(c) ==
  /\ pc[c] = "idle"
  /\ \/ pc' = [pc EXCEPT ![c] = "err"] /\ UNCHANGED sock
     \/ /\ pc' = [pc EXCEPT ![c] = "fallback"]
        /\ sock' = [sock EXCEPT ![c] = "open"]
     \/ /\ pc' = [pc EXCEPT ![c] = "err"]
        /\ sock' = [sock EXCEPT ![c] = "closed"]
     \/ /\ pc' = [pc EXCEPT ![c] = "opened"]
        /\ sock' = [sock EXCEPT ![c] = "open"]
  /\ UNCHANGED <<registry, dialer>>

\* Mutant: a new listener is registered but the cached dialer is kept.
ListenRegisterKeepsDialer(c) ==
  /\ pc[c] = "opened"
  /\ registry' = registry \cup {c}
  /\ pc' = [pc EXCEPT ![c] = "listening"]
  /\ UNCHANGED <<sock, dialer>>

\* Listen under n.mu: n.listeners[list] = struct{}{}; n.dialer = nil.
ListenRegister(c) ==
  /\ pc[c] = "opened"
  /\ registry' = registry \cup {c}
  /\ dialer' = NoDialer
  /\ pc' = [pc EXCEPT ![c] = "listening"]
  /\ UNCHANGED sock

\* Mutant: the socket is closed first and the listener removed after.
CloseDeregisterAfterSocket(c) ==
  \/ /\ pc[c] = "listening"
     /\ sock' = [sock EXCEPT ![c] = "closed"]
     /\ pc' = [pc EXCEPT ![c] = "closing"]
     /\ UNCHANGED <<registry, dialer>>
  \/ /\ pc[c] = "closing"
     /\ registry' = registry \ {c}
     /\ dialer' = NoDialer
     /\ pc' = [pc EXCEPT ![c] = "closed"]
     /\ UNCHANGED sock

\* listener.Close: under n.mu, delete(n.listeners, l) and n.dialer = nil,
\* then, after Unlock, l.Listener.Close().  Close may be called again on a
\* closed listener: the delete finds nothing and the socket Close fails.
CloseDeregister(c) ==
  \/ /\ pc[c] \in {"listening", "closed"}
     /\ registry' = registry \ {c}
     /\ dialer' = NoDialer
     /\ pc' = [pc EXCEPT ![c] = "closing"]
     /\ UNCHANGED sock
  \/ /\ pc[c] = "closing"
     /\ sock' = [sock EXCEPT ![c] = "closed"]
     /\ pc' = [pc EXCEPT ![c] = "closed"]
     /\ UNCHANGED <<registry, dialer>>

\* Close of a fallback listener: manet's own Close, outside the registry.
FallbackClose(c) ==
  /\ pc[c] = "fallback"
  /\ sock[c] = "open"
  /\ sock' = [sock EXCEPT ![c] = "closed"]
  /\ UNCHANGED <<pc, registry, dialer>>

\* A dial that finds no dialer builds one from the registered listeners
\* under n.mu (dial.go, outside the repository).
BuildDialer ==
  /\ ~dialer.built
  /\ dialer' = DialerFrom(registry)
  /\ UNCHANGED <<pc, sock, registry>>

Next ==
  \/ \E c \in Calls : ListenOpen(c) \/ ListenRegister(c) \/ CloseDeregister(c) \/ FallbackClose(c)
  \/ BuildDialer

Spec == Init /\ [][Next]_vars

-----------------------------------------------------------------------------
(* Properties.                                                             *)

TypeOK ==
  /\ pc \in [Calls -> ListenState]
  /\ sock \in [Calls -> SockState]
  /\ registry \subseteq Calls
  /\ dialer \in {NoDialer} \cup {DialerFrom(ls) : ls \in SUBSET Calls}

\* The registry holds exactly the listeners Listen returned that have not
\* begun to close, each with an open socket, and a cached dialer was built
\* from the registry as it is now: every Listen and Close that changes the
\* registry drops the dialer under the same lock.
DialerMatchesRegistry ==
  /\ registry = {c \in Calls : pc[c] = "listening"}
  /\ \A c \in registry : sock[c] = "open"
  /\ dialer.built => dialer.from = registry

=============================================================================
