---------------------------- MODULE ProviderSearch ----------------------------
(***************************************************************************)
(* client.FindProvidersAsync (go-ipfs-routing/mock/centralized_client.go). *)
(* It returns an unbuffered channel and starts a goroutine that ranges     *)
(* over the server's providers for the key, returns once max of them have  *)
(* been sent, sends each one or returns when the context is done, and     *)
(* closes the channel when it returns.  The caller reads the channel until *)
(* it is closed, or stops reading.                                         *)
(***************************************************************************)
EXTENDS Integers, Sequences, SequencesExt

CONSTANTS
  Peers,    \* the peers the server may list as providers
  MaxMax    \* the largest max a caller passes (max is an int: -1 too)

VARIABLES
  provs,     \* c.server.Providers(k), read once by the range
  max,       \* the caller's max
  i,         \* the range index (0-based, as in Go)
  pc,        \* the goroutine: "range", "select" or "closed"
  received,  \* what the caller has read from the channel
  ctxDone,   \* the caller's context is done
  reader     \* the caller: "reading" the channel or "gone"

vars == <<provs, max, i, pc, received, ctxDone, reader>>

\* Provider lists: sequences of distinct peers.
ProviderLists == {s \in BoundedSeq(Peers, Cardinality(Peers)) : IsInjective(s)}

Init ==
  /\ provs \in ProviderLists
  /\ max \in -1 .. MaxMax
  /\ i = 0
  /\ pc = "range"
  /\ received = <<>>
  /\ ctxDone = FALSE
  /\ reader = "reading"

\* Mutant: the bound is tested with <, so max + 1 providers can be sent.
RangeStepOffByOne ==
  /\ pc = "range"
  /\ \/ (i = Len(provs) \/ max < i) /\ pc' = "closed"
     \/ i < Len(provs) /\ ~(max < i) /\ pc' = "select"
  /\ UNCHANGED <<provs, max, i, received, ctxDone, reader>>

\* for i, p := range providers { if max <= i { return } ... }; the range
\* ending or the return runs defer close(out).
RangeStep ==
  /\ pc = "range"
  /\ \/ (i = Len(provs) \/ max <= i) /\ pc' = "closed"
     \/ i < Len(provs) /\ ~(max <= i) /\ pc' = "select"
  /\ UNCHANGED <<provs, max, i, received, ctxDone, reader>>

\* select case out <- p: the caller receives the provider.
Send ==
  /\ pc = "select"
  /\ reader = "reading"
  /\ received' = Append(received, provs[i + 1])
  /\ i' = i + 1
  /\ pc' = "range"
  /\ UNCHANGED <<provs, max, ctxDone, reader>>

\* Mutant: the goroutine only sends, with no context case.
CtxReturnMissing == FALSE

\* select case <-ctx.Done(): return, closing the channel.
CtxReturn ==
  /\ pc = "select"
  /\ ctxDone
  /\ pc' = "closed"
  /\ UNCHANGED <<provs, max, i, received, ctxDone, reader>>

\* The caller cancels its context.
Cancel ==
  /\ ~ctxDone
  /\ ctxDone' = TRUE
  /\ UNCHANGED <<provs, max, i, pc, received, reader>>

\* The caller stops reading the channel.
StopReading ==
  /\ reader = "reading"
  /\ reader' = "gone"
  /\ UNCHANGED <<provs, max, i, pc, received, ctxDone>>

Goroutine == RangeStep \/ Send \/ CtxReturn

Next == Goroutine \/ Cancel \/ StopReading

\* The goroutine is scheduled while it can run, and a reading caller keeps
\* receiving; cancelling and giving up reading are the caller's choice.
Spec == Init /\ [][Next]_vars /\ WF_vars(Goroutine)

-----------------------------------------------------------------------------
(* Properties.                                                             *)

TypeOK ==
  /\ provs \in ProviderLists
  /\ max \in -1 .. MaxMax
  /\ i \in 0 .. Len(provs)
  /\ pc \in {"range", "select", "closed"}
  /\ received \in Seq(Peers)
  /\ ctxDone \in BOOLEAN
  /\ reader \in {"reading", "gone"}

\* How many providers a search with this max may send: none for max <= 0.
Quota == IF max < 0 THEN 0 ELSE max

\* The caller receives the providers in the server's order, at most max of
\* them (none for a max of zero or below), and, unless it cancelled, the
\* channel closes only after the first min(max, number of providers) have
\* all been sent -- the range's max <= i test against the 0-based index.
ReceivesFirstMax ==
  /\ IsPrefix(received, provs)
  /\ Len(received) <= Quota
  /\ (pc = "closed" /\ ~ctxDone) =>
       Len(received) = IF Quota < Len(provs) THEN Quota ELSE Len(provs)

\* Once the caller's context is done, the goroutine returns and closes the
\* channel, even if nobody reads it any more.
CancelClosesChannel == ctxDone ~> (pc = "closed")
=============================================================================
