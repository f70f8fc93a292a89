--------------------------- MODULE MockRoutingValues ---------------------------
(***************************************************************************)
(* The mock routing client's values (go-ipfs-routing/mock/                 *)
(* centralized_client.go, PutValue and GetValue).  PutValue stores a DHT  *)
(* record holding the key and the value under the datastore key           *)
(* NewKeyFromBinary(key); GetValue reads the record under that datastore  *)
(* key back and returns its value, without looking at the record's key.   *)
(* The record's time stamp is left out; proto.Marshal of a record with a  *)
(* key and a value does not fail, and Unmarshal reads back what Marshal   *)
(* wrote, so the datastore holds the record itself.                       *)
(***************************************************************************)
EXTENDS DsHelp, TLC

CONSTANTS
  Binaries,  \* the routing keys callers use, as byte strings
  Values     \* the values they store

VARIABLES
  store,  \* the client's datastore: the record under each key it holds
  got     \* what the latest GetValue returned

vars == <<store, got>>

NoValue == "none"

DsKeys == {NewKeyFromBinary(b) : b \in Binaries}

Init ==
  /\ store = <<>>
  /\ got = [key |-> <<>>, outcome |-> "none", value |-> NoValue]

\* PutValue: marshal [Key, Value] and datastore.Put it under
\* NewKeyFromBinary(key); a Put error is returned and nothing is stored.
PutValue(key, val) ==
  /\ \/ store' = (NewKeyFromBinary(key) :> [key |-> key, value |-> val]) @@ store
     \/ UNCHANGED store
  /\ UNCHANGED got

\* GetValue: datastore.Get(NewKeyFromBinary(key)); ErrNotFound is returned
\* as is, otherwise the unmarshalled record's value.
GetValue(key) ==
  /\ LET dk == NewKeyFromBinary(key)
     IN got' = IF dk \notin DOMAIN store
               THEN [key |-> key, outcome |-> "notFound", value |-> NoValue]
               ELSE [key |-> key, outcome |-> "ok", value |-> store[dk].value]
  /\ UNCHANGED store

Next ==
  \/ \E key \in Binaries, val \in Values : PutValue(key, val)
  \/ \E key \in Binaries : GetValue(key)

Spec == Init /\ [][Next]_vars

-----------------------------------------------------------------------------
TypeOK ==
  /\ DOMAIN store \subseteq DsKeys
  /\ \A dk \in DOMAIN store : store[dk] \in [key : Binaries, value : Values]
  /\ got.outcome \in {"none", "notFound", "ok"}
=============================================================================
