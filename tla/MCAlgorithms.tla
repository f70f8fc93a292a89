------------------------------ MODULE MCAlgorithms ------------------------------
(***************************************************************************)
(* The pure algorithms, in one state space.  A behaviour checks one of     *)
(* them, chosen by focus in Init:                                          *)
(*  - "keys": the dshelp key of one byte string decodes back to it;        *)
(*  - "body": one DagPut of the body decomposer, with any step failing;   *)
(*  - "factory": CreateDatabase calls of one watcher process, which may   *)
(*    exit and restart, against geth starting and stopping on the same    *)
(*    chain directory;                                                     *)
(*  - "defaults": Defaults or FallbackDefaults over any Config the        *)
(*    caller's options can build.                                          *)
(***************************************************************************)
EXTENDS Naturals, Sequences

VARIABLES focus, bin, bpc, txs, j, added, result, dbLock, dbHandle, dbRet,
  dMode, dUser, dCfg, dInsecure, dj, dErr, dDone

bodyVars == <<bpc, txs, j, added, result>>
factoryVars == <<dbLock, dbHandle, dbRet>>
defaultsVars == <<dMode, dUser, dCfg, dInsecure, dj, dErr, dDone>>
vars == <<focus, bin, bodyVars, factoryVars, defaultsVars>>

\* Bytes around the 5-bit and 8-bit boundaries, up to three of them: every
\* length of the last base32 group (8, 16 and 24 bits leave 3, 1 and 4).
MCKeyBytes == {0, 1, 31, 127, 128, 254, 255}

Keys == INSTANCE DsHelp

Body == INSTANCE BodyDecomposer WITH MaxTxs <- 2, pc <- bpc

\* A LevelDB config and one of a type that is not implemented.
MCConfigs == {[type |-> "level", path |-> "chaindata"], [type |-> "postgres", path |-> "chaindata"]}

Factory == INSTANCE DatabaseFactory WITH
  Configs <- MCConfigs, lock <- dbLock, handle <- dbHandle, ret <- dbRet

Defaults == INSTANCE Libp2pDefaults WITH mode <- dMode, user <- dUser, cfg <- dCfg,
  insecure <- dInsecure, j <- dj, err <- dErr, done <- dDone

Init ==
  /\ focus \in {"keys", "body", "factory", "defaults"}
  /\ IF focus = "keys" THEN bin \in Keys!BinariesUpTo(MCKeyBytes, 3) ELSE bin = <<>>
  /\ Body!Init
  /\ focus /= "body" => txs = 0
  /\ Factory!Init
  /\ Defaults!Init
  /\ focus /= "defaults" => dMode = "fallback" /\ dInsecure /\ dUser = [e \in Defaults!Parts |-> "nil"]

\* The key behaviours are single states.
Next ==
  \/ focus = "body" /\ Body!Next /\ UNCHANGED <<focus, bin, factoryVars, defaultsVars>>
  \/ focus = "factory" /\ Factory!Next /\ UNCHANGED <<focus, bin, bodyVars, defaultsVars>>
  \/ focus = "defaults" /\ Defaults!Next /\ UNCHANGED <<focus, bin, bodyVars, factoryVars>>

Spec == Init /\ [][Next]_vars

\* BinaryFromDsKey(NewKeyFromBinary(b)) = b: the datastore key of a
\* block or routing key (CidToDsKey, DsKeyToCid) gives back its bytes.
KeyRoundTrip == Keys!BinaryFromDsKey(Keys!NewKeyFromBinary(bin)) = bin
DecomposePublishesBody == Body!DecomposePublishesBody
WatcherReadsOnlyStoppedChain == Factory!WatcherReadsOnlyStoppedChain
FallbackCompletesUserConfig == Defaults!FallbackCompletesUserConfig
=============================================================================
