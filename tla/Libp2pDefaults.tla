---------------------------- MODULE Libp2pDefaults ----------------------------
(***************************************************************************)
(* Defaults and FallbackDefaults (go-libp2p/defaults.go): a loop over the  *)
(* defaults table, applying each entry's option to the Config that the     *)
(* options passed to New have built -- every entry for Defaults, and for   *)
(* FallbackDefaults only those whose fallback predicate holds.  The        *)
(* options themselves (Transport, Muxer, Security, Identity, Peerstore and *)
(* Config.Apply, in config.go and options.go) are not in the repository;  *)
(* they are modelled by what go-libp2p documents: Transport, Muxer and     *)
(* Security append to their list, Security refuses an Insecure config,    *)
(* and Identity and Peerstore refuse a second value.  A part of the       *)
(* Config is "nil", set by the caller ("user"), by a default ("default"), *)
(* or by both (a list with entries of each).                              *)
(***************************************************************************)
EXTENDS Naturals, Sequences

\* The entries of var defaults, in order, each named by the Config field
\* its fallback predicate reads and its option sets.
DefaultsTable == <<"transports", "muxers", "security", "peerKey", "peerstore">>

Parts == {DefaultsTable[e] : e \in DOMAIN DefaultsTable}

\* The options that build a list; the others hold one value.
ListParts == {"transports", "muxers", "security"}

VARIABLES
  mode,    \* the option applied last: "defaults" or "fallback"
  user,    \* the Config as the caller's options left it
  cfg,     \* the Config: part -> "nil", "user", "default" or "both"
  insecure,\* cfg.Insecure (the NoSecurity option)
  j,       \* the loop's index into defaults
  err,     \* "none" while running; then "nil" or the failing entry
  done     \* the option has returned

vars == <<mode, user, cfg, insecure, j, err, done>>

\* Configs the caller's options can build: NoSecurity and Security refuse
\* each other, so an Insecure config has no security transport.
UserConfigs == [Parts -> {"nil", "user"}]

Init ==
  /\ mode \in {"defaults", "fallback"}
  /\ user \in UserConfigs
  /\ insecure \in BOOLEAN
  /\ insecure => user["security"] = "nil"
  /\ cfg = user
  /\ j = 1 /\ err = "none" /\ done = FALSE

\* Mutant: the security entry falls back on a missing list alone.
FallbackIgnoresInsecure(part) == cfg[part] = "nil"

\* The fallback predicates of the table's entries.
Fallback(part) ==
  /\ cfg[part] = "nil"
  /\ part = "security" => ~insecure

\* cfg.Apply(def.opt) refusing the config: Security on an Insecure config,
\* a second Identity or Peerstore.
OptRefuses(part) ==
  \/ part = "security" /\ insecure
  \/ part \in {"peerKey", "peerstore"} /\ cfg[part] /= "nil"

\* The config after the option: a list gains the default entries, a
\* single value is the default.
Applied(part) ==
  [cfg EXCEPT ![part] = IF @ = "nil" \/ part \notin ListParts THEN "default" ELSE "both"]

Return(e) == done' = TRUE /\ err' = e

\* for _, def := range defaults, in Defaults or FallbackDefaults: skip an
\* entry whose fallback does not hold (FallbackDefaults only), else apply
\* its option, returning its error; RandomIdentity's key generation may
\* fail before Identity is applied.
ApplyEntry ==
  /\ ~done /\ j <= Len(DefaultsTable)
  /\ LET part == DefaultsTable[j] IN
       \/ mode = "fallback" /\ ~Fallback(part)
          /\ j' = j + 1 /\ UNCHANGED <<cfg, err, done>>
       \/ (mode = "defaults" \/ Fallback(part))
          /\ \/ part = "peerKey" /\ Return("keygen") /\ UNCHANGED <<cfg, j>>
             \/ OptRefuses(part) /\ Return(part) /\ UNCHANGED <<cfg, j>>
             \/ ~OptRefuses(part) /\ cfg' = Applied(part) /\ j' = j + 1
                /\ UNCHANGED <<err, done>>
  /\ UNCHANGED <<mode, user, insecure>>

\* return nil after the last entry.
Finish ==
  /\ ~done /\ j > Len(DefaultsTable)
  /\ Return("nil")
  /\ UNCHANGED <<mode, user, cfg, insecure, j>>

Next == ApplyEntry \/ Finish

Spec == Init /\ [][Next]_vars

-----------------------------------------------------------------------------
\* FallbackDefaults, appended by New to the caller's options, fails only if
\* key generation does, never because an option refuses what the caller
\* set; and when it returns nil every part is set (security unless the
\* caller chose NoSecurity) while every part the caller set is kept as the
\* caller set it: the fallback predicates of the defaults table match the
\* refusals of the options they guard.
FallbackCompletesUserConfig ==
  (mode = "fallback" /\ done) =>
    /\ err \in {"nil", "keygen"}
    /\ err = "nil" => \A part \in Parts : cfg[part] = "nil" => part = "security" /\ insecure
    /\ \A part \in Parts : user[part] = "user" => cfg[part] = "user"
=============================================================================
