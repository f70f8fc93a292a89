--------------------------- MODULE DatabaseFactory ---------------------------
(***************************************************************************)
(* db.CreateDatabase and ReadError (src/pkg/db/database.go).  For a       *)
(* Level config it opens the chain's LevelDB directory and wraps it in a  *)
(* reader; any other type is refused with ErrNoSuchDb.  Opening LevelDB   *)
(* takes the directory's exclusive file lock, which geth also takes while *)
(* it runs; the Database returned has no Close, so the watcher process    *)
(* keeps the lock until it exits.  Paths are one chain directory; error   *)
(* causes other than ErrNoSuchDb are the lock error.                      *)
(***************************************************************************)
EXTENDS Sequences

CONSTANT Configs   \* the DatabaseConfig values CreateDatabase is called with

VARIABLES
  lock,     \* who holds the chain directory's lock: "none", "geth" or "watcher"
  handle,   \* the watcher holds an open LevelDB connection
  ret       \* what the last CreateDatabase returned

vars == <<lock, handle, ret>>

\* var ErrNoSuchDb = errors.New("no such database")
ErrNoSuchDb == "no such database"
\* The error goleveldb returns when another open holds the lock.
ErrLocked == "resource temporarily unavailable"

ReadError(msg, err) == [msg |-> msg, err |-> err]

\* func (re ReadError) Error(): fmt.Sprintf("%s: %s", re.msg, re.err.Error())
Error(re) == re.msg \o ": " \o re.err

NoRet == [db |-> FALSE, err |-> ""]

Init == lock = "none" /\ handle = FALSE /\ ret = NoRet

\* geth opens its chain data, taking the lock if it is free, and stops.
GethStart == lock = "none" /\ lock' = "geth" /\ UNCHANGED <<handle, ret>>
GethStop == lock = "geth" /\ lock' = "none" /\ UNCHANGED <<handle, ret>>

\* Mutant: the open error is not returned; the reader is built anyway.
CreateDatabaseIgnoresOpenError(c) ==
  IF c.type = "level"
  THEN /\ IF lock = "none" THEN lock' = "watcher" ELSE UNCHANGED lock
       /\ handle' = TRUE
       /\ ret' = [db |-> TRUE, err |-> ""]
  ELSE /\ ret' = [db |-> FALSE,
                  err |-> Error(ReadError("Unknown database not implemented", ErrNoSuchDb))]
       /\ UNCHANGED <<lock, handle>>

\* switch config.Type: a Level config opens LevelDB (ethdb.NewLDBDatabase),
\* failing with a ReadError while another open holds the lock, and else
\* returns NewLevelDatabase(NewLevelDatabaseReader(conn)); any other type
\* returns ReadError{"Unknown database not implemented", ErrNoSuchDb}.
CreateDatabase(c) ==
  IF c.type = "level"
  THEN IF lock = "none"
       THEN lock' = "watcher" /\ handle' = TRUE /\ ret' = [db |-> TRUE, err |-> ""]
       ELSE /\ ret' = [db |-> FALSE,
                       err |-> Error(ReadError("Failed to connect to LevelDB", ErrLocked))]
            /\ UNCHANGED <<lock, handle>>
  ELSE /\ ret' = [db |-> FALSE,
                  err |-> Error(ReadError("Unknown database not implemented", ErrNoSuchDb))]
       /\ UNCHANGED <<lock, handle>>

\* The watcher process exits; the operating system releases its lock.
WatcherExit ==
  /\ lock' = IF lock = "watcher" THEN "none" ELSE lock
  /\ handle' = FALSE /\ ret' = NoRet

Next ==
  \/ GethStart \/ GethStop \/ WatcherExit
  \/ \E c \in Configs : CreateDatabase(c)

Spec == Init /\ [][Next]_vars

-----------------------------------------------------------------------------
\* Whenever CreateDatabase has handed the watcher a Database, the watcher
\* holds the chain directory's lock: geth is not running and cannot start,
\* so the transformers never read a chain geth is writing, and the handle
\* CreateDatabase never closes keeps geth out until the watcher exits.
WatcherReadsOnlyStoppedChain ==
  /\ ret.db => handle
  /\ handle <=> lock = "watcher"
=============================================================================
