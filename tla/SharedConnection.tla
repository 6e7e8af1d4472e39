-------------------------- MODULE SharedConnection --------------------------
(***************************************************************************)
(* SQLiteStore (sdwan/persistence/base.py).  A store opens one connection, *)
(* in autocommit mode, and hands it to every thread of its service (both   *)
(* services are ThreadingHTTPServers, one thread per request).  SQLite     *)
(* executes one statement at a time; nothing keeps the statements of two   *)
(* threads apart, so a transaction belongs to the connection and not to    *)
(* the thread that began it.                                               *)
(*                                                                         *)
(* The tables are a value `db` that the modules extending this one define. *)
(***************************************************************************)
CONSTANT Threads   \* request threads of the service

VARIABLES
  db,     \* the tables as every statement on the connection sees them
  disk,   \* the tables as committed: what survives the process
  inTx,   \* the connection is inside a transaction
  pc,     \* the next statement of each thread
  job,    \* what each thread has been asked, and has found out so far
  overlap \* history: a thread has acted while another one's request was under way

connection == <<db, disk, inTx>>

None == "none"
NoJob == [op |-> None]   \* a thread without a request

(* Thread t executes a step and goes on to the next. *)
Goto(t, label) ==
  /\ pc' = [pc EXCEPT ![t] = label]
  /\ overlap' = (overlap \/ \E u \in Threads \ {t} : pc[u] # "idle")
-----------------------------------------------------------------------------
(* A SELECT. *)
Read == UNCHANGED connection

(* A statement that leaves the tables as `new`.  Outside a transaction it  *)
(* is committed at once.                                                   *)
Write(new) ==
  /\ db' = new
  /\ disk' = IF inTx THEN disk ELSE new
  /\ UNCHANGED inTx

(* BEGIN IMMEDIATE.  Inside a transaction it fails, and the handler of     *)
(* BaseException sends the thread to its ROLLBACK.                         *)
Begin(t, body) ==
  /\ pc[t] = "begin"
  /\ IF inTx THEN Goto(t, "rollback") ELSE Goto(t, body)
  /\ inTx' = TRUE
  /\ UNCHANGED <<db, disk>>

(* ROLLBACK of whatever transaction the connection is in; without one it   *)
(* fails.  The thread ends with an exception in both cases.                *)
Rollback(t, after) ==
  /\ pc[t] = "rollback"
  /\ Goto(t, after)
  /\ db' = IF inTx THEN disk ELSE db
  /\ inTx' = FALSE
  /\ UNCHANGED disk

(* COMMIT, which is not inside the try block: when the transaction is gone *)
(* its error reaches the caller and nothing is undone.                     *)
Committed(t) == pc[t] = "commit" /\ inTx
CommitFails(t) == pc[t] = "commit" /\ ~inTx

Commit(t) ==
  /\ Committed(t)
  /\ Goto(t, "idle")
  /\ disk' = db
  /\ inTx' = FALSE
  /\ UNCHANGED db

CommitError(t) ==
  /\ CommitFails(t)
  /\ Goto(t, "idle")
  /\ UNCHANGED connection

(* The process ends; what was not committed is lost. *)
ProcessRestart ==
  /\ \E t \in Threads : pc[t] # "idle"
  /\ pc' = [t \in Threads |-> "idle"]
  /\ db' = disk
  /\ inTx' = FALSE
  /\ UNCHANGED <<disk, overlap>>
=============================================================================
