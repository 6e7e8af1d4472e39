---------------------------- MODULE PolicyStore -----------------------------
(***************************************************************************)
(* The Policy Service's store (sdwan/persistence/policy_store.py) as its   *)
(* request threads use it, statement by statement: publication of desired  *)
(* states by the compiler, their delivery and acknowledgement, and the     *)
(* registration of WireGuard keys.  One site; the rows of other sites are  *)
(* untouched, and the threads working on them share the connection just    *)
(* like these.                                                             *)
(*                                                                         *)
(* A desired state is its version and its contents, of which the digest is *)
(* a faithful stand-in.  Left out: columns that nothing reads back, such   *)
(* as superseded_by and the delivery statuses, and the audit rows.         *)
(***************************************************************************)
EXTENDS SharedConnection, Integers

CONSTANTS
  MaxVersion,     \* bound: desired states per site
  Contents,
  Keys,           \* public keys a device registers in the course of time
  MaxGeneration   \* bound: generations of keys

ASSUME StoreBounds ==
  MaxVersion \in Nat \ {0} /\ MaxGeneration \in Nat \ {0} /\ None \notin Contents

VARIABLES
  published,  \* put_desired_state has returned for these
  delivered   \* an edge has fetched these

storeVars == <<job, published, delivered>>
policyVars == <<connection, pc, overlap, storeVars>>

Versions == 1 .. MaxVersion
Generations == 1 .. MaxGeneration
State == Versions \X Contents
KeyRow == [generation : Generations, key : Keys, status : {"ACTIVE", "RETIRED"}]

StoreTables == [states : [Versions -> Contents \cup {None}],
                acks : [Versions -> Contents \cup {None}],   \* contents acknowledged as VERIFIED
                keys : SUBSET KeyRow]

StoreJobs == {NoJob} \cup [op : {"put", "ack"}, version : Versions, contents : Contents]
                     \cup [op : {"register"}, key : Keys, generation : 0 .. MaxGeneration]

StoreLabels == {"idle", "begin", "rollback", "commit", "latest", "existing", "insert",
                "match", "record", "current", "retire", "add"}

StoreTypeOK ==
  /\ db \in StoreTables /\ disk \in StoreTables /\ inTx \in BOOLEAN /\ overlap \in BOOLEAN
  /\ pc \in [Threads -> StoreLabels]
  /\ job \in [Threads -> StoreJobs]
  /\ published \subseteq State /\ delivered \subseteq State

EmptyStore == [states |-> [v \in Versions |-> None], acks |-> [v \in Versions |-> None], keys |-> {}]

StoreInit ==
  /\ db = EmptyStore /\ disk = EmptyStore /\ inTx = FALSE /\ overlap = FALSE
  /\ pc = [t \in Threads |-> "idle"] /\ job = [t \in Threads |-> NoJob]
  /\ published = {} /\ delivered = {}
-----------------------------------------------------------------------------
Stored == {v \in Versions : db.states[v] # None}
LatestVersion == IF Stored = {} THEN 0 ELSE CHOOSE v \in Stored : \A w \in Stored : w <= v

CallStore(t, request) ==
  /\ pc[t] = "idle"
  /\ job' = [job EXCEPT ![t] = request]
  /\ Goto(t, "begin")
  /\ UNCHANGED <<connection, published, delivered>>

(* The compiler takes next_desired_state_version in one statement and      *)
(* publishes with it in a later transaction.                               *)
Publish(t) ==
  /\ LatestVersion < MaxVersion
  /\ \E c \in Contents : CallStore(t, [op |-> "put", version |-> LatestVersion + 1, contents |-> c])

(* An edge fetches the latest desired state, and acknowledges what it has  *)
(* fetched, now or later.                                                  *)
Deliver ==
  /\ LatestVersion # 0
  /\ delivered' = delivered \cup {<<LatestVersion, db.states[LatestVersion]>>}
  /\ UNCHANGED <<connection, pc, overlap, job, published>>

Acknowledge(t) ==
  \E s \in delivered : CallStore(t, [op |-> "ack", version |-> s[1], contents |-> s[2]])

Register(t) ==
  \E k \in Keys : CallStore(t, [op |-> "register", key |-> k, generation |-> 0])

StoreBody(op) ==
  CASE op = "put" -> "latest"
    [] op = "ack" -> "match"
    [] OTHER -> "current"

BeginStore(t) == Begin(t, StoreBody(job[t].op)) /\ UNCHANGED storeVars

(* A statement raises, or a check after it does. *)
Raise(t) == Read /\ Goto(t, "rollback")
-----------------------------------------------------------------------------
(* put_desired_state *)
SelectLatest(t) ==
  /\ pc[t] = "latest"
  /\ IF job[t].version < LatestVersion THEN Raise(t) ELSE Read /\ Goto(t, "existing")
  /\ UNCHANGED storeVars

SelectExisting(t) ==
  /\ pc[t] = "existing"
  /\ LET existing == db.states[job[t].version]
     IN  \/ existing = None /\ Read /\ Goto(t, "insert")
         \/ existing = job[t].contents /\ Read /\ Goto(t, "commit")
         \/ existing \notin {None, job[t].contents} /\ Raise(t)
  /\ UNCHANGED storeVars

(* Faulty: INSERT OR REPLACE. *)
FaultyInsertState(t) ==
  /\ pc[t] = "insert"
  /\ Write([db EXCEPT !.states[job[t].version] = job[t].contents]) /\ Goto(t, "commit")
  /\ UNCHANGED storeVars

(* PRIMARY KEY(site, version) *)
InsertState(t) ==
  /\ pc[t] = "insert"
  /\ IF db.states[job[t].version] # None THEN Raise(t)
     ELSE Write([db EXCEPT !.states[job[t].version] = job[t].contents]) /\ Goto(t, "commit")
  /\ UNCHANGED storeVars

(* Faulty: the digest is not compared. *)
FaultyMatchState(t) ==
  /\ pc[t] = "match"
  /\ IF db.states[job[t].version] # None THEN Read /\ Goto(t, "record") ELSE Raise(t)
  /\ UNCHANGED storeVars

(* ack_desired_state *)
MatchState(t) ==
  /\ pc[t] = "match"
  /\ IF db.states[job[t].version] = job[t].contents THEN Read /\ Goto(t, "record") ELSE Raise(t)
  /\ UNCHANGED storeVars

(* FOREIGN KEY(site, version) REFERENCES desired_states *)
RecordAck(t) ==
  /\ pc[t] = "record"
  /\ IF db.states[job[t].version] = None THEN Raise(t)
     ELSE Write([db EXCEPT !.acks[job[t].version] = job[t].contents]) /\ Goto(t, "commit")
  /\ UNCHANGED storeVars
-----------------------------------------------------------------------------
(* register_wireguard_public_key *)
Active == {r \in db.keys : r.status = "ACTIVE"}

SelectCurrent(t) ==
  /\ pc[t] = "current"
  /\ Read
  /\ \/ /\ \E r \in Active : r.key = job[t].key
        /\ Goto(t, "commit")
        /\ job' = job
     \/ /\ Active = {}
        /\ Goto(t, "add")
        /\ job' = [job EXCEPT ![t].generation = 0]
     \/ \E r \in Active :
        /\ r.key # job[t].key /\ r.generation < MaxGeneration
        /\ Goto(t, "retire")
        /\ job' = [job EXCEPT ![t].generation = r.generation]
  /\ UNCHANGED <<published, delivered>>

Retired(rows) == {[r EXCEPT !.status = "RETIRED"] : r \in rows}

(* UNIQUE(site, interface_name, status): one RETIRED row at most. *)
CanRetire == Active = {} \/ \A r \in db.keys : r.status # "RETIRED"

RetireKey(t) ==
  /\ pc[t] = "retire"
  /\ IF CanRetire THEN Write([db EXCEPT !.keys = Retired(Active) \cup (@ \ Active)]) /\ Goto(t, "add")
     ELSE Raise(t)
  /\ UNCHANGED storeVars

(* PRIMARY KEY(site, interface_name, generation), and one ACTIVE row. *)
AddKey(t) ==
  /\ pc[t] = "add"
  /\ LET row == [generation |-> job[t].generation + 1, key |-> job[t].key, status |-> "ACTIVE"]
     IN  IF \E r \in db.keys : r.generation = row.generation \/ r.status = row.status THEN Raise(t)
         ELSE Write([db EXCEPT !.keys = @ \cup {row}]) /\ Goto(t, "commit")
  /\ UNCHANGED storeVars

(* Deleting a site retires its key, from the management process and its    *)
(* own connection.                                                         *)
DeleteSite ==
  /\ ~inTx /\ Active # {} /\ CanRetire
  /\ Write([db EXCEPT !.keys = Retired(Active) \cup (@ \ Active)])
  /\ UNCHANGED <<pc, overlap, storeVars>>
-----------------------------------------------------------------------------
CommitStore(t) ==
  /\ Commit(t)
  /\ published' = IF job[t].op = "put" THEN published \cup {<<job[t].version, job[t].contents>>} ELSE published
  /\ job' = [job EXCEPT ![t] = NoJob]
  /\ UNCHANGED delivered

Forget(t) == job' = [job EXCEPT ![t] = NoJob] /\ UNCHANGED <<published, delivered>>
CommitErrorStore(t) == CommitError(t) /\ Forget(t)
RollbackStore(t) == Rollback(t, "idle") /\ Forget(t)

RestartStore ==
  /\ ProcessRestart
  /\ job' = [t \in Threads |-> NoJob]
  /\ UNCHANGED <<published, delivered>>

Put(t) == SelectLatest(t) \/ SelectExisting(t) \/ InsertState(t)
Ack(t) == MatchState(t) \/ RecordAck(t)
RegisterKey(t) == SelectCurrent(t) \/ RetireKey(t) \/ AddKey(t)

StoreNext ==
  \/ \E t \in Threads : \/ Publish(t) \/ Acknowledge(t) \/ Register(t)
                        \/ BeginStore(t) \/ Put(t) \/ Ack(t) \/ RegisterKey(t)
                        \/ CommitStore(t) \/ CommitErrorStore(t) \/ RollbackStore(t)
  \/ Deliver \/ DeleteSite \/ RestartStore

StoreSpec == StoreInit /\ [][StoreNext]_policyVars
-----------------------------------------------------------------------------
(* What is committed for a version never changes or vanishes, whichever    *)
(* thread's ROLLBACK or which restart intervenes: an edge that confirmed a *)
(* digest can always be compared with the store.  So does the key of a     *)
(* generation stay: "Retaining rotation history" (policy_store.py:41).     *)
NothingIsLost ==
  [][ /\ \A v \in Versions : disk.states[v] # None => disk'.states[v] = disk.states[v]
      /\ \A r \in disk.keys : \E q \in disk'.keys : q.generation = r.generation /\ q.key = r.key ]_policyVars

(* Requests that do not overlap are answered truthfully.  "Equal version   *)
(* with different contents and older version are rejected"                 *)
(* (DATABASE_SCHEMA.md:12): what put_desired_state has returned for is the *)
(* one contents of its version; and an acknowledgement is recorded only    *)
(* for the contents that are stored ("ack does not match desired state",   *)
(* policy_store.py:186), though edges acknowledge late.                    *)
SerialAnswers ==
  ~overlap =>
    /\ \A s \in published : disk.states[s[1]] = s[2]
    /\ \A v \in Versions : disk.acks[v] \in {None, disk.states[v]}

(* The invariant of the store under threads that share one connection. *)
StoreInv == StoreTypeOK /\ SerialAnswers
=============================================================================
