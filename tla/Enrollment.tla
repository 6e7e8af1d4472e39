----------------------------- MODULE Enrollment -----------------------------
(***************************************************************************)
(* The ZTP enrollment service (sdwan/ztp_service_v5.py) on its store       *)
(* (sdwan/persistence/ztp_store.py), statement by statement, with the      *)
(* first-boot client (sdwan/ztp_client.py) and the provisioner of the      *)
(* management process (sdwan/management/lifecycle.py), which opens the     *)
(* same database with a connection of its own.                             *)
(*                                                                         *)
(* Identifiers of claims and serial numbers are fresh, so a claim's device *)
(* can be fixed in advance (DeviceOf).  Left out: the audit and attempt    *)
(* rows, which nothing reads; the transaction that writes an attempt is    *)
(* kept, because its BEGIN and ROLLBACK act on the shared connection.      *)
(***************************************************************************)
EXTENDS SharedConnection

CONSTANTS
  Devices,
  Claims, DeviceOf,  \* claim identifiers, and the expected device of each
  Nonces,
  Serials            \* bound: certificates the CA issues

ASSUME ClaimsAssumption == DeviceOf \in [Claims -> Devices]

VARIABLES
  minted,  \* serial numbers the CA has used
  late,    \* claims whose lifetime is over
  held     \* device -> serial in its identity store

ztpVars == <<job, minted, late, held>>
vars == <<connection, pc, overlap, ztpVars>>

ClaimStatus == {None, "ACTIVE", "CONSUMED", "CANCELLED", "EXPIRED"}
DeviceStatus == {None, "STAGED", "ACTIVE", "REVOKED"}
(* A row of certificates; `claim` is no column but says what it was issued for. *)
Certificate == [serial : Serials, claim : Claims, status : {"ACTIVE", "REVOKED"}]

Tables == [claim : [Claims -> ClaimStatus], device : [Devices -> DeviceStatus],
           certs : SUBSET Certificate, sessions : SUBSET (Devices \X Nonces)]

Jobs ==
  [op : {None, "attempt"}]
    \cup [op : {"stage", "claim"}, device : Devices]
    \cup [op : {"revoke"}, serial : Serials]
    \cup [op : {"enroll"}, claim : Claims, nonce : Nonces, serial : Serials \cup {None}, rejected : BOOLEAN]

Labels == {"idle", "begin", "rollback", "commit", "insert", "check", "expire", "issue",
           "session", "certificate", "consume", "activate", "fence"}

TypeOK ==
  /\ db \in Tables /\ disk \in Tables /\ inTx \in BOOLEAN /\ overlap \in BOOLEAN
  /\ pc \in [Threads -> Labels]
  /\ job \in [Threads -> Jobs]
  /\ minted \subseteq Serials /\ late \subseteq Claims
  /\ held \in [Devices -> Serials \cup {None}]

EmptyTables == [claim |-> [c \in Claims |-> None], device |-> [d \in Devices |-> None],
                certs |-> {}, sessions |-> {}]

Init ==
  /\ db = EmptyTables /\ disk = EmptyTables /\ inTx = FALSE /\ overlap = FALSE
  /\ pc = [t \in Threads |-> "idle"] /\ job = [t \in Threads |-> NoJob]
  /\ minted = {} /\ late = {} /\ held = [d \in Devices |-> None]
-----------------------------------------------------------------------------
(* A request arrives. *)
Call(t, request) ==
  /\ pc[t] = "idle"
  /\ job' = [job EXCEPT ![t] = request]
  /\ Goto(t, "begin")
  /\ UNCHANGED <<connection, minted, late, held>>

EnrollCall(t) ==
  \E c \in Claims, n \in Nonces :
    /\ disk.claim[c] # None   \* the client has read a claim file
    /\ Call(t, [op |-> "enroll", claim |-> c, nonce |-> n, serial |-> None, rejected |-> FALSE])

AdminCall(t) ==
  \/ \E d \in Devices : Call(t, [op |-> "stage", device |-> d])
  \/ \E d \in Devices : Call(t, [op |-> "claim", device |-> d])
  \/ \E x \in disk.certs : Call(t, [op |-> "revoke", serial |-> x.serial])

BodyOf(op) ==
  CASE op = "enroll" -> "check"
    [] op = "attempt" -> "commit"
    [] OTHER -> "insert"

BeginStep(t) == Begin(t, BodyOf(job[t].op)) /\ UNCHANGED ztpVars

(* Faulty: staging a device again reactivates its cancelled claims. *)
FaultyStageDevice(t) ==
  /\ pc[t] = "insert" /\ job[t].op = "stage"
  /\ LET d == job[t].device
     IN  Write([db EXCEPT !.device[d] = "STAGED",
                          !.claim = [c \in Claims |-> IF DeviceOf[c] = d /\ @[c] = "CANCELLED" THEN "ACTIVE" ELSE @[c]]])
  /\ Goto(t, "commit")
  /\ UNCHANGED ztpVars

(* The administrator's transactions read one row and write it. *)
StageDevice(t) ==
  /\ pc[t] = "insert" /\ job[t].op = "stage"
  /\ LET d == job[t].device
     IN  Write(IF db.device[d] = None THEN [db EXCEPT !.device[d] = "STAGED"] ELSE db)
  /\ Goto(t, "commit")
  /\ UNCHANGED ztpVars

(* A claim is inserted for a device that is staged.  (Also refused when no *)
(* identifier is left: a bound of the model.)                              *)
CreateClaim(t) ==
  /\ pc[t] = "insert" /\ job[t].op = "claim"
  /\ LET d == job[t].device
         fresh == {c \in Claims : DeviceOf[c] = d /\ None = db.claim[c] /\ None = disk.claim[c]}
     IN  IF db.device[d] = "STAGED" /\ fresh # {}
         THEN /\ \E c \in fresh : Write([db EXCEPT !.claim[c] = "ACTIVE"])
              /\ Goto(t, "commit")
         ELSE Read /\ Goto(t, "rollback")
  /\ UNCHANGED ztpVars

(* revoke_certificate: the certificate, then its device. *)
RevokeCertificate(t) ==
  /\ pc[t] = "insert" /\ job[t].op = "revoke"
  /\ IF \E x \in db.certs : x.serial = job[t].serial
     THEN /\ Write([db EXCEPT !.certs = {IF x.serial = job[t].serial THEN [x EXCEPT !.status = "REVOKED"]
                                         ELSE x : x \in @}])
          /\ Goto(t, "fence")
     ELSE Read /\ Goto(t, "rollback")
  /\ UNCHANGED ztpVars

FenceDevice(t) ==
  /\ pc[t] = "fence"
  /\ Write([db EXCEPT !.device =
       [d \in Devices |-> IF \E x \in db.certs : x.serial = job[t].serial /\ DeviceOf[x.claim] = d
                          THEN "REVOKED" ELSE @[d]]])
  /\ Goto(t, "commit")
  /\ UNCHANGED ztpVars
-----------------------------------------------------------------------------
(* consume_claim. *)

Reject(t) ==
  /\ Read /\ Goto(t, "rollback")
  /\ job' = [job EXCEPT ![t].rejected = TRUE]
  /\ UNCHANGED <<minted, late, held>>

(* Faulty: the status of the claim is not looked at. *)
FaultyCheckClaim(t) ==
  /\ pc[t] = "check"
  /\ Read /\ Goto(t, IF job[t].claim \in late THEN "expire" ELSE "issue")
  /\ UNCHANGED ztpVars

CheckClaim(t) ==
  /\ pc[t] = "check"
  /\ LET c == job[t].claim
     IN  IF db.claim[c] # "ACTIVE" THEN Reject(t)
         ELSE /\ Read /\ Goto(t, IF c \in late THEN "expire" ELSE "issue")
              /\ UNCHANGED ztpVars

ExpireClaim(t) ==
  /\ pc[t] = "expire"
  /\ Write([db EXCEPT !.claim[job[t].claim] = "EXPIRED"])
  /\ Goto(t, "rollback")
  /\ job' = [job EXCEPT ![t].rejected = TRUE]
  /\ UNCHANGED <<minted, late, held>>

(* The claim secret is wrong, or the nonce has been used by this device. *)
SecretOrNonceRejected(t) ==
  /\ pc[t] = "issue"
  /\ Reject(t)

(* The CA signs while the transaction is open, or refuses the CSR. *)
IssueCertificate(t) ==
  /\ pc[t] = "issue"
  /\ <<DeviceOf[job[t].claim], job[t].nonce>> \notin db.sessions
  /\ \E s \in Serials \ minted :
       /\ minted' = minted \cup {s}
       /\ job' = [job EXCEPT ![t].serial = s]
  /\ Read /\ Goto(t, "session")
  /\ UNCHANGED <<late, held>>

CertificateError(t) ==
  /\ pc[t] = "issue"
  /\ <<DeviceOf[job[t].claim], job[t].nonce>> \notin db.sessions
  /\ Read /\ Goto(t, "rollback")
  /\ UNCHANGED ztpVars

InsertSession(t) ==
  /\ pc[t] = "session"
  /\ LET row == <<DeviceOf[job[t].claim], job[t].nonce>>
     IN  IF row \in db.sessions THEN Read /\ Goto(t, "rollback")
         ELSE Write([db EXCEPT !.sessions = @ \cup {row}]) /\ Goto(t, "certificate")
  /\ UNCHANGED ztpVars

InsertCertificate(t) ==
  /\ pc[t] = "certificate"
  /\ Write([db EXCEPT !.certs = @ \cup {[serial |-> job[t].serial, claim |-> job[t].claim, status |-> "ACTIVE"]}])
  /\ Goto(t, "consume")
  /\ UNCHANGED ztpVars

ConsumeClaim(t) ==
  /\ pc[t] = "consume"
  /\ Write([db EXCEPT !.claim[job[t].claim] = "CONSUMED"])
  /\ Goto(t, "activate")
  /\ UNCHANGED ztpVars

ActivateDevice(t) ==
  /\ pc[t] = "activate"
  /\ Write([db EXCEPT !.device[DeviceOf[job[t].claim]] = "ACTIVE"])
  /\ Goto(t, "commit")
  /\ UNCHANGED ztpVars

(* The answer to an enrolment reaches the client, which stores it, or the  *)
(* client has given up after its 15 seconds.                               *)
CommitStep(t) ==
  /\ Commit(t)
  /\ \/ held' = held
     \/ /\ job[t].op = "enroll"
        /\ held' = [held EXCEPT ![DeviceOf[job[t].claim]] = job[t].serial]
  /\ job' = [job EXCEPT ![t] = NoJob]
  /\ UNCHANGED <<minted, late>>

CommitErrorStep(t) ==
  /\ CommitError(t)
  /\ job' = [job EXCEPT ![t] = NoJob]
  /\ UNCHANGED <<minted, late, held>>

(* A ClaimRejected is recorded in a transaction of its own, unless the     *)
(* ROLLBACK has failed with an error of another kind.                      *)
RollbackStep(t) ==
  LET records == job[t].op = "enroll" /\ job[t].rejected /\ inTx
  IN  /\ Rollback(t, IF records THEN "begin" ELSE "idle")
      /\ job' = [job EXCEPT ![t] = IF records THEN [op |-> "attempt"] ELSE NoJob]
      /\ UNCHANGED <<minted, late, held>>
-----------------------------------------------------------------------------
(* The management process, on its own connection: SQLite makes it wait for *)
(* the service's transaction.                                              *)

RevokeSite(d) ==
  /\ ~inTx /\ db.device[d] # None
  /\ Write([db EXCEPT !.device[d] = "REVOKED",
                      !.claim = [c \in Claims |-> IF DeviceOf[c] = d /\ @[c] = "ACTIVE" THEN "CANCELLED" ELSE @[c]],
                      !.certs = {IF DeviceOf[x.claim] = d THEN [x EXCEPT !.status = "REVOKED"] ELSE x : x \in @}])
  /\ UNCHANGED <<pc, overlap, ztpVars>>

ClaimExpires(c) ==
  /\ c \notin late /\ disk.claim[c] # None
  /\ late' = late \cup {c}
  /\ UNCHANGED <<connection, pc, overlap, job, minted, held>>

Restart ==
  /\ ProcessRestart
  /\ job' = [t \in Threads |-> NoJob]
  /\ UNCHANGED <<minted, late, held>>

Enroll(t) ==
  \/ CheckClaim(t) \/ ExpireClaim(t) \/ SecretOrNonceRejected(t)
  \/ IssueCertificate(t) \/ CertificateError(t)
  \/ InsertSession(t) \/ InsertCertificate(t) \/ ConsumeClaim(t) \/ ActivateDevice(t)

Administer(t) ==
  StageDevice(t) \/ CreateClaim(t) \/ RevokeCertificate(t) \/ FenceDevice(t)

Next ==
  \/ \E t \in Threads : \/ EnrollCall(t) \/ AdminCall(t) \/ BeginStep(t)
                        \/ Administer(t) \/ Enroll(t)
                        \/ CommitStep(t) \/ CommitErrorStep(t) \/ RollbackStep(t)
  \/ \E d \in Devices : RevokeSite(d)
  \/ \E c \in Claims : ClaimExpires(c)
  \/ Restart

Spec == Init /\ [][Next]_vars
-----------------------------------------------------------------------------
(* "Any exception rolls back the claim, nonce session, certificate and     *)
(* device update together" (ztp_store.py:89): in the committed tables a    *)
(* claim is consumed exactly when its one certificate is there.            *)
ConsumedTogether ==
  \A c \in Claims :
    (disk.claim[c] = "CONSUMED") <=> (\E x \in disk.certs : x.claim = c)

(* As long as no two requests have overlapped that is so, whatever         *)
(* rejection, expiry, restart or deletion of the site comes in between,    *)
(* and no two certificates were issued for one claim.                      *)
SerialConsumption ==
  ~overlap => ConsumedTogether /\ \A x, y \in disk.certs : x.claim = y.claim => x = y

(* Nor does a device then hold a certificate of which the service has no   *)
(* record, and which could not be revoked, though the CA signs before      *)
(* COMMIT and the process may end in between.                              *)
SerialHeld ==
  ~overlap => \A d \in Devices : held[d] # None => \E x \in disk.certs : x.serial = held[d]

(* A transaction is never left open by a thread that has ended: it would   *)
(* block the management process and be rolled back by the next request.    *)
NoOrphanTransaction ==
  inTx => \E t \in Threads : pc[t] \notin {"idle", "begin"}

(* The invariant of the claim, nonce, certificate and device tables: what  *)
(* holds of consume_claim, the CA and the devices taken together.          *)
EnrollmentInv == TypeOK /\ SerialConsumption /\ SerialHeld /\ NoOrphanTransaction

(* Whatever ROLLBACK or restart comes when, a claim that was consumed,     *)
(* cancelled or expired is never usable again, and a revocation is never   *)
(* undone.                                                                 *)
NothingIsRevived ==
  [][/\ \A c \in Claims : disk.claim[c] \notin {None, "ACTIVE"} => disk'.claim[c] \notin {None, "ACTIVE"}
     /\ \A x \in disk.certs : x.status = "REVOKED" => x \in disk'.certs]_vars
=============================================================================
