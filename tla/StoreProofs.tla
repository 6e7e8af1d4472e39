----------------------------- MODULE StoreProofs ----------------------------
(***************************************************************************)
(* Proofs about the two services that share one connection among their     *)
(* request threads: first the ZTP service, for any number of request       *)
(* threads, devices, claims, nonces and serial numbers, then the Policy    *)
(* Service's store, for any number of threads, versions and generations.   *)
(***************************************************************************)
EXTENDS Enrollment, PolicyStore, WellFoundedInduction, TLAPS

EnrollJobs ==
  [op : {"enroll"}, claim : Claims, nonce : Nonces, serial : Serials \cup {None}, rejected : BOOLEAN]

(* What a thread is asked to do at a statement; a certificate is at hand   *)
(* once it was issued.                                                     *)
JobOK(label, j) ==
  /\ label = "begin" => j.op # None
  /\ label \in {"check", "expire", "issue", "session", "certificate", "consume", "activate"} => j \in EnrollJobs
  /\ label = "insert" => j.op \in {"stage", "claim", "revoke"}
  /\ label = "fence" => j.op = "revoke"
  /\ label \in {"session", "certificate", "consume", "activate"} => j.serial \in Serials
  /\ label = "commit" /\ j.op = "enroll" => j \in EnrollJobs /\ j.serial \in Serials

JobInv == \A t \in Threads : JobOK(pc[t], job[t])

(* What a statement may do to the tables: no spent claim becomes usable,   *)
(* no revocation is undone, and no certificate is forgotten.               *)
Forward(old, new) ==
  /\ \A c \in Claims : old.claim[c] \notin {None, "ACTIVE"} => new.claim[c] \notin {None, "ACTIVE"}
  /\ \A x \in old.certs : x.status = "REVOKED" => x \in new.certs
  /\ \A x \in old.certs : \E y \in new.certs : y.serial = x.serial

TablesInv == (~inTx => db = disk) /\ Forward(disk, db)

(* A claim is consumed exactly when its one certificate is there. *)
Consistent(claim, certs) ==
  /\ \A c \in Claims : (claim[c] = "CONSUMED") <=> (\E x \in certs : x.claim = c)
  /\ \A x, y \in certs : x.claim = y.claim => x = y

Recorded(serial, certs) == \E x \in certs : x.serial = serial

(* A request that is alone has its transaction to itself, and what it has  *)
(* written of an enrolment is what its next statements complete.           *)
SerialOK(label, j, tables, open) ==
  /\ label \notin {"idle", "begin"} => open
  /\ label \notin {"idle", "rollback", "consume"} => Consistent(tables.claim, tables.certs)
  /\ label \in {"expire", "issue", "session", "certificate", "consume"} => tables.claim[j.claim] = "ACTIVE"
  /\ label = "consume" => Consistent([tables.claim EXCEPT ![j.claim] = "CONSUMED"], tables.certs)
  /\ label \in {"consume", "activate"} => Recorded(j.serial, tables.certs)
  /\ label = "commit" /\ j.op = "enroll" => Recorded(j.serial, tables.certs)

SerialInv ==
  ~overlap =>
    /\ \A t, u \in Threads : pc[t] # "idle" /\ pc[u] # "idle" => t = u
    /\ Consistent(disk.claim, disk.certs)
    /\ \A d \in Devices : held[d] # None => Recorded(held[d], disk.certs)
    /\ \A t \in Threads : SerialOK(pc[t], job[t], db, inTx)

(* The inductive invariant. *)
IndInv == TypeOK /\ JobInv /\ TablesInv /\ NoOrphanTransaction /\ SerialInv
-----------------------------------------------------------------------------
(* Changes of the tables follow one another. *)
LEMMA ForwardOrder ==
  ASSUME NEW a, NEW b, NEW c
  PROVE  Forward(a, a) /\ (Forward(a, b) /\ Forward(b, c) => Forward(a, c))
<1>1. Forward(a, a)
  BY DEF Forward
<1>2. ASSUME Forward(a, b), Forward(b, c) PROVE Forward(a, c)
  <2>1. \A x \in a.certs : \E y \in c.certs : y.serial = x.serial
    <3> SUFFICES ASSUME NEW x \in a.certs PROVE \E y \in c.certs : y.serial = x.serial
      OBVIOUS
    <3>1. PICK y \in b.certs : y.serial = x.serial
      BY <1>2 DEF Forward
    <3>2. PICK z \in c.certs : z.serial = y.serial
      BY <1>2 DEF Forward
    <3> QED BY <3>1, <3>2
  <2>2. \A x \in a.certs : x.status = "REVOKED" => x \in c.certs
    BY <1>2 DEF Forward
  <2> QED BY <1>2, <2>1, <2>2 DEF Forward
<1> QED BY <1>1, <1>2

(* A statement that leaves claims and certificates alone. *)
LEMMA ForwardSame ==
  ASSUME NEW a, NEW b, b.claim = a.claim, b.certs = a.certs
  PROVE  Forward(a, b)
BY DEF Forward

(* Thread t goes on, and is not alone when another one is under way. *)
LEMMA GotoFields ==
  ASSUME NEW L, pc \in [Threads -> L], overlap \in BOOLEAN, NEW t \in Threads, NEW label \in L, Goto(t, label)
  PROVE  /\ pc' \in [Threads -> L] /\ pc'[t] = label /\ \A u \in Threads \ {t} : pc'[u] = pc[u]
         /\ overlap' \in BOOLEAN
         /\ ~overlap' => ~overlap /\ \A u \in Threads \ {t} : pc[u] = "idle"
BY DEF Goto

(* A step of one thread: what it owes to the invariant. *)
LEMMA ThreadStep ==
  ASSUME IndInv, NEW t \in Threads, NEW label \in Labels, Goto(t, label),
         NEW j \in Jobs, job' = [job EXCEPT ![t] = j], JobOK(label, j),
         db' \in Tables, disk' \in Tables, inTx' \in BOOLEAN, minted' \subseteq Serials, late' = late,
         held' \in [Devices -> Serials \cup {None}], TablesInv',
         inTx' => label \notin {"idle", "begin"} \/ (\E u \in Threads \ {t} : pc[u] \notin {"idle", "begin"}),
         ~overlap /\ (\A u \in Threads \ {t} : pc[u] = "idle") =>
           /\ Consistent(disk'.claim, disk'.certs)
           /\ \A d \in Devices : held'[d] # None => Recorded(held'[d], disk'.certs)
           /\ SerialOK(label, j, db', inTx')
  PROVE  IndInv'
<1>1. pc \in [Threads -> Labels] /\ overlap \in BOOLEAN /\ job \in [Threads -> Jobs]
  BY DEF IndInv, TypeOK
<1>2. /\ pc' \in [Threads -> Labels] /\ pc'[t] = label /\ \A u \in Threads \ {t} : pc'[u] = pc[u]
      /\ overlap' \in BOOLEAN
      /\ ~overlap' => ~overlap /\ \A u \in Threads \ {t} : pc[u] = "idle"
  BY <1>1, GotoFields
<1>3. job' \in [Threads -> Jobs] /\ job'[t] = j /\ \A u \in Threads \ {t} : job'[u] = job[u]
  BY <1>1
<1>4. TypeOK'
  BY <1>2, <1>3 DEF IndInv, TypeOK
<1>5. JobInv'
  <2> SUFFICES ASSUME NEW u \in Threads PROVE JobOK(pc'[u], job'[u])
    BY DEF JobInv, JobOK
  <2>1. CASE u = t
    BY <1>2, <1>3, <2>1
  <2>2. CASE u # t
    BY <1>2, <1>3, <2>2 DEF IndInv, JobInv
  <2> QED BY <2>1, <2>2
<1>6. NoOrphanTransaction'
  BY <1>2 DEF NoOrphanTransaction
<1>7. SerialInv'
  <2> SUFFICES ASSUME ~overlap' PROVE SerialInv'
    BY DEF SerialInv
  <2>1. ~overlap /\ \A u \in Threads \ {t} : pc[u] = "idle" /\ pc'[u] = "idle"
    BY <1>2
  <2>2. \A u, w \in Threads : pc'[u] # "idle" /\ pc'[w] # "idle" => u = w
    BY <2>1
  <2>3. /\ Consistent(disk'.claim, disk'.certs)
        /\ \A d \in Devices : held'[d] # None => Recorded(held'[d], disk'.certs)
        /\ SerialOK(label, j, db', inTx')
    BY <2>1
  <2>4. ASSUME NEW u \in Threads PROVE SerialOK(pc'[u], job'[u], db', inTx')
    <3>1. CASE u = t
      BY <1>2, <1>3, <2>3, <3>1
    <3>2. CASE u # t
      BY <2>1, <3>2 DEF SerialOK
    <3> QED BY <3>1, <3>2
  <2> QED BY <2>2, <2>3, <2>4 DEF SerialInv, Consistent, Recorded, SerialOK
<1> QED BY <1>4, <1>5, <1>6, <1>7 DEF IndInv

(* A statement of a request, a SELECT included: outside a transaction the  *)
(* tables are the committed ones.                                          *)
LEMMA BodyStep ==
  ASSUME IndInv, NEW t \in Threads, pc[t] \notin {"idle", "begin"},
         NEW label \in Labels \ {"idle", "begin"}, Goto(t, label),
         NEW new \in Tables, Forward(db, new), Write(new) \/ (Read /\ new = db),
         NEW j \in Jobs, job' = [job EXCEPT ![t] = j], JobOK(label, j),
         minted' \subseteq Serials, late' = late, held' = held,
         ~overlap /\ SerialOK(pc[t], job[t], db, TRUE) => SerialOK(label, j, new, TRUE)
  PROVE  IndInv' /\ Forward(disk, disk')
<1>1. db \in Tables /\ disk \in Tables /\ inTx \in BOOLEAN /\ held \in [Devices -> Serials \cup {None}]
  BY DEF IndInv, TypeOK
<1>2. db' = new /\ inTx' = inTx /\ disk' = IF inTx THEN disk ELSE new
  BY DEF Write, Read, connection, IndInv, TablesInv
<1>3. Forward(disk, disk') /\ Forward(disk', db')
  <2>1. CASE inTx
    BY <1>2, <2>1, ForwardOrder DEF IndInv, TablesInv
  <2>2. CASE ~inTx
    BY <1>2, <2>2, ForwardOrder DEF IndInv, TablesInv
  <2> QED BY <2>1, <2>2
<1>4. TablesInv'
  BY <1>2, <1>3 DEF TablesInv, Forward
<1>5. ASSUME ~overlap
      PROVE  /\ Consistent(disk'.claim, disk'.certs)
             /\ \A d \in Devices : held'[d] # None => Recorded(held'[d], disk'.certs)
             /\ SerialOK(label, j, db', inTx')
  <2>1. SerialOK(pc[t], job[t], db, inTx)
    BY <1>5 DEF IndInv, SerialInv
  <2>2. inTx
    BY <2>1 DEF SerialOK
  <2>3. inTx = TRUE /\ inTx' = TRUE /\ disk' = disk
    BY <1>1, <1>2, <2>2
  <2>4. SerialOK(label, j, new, TRUE)
    BY <1>5, <2>1, <2>3
  <2> QED BY <1>2, <1>5, <2>3, <2>4 DEF IndInv, SerialInv
<1>6. IndInv'
  BY <1>1, <1>2, <1>4, <1>5, ThreadStep
<1> QED BY <1>3, <1>6
-----------------------------------------------------------------------------
(* One claim of the table changes, or one device. *)
LEMMA ClaimSet ==
  ASSUME NEW tables \in Tables, NEW c \in Claims, NEW v \in ClaimStatus
  PROVE  LET new == [tables EXCEPT !.claim[c] = v]
         IN  /\ new \in Tables /\ new.claim = [tables.claim EXCEPT ![c] = v] /\ new.certs = tables.certs
             /\ tables.claim \in [Claims -> ClaimStatus]
BY DEF Tables

(* Tables in which one device has another status. *)
LEMMA DeviceSet ==
  ASSUME NEW tables \in Tables, NEW d \in Devices, NEW v \in DeviceStatus
  PROVE  LET new == [tables EXCEPT !.device[d] = v]
         IN  new \in Tables /\ new.claim = tables.claim /\ new.certs = tables.certs
BY DEF Tables

(* The job of a thread, by its operation. *)
LEMMA JobFields ==
  ASSUME IndInv, NEW t \in Threads
  PROVE  /\ db \in Tables /\ job[t] \in Jobs /\ job \in [Threads -> Jobs] /\ minted \subseteq Serials
         /\ JobOK(pc[t], job[t])
         /\ job[t].op \in {"stage", "claim"} => job[t].device \in Devices
         /\ job[t] \in EnrollJobs =>
              /\ job[t].op = "enroll" /\ job[t].claim \in Claims /\ DeviceOf[job[t].claim] \in Devices
              /\ job[t].nonce \in Nonces
         /\ job = [job EXCEPT ![t] = job[t]]
<1>1. job \in [Threads -> Jobs] /\ db \in Tables /\ minted \subseteq Serials
  BY DEF IndInv, TypeOK
<1>2. JobOK(pc[t], job[t])
  BY DEF IndInv, JobInv
<1>3. job[t].op \in {"stage", "claim"} => job[t].device \in Devices
  BY <1>1 DEF Jobs, None
<1>4. job[t] \in EnrollJobs =>
        /\ job[t].op = "enroll" /\ job[t].claim \in Claims /\ DeviceOf[job[t].claim] \in Devices
        /\ job[t].nonce \in Nonces
  BY ClaimsAssumption DEF EnrollJobs
<1> QED BY <1>1, <1>2, <1>3, <1>4

(* stage_device *)
LEMMA StageStep ==
  ASSUME IndInv, NEW t \in Threads, StageDevice(t)
  PROVE  IndInv' /\ Forward(disk, disk')
<1> DEFINE d   == job[t].device
           new == IF db.device[d] = None THEN [db EXCEPT !.device[d] = "STAGED"] ELSE db
<1>1. pc[t] = "insert" /\ job[t].op = "stage" /\ Write(new) /\ Goto(t, "commit") /\ UNCHANGED <<job, minted, late, held>>
  BY DEF StageDevice, ztpVars
<1>2. new \in Tables /\ new.claim = db.claim /\ new.certs = db.certs
  <2>1. "STAGED" \in DeviceStatus /\ d \in Devices /\ db \in Tables
    BY <1>1, JobFields DEF DeviceStatus
  <2> HIDE DEF d
  <2>2. LET n == [db EXCEPT !.device[d] = "STAGED"]
        IN  n \in Tables /\ n.claim = db.claim /\ n.certs = db.certs
    BY <2>1, DeviceSet
  <2> QED BY <2>1, <2>2
<1> HIDE DEF new
<1>3. "commit" \in Labels \ {"idle", "begin"} /\ JobOK("commit", job[t])
  BY <1>1 DEF Labels, JobOK
<1>4. SerialOK(pc[t], job[t], db, TRUE) => SerialOK("commit", job[t], new, TRUE)
  BY <1>1, <1>2 DEF SerialOK
<1> QED BY <1>1, <1>2, <1>3, <1>4, JobFields, ForwardSame, BodyStep

(* create_claim: the identifier has not been used. *)
LEMMA CreateClaimStep ==
  ASSUME IndInv, NEW t \in Threads, CreateClaim(t)
  PROVE  IndInv' /\ Forward(disk, disk')
<1> DEFINE fresh == {c \in Claims : DeviceOf[c] = job[t].device /\ None = db.claim[c] /\ None = disk.claim[c]}
<1>1. pc[t] = "insert" /\ job[t].op = "claim" /\ UNCHANGED <<job, minted, late, held>>
  BY DEF CreateClaim, ztpVars
<1>2. CASE Read /\ Goto(t, "rollback")
  <2>1. "rollback" \in Labels \ {"idle", "begin"} /\ JobOK("rollback", job[t])
    BY DEF Labels, JobOK
  <2>2. SerialOK("rollback", job[t], db, TRUE)
    BY DEF SerialOK
  <2> QED BY <1>1, <1>2, <2>1, <2>2, JobFields, ForwardOrder, BodyStep
<1>3. ASSUME NEW c \in fresh, Write([db EXCEPT !.claim[c] = "ACTIVE"]), Goto(t, "commit")
      PROVE  IndInv' /\ Forward(disk, disk')
  <2> DEFINE new == [db EXCEPT !.claim[c] = "ACTIVE"]
  <2>1. c \in Claims /\ db.claim[c] = None /\ "ACTIVE" \in ClaimStatus /\ db \in Tables
    BY JobFields DEF ClaimStatus
  <2>2. /\ new \in Tables /\ new.claim = [db.claim EXCEPT ![c] = "ACTIVE"] /\ new.certs = db.certs
        /\ db.claim \in [Claims -> ClaimStatus]
    BY <2>1, ClaimSet
  <2>3. Write(new)
    BY <1>3
  <2> HIDE DEF new, fresh
  <2>4. \A e \in Claims : e # c => new.claim[e] = db.claim[e]
    BY <2>2
  <2>5. new.claim[c] = "ACTIVE"
    BY <2>1, <2>2
  <2>6. Forward(db, new)
    BY <2>1, <2>2, <2>4 DEF Forward
  <2>7. Consistent(db.claim, db.certs) => Consistent(new.claim, new.certs)
    BY <2>1, <2>2, <2>4, <2>5 DEF Consistent, None
  <2>8. "commit" \in Labels \ {"idle", "begin"} /\ JobOK("commit", job[t])
    BY <1>1 DEF Labels, JobOK
  <2>9. SerialOK(pc[t], job[t], db, TRUE) => SerialOK("commit", job[t], new, TRUE)
    BY <1>1, <2>7 DEF SerialOK
  <2> QED BY <1>1, <1>3, <2>2, <2>3, <2>6, <2>8, <2>9, JobFields, BodyStep
<1> QED BY <1>2, <1>3 DEF CreateClaim

(* The certificates with those of mine revoked. *)
RevokeIn(certs, mine) == {IF x \in mine THEN [x EXCEPT !.status = "REVOKED"] ELSE x : x \in certs}

(* What the revocation of some certificates leaves. *)
LEMMA Revoked ==
  ASSUME NEW certs \in SUBSET Certificate, NEW mine \in SUBSET Certificate
  PROVE  LET new == RevokeIn(certs, mine)
         IN  /\ new \in SUBSET Certificate
             /\ \A x \in certs : x.status = "REVOKED" => x \in new
             /\ \A x \in certs : \E y \in new : y.serial = x.serial
             /\ \A claim : Consistent(claim, certs) => Consistent(claim, new)
             /\ \A s : Recorded(s, certs) => Recorded(s, new)
<1> DEFINE r(x) == IF x \in mine THEN [x EXCEPT !.status = "REVOKED"] ELSE x
           new  == {r(x) : x \in certs}
<1>1. \A x \in certs : /\ r(x) \in Certificate /\ r(x).serial = x.serial /\ r(x).claim = x.claim
                       /\ x.status = "REVOKED" => r(x) = x
  <2> SUFFICES ASSUME NEW x \in certs
               PROVE  /\ r(x) \in Certificate /\ r(x).serial = x.serial /\ r(x).claim = x.claim
                      /\ x.status = "REVOKED" => r(x) = x
    OBVIOUS
  <2>1. x \in [serial : Serials, claim : Claims, status : {"ACTIVE", "REVOKED"}]
    BY DEF Certificate
  <2>2. LET y == [x EXCEPT !.status = "REVOKED"]
        IN  /\ y \in Certificate /\ y.serial = x.serial /\ y.claim = x.claim
            /\ x.status = "REVOKED" => y = x
    BY <2>1 DEF Certificate
  <2> QED BY <2>1, <2>2 DEF Certificate
<1>2. \A x \in certs : r(x) \in new
  OBVIOUS
<1>3. \A y \in new : \E x \in certs : y = r(x)
  OBVIOUS
<1> HIDE DEF r, new
<1>4. new \in SUBSET Certificate
  BY <1>1, <1>3
<1>5. \A x \in certs : x.status = "REVOKED" => x \in new
  BY <1>1, <1>2
<1>6. \A x \in certs : \E y \in new : y.serial = x.serial
  BY <1>1, <1>2
<1>7. ASSUME NEW claim, Consistent(claim, certs) PROVE Consistent(claim, new)
  <2>1. \A c \in Claims : (\E x \in certs : x.claim = c) <=> (\E y \in new : y.claim = c)
    BY <1>1, <1>2, <1>3
  <2>2. ASSUME NEW x \in new, NEW y \in new, x.claim = y.claim PROVE x = y
    <3>1. PICK a \in certs : x = r(a)
      BY <1>3
    <3>2. PICK b \in certs : y = r(b)
      BY <1>3
    <3>3. a.claim = b.claim
      BY <1>1, <2>2, <3>1, <3>2
    <3> QED BY <1>7, <3>1, <3>2, <3>3 DEF Consistent
  <2> QED BY <1>7, <2>1, <2>2 DEF Consistent
<1>8. \A s : Recorded(s, certs) => Recorded(s, new)
  BY <1>6 DEF Recorded
<1>9. new = RevokeIn(certs, mine)
  BY DEF new, r, RevokeIn
<1> QED BY <1>4, <1>5, <1>6, <1>7, <1>8, <1>9

(* revoke_certificate: the certificate. *)
LEMMA RevokeStep ==
  ASSUME IndInv, NEW t \in Threads, RevokeCertificate(t)
  PROVE  IndInv' /\ Forward(disk, disk')
<1> DEFINE new == [db EXCEPT !.certs = {IF x.serial = job[t].serial THEN [x EXCEPT !.status = "REVOKED"]
                                        ELSE x : x \in @}]
<1>1. pc[t] = "insert" /\ job[t].op = "revoke" /\ UNCHANGED <<job, minted, late, held>>
  BY DEF RevokeCertificate, ztpVars
<1>2. CASE Read /\ Goto(t, "rollback")
  <2>1. "rollback" \in Labels \ {"idle", "begin"} /\ JobOK("rollback", job[t])
    BY DEF Labels, JobOK
  <2>2. SerialOK("rollback", job[t], db, TRUE)
    BY DEF SerialOK
  <2> QED BY <1>1, <1>2, <2>1, <2>2, JobFields, ForwardOrder, BodyStep
<1>3. CASE Write(new) /\ Goto(t, "fence")
  <2> DEFINE mine  == {x \in Certificate : x.serial = job[t].serial}
             after == RevokeIn(db.certs, mine)
  <2>1. db \in Tables /\ db.certs \in SUBSET Certificate
    BY JobFields DEF Tables
  <2>2. /\ after \in SUBSET Certificate
        /\ \A x \in db.certs : x.status = "REVOKED" => x \in after
        /\ \A x \in db.certs : \E y \in after : y.serial = x.serial
        /\ \A claim : Consistent(claim, db.certs) => Consistent(claim, after)
    <3> HIDE DEF mine
    <3>1. mine \in SUBSET Certificate
      BY DEF mine
    <3> QED BY <2>1, <3>1, Revoked
  <2>3. after = {IF x.serial = job[t].serial THEN [x EXCEPT !.status = "REVOKED"] ELSE x : x \in db.certs}
    BY <2>1 DEF RevokeIn
  <2>4. new = [db EXCEPT !.certs = after]
    BY <2>3, Zenon
  <2> HIDE DEF new, after
  <2>5. new \in Tables /\ new.claim = db.claim /\ new.certs = after
    BY <2>1, <2>2, <2>4 DEF Tables
  <2>6. Forward(db, new)
    BY <2>2, <2>5 DEF Forward
  <2>7. "fence" \in Labels \ {"idle", "begin"} /\ JobOK("fence", job[t])
    BY <1>1 DEF Labels, JobOK
  <2>8. SerialOK(pc[t], job[t], db, TRUE) => SerialOK("fence", job[t], new, TRUE)
    BY <1>1, <2>2, <2>5 DEF SerialOK
  <2> QED BY <1>1, <1>3, <2>5, <2>6, <2>7, <2>8, JobFields, BodyStep
<1> QED BY <1>2, <1>3 DEF RevokeCertificate

(* revoke_certificate: its device. *)
LEMMA FenceStep ==
  ASSUME IndInv, NEW t \in Threads, FenceDevice(t)
  PROVE  IndInv' /\ Forward(disk, disk')
<1> DEFINE hit(d) == \E x \in db.certs : x.serial = job[t].serial /\ DeviceOf[x.claim] = d
           after  == [d \in Devices |-> IF hit(d) THEN "REVOKED" ELSE db.device[d]]
           new    == [db EXCEPT !.device = after]
<1>1. pc[t] = "fence" /\ Goto(t, "commit") /\ UNCHANGED <<job, minted, late, held>> /\ job[t].op = "revoke"
  BY JobFields DEF FenceDevice, ztpVars, JobOK
<1>2. Write(new)
  <2>1. Write([db EXCEPT !.device =
          [d \in Devices |-> IF \E x \in db.certs : x.serial = job[t].serial /\ DeviceOf[x.claim] = d
                             THEN "REVOKED" ELSE @[d]]])
    BY DEF FenceDevice
  <2> QED BY <2>1
<1>3. new \in Tables /\ new.claim = db.claim /\ new.certs = db.certs
  <2>1. db \in Tables
    BY JobFields
  <2>2. after \in [Devices -> DeviceStatus]
    <3> HIDE DEF hit
    <3> QED BY <2>1 DEF Tables, DeviceStatus
  <2> HIDE DEF after
  <2> QED BY <2>1, <2>2 DEF Tables
<1> HIDE DEF new
<1>4. "commit" \in Labels \ {"idle", "begin"} /\ JobOK("commit", job[t])
  BY <1>1 DEF Labels, JobOK
<1>5. SerialOK(pc[t], job[t], db, TRUE) => SerialOK("commit", job[t], new, TRUE)
  BY <1>1, <1>3 DEF SerialOK
<1> QED BY <1>1, <1>2, <1>3, <1>4, <1>5, JobFields, ForwardSame, BodyStep

(* A request is rejected. *)
LEMMA RejectStep ==
  ASSUME IndInv, NEW t \in Threads, pc[t] \notin {"idle", "begin"}, job[t] \in EnrollJobs, Reject(t)
  PROVE  IndInv' /\ Forward(disk, disk')
<1> DEFINE j == [job[t] EXCEPT !.rejected = TRUE]
<1>1. Read /\ Goto(t, "rollback") /\ UNCHANGED <<minted, late, held>> /\ job' = [job EXCEPT ![t] = j]
  BY JobFields DEF Reject
<1>2. j \in Jobs
  BY DEF EnrollJobs, Jobs
<1> HIDE DEF j
<1>3. "rollback" \in Labels \ {"idle", "begin"} /\ JobOK("rollback", j)
  BY DEF Labels, JobOK
<1>4. SerialOK("rollback", j, db, TRUE)
  BY DEF SerialOK
<1> QED BY <1>1, <1>2, <1>3, <1>4, JobFields, ForwardOrder, BodyStep

(* A thread goes on without a change of the tables or of its job. *)
LEMMA ReadStep ==
  ASSUME IndInv, NEW t \in Threads, pc[t] \notin {"idle", "begin"}, NEW label \in Labels \ {"idle", "begin"},
         Read, Goto(t, label), UNCHANGED ztpVars, JobOK(label, job[t]),
         SerialOK(pc[t], job[t], db, TRUE) => SerialOK(label, job[t], db, TRUE)
  PROVE  IndInv' /\ Forward(disk, disk')
<1>1. UNCHANGED <<job, minted, late, held>>
  BY DEF ztpVars
<1> QED BY <1>1, JobFields, ForwardOrder, BodyStep

(* consume_claim: the claim is looked up. *)
LEMMA CheckStep ==
  ASSUME IndInv, NEW t \in Threads, CheckClaim(t)
  PROVE  IndInv' /\ Forward(disk, disk')
<1>1. pc[t] = "check" /\ job[t] \in EnrollJobs
  BY JobFields DEF CheckClaim, JobOK
<1>2. CASE db.claim[job[t].claim] # "ACTIVE"
  BY <1>1, <1>2, RejectStep DEF CheckClaim
<1>3. CASE db.claim[job[t].claim] = "ACTIVE"
  <2> DEFINE label == IF job[t].claim \in late THEN "expire" ELSE "issue"
  <2>1. Read /\ Goto(t, label) /\ UNCHANGED ztpVars
    BY <1>3 DEF CheckClaim
  <2>2. label \in {"expire", "issue"} /\ label \in Labels \ {"idle", "begin"}
    BY DEF Labels
  <2> HIDE DEF label
  <2>3. JobOK(label, job[t])
    BY <1>1, <2>2 DEF JobOK
  <2>4. SerialOK(pc[t], job[t], db, TRUE) => SerialOK(label, job[t], db, TRUE)
    BY <1>1, <1>3, <2>2 DEF SerialOK
  <2> QED BY <1>1, <2>1, <2>2, <2>3, <2>4, ReadStep
<1> QED BY <1>2, <1>3

(* consume_claim: an expired claim is marked, and the mark rolled back. *)
LEMMA ExpireStep ==
  ASSUME IndInv, NEW t \in Threads, ExpireClaim(t)
  PROVE  IndInv' /\ Forward(disk, disk')
<1> DEFINE j   == [job[t] EXCEPT !.rejected = TRUE]
           c   == job[t].claim
           new == [db EXCEPT !.claim[c] = "EXPIRED"]
<1>1. pc[t] = "expire" /\ job[t] \in EnrollJobs /\ c \in Claims
  BY JobFields DEF ExpireClaim, JobOK
<1>2. Write(new) /\ Goto(t, "rollback") /\ UNCHANGED <<minted, late, held>> /\ job' = [job EXCEPT ![t] = j]
  BY JobFields DEF ExpireClaim
<1>3. j \in Jobs
  BY <1>1 DEF EnrollJobs, Jobs
<1>4. "EXPIRED" \in ClaimStatus /\ db \in Tables
  BY JobFields DEF ClaimStatus
<1> HIDE DEF c
<1>5. /\ new \in Tables /\ new.claim = [db.claim EXCEPT ![c] = "EXPIRED"] /\ new.certs = db.certs
      /\ db.claim \in [Claims -> ClaimStatus]
  BY <1>1, <1>4, ClaimSet
<1> HIDE DEF new, j
<1>6. Forward(db, new)
  BY <1>1, <1>5 DEF Forward, None
<1>7. "rollback" \in Labels \ {"idle", "begin"} /\ JobOK("rollback", j)
  BY DEF Labels, JobOK
<1>8. SerialOK("rollback", j, new, TRUE)
  BY DEF SerialOK
<1> QED BY <1>1, <1>2, <1>3, <1>5, <1>6, <1>7, <1>8, JobFields, BodyStep

(* consume_claim: the CA signs. *)
LEMMA IssueStep ==
  ASSUME IndInv, NEW t \in Threads, SecretOrNonceRejected(t) \/ IssueCertificate(t) \/ CertificateError(t)
  PROVE  IndInv' /\ Forward(disk, disk')
<1>1. pc[t] = "issue" /\ job[t] \in EnrollJobs
  BY JobFields DEF SecretOrNonceRejected, IssueCertificate, CertificateError, JobOK
<1>2. CASE SecretOrNonceRejected(t)
  BY <1>1, <1>2, RejectStep DEF SecretOrNonceRejected
<1>3. CASE CertificateError(t)
  <2>1. Read /\ Goto(t, "rollback") /\ UNCHANGED ztpVars
    BY <1>3 DEF CertificateError
  <2>2. "rollback" \in Labels \ {"idle", "begin"} /\ JobOK("rollback", job[t]) /\ SerialOK("rollback", job[t], db, TRUE)
    BY DEF Labels, JobOK, SerialOK
  <2> QED BY <1>1, <2>1, <2>2, ReadStep
<1>4. CASE IssueCertificate(t)
  <2>1. PICK s \in Serials \ minted : minted' = minted \cup {s} /\ job' = [job EXCEPT ![t].serial = s]
    BY <1>4 DEF IssueCertificate
  <2> DEFINE j == [job[t] EXCEPT !.serial = s]
  <2>2. job' = [job EXCEPT ![t] = j] /\ minted' \subseteq Serials
    BY <2>1, JobFields
  <2>3. Read /\ Goto(t, "session") /\ UNCHANGED <<late, held>>
    BY <1>4 DEF IssueCertificate
  <2>4. j \in EnrollJobs /\ j \in Jobs /\ j.serial \in Serials /\ j.claim = job[t].claim
    BY <1>1, <2>1 DEF EnrollJobs, Jobs
  <2> HIDE DEF j
  <2>5. "session" \in Labels \ {"idle", "begin"} /\ JobOK("session", j)
    BY <2>4 DEF Labels, JobOK
  <2>6. SerialOK(pc[t], job[t], db, TRUE) => SerialOK("session", j, db, TRUE)
    BY <1>1, <2>4 DEF SerialOK
  <2> QED BY <1>1, <2>2, <2>3, <2>4, <2>5, <2>6, JobFields, ForwardOrder, BodyStep
<1> QED BY <1>2, <1>3, <1>4

(* consume_claim: the nonce is used up. *)
LEMMA SessionStep ==
  ASSUME IndInv, NEW t \in Threads, InsertSession(t)
  PROVE  IndInv' /\ Forward(disk, disk')
<1> DEFINE row == <<DeviceOf[job[t].claim], job[t].nonce>>
           new == [db EXCEPT !.sessions = @ \cup {row}]
<1>1. pc[t] = "session" /\ job[t] \in EnrollJobs /\ job[t].serial \in Serials /\ UNCHANGED ztpVars
  BY JobFields DEF InsertSession, JobOK
<1>2. CASE Read /\ Goto(t, "rollback")
  <2>2. "rollback" \in Labels \ {"idle", "begin"} /\ JobOK("rollback", job[t]) /\ SerialOK("rollback", job[t], db, TRUE)
    BY DEF Labels, JobOK, SerialOK
  <2> QED BY <1>1, <1>2, <2>2, ReadStep
<1>3. CASE Write(new) /\ Goto(t, "certificate")
  <2>1. row \in Devices \X Nonces
    BY <1>1, JobFields
  <2>2. new = [db EXCEPT !.sessions = db.sessions \cup {row}] /\ db \in Tables
    BY JobFields, Zenon
  <2> HIDE DEF new, row
  <2>3. new \in Tables /\ new.claim = db.claim /\ new.certs = db.certs
    BY <2>1, <2>2 DEF Tables
  <2>4. "certificate" \in Labels \ {"idle", "begin"} /\ JobOK("certificate", job[t])
    BY <1>1 DEF Labels, JobOK
  <2>5. SerialOK(pc[t], job[t], db, TRUE) => SerialOK("certificate", job[t], new, TRUE)
    BY <1>1, <2>3 DEF SerialOK
  <2>6. UNCHANGED <<job, minted, late, held>>
    BY <1>1 DEF ztpVars
  <2> QED BY <1>1, <1>3, <2>3, <2>4, <2>5, <2>6, JobFields, ForwardSame, BodyStep
<1> QED BY <1>2, <1>3 DEF InsertSession

(* consume_claim: the certificate is recorded; its claim is consumed next. *)
LEMMA CertificateStep ==
  ASSUME IndInv, NEW t \in Threads, InsertCertificate(t)
  PROVE  IndInv' /\ Forward(disk, disk')
<1> DEFINE c   == job[t].claim
           x   == [serial |-> job[t].serial, claim |-> job[t].claim, status |-> "ACTIVE"]
           new == [db EXCEPT !.certs = @ \cup {x}]
<1>1. pc[t] = "certificate" /\ job[t] \in EnrollJobs /\ job[t].serial \in Serials /\ c \in Claims
  BY JobFields DEF InsertCertificate, JobOK
<1>2. Write(new) /\ Goto(t, "consume") /\ UNCHANGED <<job, minted, late, held>>
  BY DEF InsertCertificate, ztpVars
<1>3. x \in Certificate /\ x.claim = c /\ x.serial = job[t].serial
  BY <1>1 DEF Certificate
<1>4. new = [db EXCEPT !.certs = db.certs \cup {x}] /\ db \in Tables
  BY JobFields, Zenon
<1> HIDE DEF new, x
<1>5. new \in Tables /\ new.claim = db.claim /\ new.certs = db.certs \cup {x} /\ db.claim \in [Claims -> ClaimStatus]
  BY <1>3, <1>4 DEF Tables
<1>6. Forward(db, new)
  BY <1>5 DEF Forward
<1>7. "consume" \in Labels \ {"idle", "begin"} /\ JobOK("consume", job[t])
  BY <1>1 DEF Labels, JobOK
<1>8. ASSUME SerialOK(pc[t], job[t], db, TRUE) PROVE SerialOK("consume", job[t], new, TRUE)
  <2>1. Consistent(db.claim, db.certs) /\ db.claim[c] = "ACTIVE"
    BY <1>1, <1>8 DEF SerialOK
  <2> DEFINE claim == [db.claim EXCEPT ![c] = "CONSUMED"]
  <2>2. claim[c] = "CONSUMED" /\ \A e \in Claims : e # c => claim[e] = db.claim[e]
    BY <1>1, <1>5
  <2>3. \A y \in db.certs : y.claim # c
    BY <1>1, <2>1 DEF Consistent
  <2> HIDE DEF claim
  <2>4. \A e \in Claims : (claim[e] = "CONSUMED") <=> (\E y \in new.certs : y.claim = e)
    <3> SUFFICES ASSUME NEW e \in Claims PROVE (claim[e] = "CONSUMED") <=> (\E y \in new.certs : y.claim = e)
      OBVIOUS
    <3>1. CASE e = c
      BY <1>3, <1>5, <2>2, <3>1
    <3>2. CASE e # c
      <4>1. (db.claim[e] = "CONSUMED") <=> (\E y \in db.certs : y.claim = e)
        BY <2>1 DEF Consistent
      <4>2. (\E y \in new.certs : y.claim = e) <=> (\E y \in db.certs : y.claim = e)
        BY <1>3, <1>5, <3>2
      <4> QED BY <2>2, <3>2, <4>1, <4>2
    <3> QED BY <3>1, <3>2
  <2>5. \A y, z \in new.certs : y.claim = z.claim => y = z
    BY <1>3, <1>5, <2>1, <2>3 DEF Consistent
  <2>6. Consistent([new.claim EXCEPT ![c] = "CONSUMED"], new.certs)
    BY <1>5, <2>4, <2>5 DEF Consistent, claim
  <2>7. Recorded(job[t].serial, new.certs)
    BY <1>3, <1>5 DEF Recorded
  <2> QED BY <1>5, <2>1, <2>6, <2>7 DEF SerialOK
<1> QED BY <1>1, <1>2, <1>5, <1>6, <1>7, <1>8, JobFields, BodyStep

(* consume_claim: the claim is consumed. *)
LEMMA ConsumeStep ==
  ASSUME IndInv, NEW t \in Threads, ConsumeClaim(t)
  PROVE  IndInv' /\ Forward(disk, disk')
<1> DEFINE c   == job[t].claim
           new == [db EXCEPT !.claim[c] = "CONSUMED"]
<1>1. pc[t] = "consume" /\ job[t] \in EnrollJobs /\ job[t].serial \in Serials /\ c \in Claims
  BY JobFields DEF ConsumeClaim, JobOK
<1>2. Write(new) /\ Goto(t, "activate") /\ UNCHANGED <<job, minted, late, held>>
  BY DEF ConsumeClaim, ztpVars
<1>3. "CONSUMED" \in ClaimStatus /\ db \in Tables
  BY JobFields DEF ClaimStatus
<1>4. /\ new \in Tables /\ new.claim = [db.claim EXCEPT ![c] = "CONSUMED"] /\ new.certs = db.certs
      /\ db.claim \in [Claims -> ClaimStatus]
  <2> HIDE DEF c
  <2> QED BY <1>1, <1>3, ClaimSet
<1>5. SerialOK(pc[t], job[t], db, TRUE) => SerialOK("activate", job[t], new, TRUE)
  BY <1>1, <1>4 DEF SerialOK
<1> HIDE DEF new, c
<1>6. Forward(db, new)
  BY <1>1, <1>4 DEF Forward, None
<1>7. "activate" \in Labels \ {"idle", "begin"} /\ JobOK("activate", job[t])
  BY <1>1 DEF Labels, JobOK
<1> QED BY <1>1, <1>2, <1>4, <1>5, <1>6, <1>7, JobFields, BodyStep

(* consume_claim: the device becomes active. *)
LEMMA ActivateStep ==
  ASSUME IndInv, NEW t \in Threads, ActivateDevice(t)
  PROVE  IndInv' /\ Forward(disk, disk')
<1> DEFINE d   == DeviceOf[job[t].claim]
           new == [db EXCEPT !.device[d] = "ACTIVE"]
<1>1. pc[t] = "activate" /\ job[t] \in EnrollJobs /\ job[t].serial \in Serials /\ d \in Devices
  BY JobFields DEF ActivateDevice, JobOK
<1>2. Write(new) /\ Goto(t, "commit") /\ UNCHANGED <<job, minted, late, held>>
  BY DEF ActivateDevice, ztpVars
<1>3. "ACTIVE" \in DeviceStatus /\ db \in Tables
  BY JobFields DEF DeviceStatus
<1> HIDE DEF d
<1>4. new \in Tables /\ new.claim = db.claim /\ new.certs = db.certs
  BY <1>1, <1>3, DeviceSet
<1> HIDE DEF new
<1>5. "commit" \in Labels \ {"idle", "begin"} /\ JobOK("commit", job[t])
  BY <1>1 DEF Labels, JobOK
<1>6. SerialOK(pc[t], job[t], db, TRUE) => SerialOK("commit", job[t], new, TRUE)
  BY <1>1, <1>4 DEF SerialOK
<1> QED BY <1>1, <1>2, <1>4, <1>5, <1>6, JobFields, ForwardSame, BodyStep
-----------------------------------------------------------------------------
(* When all others are idle, a thread before its BEGIN finds no            *)
(* transaction open, and the tables as they were committed.                *)
LEMMA NothingOpen ==
  ASSUME IndInv, NEW t \in Threads, pc[t] \in {"idle", "begin"}, ~overlap, \A u \in Threads \ {t} : pc[u] = "idle"
  PROVE  ~inTx /\ db = disk /\ Consistent(db.claim, db.certs)
<1>1. ~inTx
  BY DEF IndInv, NoOrphanTransaction
<1> QED BY <1>1 DEF IndInv, TablesInv, SerialInv

(* A request arrives. *)
LEMMA CallStep ==
  ASSUME IndInv, NEW t \in Threads, NEW request \in Jobs, request.op # None, Call(t, request)
  PROVE  IndInv' /\ Forward(disk, disk')
<1>1. /\ pc[t] = "idle" /\ job' = [job EXCEPT ![t] = request] /\ Goto(t, "begin")
      /\ UNCHANGED <<db, disk, inTx, minted, late, held>>
  BY DEF Call, connection
<1>2. /\ db \in Tables /\ disk \in Tables /\ inTx \in BOOLEAN /\ minted \subseteq Serials
      /\ held \in [Devices -> Serials \cup {None}] /\ TablesInv
  BY DEF IndInv, TypeOK
<1>3. "begin" \in Labels /\ JobOK("begin", request)
  BY DEF Labels, JobOK
<1>4. inTx => \E u \in Threads \ {t} : pc[u] \notin {"idle", "begin"}
  BY <1>1 DEF IndInv, NoOrphanTransaction
<1>5. TablesInv'
  BY <1>1, <1>2 DEF TablesInv, Forward
<1>6. ASSUME ~overlap, \A u \in Threads \ {t} : pc[u] = "idle"
      PROVE  /\ Consistent(disk.claim, disk.certs)
             /\ \A d \in Devices : held[d] # None => Recorded(held[d], disk.certs)
             /\ SerialOK("begin", request, db, inTx)
  <2>1. Consistent(db.claim, db.certs)
    BY <1>1, <1>6, NothingOpen
  <2> QED BY <1>6, <2>1 DEF IndInv, SerialInv, SerialOK
<1>7. IndInv'
  BY <1>1, <1>2, <1>3, <1>4, <1>5, <1>6, ThreadStep
<1> QED BY <1>1, <1>7, ForwardOrder

(* The requests of clients and of the administrator. *)
LEMMA CallsStep ==
  ASSUME IndInv, NEW t \in Threads, EnrollCall(t) \/ AdminCall(t)
  PROVE  IndInv' /\ Forward(disk, disk')
<1>1. disk.certs \subseteq Certificate
  BY DEF IndInv, TypeOK, Tables
<1>2. CASE EnrollCall(t)
  <2>1. PICK c \in Claims, n \in Nonces :
          Call(t, [op |-> "enroll", claim |-> c, nonce |-> n, serial |-> None, rejected |-> FALSE])
    BY <1>2 DEF EnrollCall
  <2> DEFINE request == [op |-> "enroll", claim |-> c, nonce |-> n, serial |-> None, rejected |-> FALSE]
  <2>2. request \in Jobs /\ request.op # None
    BY DEF Jobs, None
  <2> HIDE DEF request
  <2>3. Call(t, request)
    BY <2>1 DEF request
  <2> QED BY <2>2, <2>3, CallStep
<1>3. ASSUME NEW d \in Devices, NEW op \in {"stage", "claim"}, Call(t, [op |-> op, device |-> d])
      PROVE  IndInv' /\ Forward(disk, disk')
  <2> DEFINE request == [op |-> op, device |-> d]
  <2>1. request \in Jobs /\ request.op # None
    BY DEF Jobs, None
  <2> HIDE DEF request
  <2>2. Call(t, request)
    BY <1>3 DEF request
  <2> QED BY <2>1, <2>2, CallStep
<1>4. ASSUME NEW x \in disk.certs, Call(t, [op |-> "revoke", serial |-> x.serial])
      PROVE  IndInv' /\ Forward(disk, disk')
  <2> DEFINE request == [op |-> "revoke", serial |-> x.serial]
  <2>1. x.serial \in Serials
    BY <1>1 DEF Certificate
  <2>2. request \in Jobs /\ request.op # None
    BY <2>1 DEF Jobs, None
  <2> HIDE DEF request
  <2>3. Call(t, request)
    BY <1>4 DEF request
  <2> QED BY <2>2, <2>3, CallStep
<1> QED BY <1>2, <1>3, <1>4 DEF AdminCall

(* BEGIN, also of a thread that meets the transaction of another. *)
LEMMA BeginsStep ==
  ASSUME IndInv, NEW t \in Threads, BeginStep(t)
  PROVE  IndInv' /\ Forward(disk, disk')
<1> DEFINE label == IF inTx THEN "rollback" ELSE BodyOf(job[t].op)
<1>1. /\ pc[t] = "begin" /\ Goto(t, label) /\ inTx' = TRUE
      /\ UNCHANGED <<db, disk, job, minted, late, held>>
  BY DEF BeginStep, Begin, ztpVars
<1>2. /\ db \in Tables /\ disk \in Tables /\ inTx \in BOOLEAN /\ minted \subseteq Serials
      /\ held \in [Devices -> Serials \cup {None}] /\ TablesInv
  BY DEF IndInv, TypeOK
<1>3. job[t] \in Jobs /\ job[t].op # None /\ job' = [job EXCEPT ![t] = job[t]]
  BY <1>1, JobFields DEF JobOK
<1>4. /\ job[t].op = "enroll" => job[t] \in EnrollJobs
      /\ job[t].op \in {"attempt", "stage", "claim", "revoke", "enroll"}
  BY <1>3 DEF Jobs, EnrollJobs, None
<1>5. /\ label \in Labels \ {"idle", "begin"} /\ JobOK(label, job[t])
      /\ label \in {"rollback", "check", "commit", "insert"} /\ (label = "commit" => job[t].op # "enroll")
  BY <1>4 DEF Labels, JobOK, BodyOf
<1> HIDE DEF label
<1>6. TablesInv'
  BY <1>1, <1>2 DEF TablesInv, Forward
<1>7. ASSUME ~overlap, \A u \in Threads \ {t} : pc[u] = "idle"
      PROVE  /\ Consistent(disk.claim, disk.certs)
             /\ \A d \in Devices : held[d] # None => Recorded(held[d], disk.certs)
             /\ SerialOK(label, job[t], db, inTx')
  <2>1. Consistent(db.claim, db.certs)
    BY <1>1, <1>7, NothingOpen
  <2> QED BY <1>1, <1>5, <1>7, <2>1 DEF IndInv, SerialInv, SerialOK
<1>8. IndInv'
  BY <1>1, <1>2, <1>3, <1>5, <1>6, <1>7, ThreadStep
<1> QED BY <1>1, <1>8, ForwardOrder

(* NoJob is one. *)
LEMMA NoJobFields ==
  /\ NoJob \in Jobs /\ [op |-> "attempt"] \in Jobs
  /\ JobOK("idle", NoJob) /\ JobOK("begin", [op |-> "attempt"]) /\ "idle" \in Labels /\ "begin" \in Labels
BY DEF NoJob, Jobs, JobOK, Labels, None

(* COMMIT, whosever transaction it ends. *)
LEMMA CommitsStep ==
  ASSUME IndInv, NEW t \in Threads, CommitStep(t)
  PROVE  IndInv' /\ Forward(disk, disk')
<1>1. /\ pc[t] = "commit" /\ inTx /\ Goto(t, "idle") /\ disk' = db /\ inTx' = FALSE /\ db' = db
      /\ job' = [job EXCEPT ![t] = NoJob] /\ UNCHANGED <<minted, late>>
  BY DEF CommitStep, Commit, Committed
<1>2. /\ db \in Tables /\ disk \in Tables /\ inTx \in BOOLEAN /\ minted \subseteq Serials
      /\ held \in [Devices -> Serials \cup {None}] /\ Forward(disk, db)
  BY DEF IndInv, TypeOK, TablesInv
<1>3. \/ held' = held
      \/ /\ job[t].op = "enroll" /\ job[t].serial \in Serials /\ DeviceOf[job[t].claim] \in Devices
         /\ held' = [held EXCEPT ![DeviceOf[job[t].claim]] = job[t].serial]
  BY <1>1, JobFields DEF CommitStep, JobOK
<1>4. held' \in [Devices -> Serials \cup {None}]
  BY <1>2, <1>3
<1>5. TablesInv'
  BY <1>1, ForwardOrder DEF TablesInv, Forward
<1>6. ASSUME ~overlap
      PROVE  /\ Consistent(disk'.claim, disk'.certs)
             /\ \A d \in Devices : held'[d] # None => Recorded(held'[d], disk'.certs)
             /\ SerialOK("idle", NoJob, db', inTx')
  <2>1. SerialOK("commit", job[t], db, inTx) /\ \A d \in Devices : held[d] # None => Recorded(held[d], disk.certs)
    BY <1>1, <1>6 DEF IndInv, SerialInv
  <2>2. Consistent(db.claim, db.certs) /\ (job[t].op = "enroll" => Recorded(job[t].serial, db.certs))
    BY <2>1 DEF SerialOK
  <2>3. \A d \in Devices : held[d] # None => Recorded(held[d], db.certs)
    <3> SUFFICES ASSUME NEW d \in Devices, held[d] # None PROVE Recorded(held[d], db.certs)
      OBVIOUS
    <3>1. PICK x \in disk.certs : x.serial = held[d]
      BY <2>1 DEF Recorded
    <3>2. PICK y \in db.certs : y.serial = x.serial
      BY <1>2 DEF Forward
    <3> QED BY <3>1, <3>2 DEF Recorded
  <2>4. \A d \in Devices : held'[d] # None => Recorded(held'[d], db.certs)
    <3>1. CASE held' = held
      BY <2>3, <3>1
    <3>2. CASE /\ job[t].op = "enroll" /\ DeviceOf[job[t].claim] \in Devices
               /\ held' = [held EXCEPT ![DeviceOf[job[t].claim]] = job[t].serial]
      <4>1. \A d \in Devices : held'[d] = (IF d = DeviceOf[job[t].claim] THEN job[t].serial ELSE held[d])
        BY <1>2, <3>2
      <4> QED BY <2>2, <2>3, <3>2, <4>1
    <3> QED BY <1>3, <3>1, <3>2
  <2> QED BY <1>1, <2>2, <2>4 DEF SerialOK
<1>7. IndInv'
  BY <1>1, <1>2, <1>4, <1>5, <1>6, NoJobFields, ThreadStep
<1> QED BY <1>1, <1>2, <1>7

(* COMMIT after another thread's ROLLBACK. *)
LEMMA CommitErrorsStep ==
  ASSUME IndInv, NEW t \in Threads, CommitErrorStep(t)
  PROVE  IndInv' /\ Forward(disk, disk')
<1>1. /\ ~inTx /\ Goto(t, "idle") /\ UNCHANGED <<db, disk, inTx, minted, late, held>>
      /\ job' = [job EXCEPT ![t] = NoJob]
  BY DEF CommitErrorStep, CommitError, CommitFails, connection
<1>2. /\ db \in Tables /\ disk \in Tables /\ inTx \in BOOLEAN /\ minted \subseteq Serials
      /\ held \in [Devices -> Serials \cup {None}] /\ TablesInv
  BY DEF IndInv, TypeOK
<1>3. TablesInv'
  BY <1>1, <1>2 DEF TablesInv, Forward
<1>4. ASSUME ~overlap
      PROVE  /\ Consistent(disk.claim, disk.certs)
             /\ \A d \in Devices : held[d] # None => Recorded(held[d], disk.certs)
             /\ SerialOK("idle", NoJob, db, inTx)
  BY <1>4 DEF IndInv, SerialInv, SerialOK
<1>5. IndInv'
  BY <1>1, <1>2, <1>3, <1>4, NoJobFields, ThreadStep
<1> QED BY <1>1, <1>5, ForwardOrder

(* ROLLBACK, whosever transaction it ends. *)
LEMMA RollbacksStep ==
  ASSUME IndInv, NEW t \in Threads, RollbackStep(t)
  PROVE  IndInv' /\ Forward(disk, disk')
<1> DEFINE records == job[t].op = "enroll" /\ job[t].rejected /\ inTx
           label   == IF records THEN "begin" ELSE "idle"
           j       == IF records THEN [op |-> "attempt"] ELSE NoJob
<1>1. /\ Goto(t, label) /\ db' = (IF inTx THEN disk ELSE db) /\ inTx' = FALSE /\ disk' = disk
      /\ job' = [job EXCEPT ![t] = j] /\ UNCHANGED <<minted, late, held>>
  BY DEF RollbackStep, Rollback
<1>2. /\ db \in Tables /\ disk \in Tables /\ minted \subseteq Serials
      /\ held \in [Devices -> Serials \cup {None}] /\ (~inTx => db = disk)
  BY DEF IndInv, TypeOK, TablesInv
<1>3. db' = disk
  BY <1>1, <1>2
<1>4. label \in Labels /\ label \in {"idle", "begin"} /\ j \in Jobs /\ JobOK(label, j)
  BY NoJobFields
<1> HIDE DEF label, j
<1>5. TablesInv'
  BY <1>1, <1>3, ForwardOrder DEF TablesInv, Forward
<1>6. ASSUME ~overlap
      PROVE  /\ Consistent(disk'.claim, disk'.certs)
             /\ \A d \in Devices : held'[d] # None => Recorded(held'[d], disk'.certs)
             /\ SerialOK(label, j, db', inTx')
  BY <1>1, <1>3, <1>4, <1>6 DEF IndInv, SerialInv, SerialOK
<1>7. IndInv'
  BY <1>1, <1>2, <1>3, <1>4, <1>5, <1>6, ThreadStep
<1> QED BY <1>1, <1>7, ForwardOrder

(* The deletion of a site, on the connection of another process. *)
LEMMA RevokeSiteStep ==
  ASSUME IndInv, NEW d \in Devices, RevokeSite(d)
  PROVE  IndInv' /\ Forward(disk, disk')
<1> DEFINE mine   == {x \in Certificate : DeviceOf[x.claim] = d}
           certs  == RevokeIn(db.certs, mine)
           claims == [c \in Claims |-> IF DeviceOf[c] = d /\ db.claim[c] = "ACTIVE" THEN "CANCELLED" ELSE db.claim[c]]
           new    == [db EXCEPT !.device[d] = "REVOKED", !.claim = claims, !.certs = certs]
<1>1. ~inTx /\ inTx' = inTx /\ UNCHANGED <<pc, overlap, job, minted, late, held>>
  BY DEF RevokeSite, Write, ztpVars
<1>2. db \in Tables /\ db.certs \in SUBSET Certificate /\ db.claim \in [Claims -> ClaimStatus] /\ db = disk
  BY <1>1 DEF IndInv, TypeOK, Tables, TablesInv
<1>3. db' = new /\ disk' = new
  <2> DEFINE written ==
               [db EXCEPT !.device[d] = "REVOKED",
                          !.claim = [c \in Claims |-> IF DeviceOf[c] = d /\ @[c] = "ACTIVE" THEN "CANCELLED" ELSE @[c]],
                          !.certs = {IF DeviceOf[x.claim] = d THEN [x EXCEPT !.status = "REVOKED"] ELSE x : x \in @}]
  <2>1. db' = written /\ disk' = written
    BY <1>1 DEF RevokeSite, Write
  <2>2. certs = {IF DeviceOf[x.claim] = d THEN [x EXCEPT !.status = "REVOKED"] ELSE x : x \in db.certs}
    BY <1>2 DEF RevokeIn
  <2>3. written = [db EXCEPT !.device[d] = "REVOKED", !.claim = claims,
                     !.certs = {IF DeviceOf[x.claim] = d THEN [x EXCEPT !.status = "REVOKED"] ELSE x : x \in db.certs}]
    OBVIOUS
  <2>4. written = new
    <3> HIDE DEF written, claims, certs
    <3> QED BY <2>2, <2>3
  <2> QED BY <2>1, <2>4
<1>4. /\ certs \in SUBSET Certificate
      /\ \A x \in db.certs : x.status = "REVOKED" => x \in certs
      /\ \A x \in db.certs : \E y \in certs : y.serial = x.serial
      /\ \A claim : Consistent(claim, db.certs) => Consistent(claim, certs)
      /\ \A s : Recorded(s, db.certs) => Recorded(s, certs)
  <2> HIDE DEF mine
  <2>1. mine \in SUBSET Certificate
    BY DEF mine
  <2> QED BY <1>2, <2>1, Revoked
<1>5. /\ claims \in [Claims -> ClaimStatus]
      /\ \A c \in Claims : claims[c] = db.claim[c] \/ (db.claim[c] = "ACTIVE" /\ claims[c] = "CANCELLED")
  BY <1>2 DEF ClaimStatus
<1> HIDE DEF claims, certs
<1>6. new \in Tables /\ new.claim = claims /\ new.certs = certs
  <2>1. "REVOKED" \in DeviceStatus
    BY DEF DeviceStatus
  <2> QED BY <1>2, <1>4, <1>5, <2>1 DEF Tables
<1> HIDE DEF new
<1>7. Forward(db, new)
  BY <1>4, <1>5, <1>6 DEF Forward
<1>8. TypeOK'
  BY <1>1, <1>3, <1>6 DEF IndInv, TypeOK
<1>9. JobInv' /\ NoOrphanTransaction'
  BY <1>1 DEF IndInv, JobInv, JobOK, NoOrphanTransaction
<1>10. Forward(new, new)
  BY ForwardOrder
<1>11. TablesInv'
  BY <1>3, <1>10 DEF TablesInv, Forward
<1>12. SerialInv'
  <2> SUFFICES ASSUME ~overlap PROVE SerialInv'
    BY <1>1 DEF SerialInv
  <2>1. /\ \A t, u \in Threads : pc[t] # "idle" /\ pc[u] # "idle" => t = u
        /\ Consistent(db.claim, db.certs)
        /\ \A e \in Devices : held[e] # None => Recorded(held[e], db.certs)
        /\ \A t \in Threads : pc[t] \in {"idle", "begin"}
    BY <1>1, <1>2 DEF IndInv, SerialInv, SerialOK
  <2>2. Consistent(claims, db.certs)
    BY <1>5, <2>1 DEF Consistent
  <2>3. Consistent(new.claim, new.certs) /\ \A e \in Devices : held[e] # None => Recorded(held[e], new.certs)
    BY <1>4, <1>6, <2>1, <2>2
  <2>4. \A t \in Threads : SerialOK(pc[t], job[t], new, inTx)
    BY <2>1, <2>3 DEF SerialOK
  <2>5. \A t \in Threads : SerialOK(pc'[t], job'[t], db', inTx')
    BY <1>1, <1>3, <2>4
  <2>6. Consistent(disk'.claim, disk'.certs) /\ \A e \in Devices : held'[e] # None => Recorded(held'[e], disk'.certs)
    BY <1>1, <1>3, <2>3
  <2>7. \A t, u \in Threads : pc'[t] # "idle" /\ pc'[u] # "idle" => t = u
    BY <1>1, <2>1
  <2> QED BY <2>5, <2>6, <2>7 DEF SerialInv, SerialOK, Consistent, Recorded
<1> QED BY <1>2, <1>3, <1>7, <1>8, <1>9, <1>11, <1>12 DEF IndInv

(* Time passes, or nothing changes at all. *)
LEMMA QuietStep ==
  ASSUME IndInv, UNCHANGED <<db, disk, inTx, pc, overlap, job, minted, held>>, late' \subseteq Claims
  PROVE  IndInv' /\ Forward(disk, disk')
<1>1. TypeOK' /\ JobInv' /\ NoOrphanTransaction'
  BY DEF IndInv, TypeOK, JobInv, JobOK, NoOrphanTransaction
<1>2. TablesInv'
  BY DEF IndInv, TablesInv, Forward
<1>3. SerialInv'
  BY DEF IndInv, SerialInv, SerialOK, Consistent, Recorded
<1> QED BY <1>1, <1>2, <1>3, ForwardOrder DEF IndInv

(* The process ends and starts again. *)
LEMMA RestartStep ==
  ASSUME IndInv, Restart
  PROVE  IndInv' /\ Forward(disk, disk')
<1>1. /\ pc' = [t \in Threads |-> "idle"] /\ db' = disk /\ inTx' = FALSE /\ job' = [t \in Threads |-> NoJob]
      /\ UNCHANGED <<disk, overlap, minted, late, held>>
  BY DEF Restart, ProcessRestart
<1>2. TypeOK'
  BY <1>1, NoJobFields DEF IndInv, TypeOK
<1>3. \A t \in Threads : pc'[t] = "idle" /\ job'[t] = NoJob
  BY <1>1
<1>4. JobInv'
  BY <1>3, NoJobFields DEF JobInv, JobOK
<1>5. NoOrphanTransaction'
  BY <1>1 DEF NoOrphanTransaction
<1>6. Forward(disk, disk)
  BY ForwardOrder
<1>7. TablesInv'
  BY <1>1, <1>6 DEF TablesInv, Forward
<1>8. SerialInv'
  BY <1>1, <1>3 DEF IndInv, SerialInv, SerialOK, Consistent, Recorded
<1> QED BY <1>1, <1>2, <1>4, <1>5, <1>6, <1>7, <1>8 DEF IndInv

(* Every step keeps the inductive invariant and moves the tables forward. *)
LEMMA Step ==
  ASSUME IndInv, [Next]_vars
  PROVE  IndInv' /\ Forward(disk, disk')
<1>1. CASE UNCHANGED vars
  BY <1>1, QuietStep DEF vars, connection, ztpVars, IndInv, TypeOK
<1>2. ASSUME NEW t \in Threads, EnrollCall(t) \/ AdminCall(t) \/ BeginStep(t)
      PROVE  IndInv' /\ Forward(disk, disk')
  BY <1>2, CallsStep, BeginsStep
<1>3. ASSUME NEW t \in Threads, Administer(t) PROVE IndInv' /\ Forward(disk, disk')
  BY <1>3, StageStep, CreateClaimStep, RevokeStep, FenceStep DEF Administer
<1>4. ASSUME NEW t \in Threads, Enroll(t) PROVE IndInv' /\ Forward(disk, disk')
  <2>1. CASE CheckClaim(t) \/ ExpireClaim(t) \/ SecretOrNonceRejected(t) \/ IssueCertificate(t) \/ CertificateError(t)
    BY <2>1, CheckStep, ExpireStep, IssueStep
  <2>2. CASE InsertSession(t) \/ InsertCertificate(t) \/ ConsumeClaim(t) \/ ActivateDevice(t)
    BY <2>2, SessionStep, CertificateStep, ConsumeStep, ActivateStep
  <2> QED BY <1>4, <2>1, <2>2 DEF Enroll
<1>5. ASSUME NEW t \in Threads, CommitStep(t) \/ CommitErrorStep(t) \/ RollbackStep(t)
      PROVE  IndInv' /\ Forward(disk, disk')
  BY <1>5, CommitsStep, CommitErrorsStep, RollbacksStep
<1>6. ASSUME NEW c \in Claims, ClaimExpires(c) PROVE IndInv' /\ Forward(disk, disk')
  <2>1. UNCHANGED <<db, disk, inTx, pc, overlap, job, minted, held>> /\ late' = late \cup {c}
    BY <1>6 DEF ClaimExpires, connection
  <2>2. late' \subseteq Claims
    BY <2>1 DEF IndInv, TypeOK
  <2> QED BY <2>1, <2>2, QuietStep
<1> QED BY <1>1, <1>2, <1>3, <1>4, <1>5, <1>6, RevokeSiteStep, RestartStep DEF Next

(* The empty store. *)
LEMMA Initially ==
  ASSUME Init
  PROVE  IndInv
<1>1. EmptyTables \in Tables /\ EmptyTables.certs = {} /\ \A c \in Claims : EmptyTables.claim[c] = None
  BY DEF EmptyTables, Tables, ClaimStatus, DeviceStatus
<1>2. TypeOK
  BY <1>1, NoJobFields DEF Init, TypeOK
<1>3. \A t \in Threads : pc[t] = "idle" /\ job[t] = NoJob
  BY DEF Init
<1>4. JobInv /\ NoOrphanTransaction
  BY <1>3, NoJobFields DEF Init, JobInv, NoOrphanTransaction
<1>5. TablesInv
  BY ForwardOrder DEF Init, TablesInv
<1>6. Consistent(EmptyTables.claim, EmptyTables.certs)
  BY <1>1 DEF Consistent, None
<1>7. SerialInv
  BY <1>3, <1>6 DEF Init, SerialInv, SerialOK
<1> QED BY <1>2, <1>4, <1>5, <1>7 DEF IndInv

(* Every reachable state satisfies the inductive invariant. *)
THEOREM Inductive == Spec => []IndInv
BY Initially, Step, PTL DEF Spec

(* While no two requests overlap a claim is consumed exactly when its one  *)
(* certificate is recorded, and no device holds an unrecorded one,         *)
(* whatever fails, restarts or is deleted; and in any case no thread that  *)
(* has ended leaves a transaction open.                                    *)
THEOREM EnrollmentInvariant == Spec => []EnrollmentInv
<1>1. IndInv => EnrollmentInv
  BY DEF IndInv, EnrollmentInv, SerialInv, SerialConsumption, ConsumedTogether, SerialHeld, Consistent, Recorded
<1> QED BY <1>1, Inductive, PTL

(* However many requests overlap: no spent claim becomes usable again and  *)
(* no revocation is undone in the committed tables.                        *)
THEOREM NeverRevived == Spec => NothingIsRevived
<1> DEFINE Kept ==
      /\ \A c \in Claims : disk.claim[c] \notin {None, "ACTIVE"} => disk'.claim[c] \notin {None, "ACTIVE"}
      /\ \A x \in disk.certs : x.status = "REVOKED" => x \in disk'.certs
<1>1. IndInv /\ [Next]_vars => [Kept]_vars
  <2> SUFFICES ASSUME IndInv, [Next]_vars PROVE Kept
    OBVIOUS
  <2>1. Forward(disk, disk')
    BY Step
  <2> QED BY <2>1 DEF Forward
<1> HIDE DEF Kept
<1>2. Spec => [][Kept]_vars
  BY <1>1, Inductive, PTL DEF Spec
<1> QED BY <1>2 DEF NothingIsRevived, Kept
-----------------------------------------------------------------------------
(* The Policy Service's store: what a thread may be asked. *)
PutAckJobs == [op : {"put", "ack"}, version : Versions, contents : Contents]
RegisterJobs == [op : {"register"}, key : Keys, generation : 0 .. MaxGeneration]

(* What a thread is asked to do at a statement; a key that replaces one of *)
(* generation n has n below the bound.                                     *)
RequestOK(label, j) ==
  /\ label = "begin" => j.op # None
  /\ label \in {"latest", "existing", "insert"} => j \in PutAckJobs /\ j.op = "put"
  /\ label \in {"match", "record"} => j \in PutAckJobs /\ j.op = "ack"
  /\ label \in {"current", "retire", "add"} => j \in RegisterJobs
  /\ label \in {"retire", "add"} => j.generation < MaxGeneration
  /\ label = "commit" /\ j.op = "put" => j \in PutAckJobs

RequestInv == \A t \in Threads : RequestOK(pc[t], job[t])

(* What a statement may do to the tables: a desired state stays, and so    *)
(* does the key of a generation.                                           *)
Grows(old, new) ==
  /\ \A v \in Versions : old.states[v] # None => new.states[v] = old.states[v]
  /\ \A r \in old.keys : \E q \in new.keys : q.generation = r.generation /\ q.key = r.key

GrowthInv == (~inTx => db = disk) /\ Grows(disk, db)

(* Only what is stored is acknowledged. *)
Acknowledged(tables) == \A v \in Versions : tables.acks[v] \in {None, tables.states[v]}

(* A request that is alone has its transaction to itself, and what it has  *)
(* read is still so.                                                       *)
AloneOK(label, j, tables, open) ==
  /\ label \notin {"idle", "begin"} => open
  /\ label = "record" => tables.states[j.version] = j.contents
  /\ label = "commit" /\ j.op = "put" => tables.states[j.version] = j.contents

AloneInv ==
  ~overlap =>
    /\ \A t, u \in Threads : pc[t] # "idle" /\ pc[u] # "idle" => t = u
    /\ \A s \in published : disk.states[s[1]] = s[2]
    /\ Acknowledged(disk) /\ Acknowledged(db)
    /\ \A t \in Threads : AloneOK(pc[t], job[t], db, inTx)

(* The inductive invariant of the Policy Service's store. *)
StoreIndInv == StoreTypeOK /\ RequestInv /\ GrowthInv /\ AloneInv
-----------------------------------------------------------------------------
(* Changes of the tables follow one another. *)
LEMMA GrowsOrder ==
  ASSUME NEW a, NEW b, NEW c
  PROVE  Grows(a, a) /\ (Grows(a, b) /\ Grows(b, c) => Grows(a, c))
<1>1. Grows(a, a)
  BY DEF Grows
<1>2. ASSUME Grows(a, b), Grows(b, c) PROVE Grows(a, c)
  <2>1. \A r \in a.keys : \E q \in c.keys : q.generation = r.generation /\ q.key = r.key
    <3> SUFFICES ASSUME NEW r \in a.keys PROVE \E q \in c.keys : q.generation = r.generation /\ q.key = r.key
      OBVIOUS
    <3>1. PICK p \in b.keys : p.generation = r.generation /\ p.key = r.key
      BY <1>2 DEF Grows
    <3>2. PICK q \in c.keys : q.generation = p.generation /\ q.key = p.key
      BY <1>2 DEF Grows
    <3> QED BY <3>1, <3>2
  <2> QED BY <1>2, <2>1 DEF Grows
<1> QED BY <1>1, <1>2

(* A step of one thread: what it owes to the invariant. *)
LEMMA RequestStep ==
  ASSUME StoreIndInv, NEW t \in Threads, NEW label \in StoreLabels, Goto(t, label),
         NEW j \in StoreJobs, job' = [job EXCEPT ![t] = j], RequestOK(label, j),
         db' \in StoreTables, disk' \in StoreTables, inTx' \in BOOLEAN,
         published' \subseteq State, delivered' = delivered, GrowthInv',
         ~overlap /\ (\A u \in Threads \ {t} : pc[u] = "idle") =>
           /\ \A s \in published' : disk'.states[s[1]] = s[2]
           /\ Acknowledged(disk') /\ Acknowledged(db')
           /\ AloneOK(label, j, db', inTx')
  PROVE  StoreIndInv'
<1>1. pc \in [Threads -> StoreLabels] /\ overlap \in BOOLEAN /\ job \in [Threads -> StoreJobs]
  BY DEF StoreIndInv, StoreTypeOK
<1>2. /\ pc' \in [Threads -> StoreLabels] /\ pc'[t] = label /\ \A u \in Threads \ {t} : pc'[u] = pc[u]
      /\ overlap' \in BOOLEAN
      /\ ~overlap' => ~overlap /\ \A u \in Threads \ {t} : pc[u] = "idle"
  BY <1>1, GotoFields
<1>3. job' \in [Threads -> StoreJobs] /\ job'[t] = j /\ \A u \in Threads \ {t} : job'[u] = job[u]
  BY <1>1
<1>4. StoreTypeOK'
  BY <1>2, <1>3 DEF StoreIndInv, StoreTypeOK
<1>5. RequestInv'
  <2> SUFFICES ASSUME NEW u \in Threads PROVE RequestOK(pc'[u], job'[u])
    BY DEF RequestInv, RequestOK
  <2>1. CASE u = t
    BY <1>2, <1>3, <2>1
  <2>2. CASE u # t
    BY <1>2, <1>3, <2>2 DEF StoreIndInv, RequestInv
  <2> QED BY <2>1, <2>2
<1>6. AloneInv'
  <2> SUFFICES ASSUME ~overlap' PROVE AloneInv'
    BY DEF AloneInv
  <2>1. ~overlap /\ \A u \in Threads \ {t} : pc[u] = "idle" /\ pc'[u] = "idle"
    BY <1>2
  <2>2. \A u, w \in Threads : pc'[u] # "idle" /\ pc'[w] # "idle" => u = w
    BY <2>1
  <2>3. /\ \A s \in published' : disk'.states[s[1]] = s[2]
        /\ Acknowledged(disk') /\ Acknowledged(db')
        /\ AloneOK(label, j, db', inTx')
    BY <2>1
  <2>4. ASSUME NEW u \in Threads PROVE AloneOK(pc'[u], job'[u], db', inTx')
    <3>1. CASE u = t
      BY <1>2, <1>3, <2>3, <3>1
    <3>2. CASE u # t
      BY <2>1, <3>2 DEF AloneOK
    <3> QED BY <3>1, <3>2
  <2> QED BY <2>2, <2>3, <2>4 DEF AloneInv, Acknowledged, AloneOK
<1> QED BY <1>4, <1>5, <1>6 DEF StoreIndInv

(* A statement of a request, a SELECT included. *)
LEMMA StatementStep ==
  ASSUME StoreIndInv, NEW t \in Threads, pc[t] \notin {"idle", "begin"},
         NEW label \in StoreLabels \ {"idle", "begin"}, Goto(t, label),
         NEW new \in StoreTables, Grows(db, new), Write(new) \/ (Read /\ new = db),
         NEW j \in StoreJobs, job' = [job EXCEPT ![t] = j], RequestOK(label, j),
         published' = published, delivered' = delivered,
         ~overlap /\ Acknowledged(db) /\ AloneOK(pc[t], job[t], db, TRUE) =>
           Acknowledged(new) /\ AloneOK(label, j, new, TRUE)
  PROVE  StoreIndInv' /\ Grows(disk, disk')
<1>1. /\ db \in StoreTables /\ disk \in StoreTables /\ inTx \in BOOLEAN
      /\ published \subseteq State
  BY DEF StoreIndInv, StoreTypeOK
<1>2. db' = new /\ inTx' = inTx /\ disk' = IF inTx THEN disk ELSE new
  BY DEF Write, Read, connection, StoreIndInv, GrowthInv
<1>3. Grows(disk, disk') /\ Grows(disk', db')
  <2>1. CASE inTx
    BY <1>2, <2>1, GrowsOrder DEF StoreIndInv, GrowthInv
  <2>2. CASE ~inTx
    BY <1>2, <2>2, GrowsOrder DEF StoreIndInv, GrowthInv
  <2> QED BY <2>1, <2>2
<1>4. GrowthInv'
  BY <1>2, <1>3 DEF GrowthInv, Grows
<1>5. ASSUME ~overlap
      PROVE  /\ \A s \in published' : disk'.states[s[1]] = s[2]
             /\ Acknowledged(disk') /\ Acknowledged(db')
             /\ AloneOK(label, j, db', inTx')
  <2>1. AloneOK(pc[t], job[t], db, inTx) /\ Acknowledged(db) /\ Acknowledged(disk)
    BY <1>5 DEF StoreIndInv, AloneInv
  <2>2. inTx
    BY <2>1 DEF AloneOK
  <2>3. inTx = TRUE /\ inTx' = TRUE /\ disk' = disk
    BY <1>1, <1>2, <2>2
  <2>4. Acknowledged(new) /\ AloneOK(label, j, new, TRUE)
    BY <1>5, <2>1, <2>3
  <2> QED BY <1>2, <1>5, <2>1, <2>3, <2>4 DEF StoreIndInv, AloneInv
<1>6. StoreIndInv'
  BY <1>1, <1>2, <1>4, <1>5, RequestStep
<1> QED BY <1>3, <1>6

(* A statement that raises, or a check after it: the thread goes to its    *)
(* ROLLBACK.                                                               *)
LEMMA RaiseStep ==
  ASSUME StoreIndInv, NEW t \in Threads, pc[t] \notin {"idle", "begin"}, Raise(t), UNCHANGED storeVars
  PROVE  StoreIndInv' /\ Grows(disk, disk')
<1>1. Read /\ Goto(t, "rollback") /\ UNCHANGED <<job, published, delivered>>
  BY DEF Raise, storeVars
<1>2. db \in StoreTables /\ job[t] \in StoreJobs /\ job' = [job EXCEPT ![t] = job[t]]
  BY <1>1 DEF StoreIndInv, StoreTypeOK
<1>3. "rollback" \in StoreLabels \ {"idle", "begin"} /\ RequestOK("rollback", job[t])
  BY DEF StoreLabels, RequestOK
<1>4. AloneOK("rollback", job[t], db, TRUE)
  BY DEF AloneOK
<1> QED BY <1>1, <1>2, <1>3, <1>4, GrowsOrder, StatementStep

(* A SELECT after which the thread goes on. *)
LEMMA SelectStep ==
  ASSUME StoreIndInv, NEW t \in Threads, pc[t] \notin {"idle", "begin"},
         NEW label \in StoreLabels \ {"idle", "begin"}, Read, Goto(t, label),
         NEW j \in StoreJobs, job' = [job EXCEPT ![t] = j], RequestOK(label, j),
         published' = published, delivered' = delivered,
         AloneOK(pc[t], job[t], db, TRUE) => AloneOK(label, j, db, TRUE)
  PROVE  StoreIndInv' /\ Grows(disk, disk')
<1>1. db \in StoreTables
  BY DEF StoreIndInv, StoreTypeOK
<1> QED BY <1>1, GrowsOrder, StatementStep

(* The job of a thread, by its operation. *)
LEMMA RequestFields ==
  ASSUME StoreIndInv, NEW t \in Threads
  PROVE  /\ db \in StoreTables /\ job[t] \in StoreJobs /\ RequestOK(pc[t], job[t])
         /\ job = [job EXCEPT ![t] = job[t]]
         /\ job[t] \in PutAckJobs => job[t].version \in Versions /\ job[t].contents \in Contents
         /\ job[t] \in RegisterJobs =>
              /\ job[t].op = "register" /\ job[t].key \in Keys /\ job[t].generation \in 0 .. MaxGeneration
<1>1. job \in [Threads -> StoreJobs] /\ db \in StoreTables /\ RequestOK(pc[t], job[t])
  BY DEF StoreIndInv, StoreTypeOK, RequestInv
<1> QED BY <1>1 DEF PutAckJobs, RegisterJobs

(* put_desired_state: the latest version is compared. *)
LEMMA LatestStep ==
  ASSUME StoreIndInv, NEW t \in Threads, SelectLatest(t)
  PROVE  StoreIndInv' /\ Grows(disk, disk')
<1>1. pc[t] = "latest" /\ UNCHANGED storeVars /\ (Raise(t) \/ (Read /\ Goto(t, "existing")))
  BY DEF SelectLatest
<1>2. "existing" \in StoreLabels \ {"idle", "begin"} /\ RequestOK("existing", job[t])
  BY <1>1, RequestFields DEF StoreLabels, RequestOK
<1>3. AloneOK("latest", job[t], db, TRUE) => AloneOK("existing", job[t], db, TRUE)
  BY DEF AloneOK
<1>4. UNCHANGED <<job, published, delivered>>
  BY <1>1 DEF storeVars
<1> QED BY <1>1, <1>2, <1>3, <1>4, RequestFields, RaiseStep, SelectStep

(* put_desired_state: the stored state of the same version is compared. *)
LEMMA ExistingStep ==
  ASSUME StoreIndInv, NEW t \in Threads, SelectExisting(t)
  PROVE  StoreIndInv' /\ Grows(disk, disk')
<1>1. pc[t] = "existing" /\ UNCHANGED storeVars /\ UNCHANGED <<job, published, delivered>>
  BY DEF SelectExisting, storeVars
<1>2. CASE Read /\ Goto(t, "insert")
  <2>1. "insert" \in StoreLabels \ {"idle", "begin"} /\ RequestOK("insert", job[t])
    BY <1>1, RequestFields DEF StoreLabels, RequestOK
  <2>2. AloneOK("existing", job[t], db, TRUE) => AloneOK("insert", job[t], db, TRUE)
    BY DEF AloneOK
  <2> QED BY <1>1, <1>2, <2>1, <2>2, RequestFields, SelectStep
<1>3. CASE db.states[job[t].version] = job[t].contents /\ Read /\ Goto(t, "commit")
  <2>1. "commit" \in StoreLabels \ {"idle", "begin"} /\ RequestOK("commit", job[t])
    BY <1>1, RequestFields DEF StoreLabels, RequestOK
  <2>2. AloneOK("commit", job[t], db, TRUE)
    BY <1>3 DEF AloneOK
  <2> QED BY <1>1, <1>3, <2>1, <2>2, RequestFields, SelectStep
<1>4. CASE Raise(t)
  BY <1>1, <1>4, RaiseStep
<1> QED BY <1>2, <1>3, <1>4 DEF SelectExisting

(* One row of desired_states is added, or one acknowledgement recorded. *)
LEMMA StateSet ==
  ASSUME NEW tables \in StoreTables, NEW v \in Versions, NEW c \in Contents
  PROVE  LET new == [tables EXCEPT !.states[v] = c]
         IN  /\ new \in StoreTables /\ new.acks = tables.acks /\ new.keys = tables.keys
             /\ \A w \in Versions : new.states[w] = IF w = v THEN c ELSE tables.states[w]
BY DEF StoreTables

(* Tables in which one version has another acknowledgement. *)
LEMMA AckSet ==
  ASSUME NEW tables \in StoreTables, NEW v \in Versions, NEW c \in Contents
  PROVE  LET new == [tables EXCEPT !.acks[v] = c]
         IN  /\ new \in StoreTables /\ new.states = tables.states /\ new.keys = tables.keys
             /\ \A w \in Versions : new.acks[w] = IF w = v THEN c ELSE tables.acks[w]
BY DEF StoreTables

(* put_desired_state: the INSERT. *)
LEMMA InsertStep ==
  ASSUME StoreIndInv, NEW t \in Threads, InsertState(t)
  PROVE  StoreIndInv' /\ Grows(disk, disk')
<1> DEFINE v == job[t].version
           c == job[t].contents
           new == [db EXCEPT !.states[v] = c]
<1>1. pc[t] = "insert" /\ UNCHANGED storeVars /\ UNCHANGED <<job, published, delivered>>
  BY DEF InsertState, storeVars
<1>2. CASE Raise(t)
  BY <1>1, <1>2, RaiseStep
<1>3. CASE db.states[v] = None /\ Write(new) /\ Goto(t, "commit")
  <2>1. v \in Versions /\ c \in Contents /\ db \in StoreTables
    BY <1>1, RequestFields DEF RequestOK
  <2>2. db.states[v] = None /\ Write(new) /\ Goto(t, "commit")
    BY <1>3
  <2> HIDE DEF v, c
  <2>3. /\ new \in StoreTables /\ new.acks = db.acks /\ new.keys = db.keys
        /\ \A w \in Versions : new.states[w] = IF w = v THEN c ELSE db.states[w]
    BY <2>1, StateSet
  <2> HIDE DEF new
  <2>4. Grows(db, new)
    BY <2>1, <2>2, <2>3 DEF Grows
  <2>5. Acknowledged(db) => Acknowledged(new)
    BY <2>1, <2>2, <2>3 DEF Acknowledged
  <2>6. "commit" \in StoreLabels \ {"idle", "begin"} /\ RequestOK("commit", job[t])
    BY <1>1, RequestFields DEF StoreLabels, RequestOK
  <2>7. new.states[job[t].version] = job[t].contents
    BY <2>1, <2>3 DEF v, c
  <2>8. AloneOK("commit", job[t], new, TRUE)
    BY <2>7 DEF AloneOK
  <2> QED BY <1>1, <2>2, <2>3, <2>4, <2>5, <2>6, <2>8, RequestFields, StatementStep
<1> QED BY <1>2, <1>3 DEF InsertState

(* ack_desired_state: the digest is compared. *)
LEMMA MatchStep ==
  ASSUME StoreIndInv, NEW t \in Threads, MatchState(t)
  PROVE  StoreIndInv' /\ Grows(disk, disk')
<1>1. pc[t] = "match" /\ UNCHANGED storeVars /\ UNCHANGED <<job, published, delivered>>
  BY DEF MatchState, storeVars
<1>2. CASE db.states[job[t].version] = job[t].contents /\ Read /\ Goto(t, "record")
  <2>1. "record" \in StoreLabels \ {"idle", "begin"} /\ RequestOK("record", job[t])
    BY <1>1, RequestFields DEF StoreLabels, RequestOK
  <2>2. AloneOK("record", job[t], db, TRUE)
    BY <1>2 DEF AloneOK
  <2> QED BY <1>1, <1>2, <2>1, <2>2, RequestFields, SelectStep
<1>3. CASE Raise(t)
  BY <1>1, <1>3, RaiseStep
<1> QED BY <1>2, <1>3 DEF MatchState

(* ack_desired_state: the acknowledgement of what is stored. *)
LEMMA RecordStep ==
  ASSUME StoreIndInv, NEW t \in Threads, RecordAck(t)
  PROVE  StoreIndInv' /\ Grows(disk, disk')
<1> DEFINE v == job[t].version
           c == job[t].contents
           new == [db EXCEPT !.acks[v] = c]
<1>1. pc[t] = "record" /\ UNCHANGED storeVars /\ UNCHANGED <<job, published, delivered>>
  BY DEF RecordAck, storeVars
<1>2. CASE Raise(t)
  BY <1>1, <1>2, RaiseStep
<1>3. CASE Write(new) /\ Goto(t, "commit")
  <2>1. v \in Versions /\ c \in Contents /\ db \in StoreTables /\ job[t].op = "ack"
    BY <1>1, RequestFields DEF RequestOK
  <2>2. Write(new) /\ Goto(t, "commit")
    BY <1>3
  <2>3. AloneOK("record", job[t], db, TRUE) => db.states[v] = c
    BY DEF AloneOK
  <2> HIDE DEF v, c
  <2>4. /\ new \in StoreTables /\ new.states = db.states /\ new.keys = db.keys
        /\ \A w \in Versions : new.acks[w] = IF w = v THEN c ELSE db.acks[w]
    BY <2>1, AckSet
  <2> HIDE DEF new
  <2>5. Grows(db, new)
    BY <2>4 DEF Grows
  <2>6. Acknowledged(db) /\ db.states[v] = c => Acknowledged(new)
    BY <2>1, <2>4 DEF Acknowledged
  <2>7. "commit" \in StoreLabels \ {"idle", "begin"} /\ RequestOK("commit", job[t])
    BY <2>1 DEF StoreLabels, RequestOK
  <2>8. AloneOK("commit", job[t], new, TRUE)
    BY <2>1 DEF AloneOK
  <2>9. Acknowledged(db) /\ AloneOK(pc[t], job[t], db, TRUE) => Acknowledged(new) /\ AloneOK("commit", job[t], new, TRUE)
    BY <1>1, <2>3, <2>6, <2>8
  <2> QED BY <1>1, <2>2, <2>4, <2>5, <2>7, <2>9, RequestFields, StatementStep
<1> QED BY <1>2, <1>3 DEF RecordAck
-----------------------------------------------------------------------------
(* register_wireguard_public_key: the active key is compared. *)
LEMMA CurrentStep ==
  ASSUME StoreIndInv, NEW t \in Threads, SelectCurrent(t)
  PROVE  StoreIndInv' /\ Grows(disk, disk')
<1>1. pc[t] = "current" /\ Read /\ UNCHANGED <<published, delivered>>
  BY DEF SelectCurrent
<1>2. job[t] \in RegisterJobs /\ job \in [Threads -> StoreJobs] /\ MaxGeneration \in Nat \ {0}
  BY <1>1, RequestFields, StoreBounds DEF RequestOK, StoreIndInv, StoreTypeOK
<1>3. CASE Goto(t, "commit") /\ job' = job
  <2>1. "commit" \in StoreLabels \ {"idle", "begin"} /\ RequestOK("commit", job[t]) /\ job[t].op # "put"
    BY <1>2 DEF StoreLabels, RequestOK, RegisterJobs
  <2>2. AloneOK("commit", job[t], db, TRUE)
    BY <2>1 DEF AloneOK
  <2> QED BY <1>1, <1>3, <2>1, <2>2, RequestFields, SelectStep
<1>4. ASSUME NEW g \in 0 .. MaxGeneration, g < MaxGeneration, NEW label \in {"add", "retire"},
             Goto(t, label), job' = [job EXCEPT ![t].generation = g]
      PROVE  StoreIndInv' /\ Grows(disk, disk')
  <2> DEFINE j == [job[t] EXCEPT !.generation = g]
  <2>1. job' = [job EXCEPT ![t] = j]
    BY <1>4
  <2>2. j \in RegisterJobs /\ j.generation = g
    BY <1>2 DEF RegisterJobs
  <2> HIDE DEF j
  <2>3. j \in StoreJobs
    BY <2>2 DEF RegisterJobs, StoreJobs
  <2>4. label \in StoreLabels \ {"idle", "begin"} /\ RequestOK(label, j)
    BY <1>4, <2>2 DEF StoreLabels, RequestOK
  <2>5. AloneOK("current", job[t], db, TRUE) => AloneOK(label, j, db, TRUE)
    BY DEF AloneOK
  <2> QED BY <1>1, <1>4, <2>1, <2>3, <2>4, <2>5, SelectStep
<1>5. CASE Goto(t, "add") /\ job' = [job EXCEPT ![t].generation = 0]
  <2>1. 0 \in 0 .. MaxGeneration /\ 0 < MaxGeneration
    BY <1>2
  <2> QED BY <1>4, <1>5, <2>1
<1>6. ASSUME NEW r \in Active, r.generation < MaxGeneration, Goto(t, "retire"),
             job' = [job EXCEPT ![t].generation = r.generation]
      PROVE  StoreIndInv' /\ Grows(disk, disk')
  <2>1. r \in KeyRow
    BY RequestFields DEF Active, StoreTables
  <2>2. r.generation \in 0 .. MaxGeneration
    BY <1>2, <2>1 DEF KeyRow, Generations
  <2> QED BY <1>4, <1>6, <2>2
<1> QED BY <1>3, <1>5, <1>6 DEF SelectCurrent

(* The keys after the active one was retired. *)
RetiredIn(tables) == [tables EXCEPT !.keys = Retired(Active) \cup (@ \ Active)]

(* A retired key keeps its generation. *)
LEMMA Retirement ==
  ASSUME db \in StoreTables
  PROVE  LET new == RetiredIn(db)
         IN  new \in StoreTables /\ new.states = db.states /\ new.acks = db.acks /\ Grows(db, new)
<1> DEFINE rows == Retired(Active) \cup (db.keys \ Active)
           new  == [db EXCEPT !.keys = rows]
<1>1. \A r \in Active : /\ [r EXCEPT !.status = "RETIRED"] \in KeyRow
                        /\ [r EXCEPT !.status = "RETIRED"].generation = r.generation
                        /\ [r EXCEPT !.status = "RETIRED"].key = r.key
  <2> SUFFICES ASSUME NEW r \in KeyRow
               PROVE  LET q == [r EXCEPT !.status = "RETIRED"]
                      IN  q \in KeyRow /\ q.generation = r.generation /\ q.key = r.key
    BY DEF Active, StoreTables
  <2> QED BY DEF KeyRow
<1>2. rows \in SUBSET KeyRow
  BY <1>1 DEF Retired, StoreTables
<1>3. ASSUME NEW r \in db.keys PROVE \E q \in rows : q.generation = r.generation /\ q.key = r.key
  <2>1. CASE r \in Active
    BY <1>1, <2>1 DEF Retired
  <2>2. CASE r \notin Active
    BY <2>2
  <2> QED BY <2>1, <2>2
<1> HIDE DEF rows
<1>4. new \in StoreTables /\ new.states = db.states /\ new.acks = db.acks /\ new.keys = rows
  BY <1>2 DEF StoreTables
<1>5. Grows(db, new)
  BY <1>3, <1>4 DEF Grows
<1> QED BY <1>4, <1>5 DEF RetiredIn, rows

(* register_wireguard_public_key: the active key is retired. *)
LEMMA RetireStep ==
  ASSUME StoreIndInv, NEW t \in Threads, RetireKey(t)
  PROVE  StoreIndInv' /\ Grows(disk, disk')
<1> DEFINE new == RetiredIn(db)
<1>1. pc[t] = "retire" /\ UNCHANGED storeVars /\ UNCHANGED <<job, published, delivered>>
  BY DEF RetireKey, storeVars
<1>2. CASE Raise(t)
  BY <1>1, <1>2, RaiseStep
<1>3. CASE Write(new) /\ Goto(t, "add")
  <2>1. new \in StoreTables /\ new.states = db.states /\ new.acks = db.acks /\ Grows(db, new)
    BY RequestFields, Retirement
  <2> HIDE DEF new
  <2>2. Acknowledged(db) => Acknowledged(new)
    BY <2>1 DEF Acknowledged
  <2>3. "add" \in StoreLabels \ {"idle", "begin"} /\ RequestOK("add", job[t])
    BY <1>1, RequestFields DEF StoreLabels, RequestOK
  <2>4. AloneOK("retire", job[t], db, TRUE) => AloneOK("add", job[t], new, TRUE)
    BY DEF AloneOK
  <2> QED BY <1>1, <1>3, <2>1, <2>2, <2>3, <2>4, RequestFields, StatementStep
<1> QED BY <1>2, <1>3 DEF RetireKey, RetiredIn

(* register_wireguard_public_key: the key of the next generation. *)
LEMMA AddStep ==
  ASSUME StoreIndInv, NEW t \in Threads, AddKey(t)
  PROVE  StoreIndInv' /\ Grows(disk, disk')
<1> DEFINE row == [generation |-> job[t].generation + 1, key |-> job[t].key, status |-> "ACTIVE"]
           new == [db EXCEPT !.keys = @ \cup {row}]
<1>1. pc[t] = "add" /\ UNCHANGED storeVars /\ UNCHANGED <<job, published, delivered>>
  BY DEF AddKey, storeVars
<1>2. CASE Raise(t)
  BY <1>1, <1>2, RaiseStep
<1>3. CASE Write(new) /\ Goto(t, "commit")
  <2>1. job[t] \in RegisterJobs /\ job[t].generation < MaxGeneration /\ db \in StoreTables /\ MaxGeneration \in Nat
    BY <1>1, RequestFields, StoreBounds DEF RequestOK
  <2>2. row \in KeyRow
    BY <2>1 DEF KeyRow, RegisterJobs, Generations
  <2>3. Write(new) /\ Goto(t, "commit")
    BY <1>3
  <2> HIDE DEF row
  <2>4. new \in StoreTables /\ new.states = db.states /\ new.acks = db.acks /\ new.keys = db.keys \cup {row}
    BY <2>1, <2>2 DEF StoreTables
  <2> HIDE DEF new
  <2>5. Grows(db, new)
    BY <2>4 DEF Grows
  <2>6. Acknowledged(db) => Acknowledged(new)
    BY <2>4 DEF Acknowledged
  <2>7. "commit" \in StoreLabels \ {"idle", "begin"} /\ RequestOK("commit", job[t]) /\ job[t].op # "put"
    BY <2>1 DEF StoreLabels, RequestOK, RegisterJobs
  <2>8. AloneOK("commit", job[t], new, TRUE)
    BY <2>7 DEF AloneOK
  <2> QED BY <1>1, <2>3, <2>4, <2>5, <2>6, <2>7, <2>8, RequestFields, StatementStep
<1> QED BY <1>2, <1>3 DEF AddKey
-----------------------------------------------------------------------------
(* The order of the natural numbers as a relation. *)
LEMMA LessThan == OpToRel(<, Nat) = {ss \in Nat \X Nat : ss[1] < ss[2]}
BY DEF OpToRel

(* A set of natural numbers has a smallest element. *)
LEMMA Smallest ==
  ASSUME NEW T \in SUBSET Nat, T # {}
  PROVE  \E m \in T : \A n \in T : m <= n
<1>1. PICK m \in T : \A n \in T : ~(<<n, m>> \in OpToRel(<, Nat))
  BY NatLessThanWellFounded, WFMin
<1>2. ASSUME NEW n \in T, n < m PROVE FALSE
  <2>1. <<n, m>> \in {ss \in Nat \X Nat : ss[1] < ss[2]}
    BY <1>2
  <2> QED BY <1>1, <2>1, LessThan
<1> QED BY <1>2

(* The latest version is stored, unless nothing is. *)
LEMMA LatestIsStored ==
  LatestVersion \in 0 .. MaxVersion /\ (LatestVersion # 0 => LatestVersion \in Stored)
<1>1. MaxVersion \in Nat /\ Stored \subseteq Versions /\ Versions \subseteq 0 .. MaxVersion
  BY StoreBounds DEF Stored, Versions
<1>2. CASE Stored = {}
  BY <1>1, <1>2 DEF LatestVersion
<1>3. CASE Stored # {}
  <2> DEFINE below == {MaxVersion - v : v \in Stored}
  <2>1. below \in SUBSET Nat /\ below # {}
    <3>1. \A v \in 0 .. MaxVersion : MaxVersion - v \in Nat
      BY <1>1
    <3>2. \A v \in Stored : MaxVersion - v \in Nat
      BY <1>1, <3>1
    <3>3. PICK v \in Stored : TRUE
      BY <1>3
    <3>4. MaxVersion - v \in below
      OBVIOUS
    <3> QED BY <3>2, <3>4
  <2>2. PICK m \in below : \A n \in below : m <= n
    <3> HIDE DEF below
    <3> QED BY <2>1, Smallest
  <2>3. PICK v \in Stored : m = MaxVersion - v
    BY <2>2
  <2>4. \A w \in Stored : w <= v
    <3> SUFFICES ASSUME NEW w \in Stored PROVE w <= v
      OBVIOUS
    <3>1. MaxVersion - w \in below
      OBVIOUS
    <3>2. MaxVersion - v <= MaxVersion - w
      BY <2>2, <2>3, <3>1
    <3>3. v \in 0 .. MaxVersion /\ w \in 0 .. MaxVersion
      BY <1>1
    <3> QED BY <1>1, <3>2, <3>3
  <2>5. LatestVersion \in Stored
    BY <1>3, <2>4 DEF LatestVersion
  <2> QED BY <1>1, <2>5
<1> QED BY <1>2, <1>3

(* A request arrives. *)
LEMMA ArrivalStep ==
  ASSUME StoreIndInv, NEW t \in Threads, NEW request \in StoreJobs, request.op # None, CallStore(t, request)
  PROVE  StoreIndInv' /\ Grows(disk, disk')
<1>1. /\ pc[t] = "idle" /\ Goto(t, "begin") /\ UNCHANGED <<db, disk, inTx, published, delivered>>
      /\ job' = [job EXCEPT ![t] = request]
  BY DEF CallStore, connection
<1>2. db \in StoreTables /\ disk \in StoreTables /\ inTx \in BOOLEAN /\ published \subseteq State /\ GrowthInv
  BY DEF StoreIndInv, StoreTypeOK
<1>3. GrowthInv'
  BY <1>1, <1>2 DEF GrowthInv, Grows
<1>4. "begin" \in StoreLabels /\ RequestOK("begin", request)
  BY DEF StoreLabels, RequestOK
<1>5. ASSUME ~overlap
      PROVE  /\ \A s \in published : disk.states[s[1]] = s[2]
             /\ Acknowledged(disk) /\ Acknowledged(db)
             /\ AloneOK("begin", request, db, inTx)
  BY <1>5 DEF StoreIndInv, AloneInv, AloneOK
<1>6. StoreIndInv'
  BY <1>1, <1>2, <1>3, <1>4, <1>5, RequestStep
<1> QED BY <1>1, <1>6, GrowsOrder

(* What the requests carry is of the right kind. *)
LEMMA ArrivalsStep ==
  ASSUME StoreIndInv, NEW t \in Threads, Publish(t) \/ Acknowledge(t) \/ Register(t)
  PROVE  StoreIndInv' /\ Grows(disk, disk')
<1>1. CASE Publish(t)
  <2>1. PICK c \in Contents : CallStore(t, [op |-> "put", version |-> LatestVersion + 1, contents |-> c])
    BY <1>1 DEF Publish
  <2> DEFINE request == [op |-> "put", version |-> LatestVersion + 1, contents |-> c]
  <2>2. LatestVersion + 1 \in Versions
    BY <1>1, LatestIsStored, StoreBounds DEF Publish, Versions
  <2>3. request \in StoreJobs /\ request.op # None
    BY <2>2 DEF StoreJobs, None
  <2> QED BY <2>1, <2>3, ArrivalStep
<1>2. CASE Acknowledge(t)
  <2>1. PICK s \in delivered : CallStore(t, [op |-> "ack", version |-> s[1], contents |-> s[2]])
    BY <1>2 DEF Acknowledge
  <2> DEFINE request == [op |-> "ack", version |-> s[1], contents |-> s[2]]
  <2>2. s[1] \in Versions /\ s[2] \in Contents
    BY DEF StoreIndInv, StoreTypeOK, State
  <2>3. request \in StoreJobs /\ request.op # None
    BY <2>2 DEF StoreJobs, None
  <2> QED BY <2>1, <2>3, ArrivalStep
<1>3. CASE Register(t)
  <2>1. PICK k \in Keys : CallStore(t, [op |-> "register", key |-> k, generation |-> 0])
    BY <1>3 DEF Register
  <2> DEFINE request == [op |-> "register", key |-> k, generation |-> 0]
  <2>2. request \in StoreJobs /\ request.op # None
    BY StoreBounds DEF StoreJobs, None
  <2> QED BY <2>1, <2>2, ArrivalStep
<1> QED BY <1>1, <1>2, <1>3

(* BEGIN, also of a thread that meets the transaction of another. *)
LEMMA OpeningStep ==
  ASSUME StoreIndInv, NEW t \in Threads, BeginStore(t)
  PROVE  StoreIndInv' /\ Grows(disk, disk')
<1> DEFINE label == IF inTx THEN "rollback" ELSE StoreBody(job[t].op)
<1>1. /\ pc[t] = "begin" /\ Goto(t, label) /\ inTx' = TRUE
      /\ UNCHANGED <<db, disk, job, published, delivered>>
  BY DEF BeginStore, Begin, storeVars
<1>2. db \in StoreTables /\ disk \in StoreTables /\ published \subseteq State /\ GrowthInv
  BY DEF StoreIndInv, StoreTypeOK
<1>3. job[t] \in StoreJobs /\ job[t].op # None /\ job' = [job EXCEPT ![t] = job[t]]
  BY <1>1, RequestFields DEF RequestOK
<1>4. (job[t] \in PutAckJobs /\ job[t].op \in {"put", "ack"}) \/ (job[t] \in RegisterJobs /\ job[t].op = "register")
  BY <1>3 DEF StoreJobs, NoJob, PutAckJobs, RegisterJobs
<1>5. /\ label \in StoreLabels /\ RequestOK(label, job[t])
      /\ label \in {"rollback", "latest", "match", "current"}
  BY <1>4 DEF StoreLabels, RequestOK, StoreBody
<1> HIDE DEF label
<1>6. GrowthInv'
  BY <1>1, <1>2 DEF GrowthInv, Grows
<1>7. ASSUME ~overlap
      PROVE  /\ \A s \in published : disk.states[s[1]] = s[2]
             /\ Acknowledged(disk) /\ Acknowledged(db)
             /\ AloneOK(label, job[t], db, inTx')
  BY <1>1, <1>5, <1>7 DEF StoreIndInv, AloneInv, AloneOK
<1>8. StoreIndInv'
  BY <1>1, <1>2, <1>3, <1>5, <1>6, <1>7, RequestStep
<1> QED BY <1>1, <1>8, GrowsOrder

(* A thread that has answered has nothing left to do. *)
LEMMA Answered ==
  NoJob \in StoreJobs /\ RequestOK("idle", NoJob) /\ "idle" \in StoreLabels
BY DEF StoreJobs, RequestOK, StoreLabels

(* COMMIT, whosever transaction it ends. *)
LEMMA ClosingStep ==
  ASSUME StoreIndInv, NEW t \in Threads, CommitStore(t)
  PROVE  StoreIndInv' /\ Grows(disk, disk')
<1> DEFINE s == <<job[t].version, job[t].contents>>
<1>1. /\ pc[t] = "commit" /\ inTx /\ Goto(t, "idle") /\ disk' = db /\ inTx' = FALSE /\ db' = db
      /\ job' = [job EXCEPT ![t] = NoJob] /\ delivered' = delivered
      /\ published' = IF job[t].op = "put" THEN published \cup {s} ELSE published
  BY DEF CommitStore, Commit, Committed
<1>2. db \in StoreTables /\ disk \in StoreTables /\ inTx \in BOOLEAN /\ published \subseteq State /\ Grows(disk, db)
  BY DEF StoreIndInv, StoreTypeOK, GrowthInv
<1>3. job[t].op = "put" => s \in State
  BY <1>1, RequestFields DEF RequestOK, State
<1>4. published' \subseteq State
  BY <1>1, <1>2, <1>3
<1>5. GrowthInv'
  BY <1>1, GrowsOrder DEF GrowthInv, Grows
<1>6. ASSUME ~overlap
      PROVE  /\ \A p \in published' : disk'.states[p[1]] = p[2]
             /\ Acknowledged(disk') /\ Acknowledged(db')
             /\ AloneOK("idle", NoJob, db', inTx')
  <2>1. /\ AloneOK("commit", job[t], db, inTx) /\ Acknowledged(db)
        /\ \A p \in published : disk.states[p[1]] = p[2]
    BY <1>1, <1>6 DEF StoreIndInv, AloneInv
  <2>2. ASSUME NEW p \in published PROVE db.states[p[1]] = p[2]
    <3>1. p[1] \in Versions /\ p[2] \in Contents
      BY <1>2 DEF State
    <3>2. disk.states[p[1]] = p[2] /\ disk.states[p[1]] # None
      BY <2>1, <3>1, StoreBounds
    <3> QED BY <1>2, <3>1, <3>2 DEF Grows
  <2>3. job[t].op = "put" => db.states[s[1]] = s[2]
    BY <2>1 DEF AloneOK
  <2>4. \A p \in published' : p \in published \/ (job[t].op = "put" /\ p = s)
    BY <1>1
  <2>5. \A p \in published' : db.states[p[1]] = p[2]
    BY <2>2, <2>3, <2>4
  <2> QED BY <1>1, <2>1, <2>5 DEF AloneOK
<1>7. StoreIndInv'
  BY <1>1, <1>2, <1>4, <1>5, <1>6, Answered, RequestStep
<1> QED BY <1>1, <1>2, <1>7

(* COMMIT after another thread's ROLLBACK, and ROLLBACK itself. *)
LEMMA FailureStep ==
  ASSUME StoreIndInv, NEW t \in Threads, CommitErrorStore(t) \/ RollbackStore(t)
  PROVE  StoreIndInv' /\ Grows(disk, disk')
<1>1. /\ Goto(t, "idle") /\ inTx' = FALSE /\ UNCHANGED <<disk, published, delivered>>
      /\ job' = [job EXCEPT ![t] = NoJob] /\ (db' = disk)
  <2>1. db \in StoreTables /\ inTx \in BOOLEAN /\ (~inTx => db = disk)
    BY DEF StoreIndInv, StoreTypeOK, GrowthInv
  <2> QED BY <2>1 DEF CommitErrorStore, RollbackStore, CommitError, CommitFails, Rollback, Forget, connection
<1>2. disk \in StoreTables /\ published \subseteq State
  BY DEF StoreIndInv, StoreTypeOK
<1>3. GrowthInv'
  BY <1>1, GrowsOrder DEF GrowthInv, Grows
<1>4. ASSUME ~overlap
      PROVE  /\ \A s \in published' : disk'.states[s[1]] = s[2]
             /\ Acknowledged(disk') /\ Acknowledged(db')
             /\ AloneOK("idle", NoJob, db', inTx')
  BY <1>1, <1>4 DEF StoreIndInv, AloneInv, AloneOK
<1>5. StoreIndInv'
  BY <1>1, <1>2, <1>3, <1>4, Answered, RequestStep
<1> QED BY <1>1, <1>5, GrowsOrder

(* An edge fetches the latest state, or nothing changes at all. *)
LEMMA DeliveryStep ==
  ASSUME StoreIndInv, UNCHANGED <<db, disk, inTx, pc, overlap, job, published>>, delivered' \subseteq State
  PROVE  StoreIndInv' /\ Grows(disk, disk')
<1>1. StoreTypeOK' /\ RequestInv'
  BY DEF StoreIndInv, StoreTypeOK, RequestInv, RequestOK
<1>2. GrowthInv'
  BY DEF StoreIndInv, GrowthInv, Grows
<1>3. AloneInv'
  BY DEF StoreIndInv, AloneInv, AloneOK, Acknowledged
<1> QED BY <1>1, <1>2, <1>3, GrowsOrder DEF StoreIndInv

(* The deletion of the site, on the connection of another process. *)
LEMMA DeleteStep ==
  ASSUME StoreIndInv, DeleteSite
  PROVE  StoreIndInv' /\ Grows(disk, disk')
<1> DEFINE new == RetiredIn(db)
<1>1. ~inTx /\ inTx' = inTx /\ UNCHANGED <<pc, overlap, job, published, delivered>> /\ db' = new /\ disk' = new
  BY DEF DeleteSite, Write, storeVars, RetiredIn
<1>2. db \in StoreTables /\ db = disk
  BY <1>1 DEF StoreIndInv, StoreTypeOK, GrowthInv
<1>3. new \in StoreTables /\ new.states = db.states /\ new.acks = db.acks /\ Grows(db, new)
  BY <1>2, Retirement
<1> HIDE DEF new
<1>4. StoreTypeOK' /\ RequestInv'
  BY <1>1, <1>3 DEF StoreIndInv, StoreTypeOK, RequestInv, RequestOK
<1>5. GrowthInv'
  BY <1>1, GrowsOrder DEF GrowthInv, Grows
<1>6. AloneInv'
  <2> SUFFICES ASSUME ~overlap PROVE AloneInv'
    BY <1>1 DEF AloneInv
  <2>1. /\ \A t, u \in Threads : pc[t] # "idle" /\ pc[u] # "idle" => t = u
        /\ \A s \in published : disk.states[s[1]] = s[2]
        /\ Acknowledged(db)
        /\ \A t \in Threads : AloneOK(pc[t], job[t], db, inTx)
    BY DEF StoreIndInv, AloneInv
  <2>2. Acknowledged(new) /\ (\A s \in published : new.states[s[1]] = s[2])
    BY <1>2, <1>3, <2>1 DEF Acknowledged
  <2>3. \A t \in Threads : AloneOK(pc[t], job[t], new, inTx)
    BY <1>3, <2>1 DEF AloneOK
  <2> QED BY <1>1, <2>1, <2>2, <2>3 DEF AloneInv, Acknowledged, AloneOK
<1> QED BY <1>1, <1>2, <1>3, <1>4, <1>5, <1>6 DEF StoreIndInv

(* The process ends and starts again. *)
LEMMA StoreRestartStep ==
  ASSUME StoreIndInv, RestartStore
  PROVE  StoreIndInv' /\ Grows(disk, disk')
<1>1. /\ pc' = [t \in Threads |-> "idle"] /\ db' = disk /\ inTx' = FALSE /\ job' = [t \in Threads |-> NoJob]
      /\ UNCHANGED <<disk, overlap, published, delivered>>
  BY DEF RestartStore, ProcessRestart
<1>2. StoreTypeOK'
  BY <1>1, Answered DEF StoreIndInv, StoreTypeOK
<1>3. \A t \in Threads : pc'[t] = "idle" /\ job'[t] = NoJob
  BY <1>1
<1>4. RequestInv'
  BY <1>3, Answered DEF RequestInv, RequestOK
<1>5. GrowthInv'
  BY <1>1, GrowsOrder DEF GrowthInv, Grows
<1>6. AloneInv'
  BY <1>1, <1>3 DEF StoreIndInv, AloneInv, AloneOK, Acknowledged
<1> QED BY <1>1, <1>2, <1>4, <1>5, <1>6, GrowsOrder DEF StoreIndInv

(* Every step keeps the inductive invariant and loses nothing committed. *)
LEMMA StoreStep ==
  ASSUME StoreIndInv, [StoreNext]_policyVars
  PROVE  StoreIndInv' /\ Grows(disk, disk')
<1>1. CASE UNCHANGED policyVars
  BY <1>1, DeliveryStep DEF policyVars, connection, storeVars, StoreIndInv, StoreTypeOK
<1>2. ASSUME NEW t \in Threads, Put(t) \/ Ack(t) \/ RegisterKey(t)
      PROVE  StoreIndInv' /\ Grows(disk, disk')
  BY <1>2, LatestStep, ExistingStep, InsertStep, MatchStep, RecordStep, CurrentStep, RetireStep, AddStep
     DEF Put, Ack, RegisterKey
<1>3. ASSUME NEW t \in Threads, \/ Publish(t) \/ Acknowledge(t) \/ Register(t) \/ BeginStore(t)
                                \/ CommitStore(t) \/ CommitErrorStore(t) \/ RollbackStore(t)
      PROVE  StoreIndInv' /\ Grows(disk, disk')
  BY <1>3, ArrivalsStep, OpeningStep, ClosingStep, FailureStep
<1>4. CASE Deliver
  <2>1. /\ UNCHANGED <<db, disk, inTx, pc, overlap, job, published>>
        /\ delivered' = delivered \cup {<<LatestVersion, db.states[LatestVersion]>>}
        /\ LatestVersion # 0
    BY <1>4 DEF Deliver, connection
  <2>2. db \in StoreTables /\ delivered \subseteq State
    BY DEF StoreIndInv, StoreTypeOK
  <2>3. LatestVersion \in Versions /\ db.states[LatestVersion] \in Contents
    BY <2>1, <2>2, LatestIsStored DEF Stored, StoreTables
  <2>4. delivered' \subseteq State
    BY <2>1, <2>2, <2>3 DEF State
  <2> QED BY <2>1, <2>4, DeliveryStep
<1> QED BY <1>1, <1>2, <1>3, <1>4, DeleteStep, StoreRestartStep DEF StoreNext

(* The empty store. *)
LEMMA StoreInitially ==
  ASSUME StoreInit
  PROVE  StoreIndInv
<1>1. EmptyStore \in StoreTables /\ \A v \in Versions : EmptyStore.acks[v] = None
  BY DEF EmptyStore, StoreTables
<1>2. StoreTypeOK
  BY <1>1, Answered DEF StoreInit, StoreTypeOK
<1>3. \A t \in Threads : pc[t] = "idle" /\ job[t] = NoJob
  BY DEF StoreInit
<1>4. RequestInv
  BY <1>3, Answered DEF RequestInv
<1>5. GrowthInv
  BY GrowsOrder DEF StoreInit, GrowthInv
<1>6. AloneInv
  BY <1>1, <1>3 DEF StoreInit, AloneInv, AloneOK, Acknowledged
<1> QED BY <1>2, <1>4, <1>5, <1>6 DEF StoreIndInv

(* Every reachable state of the Policy Service's store satisfies the       *)
(* inductive invariant.                                                    *)
THEOREM StoreInductive == StoreSpec => []StoreIndInv
BY StoreInitially, StoreStep, PTL DEF StoreSpec

(* While no two requests overlap, what was published is the one contents   *)
(* of its version and only stored contents are acknowledged, whatever is   *)
(* retried, raised, restarted or deleted, for any number of versions.      *)
THEOREM StoreInvariant == StoreSpec => []StoreInv
<1>1. StoreIndInv => StoreInv
  BY DEF StoreIndInv, StoreInv, AloneInv, SerialAnswers, Acknowledged
<1> QED BY <1>1, StoreInductive, PTL

(* However many requests overlap: a committed desired state never changes  *)
(* or vanishes, and the key of a generation stays.                         *)
THEOREM NeverLost == StoreSpec => NothingIsLost
<1> DEFINE Kept ==
      /\ \A v \in Versions : disk.states[v] # None => disk'.states[v] = disk.states[v]
      /\ \A r \in disk.keys : \E q \in disk'.keys : q.generation = r.generation /\ q.key = r.key
<1>1. StoreIndInv /\ [StoreNext]_policyVars => [Kept]_policyVars
  <2> SUFFICES ASSUME StoreIndInv, [StoreNext]_policyVars PROVE Kept
    OBVIOUS
  <2>1. Grows(disk, disk')
    BY StoreStep
  <2> QED BY <2>1 DEF Grows
<1> HIDE DEF Kept
<1>2. StoreSpec => [][Kept]_policyVars
  BY <1>1, StoreInductive, PTL DEF StoreSpec
<1> QED BY <1>2 DEF NothingIsLost, Kept
=============================================================================
