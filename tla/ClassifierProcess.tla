------------------------- MODULE ClassifierProcess --------------------------
(***************************************************************************)
(* The threads of the native classifier (sdwan/classifier/main.c): the     *)
(* main thread that starts, awaits and stops the others, the NFQUEUE       *)
(* workers (nfqueue_worker.c), the exporter behind the shared event queue  *)
(* (event_export.c) and the policy listener (policy_snapshot.c).           *)
(*                                                                         *)
(* What a worker does with packets is in FlowInspection; here it is a      *)
(* producer of events, each identified with the worker it comes from.      *)
(* Every critical section of the queue's mutex is one step.                *)
(***************************************************************************)
EXTENDS PolicySnapshot, Integers

CONSTANTS
  Workers,      \* one per queue number
  Capacity,     \* SDWAN_EVENT_CAPACITY
  CounterSize,  \* counters wrap here: 2^64 in the code
  Messages      \* datagrams the policy socket may receive

ASSUME QueueAssumption ==
  Capacity \in Nat \ {0} /\ CounterSize \in Nat \ {0} /\ "none" \notin Workers

(* What json-c gives for the fields of a document, valid or not. *)
ASSUME MessageAssumption ==
  \A m \in Messages :
    /\ m.version \in Int /\ m.lapsed \in BOOLEAN
    /\ IsFiniteSet(DOMAIN m.paths)
    /\ \A c \in DOMAIN m.ranks : m.ranks[c] \in Seq(STRING)

VARIABLES
  main,      \* where the main thread is
  stop,      \* sdwan_stop
  worker,    \* state of each worker thread
  listener,  \* state of the policy listener
  active,    \* the active policy
  queue,     \* the ring of events, under its mutex
  exporter,  \* state of the exporter thread
  inflight,  \* the event it has taken and not yet sent
  sent, dropped,  \* the queue's atomic counters
  pushed     \* history: calls of sdwan_event_push

threads == <<main, stop, worker, listener, exporter>>
events == <<queue, inflight, sent, dropped, pushed>>
vars == <<threads, active, events>>

None == "none"
Slots == 0 .. Capacity - 1
Inc(counter) == (counter + 1) % CounterSize

(* The policy of a document, before or after it has lapsed. *)
PolicyOf(m, lapsed) == [Snapshot(m) EXCEPT !.lapsed = lapsed]

Policies ==
  {InitialPolicy} \cup {PolicyOf(m, TRUE) : m \in Messages} \cup {PolicyOf(m, FALSE) : m \in Messages}

TypeOK ==
  /\ main \in {"queue", "workers", "listen", "spawn", "await", "check", "sleep",
               "joinListener", "destroy", "joinExporter", "exited"}
  /\ stop \in BOOLEAN
  /\ worker \in [Workers -> {"none", "starting", "loop", "work", "failed", "done"}]
  /\ listener \in {"none", "open", "loop", "recv", "done"}
  /\ active \in Policies
  /\ queue \in [items : [Slots -> Workers \cup {None}], head : Slots, tail : Slots,
                count : 0 .. Capacity, stopping : BOOLEAN]
  /\ exporter \in {"none", "lock", "wait", "send", "done"}
  /\ inflight \in Workers \cup {None}
  /\ {sent, dropped, pushed} \subseteq 0 .. CounterSize - 1

Init ==
  /\ main = "queue" /\ stop = FALSE
  /\ worker = [w \in Workers |-> "none"] /\ listener = "none"
  /\ active = InitialPolicy
  /\ queue = [items |-> [i \in Slots |-> None], head |-> 0, tail |-> 0, count |-> 0,
              stopping |-> FALSE]
  /\ exporter = "none" /\ inflight = None
  /\ sent = 0 /\ dropped = 0 /\ pushed = 0
-----------------------------------------------------------------------------
(* The event queue. *)

(* pthread_cond_signal. *)
Wake == IF exporter = "wait" THEN "lock" ELSE exporter

(* sdwan_event_push: its result is ignored by both callers. *)
Push(w) ==
  /\ pushed' = Inc(pushed)
  /\ \/ /\ queue.count < Capacity
        /\ queue' = [queue EXCEPT !.items[queue.head] = w,
                                  !.head = (queue.head + 1) % Capacity,
                                  !.count = @ + 1]
        /\ exporter' = Wake
        /\ UNCHANGED dropped
     \/ /\ queue.count = Capacity
        /\ dropped' = Inc(dropped)
        /\ UNCHANGED <<queue, exporter>>

(* The exporter holds the mutex: it waits, takes the oldest event, or ends *)
(* when the queue is stopping and empty.                                   *)
ExporterWait ==
  /\ exporter = "lock" /\ queue.count = 0 /\ ~queue.stopping
  /\ exporter' = "wait"
  /\ UNCHANGED <<main, stop, worker, listener, active, events>>

ExporterDone ==
  /\ exporter = "lock" /\ queue.count = 0 /\ queue.stopping
  /\ exporter' = "done"
  /\ UNCHANGED <<main, stop, worker, listener, active, events>>

Take ==
  /\ exporter = "lock" /\ queue.count > 0
  /\ inflight' = queue.items[queue.tail]
  /\ queue' = [queue EXCEPT !.tail = (@ + 1) % Capacity, !.count = @ - 1]
  /\ exporter' = "send"
  /\ UNCHANGED <<main, stop, worker, listener, active, sent, dropped, pushed>>

(* Faulty: a datagram that cannot be sent is forgotten. *)
FaultySend ==
  /\ exporter = "send"
  /\ \/ sent' = Inc(sent) /\ UNCHANGED dropped
     \/ UNCHANGED <<sent, dropped>>
  /\ inflight' = None /\ exporter' = "lock"
  /\ UNCHANGED <<main, stop, worker, listener, active, queue, pushed>>

(* sendto with MSG_DONTWAIT succeeds or fails; a failed event is dropped.  *)
Send ==
  /\ exporter = "send"
  /\ \/ sent' = Inc(sent) /\ UNCHANGED dropped
     \/ dropped' = Inc(dropped) /\ UNCHANGED sent
  /\ inflight' = None /\ exporter' = "lock"
  /\ UNCHANGED <<main, stop, worker, listener, active, queue, pushed>>

ExporterStep == ExporterWait \/ ExporterDone \/ Take \/ Send
-----------------------------------------------------------------------------
(* A worker thread. *)

Worker(w, from, to) == worker[w] = from /\ worker' = [worker EXCEPT ![w] = to]

(* Opening, binding and configuring the netlink socket works or fails. *)
WorkerStart(w) ==
  /\ Worker(w, "starting", "loop") \/ Worker(w, "starting", "failed")
  /\ UNCHANGED <<main, stop, listener, exporter, active, events>>

(* Faulty: a worker that has begun to loop does not look at sdwan_stop. *)
FaultyLoop(w) ==
  /\ Worker(w, "loop", "work")
  /\ UNCHANGED <<main, stop, listener, exporter, active, events>>

WorkerLoop(w) ==
  /\ IF stop THEN Worker(w, "loop", "done") ELSE Worker(w, "loop", "work")
  /\ UNCHANGED <<main, stop, listener, exporter, active, events>>

(* Terminal, expiration and statistics events of one iteration. *)
WorkerEvent(w) ==
  /\ worker[w] = "work"
  /\ Push(w)
  /\ UNCHANGED <<main, stop, worker, listener, active, inflight, sent>>

WorkerIterated(w) ==
  /\ Worker(w, "work", "loop")
  /\ UNCHANGED <<main, stop, listener, exporter, active, events>>

Ended(w) == worker[w] \in {"done", "failed"}
Ready(w) == worker[w] \in {"loop", "work", "done"}
-----------------------------------------------------------------------------
(* The policy listener. *)

(* Its socket cannot be bound, and it ends, or it begins to receive. *)
ListenerStart ==
  /\ listener = "open" /\ listener' \in {"loop", "done"}
  /\ UNCHANGED <<main, stop, worker, exporter, active, events>>

ListenerLoop ==
  /\ listener = "loop" /\ listener' = IF stop THEN "done" ELSE "recv"
  /\ UNCHANGED <<main, stop, worker, exporter, active, events>>

ListenerTimeout ==
  /\ listener = "recv" /\ listener' = "loop"
  /\ UNCHANGED <<main, stop, worker, exporter, active, events>>

Receive(m) ==
  /\ listener = "recv" /\ listener' = "loop"
  /\ active' = UpdatePolicy(active, m)
  /\ UNCHANGED <<main, stop, worker, exporter, events>>

(* The wall clock passes the expiry of the active policy. *)
Lapse ==
  /\ active.generation # "" /\ ~active.lapsed
  /\ active' = [active EXCEPT !.lapsed = TRUE]
  /\ UNCHANGED <<threads, events>>
-----------------------------------------------------------------------------
(* The main thread. *)

At(from, to) == main = from /\ main' = to

(* sdwan_event_queue_init starts the exporter, or main returns. *)
InitQueue ==
  /\ \/ At("queue", "exited") /\ UNCHANGED exporter
     \/ At("queue", "workers") /\ exporter' = "lock"
  /\ UNCHANGED <<stop, worker, listener, active, events>>

InitWorkers ==
  /\ At("workers", "destroy") \/ At("workers", "listen")
  /\ UNCHANGED <<stop, worker, listener, exporter, active, events>>

CreateListener ==
  /\ \/ At("listen", "destroy") /\ UNCHANGED listener
     \/ At("listen", "spawn") /\ listener' = "open"
  /\ UNCHANGED <<stop, worker, exporter, active, events>>

(* The workers are created one by one; after a failure no further one is. *)
CreateWorker(w) ==
  /\ main = "spawn" /\ worker[w] = "none"
  /\ \/ /\ worker' = [worker EXCEPT ![w] = "starting"]
        /\ UNCHANGED <<main, stop>>
     \/ stop' = TRUE /\ main' = "await" /\ UNCHANGED worker
  /\ UNCHANGED <<listener, exporter, active, events>>

AllCreated ==
  /\ At("spawn", "await") /\ \A w \in Workers : worker[w] # "none"
  /\ UNCHANGED <<stop, worker, listener, exporter, active, events>>

(* Every worker is ready, one has failed, or a hundred attempts are over.  *)
Awaited ==
  /\ At("await", "check")
  /\ UNCHANGED <<stop, worker, listener, exporter, active, events>>

CheckReady ==
  /\ At("check", "sleep")
  /\ stop' = (stop \/ \E w \in Workers : ~Ready(w))
  /\ UNCHANGED <<worker, listener, exporter, active, events>>

(* Faulty: the queue is destroyed without joining the workers. *)
FaultyJoin ==
  /\ At("sleep", "joinListener") /\ stop
  /\ UNCHANGED <<stop, worker, listener, exporter, active, events>>

(* The main thread sleeps until it is to stop, and joins the workers that  *)
(* were created.                                                           *)
JoinWorkers ==
  /\ At("sleep", "joinListener") /\ stop
  /\ \A w \in Workers : worker[w] # "none" => Ended(w)
  /\ UNCHANGED <<stop, worker, listener, exporter, active, events>>

JoinListener ==
  /\ At("joinListener", "destroy") /\ listener = "done"
  /\ UNCHANGED <<stop, worker, listener, exporter, active, events>>

(* sdwan_event_queue_destroy: stop the exporter and wait for it. *)
DestroyQueue ==
  /\ At("destroy", "joinExporter")
  /\ queue' = [queue EXCEPT !.stopping = TRUE]
  /\ exporter' = Wake
  /\ UNCHANGED <<stop, worker, listener, active, inflight, sent, dropped, pushed>>

JoinExporter ==
  /\ At("joinExporter", "exited") /\ exporter = "done"
  /\ UNCHANGED <<stop, worker, listener, exporter, active, events>>

(* SIGINT or SIGTERM. *)
Signal ==
  /\ main # "exited" /\ ~stop /\ stop' = TRUE
  /\ UNCHANGED <<main, worker, listener, exporter, active, events>>

Exited == main = "exited" /\ UNCHANGED vars

MainStep ==
  \/ InitQueue \/ InitWorkers \/ CreateListener \/ (\E w \in Workers : CreateWorker(w))
  \/ AllCreated \/ Awaited \/ CheckReady \/ JoinWorkers \/ JoinListener
  \/ DestroyQueue \/ JoinExporter

WorkerStep(w) == WorkerStart(w) \/ WorkerLoop(w) \/ WorkerIterated(w)
ListenerStep == ListenerStart \/ ListenerLoop \/ ListenerTimeout

Next ==
  \/ MainStep \/ Signal \/ Exited
  \/ (\E w \in Workers : WorkerStep(w) \/ WorkerEvent(w))
  \/ ListenerStep \/ (\E m \in Messages : Receive(m)) \/ Lapse
  \/ ExporterStep

(* Threads are scheduled; signals, datagrams and events need not come. *)
Fairness ==
  /\ WF_vars(MainStep)
  /\ \A w \in Workers : WF_vars(WorkerStart(w)) /\ WF_vars(WorkerLoop(w)) /\ WF_vars(WorkerIterated(w))
  /\ WF_vars(ListenerStep)
  /\ WF_vars(ExporterStep)

Spec == Init /\ [][Next]_vars /\ Fairness
-----------------------------------------------------------------------------
(* The ring as a sequence, oldest event first. *)
Pending == [i \in 1 .. queue.count |-> queue.items[(queue.tail + i - 1) % Capacity]]

Channel == INSTANCE EventChannel
             WITH Events <- Workers, pending <- Pending, closed <- queue.stopping

(* Refinement: head, tail and count with the mutex, the condition variable *)
(* and the shutdown order implement a bounded channel: accepted events go  *)
(* out once and in order, none is accepted after the queue is closed, and  *)
(* the exporter always comes back for what is left.                        *)
IsChannel == Channel!Spec

(* Events that have been accepted and not yet counted. *)
Held == queue.count + (IF inflight = None THEN 0 ELSE 1)

(* Every event pushed is in the queue, with the exporter, or counted once, *)
(* as sent or as dropped; full queues and failing sockets included.        *)
EventsAccounted == pushed = (sent + dropped + Held) % CounterSize

(* The active policy never returns to a version of its generation that is  *)
(* older or was replaced, whatever datagrams arrive.                       *)
PolicyNeverRolledBack ==
  [][active'.generation = active.generation /\ active'.generation # "" =>
       active' = active \/ active' = [active EXCEPT !.lapsed = TRUE]
         \/ active'.version > active.version]_vars

(* Whatever was accepted, every application and category gets the mark of  *)
(* a path that the active policy knows, or, once it lapsed, the fallback.  *)
ChoiceIsKnown ==
  \A app \in {"a", "other"}, category \in {"c", "other"} :
    \/ active.lapsed
    \/ Choose(active, app, category, FallbackMark) \in Named(active.paths)

(* The invariant of the process: its queue, its counters and its policy.   *)
ProcessInv == TypeOK /\ EventsAccounted /\ ChoiceIsKnown

(* Once stopping has begun, the process ends: no join waits for ever, also *)
(* when a thread could not be started or did not become ready.             *)
StopEnds == stop ~> main = "exited"
=============================================================================
