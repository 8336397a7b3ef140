--------------------------- MODULE EventController ---------------------------
(***************************************************************************)
(* The event loop behind the drive, volume, node and init-request          *)
(* controllers (pkg/controller): an informer keeps a local store of the    *)
(* objects and reports changes, a rate limited work queue holds one entry  *)
(* per event, and a pool of workers hands events to the handler under one  *)
(* lock per object.                                                        *)
(*                                                                         *)
(* An object is its version: every write at the API server makes the next  *)
(* one.  An event carries the object that the informer saw, so two events  *)
(* of one object are two entries of the queue and can be in the hands of   *)
(* two workers.  Names are not reused once an object is deleted.           *)
(***************************************************************************)
EXTENDS Naturals, Sequences

CONSTANTS
  Keys,          \* object names
  Workers,       \* worker goroutines
  NoWorker,      \* nobody holds the lock
  MaxVersion,    \* bound: writes of one object
  MaxFailures,   \* bound: errors that handlers return
  MaxNotices     \* bound: notifications under way

ASSUME ControllerAssumption ==
  /\ NoWorker \notin Workers
  /\ MaxVersion \in Nat \ {0} /\ MaxFailures \in Nat /\ MaxNotices \in Nat \ {0}

VARIABLES
  version,     \* last version at the API server, 0: not created yet
  deleted,     \* objects deleted at the API server
  store,       \* the informer's store, 0: not in it
  notices,     \* informer notifications on their way to the event functions
  queue,       \* work queue: events ready to be taken
  dirty,       \* work queue: events to be processed (again)
  processing,  \* work queue: events taken and not done
  delayed,     \* work queue: failed events that wait for their rate limit
  lock,        \* mutex of every object
  worker,      \* what each worker does
  newest,      \* history: newest version a handler was given
  handled,     \* history: newest version a handler succeeded on
  failures     \* handler errors so far

queueVars == <<queue, dirty, processing, delayed>>
vars == <<version, deleted, store, notices, queueVars, lock, worker, newest, handled, failures>>

Versions == 1..MaxVersion
Event == [type : {"Add", "Update", "Delete"}, key : Keys, object : Versions]

\* A worker is idle, waits for the lock or holds it, or runs the handler on an object.
Idle    == [pc |-> "idle"]
Waiting == [pc : {"lock", "fetch"}, event : Event]
Running == [pc : {"handle", "succeeded", "failed"}, event : Event, object : Versions]

\* Queue, locks and workers have the shape the code gives them.
TypeOK ==
  /\ version \in [Keys -> 0..MaxVersion]
  /\ deleted \subseteq Keys
  /\ store \in [Keys -> 0..MaxVersion]
  /\ notices \in Seq(Event)
  /\ queue \in Seq(Event)
  /\ dirty \subseteq Event
  /\ processing \subseteq Event
  /\ delayed \subseteq Event
  /\ lock \in [Keys -> Workers \cup {NoWorker}]
  /\ worker \in [Workers -> {Idle} \cup Waiting \cup Running]
  /\ newest \in [Keys -> 0..MaxVersion]
  /\ handled \in [Keys -> 0..MaxVersion]
  /\ failures \in 0..MaxFailures

Init ==
  /\ version = [k \in Keys |-> 0] /\ deleted = {}
  /\ store = [k \in Keys |-> 0] /\ notices = <<>>
  /\ queue = <<>> /\ dirty = {} /\ processing = {} /\ delayed = {}
  /\ lock = [k \in Keys |-> NoWorker]
  /\ worker = [w \in Workers |-> Idle]
  /\ newest = [k \in Keys |-> 0] /\ handled = [k \in Keys |-> 0]
  /\ failures = 0

-----------------------------------------------------------------------------
(* The API server and the informer *)

clusterFrame == <<notices, queueVars, lock, worker, newest, handled, failures>>

Write(k) ==
  /\ k \notin deleted /\ version[k] < MaxVersion
  /\ version' = [version EXCEPT ![k] = @ + 1]
  /\ UNCHANGED <<deleted, store, clusterFrame>>

Delete(k) ==
  /\ k \notin deleted /\ version[k] > 0
  /\ deleted' = deleted \cup {k}
  /\ UNCHANGED <<version, store, clusterFrame>>

\* The watch or a relist brings the store up to a later version (a relist skips
\* some), then the listeners are notified.
Observe(k) ==
  /\ Len(notices) < MaxNotices
  /\ \/ \E n \in (store[k] + 1)..version[k] :
          /\ k \notin deleted \/ store[k] # 0
          /\ store' = [store EXCEPT ![k] = n]
          /\ notices' = Append(notices, [type |-> IF store[k] = 0 THEN "Add" ELSE "Update",
                                         key |-> k, object |-> n])
     \/ /\ k \in deleted /\ store[k] # 0
        /\ store' = [store EXCEPT ![k] = 0]
        /\ notices' = Append(notices, [type |-> "Delete", key |-> k, object |-> version[k]])
  /\ UNCHANGED <<version, deleted, queueVars, lock, worker, newest, handled, failures>>

\* Every resyncPeriod each object of the store is reported as updated.
Resync(k) ==
  /\ notices = <<>> /\ store[k] # 0
  /\ notices' = <<[type |-> "Update", key |-> k, object |-> store[k]]>>
  /\ UNCHANGED <<version, deleted, store, queueVars, lock, worker, newest, handled, failures>>

-----------------------------------------------------------------------------
(* The work queue *)

\* queue.Add: an entry that is there is not added twice; one being processed is
\* queued when it is done.
Add(e) ==
  /\ dirty' = dirty \cup {e}
  /\ queue' = IF e \in dirty \cup processing THEN queue ELSE Append(queue, e)

\* AddFunc, UpdateFunc, DeleteFunc
Notify ==
  /\ notices # <<>>
  /\ notices' = Tail(notices)
  /\ Add(Head(notices))
  /\ UNCHANGED <<version, deleted, store, processing, delayed, lock, worker, newest, handled,
                 failures>>

\* The rate limit of a failed event has passed.
DelayOver(e) ==
  /\ e \in delayed
  /\ delayed' = delayed \ {e}
  /\ Add(e)
  /\ UNCHANGED <<version, deleted, store, notices, processing, lock, worker, newest, handled,
                 failures>>

-----------------------------------------------------------------------------
(* Workers *)

workerFrame == <<version, deleted, store, notices>>

\* processNextItem: queue.Get
Get(w) ==
  /\ worker[w] = Idle /\ queue # <<>>
  /\ LET e == Head(queue)
     IN  /\ queue' = Tail(queue)
         /\ dirty' = dirty \ {e}
         /\ processing' = processing \cup {e}
         /\ worker' = [worker EXCEPT ![w] = [pc |-> "lock", event |-> e]]
  /\ UNCHANGED <<workerFrame, delayed, lock, newest, handled, failures>>

\* Faulty variant of Lock: operations on one object are not serialised.
Lock_none(w) ==
  /\ worker[w].pc = "lock"
  /\ lock' = [lock EXCEPT ![worker[w].event.key] = w]
  /\ worker' = [worker EXCEPT ![w].pc = "fetch"]
  /\ UNCHANGED <<workerFrame, queueVars, newest, handled, failures>>

\* processItem: lock(event.Key)
Lock(w) ==
  /\ worker[w].pc = "lock"
  /\ LET k == worker[w].event.key
     IN  /\ lock[k] = NoWorker
         /\ lock' = [lock EXCEPT ![k] = w]
  /\ worker' = [worker EXCEPT ![w].pc = "fetch"]
  /\ UNCHANGED <<workerFrame, queueVars, newest, handled, failures>>

\* Faulty variant of Current: the handler gets the object of the event.
Current_event(e) == e.object

\* The object the handler is given: the one in the store, or that of the event when
\* the store has none.
Current(e) == IF store[e.key] # 0 THEN store[e.key] ELSE e.object

\* processItem: GetByKey, and the call of the handler
Fetch(w) ==
  /\ worker[w].pc = "fetch"
  /\ LET e == worker[w].event
     IN  /\ worker' = [worker EXCEPT ![w] = [pc |-> "handle", event |-> e, object |-> Current(e)]]
         /\ newest' = [newest EXCEPT ![e.key] = IF Current(e) > @ THEN Current(e) ELSE @]
  /\ UNCHANGED <<workerFrame, queueVars, lock, handled, failures>>

\* The handler returns; the lock is released.
Handle(w) ==
  /\ worker[w].pc = "handle"
  /\ LET k == worker[w].event.key
         n == worker[w].object
     IN  /\ lock' = [lock EXCEPT ![k] = NoWorker]
         /\ \/ /\ worker' = [worker EXCEPT ![w].pc = "succeeded"]
               /\ handled' = [handled EXCEPT ![k] = IF n > @ THEN n ELSE @]
               /\ UNCHANGED failures
            \/ /\ failures < MaxFailures
               /\ failures' = failures + 1
               /\ worker' = [worker EXCEPT ![w].pc = "failed"]
               /\ UNCHANGED handled
  /\ UNCHANGED <<workerFrame, queueVars, newest>>

\* Faulty variant of Done: a failed event is forgotten.
Done_noRetry(w) ==
  /\ worker[w].pc \in {"succeeded", "failed"}
  /\ LET e == worker[w].event
     IN  /\ processing' = processing \ {e}
         /\ queue' = IF e \in dirty THEN Append(queue, e) ELSE queue
  /\ worker' = [worker EXCEPT ![w] = Idle]
  /\ UNCHANGED <<workerFrame, dirty, delayed, lock, newest, handled, failures>>

\* processNextItem: AddRateLimited for a failed event; queue.Done, which queues the
\* event again if it was added meanwhile.
Done(w) ==
  /\ worker[w].pc \in {"succeeded", "failed"}
  /\ LET e == worker[w].event
     IN  /\ delayed' = IF worker[w].pc = "failed" THEN delayed \cup {e} ELSE delayed
         /\ processing' = processing \ {e}
         /\ queue' = IF e \in dirty THEN Append(queue, e) ELSE queue
  /\ worker' = [worker EXCEPT ![w] = Idle]
  /\ UNCHANGED <<workerFrame, dirty, lock, newest, handled, failures>>

WorkerStep(w) == Get(w) \/ Lock(w) \/ Fetch(w) \/ Handle(w) \/ Done(w)

Next ==
  \/ \E k \in Keys : Write(k) \/ Delete(k) \/ Observe(k) \/ Resync(k)
  \/ Notify
  \/ \E e \in Event : DelayOver(e)
  \/ \E w \in Workers : WorkerStep(w)

Spec == Init /\ [][Next]_vars

\* The informer and the queue run on; a worker gets its turn, and the mutex, too
\* (sync.Mutex hands itself over to a waiter that starves); a handler returns.
Fairness ==
  /\ \A k \in Keys : WF_vars(Observe(k))
  /\ WF_vars(Notify)
  /\ \A e \in Event : WF_vars(DelayOver(e))
  /\ \A w \in Workers : /\ WF_vars(Get(w)) /\ SF_vars(Lock(w))
                         /\ WF_vars(Fetch(w)) /\ WF_vars(Handle(w)) /\ WF_vars(Done(w))

FairSpec == Spec /\ Fairness

-----------------------------------------------------------------------------
(* Properties *)

InHandler(w) == worker[w].pc \in {"fetch", "handle"}

\* "Ensure that multiple operations on different versions of the same objects do not
\* happen in parallel": two workers never run the handler for one object, though the
\* queue hands out two events of it at once.
Serialised ==
  \A v, w \in Workers :
    v # w /\ InHandler(v) /\ InHandler(w) => worker[v].event.key # worker[w].event.key

\* While an object exists, no handler is given a version older than one an earlier
\* handler was given, in whatever order events are queued, delayed and retried.
NeverBackwards ==
  \A w \in Workers :
    LET k == worker[w].event.key
    IN  worker[w].pc = "handle" /\ store[k] # 0 => worker[w].object = newest[k]

\* An object that no handler has succeeded on in its current version is still in
\* work: notified, queued, waiting for a retry, or with a worker that has yet to
\* fetch it, handles that version, or is about to requeue it.
NothingForgotten ==
  \A k \in Keys :
    store[k] # 0 /\ handled[k] < store[k] =>
      \/ \E i \in 1..Len(notices) : notices[i].key = k
      \/ \E e \in dirty \cup delayed : e.key = k
      \/ \E w \in Workers :
           /\ worker[w].pc \in {"lock", "fetch", "handle", "failed"}
           /\ worker[w].event.key = k
           /\ worker[w].pc = "handle" => worker[w].object = store[k]

\* Every version written is handled, itself or a later one, unless the object goes.
EveryVersionHandled ==
  \A k \in Keys, n \in Versions : version[k] = n ~> handled[k] >= n \/ k \in deleted
=============================================================================
