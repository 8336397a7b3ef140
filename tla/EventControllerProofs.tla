----------------------- MODULE EventControllerProofs -----------------------
(* Theorems about EventController, for any number of objects and workers. *)
EXTENDS EventController, TLAPS

-----------------------------------------------------------------------------
(* Type correctness *)

\* The store follows the API server.
StoreBehind == \A k \in Keys : store[k] <= version[k]

TypeInv == TypeOK /\ StoreBehind

\* The controller starts well typed, with an empty store.
LEMMA TypeInit == Init => TypeInv
  BY ControllerAssumption DEF Init, TypeInv, TypeOK, StoreBehind

\* What a worker is in each of its states.
LEMMA WorkerShape ==
  ASSUME TypeOK, NEW w \in Workers
  PROVE  /\ worker[w].pc \in {"lock", "fetch"} => worker[w] \in Waiting
         /\ worker[w].pc \in {"handle", "succeeded", "failed"} => worker[w] \in Running
         /\ worker[w].pc \in {"lock", "fetch", "handle", "succeeded", "failed"} =>
              worker[w].event \in Event
  BY DEF TypeOK, Idle, Waiting, Running

\* Adding an event keeps the queue a sequence of events.
LEMMA AddTypes ==
  ASSUME TypeOK, NEW e \in Event, Add(e)
  PROVE  dirty' \subseteq Event /\ queue' \in Seq(Event)
  BY DEF TypeOK, Add

\* The object a handler is given is one that was written.
LEMMA CurrentType ==
  ASSUME TypeOK, NEW e \in Event
  PROVE  Current(e) \in Versions
  BY ControllerAssumption DEF TypeOK, Current, Event, Versions

\* Types through writes at the API server and what the informer sees of them.
LEMMA TypeInformer ==
  ASSUME TypeInv, NEW k \in Keys, Write(k) \/ Delete(k) \/ Observe(k) \/ Resync(k)
  PROVE  TypeInv'
<1> USE ControllerAssumption
<1>1. CASE Write(k) \/ Delete(k)
  <2>1. version' \in [Keys -> 0..MaxVersion] /\ \A x \in Keys : version[x] <= version'[x]
    <3>1. version \in [Keys -> 0..MaxVersion]
      BY DEF TypeInv, TypeOK
    <3>2. CASE Write(k)
      BY <3>1, <3>2 DEF Write
    <3>3. CASE Delete(k)
      BY <3>1, <3>3 DEF Delete
    <3> QED
      BY <1>1, <3>2, <3>3
  <2>2. UNCHANGED store /\ deleted' \subseteq Keys
    BY <1>1 DEF Write, Delete, TypeInv, TypeOK
  <2>3. \A x \in Keys : store[x] \in Nat /\ version[x] \in Nat /\ version'[x] \in Nat
    BY <2>1 DEF TypeInv, TypeOK
  <2>4. StoreBehind'
    BY <2>1, <2>2, <2>3 DEF TypeInv, StoreBehind
  <2> QED
    BY <1>1, <2>1, <2>2, <2>4 DEF Write, Delete, clusterFrame, queueVars, TypeInv, TypeOK
<1>2. CASE Observe(k)
  <2> DEFINE Observed == /\ store' \in [Keys -> 0..MaxVersion] /\ notices' \in Seq(Event)
                         /\ \A x \in Keys : store'[x] <= version[x]
  <2>1. Observed
    <3>1. ASSUME NEW n \in (store[k] + 1)..version[k],
                 store' = [store EXCEPT ![k] = n],
                 notices' = Append(notices, [type |-> IF store[k] = 0 THEN "Add" ELSE "Update",
                                             key |-> k, object |-> n])
          PROVE  Observed
      <4>1. n \in Versions /\ n \in 0..MaxVersion /\ n <= version[k]
        BY DEF TypeInv, TypeOK, Versions
      <4>2. [type |-> IF store[k] = 0 THEN "Add" ELSE "Update", key |-> k, object |-> n] \in Event
        BY <4>1 DEF Event
      <4> QED
        BY <3>1, <4>1, <4>2 DEF TypeInv, TypeOK, StoreBehind
    <3>2. ASSUME store[k] # 0, store' = [store EXCEPT ![k] = 0],
                 notices' = Append(notices, [type |-> "Delete", key |-> k, object |-> version[k]])
          PROVE  Observed
      <4>1. version[k] \in Versions
        BY <3>2 DEF TypeInv, TypeOK, StoreBehind, Versions
      <4>2. [type |-> "Delete", key |-> k, object |-> version[k]] \in Event
        BY <4>1 DEF Event
      <4> QED
        BY <3>2, <4>2 DEF TypeInv, TypeOK, StoreBehind
    <3> QED
      BY <1>2, <3>1, <3>2 DEF Observe
  <2> QED
    BY <1>2, <2>1 DEF Observe, queueVars, TypeInv, TypeOK, StoreBehind
<1>3. CASE Resync(k)
  <2>1. [type |-> "Update", key |-> k, object |-> store[k]] \in Event
    BY <1>3 DEF Resync, TypeInv, TypeOK, Event, Versions
  <2> QED
    BY <1>3, <2>1 DEF Resync, queueVars, TypeInv, TypeOK, StoreBehind
<1> QED
  BY <1>1, <1>2, <1>3

\* Types through notification and the end of a rate limit delay.
LEMMA TypeQueue ==
  ASSUME TypeInv, Notify \/ \E e \in Event : DelayOver(e)
  PROVE  TypeInv'
<1>1. CASE Notify
  <2>1. Head(notices) \in Event /\ Tail(notices) \in Seq(Event)
    BY <1>1 DEF Notify, TypeInv, TypeOK
  <2>2. dirty' \subseteq Event /\ queue' \in Seq(Event)
    BY <1>1, <2>1, AddTypes DEF Notify, TypeInv
  <2> QED
    BY <1>1, <2>1, <2>2 DEF Notify, TypeInv, TypeOK, StoreBehind
<1>2. ASSUME NEW e \in Event, DelayOver(e) PROVE TypeInv'
  <2>1. dirty' \subseteq Event /\ queue' \in Seq(Event)
    BY <1>2, AddTypes DEF DelayOver, TypeInv
  <2> QED
    BY <1>2, <2>1 DEF DelayOver, TypeInv, TypeOK, StoreBehind
<1> QED
  BY <1>1, <1>2

\* Types through one step of a worker.
LEMMA TypeWorker ==
  ASSUME TypeInv, NEW w \in Workers, WorkerStep(w)
  PROVE  TypeInv'
<1> USE ControllerAssumption
<1>t. TypeOK
  BY DEF TypeInv
<1>f. UNCHANGED workerFrame => StoreBehind'
  BY DEF workerFrame, TypeInv, StoreBehind
<1>1. CASE Get(w)
  <2>1. Head(queue) \in Event /\ Tail(queue) \in Seq(Event)
    BY <1>1, <1>t DEF Get, TypeOK
  <2>2. [pc |-> "lock", event |-> Head(queue)] \in Waiting
    BY <2>1 DEF Waiting
  <2>3. worker' \in [Workers -> {Idle} \cup Waiting \cup Running]
    BY <1>1, <1>t, <2>2 DEF Get, TypeOK
  <2> QED
    BY <1>1, <1>t, <1>f, <2>1, <2>3 DEF Get, workerFrame, TypeInv, TypeOK
<1>2. CASE Lock(w)
  <2>1. worker[w].event \in Event /\ worker[w] \in Waiting
    BY <1>2, <1>t, WorkerShape DEF Lock
  <2>2. [worker[w] EXCEPT !.pc = "fetch"] \in Waiting
    BY <2>1 DEF Waiting
  <2>3. worker' \in [Workers -> {Idle} \cup Waiting \cup Running]
    BY <1>2, <1>t, <2>2 DEF Lock, TypeOK
  <2>4. lock' \in [Keys -> Workers \cup {NoWorker}]
    BY <1>2, <1>t DEF Lock, TypeOK
  <2> QED
    BY <1>2, <1>t, <1>f, <2>3, <2>4 DEF Lock, workerFrame, queueVars, TypeInv, TypeOK
<1>3. CASE Fetch(w)
  <2> DEFINE e == worker[w].event
  <2>1. e \in Event
    BY <1>3, <1>t, WorkerShape DEF Fetch
  <2>2. Current(e) \in Versions
    BY <1>t, <2>1, CurrentType
  <2>3. [pc |-> "handle", event |-> e, object |-> Current(e)] \in Running
    BY <2>1, <2>2 DEF Running
  <2>4. worker' \in [Workers -> {Idle} \cup Waiting \cup Running]
    BY <1>3, <1>t, <2>3 DEF Fetch, TypeOK
  <2>5. newest' \in [Keys -> 0..MaxVersion]
    <3>1. e.key \in Keys /\ newest[e.key] \in 0..MaxVersion /\ Current(e) \in 0..MaxVersion
      BY <1>t, <2>1, <2>2 DEF TypeOK, Event, Versions
    <3> QED
      BY <1>3, <1>t, <3>1 DEF Fetch, TypeOK
  <2> QED
    BY <1>3, <1>t, <1>f, <2>4, <2>5 DEF Fetch, workerFrame, queueVars, TypeInv, TypeOK
<1>4. CASE Handle(w)
  <2>1. worker[w] \in Running
    BY <1>4, <1>t, WorkerShape DEF Handle
  <2>2. /\ [worker[w] EXCEPT !.pc = "succeeded"] \in Running
        /\ [worker[w] EXCEPT !.pc = "failed"] \in Running
        /\ worker[w].object \in 0..MaxVersion
    BY <2>1 DEF Running, Versions
  <2>3. worker' \in [Workers -> {Idle} \cup Waiting \cup Running]
    BY <1>4, <1>t, <2>2 DEF Handle, TypeOK
  <2>4. lock' \in [Keys -> Workers \cup {NoWorker}]
    BY <1>4, <1>t DEF Handle, TypeOK
  <2>5. handled' \in [Keys -> 0..MaxVersion] /\ failures' \in 0..MaxFailures
    <3>1. handled' \in [Keys -> 0..MaxVersion]
      BY <1>4, <1>t, <2>2 DEF Handle, TypeOK
    <3>2. failures' \in 0..MaxFailures
      BY <1>4, <1>t DEF Handle, TypeOK
    <3> QED
      BY <3>1, <3>2
  <2> QED
    BY <1>4, <1>t, <1>f, <2>3, <2>4, <2>5 DEF Handle, workerFrame, queueVars, TypeInv, TypeOK
<1>5. CASE Done(w)
  <2>1. worker[w].event \in Event
    BY <1>5, <1>t, WorkerShape DEF Done
  <2>2. queue' \in Seq(Event) /\ delayed' \subseteq Event /\ processing' \subseteq Event
    BY <1>5, <1>t, <2>1 DEF Done, TypeOK
  <2>3. worker' \in [Workers -> {Idle} \cup Waiting \cup Running]
    BY <1>5, <1>t DEF Done, TypeOK
  <2> QED
    BY <1>5, <1>t, <1>f, <2>2, <2>3 DEF Done, workerFrame, TypeInv, TypeOK
<1> QED
  BY <1>1, <1>2, <1>3, <1>4, <1>5 DEF WorkerStep

\* Types, and a store that is never ahead of the API server, are inductive.
LEMMA TypeNext == TypeInv /\ [Next]_vars => TypeInv'
<1> SUFFICES ASSUME TypeInv, [Next]_vars PROVE TypeInv'
  OBVIOUS
<1>1. CASE UNCHANGED vars
  BY <1>1 DEF vars, queueVars, TypeInv, TypeOK, StoreBehind
<1> QED
  BY <1>1, TypeInformer, TypeQueue, TypeWorker DEF Next

\* Every event, lock and worker keeps its shape; in particular a handler is always
\* given an object that was written, never nil.
THEOREM TypeCorrect == Spec => []TypeOK
<1>1. TypeInv => TypeOK
  BY DEF TypeInv
<1> QED
  BY <1>1, TypeInit, TypeNext, PTL DEF Spec

-----------------------------------------------------------------------------
(* One handler per object *)

\* A worker between lock and unlock holds the mutex of its event's object.
Holds == \A w \in Workers : InHandler(w) => lock[worker[w].event.key] = w

LockInv == TypeOK /\ Holds

\* No lock is held at the start.
LEMMA LockInit == Init => LockInv
  BY TypeInit DEF Init, TypeInv, LockInv, Holds, InHandler, Idle

\* A worker in the handler holds the lock of its object until it leaves.
LEMMA HoldsNext == TypeOK /\ Holds /\ [Next]_vars => Holds'
<1> SUFFICES ASSUME TypeOK, Holds, [Next]_vars PROVE Holds'
  OBVIOUS
<1>1. CASE UNCHANGED <<lock, worker>>
  BY <1>1 DEF Holds, InHandler
<1>2. ASSUME NEW w \in Workers, Get(w) PROVE Holds'
  <2>1. UNCHANGED lock /\ worker'[w].pc = "lock" /\ \A x \in Workers : x # w => worker'[x] = worker[x]
    BY <1>2 DEF Get, TypeOK
  <2> QED
    BY <2>1 DEF Holds, InHandler
<1>3. ASSUME NEW w \in Workers, Lock(w) PROVE Holds'
  <2> DEFINE k == worker[w].event.key
  <2>1. worker[w] \in Waiting /\ k \in Keys
    BY <1>3, WorkerShape DEF Lock, Event
  <2>2. /\ lock[k] = NoWorker /\ lock'[k] = w
        /\ \A x \in Keys : x # k => lock'[x] = lock[x]
    BY <1>3, <2>1 DEF Lock, TypeOK
  <2>3. worker'[w].event = worker[w].event /\ \A x \in Workers : x # w => worker'[x] = worker[x]
    BY <1>3, <2>1 DEF Lock, TypeOK, Waiting
  <2>4. ASSUME NEW x \in Workers, x # w, InHandler(x)'
        PROVE  lock'[worker'[x].event.key] = x
    <3>1. InHandler(x) /\ lock[worker[x].event.key] = x /\ worker[x].event.key \in Keys
      BY <2>3, <2>4, WorkerShape DEF Holds, InHandler, Event
    <3>2. worker[x].event.key # k
      BY <2>2, <3>1, ControllerAssumption
    <3> QED
      BY <2>2, <2>3, <2>4, <3>1, <3>2
  <2> QED
    BY <2>2, <2>3, <2>4 DEF Holds
<1>4. ASSUME NEW w \in Workers, Fetch(w) PROVE Holds'
  <2>1. /\ UNCHANGED lock /\ worker[w].pc = "fetch" /\ worker'[w].event = worker[w].event
        /\ \A x \in Workers : x # w => worker'[x] = worker[x]
    BY <1>4 DEF Fetch, TypeOK
  <2> QED
    BY <2>1 DEF Holds, InHandler
<1>5. ASSUME NEW w \in Workers, Handle(w) PROVE Holds'
  <2> DEFINE k == worker[w].event.key
  <2>1. worker[w] \in Running /\ k \in Keys
    BY <1>5, WorkerShape DEF Handle, Event
  <2>2. /\ lock[k] = w /\ \A x \in Keys : x # k => lock'[x] = lock[x]
        /\ worker'[w].pc \in {"succeeded", "failed"}
        /\ \A x \in Workers : x # w => worker'[x] = worker[x]
    BY <1>5, <2>1 DEF Handle, TypeOK, Holds, InHandler, Running
  <2>3. ASSUME NEW x \in Workers, InHandler(x)'
        PROVE  lock'[worker'[x].event.key] = x
    <3>1. x # w
      BY <2>2, <2>3 DEF InHandler
    <3>2. InHandler(x) /\ lock[worker[x].event.key] = x /\ worker[x].event.key \in Keys
      BY <2>2, <2>3, <3>1, WorkerShape DEF Holds, InHandler, Event
    <3> QED
      BY <2>2, <3>1, <3>2
  <2> QED
    BY <2>3 DEF Holds
<1>6. ASSUME NEW w \in Workers, Done(w) PROVE Holds'
  <2>1. UNCHANGED lock /\ worker'[w] = Idle /\ \A x \in Workers : x # w => worker'[x] = worker[x]
    BY <1>6 DEF Done, TypeOK
  <2> QED
    BY <2>1 DEF Holds, InHandler, Idle
<1>7. ASSUME NEW k \in Keys, Write(k) \/ Delete(k) \/ Observe(k) \/ Resync(k)
      PROVE  UNCHANGED <<lock, worker>>
  BY <1>7 DEF Write, Delete, Observe, Resync, clusterFrame
<1>8. Notify \/ (\E e \in Event : DelayOver(e)) \/ UNCHANGED vars => UNCHANGED <<lock, worker>>
  BY DEF Notify, DelayOver, vars
<1> QED
  BY <1>1, <1>2, <1>3, <1>4, <1>5, <1>6, <1>7, <1>8 DEF Next, WorkerStep

\* The mutex per object that processItem takes serialises the handlers of one
\* object, though the queue hands out several of its events at once and the
\* store and the queue change while a handler runs.
THEOREM HandlersSerialised == Spec => []Serialised
<1>1. LockInv => Serialised
  BY DEF LockInv, Holds, Serialised
<1>2. TypeInv /\ LockInv /\ [Next]_vars => (TypeInv /\ LockInv)'
  BY TypeNext, HoldsNext DEF TypeInv, LockInv
<1> QED
  BY <1>1, <1>2, TypeInit, LockInit, PTL DEF Spec

-----------------------------------------------------------------------------
(* What a worker is given *)

\* What one step of a worker does to the workers: the others stay, the event that it
\* took from the queue stays with it until it is done.
LEMMA WorkerMoves ==
  ASSUME TypeOK, NEW w \in Workers, WorkerStep(w)
  PROVE  /\ UNCHANGED <<version, deleted, store, notices>>
         /\ \A x \in Workers : x # w => worker'[x] = worker[x]
         /\ \/ Get(w) /\ worker[w].pc = "idle" /\ worker'[w] = [pc |-> "lock", event |-> Head(queue)]
            \/ /\ Lock(w) /\ worker[w].pc = "lock" /\ worker'[w].pc = "fetch"
               /\ worker'[w].event = worker[w].event
            \/ /\ Fetch(w) /\ worker[w].pc = "fetch" /\ worker'[w].pc = "handle"
               /\ worker'[w].event = worker[w].event
               /\ worker'[w].object = Current(worker[w].event)
            \/ /\ Handle(w) /\ worker[w].pc = "handle" /\ worker'[w].pc \in {"succeeded", "failed"}
               /\ worker'[w].event = worker[w].event /\ worker'[w].object = worker[w].object
            \/ /\ Done(w) /\ worker[w].pc \in {"succeeded", "failed"} /\ worker'[w].pc = "idle"
<1>1. CASE Get(w)
  BY <1>1 DEF Get, TypeOK, workerFrame, Idle
<1>2. CASE Lock(w)
  BY <1>2, WorkerShape DEF Lock, TypeOK, workerFrame, Waiting
<1>3. CASE Fetch(w)
  BY <1>3 DEF Fetch, TypeOK, workerFrame
<1>4. CASE Handle(w)
  <2>1. worker[w] \in Running
    BY <1>4, WorkerShape DEF Handle
  <2>2. \/ worker' = [worker EXCEPT ![w].pc = "succeeded"]
        \/ worker' = [worker EXCEPT ![w].pc = "failed"]
    BY <1>4 DEF Handle
  <2>3. /\ worker'[w].event = worker[w].event /\ worker'[w].object = worker[w].object
        /\ worker'[w].pc \in {"succeeded", "failed"}
        /\ \A x \in Workers : x # w => worker'[x] = worker[x]
    BY <2>1, <2>2 DEF TypeOK, Running
  <2> QED BY <1>4, <2>3 DEF Handle, workerFrame
<1>5. CASE Done(w)
  BY <1>5 DEF Done, TypeOK, workerFrame, Idle
<1> QED BY <1>1, <1>2, <1>3, <1>4, <1>5 DEF WorkerStep

\* An event is about an object that was in the store; one that left it does not return.
Seen(k) == store[k] # 0 \/ k \in deleted

EventsSeen ==
  /\ \A i \in 1..Len(notices) : Seen(notices[i].key)
  /\ \A i \in 1..Len(queue) : Seen(queue[i].key)
  /\ \A e \in dirty \cup delayed : Seen(e.key)
  /\ \A w \in Workers : worker[w].pc # "idle" => Seen(worker[w].event.key)

\* No handler was given more than the store holds.
NewestBehind ==
  \A k \in Keys : /\ newest[k] # 0 => Seen(k)
                  /\ store[k] # 0 => newest[k] <= store[k]

ForwardInv == EventsSeen /\ NewestBehind /\ NeverBackwards

\* Nothing was seen at the start.
LEMMA ForwardInit == Init => ForwardInv
  BY DEF Init, ForwardInv, EventsSeen, NewestBehind, NeverBackwards, Idle

\* Elements of a sequence that grows or loses its head
LEMMA Appended ==
  ASSUME NEW S, NEW s \in Seq(S), NEW e \in S
  PROVE  \A i \in 1..Len(Append(s, e)) :
           Append(s, e)[i] = e \/ (i \in 1..Len(s) /\ Append(s, e)[i] = s[i])
<1>1. Len(Append(s, e)) = Len(s) + 1 /\ Len(s) \in Nat
  OBVIOUS
<1>2. Append(s, e)[Len(s) + 1] = e /\ \A i \in 1..Len(s) : Append(s, e)[i] = s[i]
  OBVIOUS
<1>3. \A i \in 1..(Len(s) + 1) : i = Len(s) + 1 \/ i \in 1..Len(s)
  BY <1>1
<1> QED BY <1>1, <1>2, <1>3

\* What is left when the head is taken was there before it.
LEMMA Remaining ==
  ASSUME NEW S, NEW s \in Seq(S), s # <<>>
  PROVE  /\ 1 \in 1..Len(s) /\ Head(s) = s[1]
         /\ \A i \in 1..Len(Tail(s)) : i + 1 \in 1..Len(s) /\ Tail(s)[i] = s[i + 1]
         /\ \A i \in 1..Len(s) : i = 1 \/ (i - 1 \in 1..Len(Tail(s)) /\ Tail(s)[i - 1] = s[i])
<1>1. Len(s) \in Nat /\ Len(s) > 0 /\ Head(s) = s[1]
  OBVIOUS
<1>2. Len(Tail(s)) = Len(s) - 1
  BY <1>1
<1>3. \A i \in 1..(Len(s) - 1) : Tail(s)[i] = s[i + 1]
  BY <1>1
<1>4. \A i \in 1..(Len(s) - 1) : i + 1 \in 1..Len(s)
  BY <1>1
<1>5. ASSUME NEW i \in 1..Len(s), i # 1
      PROVE  i - 1 \in 1..(Len(s) - 1) /\ Tail(s)[i - 1] = s[i]
  <2>1. i - 1 \in 1..(Len(s) - 1) /\ (i - 1) + 1 = i
    BY <1>1, <1>5
  <2> QED BY <2>1, <1>3
<1>6. 1 \in 1..Len(s)
  BY <1>1
<1> QED BY <1>1, <1>2, <1>3, <1>4, <1>5, <1>6

\* Once seen, an object stays seen: its deletion is known before it leaves the store.
LEMMA SeenStays ==
  ASSUME TypeInv, [Next]_vars, NEW k \in Keys, Seen(k)
  PROVE  Seen(k)'
<1>1. ASSUME NEW x \in Keys, Write(x) \/ Delete(x) \/ Resync(x) PROVE Seen(k)'
  BY <1>1 DEF Write, Delete, Resync, Seen
<1>2. ASSUME NEW x \in Keys, Observe(x) PROVE Seen(k)'
  <2>1. store[x] \in Nat /\ version[x] \in Nat /\ store = [y \in Keys |-> store[y]]
    BY DEF TypeInv, TypeOK
  <2>2. CASE k # x
    BY <1>2, <2>1, <2>2 DEF Observe, Seen
  <2>3. ASSUME k = x, NEW n \in (store[x] + 1)..version[x], store' = [store EXCEPT ![x] = n]
        PROVE  Seen(k)'
    <3>1. n # 0
      BY <2>1, <2>3
    <3> QED BY <2>1, <2>3, <3>1 DEF Seen
  <2>4. CASE x \in deleted /\ UNCHANGED deleted
    BY <1>2, <2>1, <2>2, <2>4 DEF Seen
  <2> QED BY <1>2, <2>2, <2>3, <2>4 DEF Observe
<1>3. ASSUME NEW w \in Workers, WorkerStep(w) PROVE Seen(k)'
  BY <1>3, WorkerMoves DEF Seen, TypeInv
<1>4. CASE Notify \/ (\E e \in Event : DelayOver(e)) \/ UNCHANGED vars
  BY <1>4 DEF Notify, DelayOver, vars, Seen
<1> QED BY <1>1, <1>2, <1>3, <1>4 DEF Next

\* Observe notifies of its object, which is in the store then, or deleted.
LEMMA ObserveNotices ==
  ASSUME TypeInv, NEW k \in Keys, Observe(k)
  PROVE  /\ store'[k] # 0 \/ k \in deleted'
         /\ Len(notices) \in Nat /\ Len(notices') = Len(notices) + 1
         /\ notices'[Len(notices) + 1].key = k
         /\ \A i \in 1..Len(notices) : notices'[i] = notices[i]
<1> DEFINE Notices == /\ store'[k] # 0 \/ k \in deleted'
                      /\ Len(notices) \in Nat /\ Len(notices') = Len(notices) + 1
                      /\ notices'[Len(notices) + 1].key = k
                      /\ \A i \in 1..Len(notices) : notices'[i] = notices[i]
<1>0. ASSUME NEW e \in Event, e.key = k, notices' = Append(notices, e),
             store'[k] # 0 \/ k \in deleted'
      PROVE  Notices
  <2>1. notices \in Seq(Event)
    BY DEF TypeInv, TypeOK
  <2> QED BY <1>0, <2>1
<1>1. ASSUME NEW n \in (store[k] + 1)..version[k],
             store' = [store EXCEPT ![k] = n],
             notices' = Append(notices, [type |-> IF store[k] = 0 THEN "Add" ELSE "Update",
                                         key |-> k, object |-> n])
      PROVE  Notices
  <2>0. store[k] \in 0..MaxVersion /\ version[k] \in 0..MaxVersion
    BY DEF TypeInv, TypeOK
  <2>1. n \in Versions /\ n # 0
    BY <2>0, ControllerAssumption DEF Versions
  <2>3. store'[k] # 0
    BY <1>1, <2>1 DEF TypeInv, TypeOK
  <2>2. [type |-> IF store[k] = 0 THEN "Add" ELSE "Update", key |-> k, object |-> n] \in Event
    BY <2>1 DEF Event
  <2> QED BY <1>0, <1>1, <2>2, <2>3
<1>2. ASSUME k \in deleted, store[k] # 0,
             notices' = Append(notices, [type |-> "Delete", key |-> k, object |-> version[k]])
      PROVE  Notices
  <2>1. version[k] \in Versions
    BY <1>2 DEF TypeInv, TypeOK, StoreBehind, Versions
  <2>2. [type |-> "Delete", key |-> k, object |-> version[k]] \in Event
    BY <2>1 DEF Event
  <2> QED BY <1>0, <1>2, <2>2 DEF Observe
<1> QED BY <1>1, <1>2 DEF Observe

\* Events stay events of objects that were seen.
LEMMA EventsSeenNext ==
  ASSUME TypeInv, EventsSeen, [Next]_vars
  PROVE  EventsSeen'
<1> DEFINE Later(k) == store'[k] # 0 \/ k \in deleted'
<1>t. TypeOK
  BY DEF TypeInv
<1>s. \A k \in Keys : Seen(k) => Later(k)
  BY SeenStays DEF Seen
<1>k. \A e \in Event : e.key \in Keys
  BY DEF Event
<1>w. \A w \in Workers : worker[w].pc # "idle" => worker[w].event \in Event
  BY <1>t DEF TypeOK, Idle, Waiting, Running
<1>h. /\ \A i \in 1..Len(notices) : Later(notices[i].key)
      /\ \A i \in 1..Len(queue) : Later(queue[i].key)
      /\ \A e \in dirty \cup delayed : Later(e.key)
      /\ \A w \in Workers : worker[w].pc # "idle" => Later(worker[w].event.key)
  <2>1. \A i \in 1..Len(notices) : notices[i] \in Event
    BY <1>t DEF TypeOK
  <2>2. \A i \in 1..Len(queue) : queue[i] \in Event
    BY <1>t DEF TypeOK
  <2>3. dirty \cup delayed \subseteq Event
    BY <1>t DEF TypeOK
  <2> HIDE DEF Later
  <2> QED BY <1>s, <1>k, <1>w, <2>1, <2>2, <2>3 DEF EventsSeen
<1> SUFFICES /\ \A i \in 1..Len(notices') : Later(notices'[i].key)
             /\ \A i \in 1..Len(queue') : Later(queue'[i].key)
             /\ \A e \in dirty' \cup delayed' : Later(e.key)
             /\ \A w \in Workers : worker'[w].pc # "idle" => Later(worker'[w].event.key)
  BY DEF EventsSeen, Seen
<1> DEFINE Goal == /\ \A i \in 1..Len(notices') : Later(notices'[i].key)
                   /\ \A i \in 1..Len(queue') : Later(queue'[i].key)
                   /\ \A e \in dirty' \cup delayed' : Later(e.key)
                   /\ \A w \in Workers : worker'[w].pc # "idle" => Later(worker'[w].event.key)
<1>a. ASSUME NEW e \in Event, Later(e.key), Add(e)
      PROVE  /\ \A i \in 1..Len(queue') : Later(queue'[i].key)
             /\ \A x \in dirty' : Later(x.key)
  <2>1. queue \in Seq(Event) /\ dirty' = dirty \cup {e}
    BY <1>a, <1>t DEF Add, TypeOK
  <2>2. queue' = queue \/ queue' = Append(queue, e)
    BY <1>a DEF Add
  <2>3. \A i \in 1..Len(queue') : queue'[i] = e \/ (i \in 1..Len(queue) /\ queue'[i] = queue[i])
    BY <2>1, <2>2, Appended
  <2> HIDE DEF Later
  <2> QED BY <1>a, <1>h, <2>1, <2>3
<1>1. ASSUME NEW k \in Keys, Write(k) \/ Delete(k) PROVE Goal
  <2>1. UNCHANGED <<notices, queueVars, worker>>
    BY <1>1 DEF Write, Delete, clusterFrame
  <2> HIDE DEF Later
  <2> QED BY <1>h, <2>1 DEF queueVars
<1>2. ASSUME NEW k \in Keys, Observe(k) PROVE Goal
  <2>1. Later(k)
    BY <1>2, ObserveNotices
  <2>2. \A i \in 1..Len(notices') :
          notices'[i].key = k \/ (i \in 1..Len(notices) /\ notices'[i] = notices[i])
    <3>1. /\ Len(notices) \in Nat /\ Len(notices') = Len(notices) + 1
          /\ notices'[Len(notices) + 1].key = k
          /\ \A i \in 1..Len(notices) : notices'[i] = notices[i]
      BY <1>2, ObserveNotices
    <3>2. \A i \in 1..(Len(notices) + 1) : i = Len(notices) + 1 \/ i \in 1..Len(notices)
      BY <3>1
    <3> QED BY <3>1, <3>2
  <2>3. UNCHANGED <<queueVars, worker>>
    BY <1>2 DEF Observe
  <2> HIDE DEF Later
  <2> QED BY <1>h, <2>1, <2>2, <2>3 DEF queueVars
<1>3. ASSUME NEW k \in Keys, Resync(k) PROVE Goal
  <2>1. /\ Later(k) /\ UNCHANGED <<queueVars, worker>>
        /\ notices' = <<[type |-> "Update", key |-> k, object |-> store[k]]>>
    BY <1>3 DEF Resync
  <2>2. \A i \in 1..Len(notices') : notices'[i].key = k
    BY <2>1
  <2> HIDE DEF Later
  <2> QED BY <1>h, <2>1, <2>2 DEF queueVars
<1>4. CASE Notify
  <2>1. /\ Head(notices) = notices[1] /\ 1 \in 1..Len(notices)
        /\ \A i \in 1..Len(notices') : i + 1 \in 1..Len(notices) /\ notices'[i] = notices[i + 1]
    BY <1>4, <1>t, Remaining DEF Notify, TypeOK
  <2>2. Head(notices) \in Event /\ Later(Head(notices).key)
    BY <1>t, <1>h, <2>1 DEF TypeOK
  <2>3. Add(Head(notices)) /\ UNCHANGED <<delayed, worker>>
    BY <1>4 DEF Notify
  <2> HIDE DEF Later
  <2> QED BY <1>a, <1>h, <2>1, <2>2, <2>3
<1>5. ASSUME NEW e \in Event, DelayOver(e) PROVE Goal
  <2>1. e \in delayed /\ delayed' \subseteq delayed /\ Add(e) /\ UNCHANGED <<notices, worker>>
    BY <1>5 DEF DelayOver
  <2> HIDE DEF Later
  <2> QED BY <1>a, <1>h, <2>1
<1>6. ASSUME NEW w \in Workers, WorkerStep(w) PROVE Goal
  <2>1. UNCHANGED notices /\ \A x \in Workers : x # w => worker'[x] = worker[x]
    BY <1>6, <1>t, WorkerMoves
  <2>2. CASE Get(w)
    <3>1. /\ Head(queue) = queue[1] /\ 1 \in 1..Len(queue)
          /\ \A i \in 1..Len(queue') : i + 1 \in 1..Len(queue) /\ queue'[i] = queue[i + 1]
      BY <2>2, <1>t, Remaining DEF Get, TypeOK
    <3>2. worker'[w].event = Head(queue) /\ dirty' \subseteq dirty /\ UNCHANGED delayed
      BY <2>2, <1>t DEF Get, TypeOK
    <3> HIDE DEF Later
    <3> QED BY <1>h, <2>1, <3>1, <3>2
  <2>3. CASE Lock(w) \/ Fetch(w) \/ Handle(w)
    <3>1. UNCHANGED queueVars
      BY <2>3 DEF Lock, Fetch, Handle
    <3>2. worker[w].pc # "idle" /\ worker'[w].event = worker[w].event
      BY <1>6, <1>t, <2>3, WorkerMoves DEF Get, Done, Lock, Fetch, Handle, Idle
    <3> HIDE DEF Later
    <3> QED BY <1>h, <2>1, <3>1, <3>2 DEF queueVars
  <2>4. CASE Done(w)
    <3> DEFINE e == worker[w].event
    <3>1. /\ worker[w].pc # "idle" /\ worker'[w].pc = "idle"
          /\ delayed' \subseteq delayed \cup {e} /\ dirty' = dirty
          /\ queue' = queue \/ queue' = Append(queue, e)
      BY <2>4, <1>t DEF Done, TypeOK, Idle
    <3>2. e \in Event /\ Later(e.key)
      BY <1>w, <1>h, <3>1
    <3>3. \A i \in 1..Len(queue') : queue'[i] = e \/ (i \in 1..Len(queue) /\ queue'[i] = queue[i])
      BY <1>t, <3>1, <3>2, Appended DEF TypeOK
    <3> HIDE DEF Later
    <3> QED BY <1>h, <2>1, <3>1, <3>2, <3>3
  <2> QED BY <1>6, <2>2, <2>3, <2>4 DEF WorkerStep
<1>7. CASE UNCHANGED vars
  <2> HIDE DEF Later
  <2> QED BY <1>7, <1>h DEF vars, queueVars
<1> QED BY <1>1, <1>2, <1>3, <1>4, <1>5, <1>6, <1>7 DEF Next


\* What the store does in one step: it changes by Observe only, and an object that enters
\* it was not seen before.
LEMMA StoreMoves ==
  ASSUME TypeInv, [Next]_vars, NEW k \in Keys, store'[k] # store[k]
  PROVE  /\ UNCHANGED <<worker, newest, lock, handled, queueVars>>
         /\ store'[k] # 0 => store[k] < store'[k] /\ (store[k] = 0 => ~Seen(k))
<1>1. ASSUME NEW x \in Keys, Observe(x)
      PROVE  /\ UNCHANGED <<worker, newest, lock, handled, queueVars>>
             /\ store'[k] # 0 => store[k] < store'[k] /\ (store[k] = 0 => ~Seen(k))
  <2>1. store[x] \in Nat /\ version[x] \in Nat /\ store = [y \in Keys |-> store[y]]
    BY DEF TypeInv, TypeOK
  <2>2. k = x
    BY <1>1, <2>1 DEF Observe
  <2>3. ASSUME NEW n \in (store[x] + 1)..version[x], k \notin deleted \/ store[x] # 0,
               store' = [store EXCEPT ![x] = n]
        PROVE  store[k] < store'[k] /\ (store[k] = 0 => ~Seen(k))
    BY <2>1, <2>2, <2>3 DEF Seen
  <2>4. CASE store' = [store EXCEPT ![x] = 0]
    BY <1>1, <2>1, <2>2, <2>4 DEF Observe
  <2> QED BY <1>1, <2>2, <2>3, <2>4 DEF Observe
<1>2. ASSUME NEW x \in Keys, Write(x) \/ Delete(x) \/ Resync(x) PROVE UNCHANGED store
  BY <1>2 DEF Write, Delete, Resync
<1>3. ASSUME NEW w \in Workers, WorkerStep(w) PROVE UNCHANGED store
  BY <1>3, WorkerMoves DEF TypeInv
<1>4. CASE Notify \/ (\E e \in Event : DelayOver(e)) \/ UNCHANGED vars
  BY <1>4 DEF Notify, DelayOver, vars
<1> QED BY <1>1, <1>2, <1>3, <1>4 DEF Next

\* What Fetch records: the version that it gives the handler, which is that of the store
\* if the object is there.
LEMMA FetchMoves ==
  ASSUME TypeOK, NEW w \in Workers, Fetch(w)
  PROVE  LET k == worker[w].event.key
         IN  /\ k \in Keys /\ UNCHANGED store
             /\ \A x \in Keys : x # k => newest'[x] = newest[x]
             /\ store[k] # 0 => worker'[w].object = store[k] /\
                  newest'[k] = (IF store[k] > newest[k] THEN store[k] ELSE newest[k])
<1> DEFINE e == worker[w].event
<1>1. e \in Event /\ e.key \in Keys
  BY WorkerShape DEF Fetch, Event
<1>2. worker'[w].object = Current(e)
  BY DEF Fetch, TypeOK
<1>3. newest' = [newest EXCEPT ![e.key] = IF Current(e) > newest[e.key] THEN Current(e) ELSE newest[e.key]]
  BY DEF Fetch
<1>4. store[e.key] # 0 => Current(e) = store[e.key]
  BY DEF Current
<1> QED BY <1>1, <1>2, <1>3, <1>4 DEF Fetch, workerFrame, TypeOK

\* newest changes by Fetch only, and no other step puts a worker into the handler.
LEMMA NewestMoves ==
  ASSUME TypeInv, [Next]_vars
  PROVE  \/ \E w \in Workers : Fetch(w)
         \/ /\ UNCHANGED newest
            /\ \A w \in Workers : worker'[w].pc = "handle" => worker'[w] = worker[w]
<1>1. ASSUME NEW x \in Keys, Write(x) \/ Delete(x) \/ Observe(x) \/ Resync(x)
      PROVE  UNCHANGED <<newest, worker>>
  BY <1>1 DEF Write, Delete, Observe, Resync, clusterFrame
<1>2. ASSUME NEW w \in Workers, WorkerStep(w), ~Fetch(w)
      PROVE  /\ UNCHANGED newest
             /\ \A x \in Workers : worker'[x].pc = "handle" => worker'[x] = worker[x]
  <2>1. UNCHANGED newest
    BY <1>2 DEF WorkerStep, Get, Lock, Handle, Done
  <2> QED BY <1>2, <2>1, WorkerMoves DEF TypeInv
<1>3. CASE Notify \/ (\E e \in Event : DelayOver(e)) \/ UNCHANGED vars
  BY <1>3 DEF Notify, DelayOver, vars
<1> QED BY <1>1, <1>2, <1>3 DEF Next

\* Handlers are never given less than an earlier one.
LEMMA ForwardNext ==
  ASSUME TypeInv, Holds, ForwardInv, [Next]_vars
  PROVE  NewestBehind' /\ NeverBackwards'
<1>t. TypeOK /\ EventsSeen /\ NewestBehind /\ NeverBackwards
  BY DEF TypeInv, ForwardInv
<1>n. \A k \in Keys : store[k] \in Nat /\ newest[k] \in Nat
  BY <1>t DEF TypeOK
<1>k. \A w \in Workers : worker[w].pc # "idle" => worker[w].event.key \in Keys
  BY <1>t DEF TypeOK, Idle, Waiting, Running, Event
<1>s. \A k \in Keys : Seen(k) => Seen(k)'
  BY SeenStays
<1>1. ASSUME UNCHANGED newest,
             \A w \in Workers : worker'[w].pc = "handle" => worker'[w] = worker[w]
      PROVE  NewestBehind' /\ NeverBackwards'
  <2>n. TypeOK'
    BY TypeNext DEF TypeInv
  <2>1. NewestBehind'
    <3> SUFFICES ASSUME NEW k \in Keys
                 PROVE  /\ newest'[k] # 0 => Seen(k)'
                        /\ store'[k] # 0 => newest'[k] <= store'[k]
      BY DEF NewestBehind
    <3>1. newest'[k] # 0 => Seen(k)'
      BY <1>1, <1>t, <1>s DEF NewestBehind
    <3>2. CASE store'[k] = store[k]
      BY <1>1, <1>t, <3>1, <3>2 DEF NewestBehind
    <3>3. CASE store'[k] # store[k]
      <4>1. store'[k] # 0 => store[k] < store'[k] /\ (store[k] = 0 => ~Seen(k))
        BY <3>3, StoreMoves
      <4>2. store'[k] \in Nat
        BY <2>n DEF TypeOK
      <4> QED BY <1>1, <1>t, <1>n, <3>1, <4>1, <4>2 DEF NewestBehind
    <3> QED BY <3>2, <3>3
  <2>2. NeverBackwards'
    <3> SUFFICES ASSUME NEW w \in Workers, worker'[w].pc = "handle",
                        store'[worker'[w].event.key] # 0
                 PROVE  worker'[w].object = newest'[worker'[w].event.key]
      BY DEF NeverBackwards
    <3> DEFINE k == worker[w].event.key
    <3>1. worker'[w] = worker[w] /\ worker[w].pc = "handle" /\ k \in Keys /\ Seen(k)
      BY <1>1, <1>t, <1>k DEF EventsSeen
    <3>2. store[k] # 0
      BY <3>1, StoreMoves
    <3> QED BY <1>1, <1>t, <3>1, <3>2 DEF NeverBackwards
  <2> QED BY <2>1, <2>2
<1>2. ASSUME NEW w \in Workers, Fetch(w)
      PROVE  NewestBehind' /\ NeverBackwards'
  <2> DEFINE k == worker[w].event.key
  <2>1. /\ worker[w].pc = "fetch" /\ worker'[w].event = worker[w].event
        /\ \A x \in Workers : x # w => worker'[x] = worker[x]
        /\ UNCHANGED deleted
    BY <1>2, <1>t DEF Fetch, TypeOK, workerFrame
  <2>2. /\ k \in Keys /\ UNCHANGED store
        /\ \A x \in Keys : x # k => newest'[x] = newest[x]
        /\ store[k] # 0 => worker'[w].object = store[k] /\
             newest'[k] = (IF store[k] > newest[k] THEN store[k] ELSE newest[k])
    BY <1>2, <1>t, FetchMoves
  <2>3. Seen(k)
    BY <1>t, <2>1 DEF EventsSeen
  <2>4. store[k] # 0 => newest'[k] = store[k]
    BY <1>t, <1>n, <2>2 DEF NewestBehind
  <2>5. NewestBehind'
    BY <1>t, <1>n, <1>s, <2>2, <2>3, <2>4 DEF NewestBehind, Seen
  <2>6. ASSUME NEW x \in Workers, x # w, worker[x].pc = "handle"
        PROVE  worker[x].event.key # k
    BY <2>1, <2>6 DEF Holds, InHandler
  <2>7. NeverBackwards'
    <3> SUFFICES ASSUME NEW x \in Workers, worker'[x].pc = "handle",
                        store'[worker'[x].event.key] # 0
                 PROVE  worker'[x].object = newest'[worker'[x].event.key]
      BY DEF NeverBackwards
    <3>1. CASE x = w
      BY <2>1, <2>2, <2>4, <3>1
    <3>2. CASE x # w
      BY <1>t, <1>k, <2>1, <2>2, <2>6, <3>2 DEF NeverBackwards
    <3> QED BY <3>1, <3>2
  <2> QED BY <2>5, <2>7
<1> QED BY <1>1, <1>2, NewestMoves

\* Events are queued, delayed and retried in any order, the informer skips versions and
\* the store moves on while a handler runs; yet GetByKey under the mutex of the object
\* gives each handler at least what every earlier one was given.
THEOREM HandlersGoForward == Spec => []NeverBackwards
<1>1. TypeInv /\ LockInv /\ ForwardInv /\ [Next]_vars => (TypeInv /\ LockInv /\ ForwardInv)'
  BY TypeNext, HoldsNext, EventsSeenNext, ForwardNext DEF TypeInv, LockInv, ForwardInv
<1>2. ForwardInv => NeverBackwards
  BY DEF ForwardInv
<1> QED
  BY <1>1, <1>2, TypeInit, LockInit, ForwardInit, PTL DEF Spec


-----------------------------------------------------------------------------
(* No version is dropped *)

\* The three places in which an object that is still to be handled can be
Notified(k) == \E i \in 1..Len(notices) : notices[i].key = k
Queued(k) == \E e \in dirty \cup delayed : e.key = k
WithWorker(k, w) ==
  /\ worker[w].pc \in {"lock", "fetch", "handle", "failed"}
  /\ worker[w].event.key = k
  /\ worker[w].pc = "handle" => worker[w].object = store[k]

InWork(k) == Notified(k) \/ Queued(k) \/ \E w \in Workers : WithWorker(k, w)

\* Adding an event to the queue makes its object queued, and takes none out of it.
LEMMA AddQueues ==
  ASSUME NEW e, Add(e), delayed' = delayed \/ delayed' = delayed \ {e}, NEW k
  PROVE  (Queued(k) => Queued(k)') /\ (e.key = k => Queued(k)')
  BY DEF Add, Queued

\* A step of a worker moves an object that is in work on, or brings it back to the queue;
\* only a handler that succeeds on the version of the store ends the work.
LEMMA WorkerKeeps ==
  ASSUME TypeOK, NEW w \in Workers, WorkerStep(w), NEW k \in Keys,
         InWork(k), store[k] # 0
  PROVE  InWork(k)' \/ handled'[k] >= store[k]
<1>m. /\ UNCHANGED <<store, notices>>
      /\ \A x \in Workers : x # w => worker'[x] = worker[x]
  BY WorkerMoves
<1>e. worker[w].pc \in {"lock", "fetch", "handle", "succeeded", "failed"} => worker[w].event \in Event
  BY WorkerShape
<1>1. Notified(k) => Notified(k)'
  BY <1>m DEF Notified
<1>2. ASSUME NEW x \in Workers, x # w, WithWorker(k, x) PROVE WithWorker(k, x)'
  BY <1>m, <1>2 DEF WithWorker
<1>3. CASE Get(w)
  <2>1. /\ dirty' = dirty \ {Head(queue)} /\ UNCHANGED delayed
        /\ worker[w].pc = "idle" /\ worker'[w] = [pc |-> "lock", event |-> Head(queue)]
    BY <1>3 DEF Get, TypeOK, Idle
  <2>2. Queued(k) => Queued(k)' \/ WithWorker(k, w)'
    BY <2>1 DEF Queued, WithWorker
  <2>3. ~WithWorker(k, w)
    BY <2>1 DEF WithWorker
  <2> QED BY <1>1, <1>2, <2>2, <2>3 DEF InWork
<1>4. CASE Lock(w) \/ Fetch(w)
  <2>1. Queued(k) => Queued(k)'
    BY <1>4 DEF Lock, Fetch, queueVars, Queued
  <2>2. WithWorker(k, w) => WithWorker(k, w)'
    <3>1. CASE Lock(w)
      BY <3>1, <1>m, WorkerShape DEF Lock, TypeOK, Waiting, WithWorker
    <3>2. CASE Fetch(w)
      BY <3>2, <1>m DEF Fetch, TypeOK, Current, WithWorker
    <3> QED BY <1>4, <3>1, <3>2
  <2> QED BY <1>1, <1>2, <2>1, <2>2 DEF InWork
<1>5. CASE Handle(w)
  <2>1. Queued(k) => Queued(k)'
    BY <1>5 DEF Handle, queueVars, Queued
  <2>2. worker[w] \in Running /\ worker[w].pc = "handle"
    BY <1>5, WorkerShape DEF Handle
  <2>3. WithWorker(k, w) => WithWorker(k, w)' \/ handled'[k] >= store[k]
    <3>1. CASE worker' = [worker EXCEPT ![w].pc = "failed"]
      BY <3>1, <2>2 DEF TypeOK, Running, WithWorker
    <3>2. CASE handled' = [handled EXCEPT ![worker[w].event.key] =
                             IF worker[w].object > @ THEN worker[w].object ELSE @]
      <4> SUFFICES ASSUME WithWorker(k, w) PROVE handled'[k] >= store[k]
        OBVIOUS
      <4>1. worker[w].event.key = k /\ worker[w].object = store[k]
        BY <2>2 DEF WithWorker
      <4>2. handled[k] \in Nat /\ store[k] \in Nat
        BY DEF TypeOK
      <4>3. handled'[k] = IF store[k] > handled[k] THEN store[k] ELSE handled[k]
        BY <3>2, <4>1 DEF TypeOK
      <4> QED BY <4>2, <4>3
    <3> QED BY <1>5, <3>1, <3>2 DEF Handle
  <2> QED BY <1>1, <1>2, <2>1, <2>3 DEF InWork
<1>6. CASE Done(w)
  <2>1. /\ dirty' = dirty /\ delayed \subseteq delayed'
        /\ worker[w].pc \in {"succeeded", "failed"}
        /\ worker[w].pc = "failed" => worker[w].event \in delayed'
    BY <1>6 DEF Done
  <2>2. Queued(k) => Queued(k)'
    BY <2>1 DEF Queued
  <2>3. WithWorker(k, w) => Queued(k)'
    BY <2>1 DEF WithWorker, Queued
  <2> QED BY <1>1, <1>2, <2>2, <2>3 DEF InWork
<1> QED BY <1>3, <1>4, <1>5, <1>6 DEF WorkerStep

\* Nothing is forgotten from one state to the next.
LEMMA ForgottenNext ==
  ASSUME TypeInv, NothingForgotten, [Next]_vars
  PROVE  NothingForgotten'
<1>t. TypeOK /\ TypeOK'
  BY TypeNext DEF TypeInv
<1>d. /\ NothingForgotten <=> \A k \in Keys : store[k] # 0 /\ handled[k] < store[k] => InWork(k)
      /\ NothingForgotten' <=>
           \A k \in Keys : store'[k] # 0 /\ handled'[k] < store'[k] => InWork(k)'
  BY DEF NothingForgotten, InWork, Notified, Queued, WithWorker
<1> SUFFICES ASSUME NEW k \in Keys, store'[k] # 0, handled'[k] < store'[k]
             PROVE  InWork(k)'
  BY <1>d
<1>n. /\ store[k] \in Nat /\ handled[k] \in Nat /\ store'[k] \in Nat /\ handled'[k] \in Nat
  BY <1>t DEF TypeOK
<1>w. ASSUME UNCHANGED <<store, handled>> PROVE InWork(k)
  BY <1>d, <1>w
<1>1. ASSUME NEW x \in Keys, Write(x) \/ Delete(x) PROVE InWork(k)'
  <2>1. UNCHANGED <<store, handled, notices, queueVars, worker>>
    BY <1>1 DEF Write, Delete, clusterFrame
  <2> QED BY <2>1, <1>w DEF InWork, Notified, Queued, WithWorker, queueVars
<1>2. ASSUME NEW x \in Keys, Observe(x) PROVE InWork(k)'
  <2>2. /\ UNCHANGED <<handled, queueVars, worker>>
        /\ \A y \in Keys : y # x => store'[y] = store[y]
    BY <1>2, <1>t DEF Observe, TypeOK
  <2>3. /\ Len(notices) \in Nat /\ Len(notices') = Len(notices) + 1
        /\ notices'[Len(notices) + 1].key = x
        /\ \A i \in 1..Len(notices) : notices'[i] = notices[i]
    BY <1>2, ObserveNotices
  <2>6. /\ Len(notices) + 1 \in 1..Len(notices')
        /\ \A i \in 1..Len(notices) : i \in 1..Len(notices')
    BY <2>3
  <2>4. CASE k = x
    BY <2>3, <2>4, <2>6 DEF InWork, Notified
  <2>5. CASE k # x
    <3>1. store'[k] = store[k] /\ handled'[k] = handled[k] /\ InWork(k)
      BY <1>d, <2>2, <2>5
    <3>2. Notified(k) => Notified(k)'
      BY <2>3, <2>6 DEF Notified
    <3>3. \A w \in Workers : WithWorker(k, w) => WithWorker(k, w)'
      BY <2>2, <3>1 DEF WithWorker
    <3> QED BY <2>2, <3>1, <3>2, <3>3 DEF InWork, Queued, queueVars
  <2> QED BY <2>4, <2>5
<1>3. ASSUME NEW x \in Keys, Resync(x) PROVE InWork(k)'
  <2>1. UNCHANGED <<store, handled, queueVars, worker>> /\ notices = <<>>
    BY <1>3 DEF Resync
  <2>2. ~Notified(k)
    BY <2>1 DEF Notified
  <2> QED BY <2>1, <2>2, <1>w DEF InWork, Queued, WithWorker, queueVars
<1>4. CASE Notify
  <2>1. UNCHANGED <<store, handled, worker, delayed>> /\ Add(Head(notices)) /\ InWork(k)
    BY <1>4, <1>w DEF Notify
  <2>2. /\ Head(notices) = notices[1]
        /\ \A i \in 1..Len(notices) : i = 1 \/ (i - 1 \in 1..Len(notices') /\ notices'[i - 1] = notices[i])
    BY <1>4, <1>t, Remaining DEF Notify, TypeOK
  <2>3. Notified(k) => Notified(k)' \/ Head(notices).key = k
    BY <2>2 DEF Notified
  <2>4. (Queued(k) => Queued(k)') /\ (Head(notices).key = k => Queued(k)')
    BY <2>1, AddQueues
  <2> QED BY <2>1, <2>3, <2>4 DEF InWork, WithWorker
<1>5. ASSUME NEW e \in Event, DelayOver(e) PROVE InWork(k)'
  <2>1. /\ UNCHANGED <<store, handled, worker, notices>> /\ Add(e) /\ InWork(k)
        /\ delayed' = delayed \ {e}
    BY <1>5, <1>w DEF DelayOver
  <2>2. Queued(k) => Queued(k)'
    BY <2>1, AddQueues
  <2> QED BY <2>1, <2>2 DEF InWork, Notified, WithWorker
<1>6. ASSUME NEW w \in Workers, WorkerStep(w) PROVE InWork(k)'
  <2>1. UNCHANGED store
    BY <1>6, <1>t, WorkerMoves
  <2>2. handled[k] <= handled'[k]
    <3>1. CASE UNCHANGED handled
      BY <3>1, <1>n
    <3>2. CASE Handle(w)
      <4>1. worker[w] \in Running
        BY <1>t, <3>2, WorkerShape DEF Handle
      <4>2. worker[w].object \in Nat
        BY <4>1 DEF Running, Versions
      <4>3. \/ UNCHANGED handled
            \/ handled' = [handled EXCEPT ![worker[w].event.key] =
                             IF worker[w].object > @ THEN worker[w].object ELSE @]
        BY <3>2 DEF Handle
      <4>4. \/ handled'[k] = handled[k]
            \/ handled'[k] = IF worker[w].object > handled[k] THEN worker[w].object ELSE handled[k]
        BY <1>t, <4>3 DEF TypeOK
      <4> QED BY <1>n, <4>2, <4>4
    <3> QED BY <1>6, <3>1, <3>2 DEF WorkerStep, Get, Lock, Fetch, Done
  <2>3. InWork(k)
    BY <1>d, <1>n, <2>1, <2>2
  <2> QED BY <1>6, <1>t, <1>n, <2>1, <2>3, WorkerKeeps
<1>7. CASE UNCHANGED vars
  BY <1>7, <1>w DEF vars, queueVars, InWork, Notified, Queued, WithWorker
<1> QED BY <1>1, <1>2, <1>3, <1>4, <1>5, <1>6, <1>7 DEF Next

\* An object that the store holds in a version no handler has succeeded on is notified,
\* queued, waiting for its retry or with a worker: neither the deduplication of the queue
\* nor a failed handler, nor an event that is processed while the store moves on, loses it.
THEOREM NoVersionDropped == Spec => []NothingForgotten
<1>1. Init => NothingForgotten
  BY DEF Init, NothingForgotten
<1>2. TypeInv /\ NothingForgotten /\ [Next]_vars => (TypeInv /\ NothingForgotten)'
  BY TypeNext, ForgottenNext
<1> QED
  BY <1>1, <1>2, TypeInit, PTL DEF Spec

=============================================================================
