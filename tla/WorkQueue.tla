------------------------------ MODULE WorkQueue ------------------------------
(***************************************************************************)
(* The thread pools of memcache_lite/server_mt.c: a FIFO queue (the list   *)
(* of threadqueue.c, and its twin in hashmap.c), a mutex and a condition   *)
(* variable.  main() and handle_client() put work in and signal; the       *)
(* threads of the pool take it out, or wait when there is none.            *)
(*                                                                         *)
(* Everything a thread does between locking and unlocking the mutex, or    *)
(* waiting on the condition variable, is one step: nobody else can look at *)
(* the queue in between.                                                   *)
(***************************************************************************)
EXTENDS Naturals, Sequences, FiniteSets

CONSTANTS
    Thread,     \* the threads of the pool (CLIENTPOOL, HASHPOOL)
    MaxItem     \* bound: how many items are ever put in

ASSUME ThreadAssumption == IsFiniteSet(Thread)
ASSUME MaxItemAssumption == MaxItem \in Nat

(***************************************************************************)
(* An item of work is known by its number of arrival; None is the NULL     *)
(* that dequeue() returns from an empty queue.                             *)
(***************************************************************************)
Item == 1 .. MaxItem

None == 0

VARIABLES
    queue,      \* the items linked from head to tail
    phase,      \* phase[t]: "ready" (on its way to lock the mutex), "wait"
                \*   (in pthread_cond_wait), "woken" (on its way back from
                \*   it) or "busy" (in the handler)
    item,       \* item[t]: what dequeue() gave to thread t
    started     \* history: the items handlers were called for, in order

vars == <<queue, phase, item, started>>

In(ph) == {t \in Thread : phase[t] = ph}

Init ==
    /\ queue = <<>>
    /\ phase = [t \in Thread |-> "ready"]
    /\ item = [t \in Thread |-> None]
    /\ started = <<>>

(***************************************************************************)
(* pthread_cond_signal() wakes at least one of the waiting threads.        *)
(***************************************************************************)
Signal ==
    IF In("wait") = {}
    THEN phase' = phase
    ELSE \E W \in SUBSET In("wait") :
            /\ W # {}
            /\ phase' = [t \in Thread |-> IF t \in W THEN "woken" ELSE phase[t]]

(***************************************************************************)
(* enqueue() at the tail, and the signal, under the mutex.  Faulty         *)
(* variants: a signal only for an empty queue; none at all; the item       *)
(* linked in at the head.                                                  *)
(***************************************************************************)
Put_SignalIfEmpty(i) ==
    /\ queue' = Append(queue, i)
    /\ IF queue = <<>> THEN Signal ELSE phase' = phase
    /\ UNCHANGED <<item, started>>

Put_NoSignal(i) ==
    /\ queue' = Append(queue, i)
    /\ UNCHANGED <<phase, item, started>>

Put_Front(i) ==
    /\ queue' = <<i>> \o queue
    /\ Signal
    /\ UNCHANGED <<item, started>>

Put(i) ==
    /\ queue' = Append(queue, i)
    /\ Signal
    /\ UNCHANGED <<item, started>>

(***************************************************************************)
(* dequeue() gave thread t an item, and t goes on to call the handler.     *)
(***************************************************************************)
Dequeue(t) ==
    /\ queue # <<>>
    /\ queue' = Tail(queue)
    /\ phase' = [phase EXCEPT ![t] = "busy"]
    /\ item' = [item EXCEPT ![t] = Head(queue)]
    /\ started' = Append(started, Head(queue))

(***************************************************************************)
(* The first look at the queue: take the item, or wait.                    *)
(***************************************************************************)
Fetch(t) ==
    /\ phase[t] = "ready"
    /\ \/ Dequeue(t)
       \/ /\ queue = <<>>
          /\ phase' = [phase EXCEPT ![t] = "wait"]
          /\ UNCHANGED <<queue, item, started>>

(***************************************************************************)
(* Back from pthread_cond_wait(): one more dequeue(), and if another thread*)
(* was faster, round the loop again without calling the handler.  Faulty   *)
(* variant: the handler is called with what dequeue() returned, NULL or    *)
(* not.                                                                    *)
(***************************************************************************)
Resume_NoCheck(t) ==
    /\ phase[t] = "woken"
    /\ \/ Dequeue(t)
       \/ /\ queue = <<>>
          /\ phase' = [phase EXCEPT ![t] = "busy"]
          /\ started' = Append(started, None)
          /\ UNCHANGED <<queue, item>>

Resume(t) ==
    /\ phase[t] = "woken"
    /\ \/ Dequeue(t)
       \/ /\ queue = <<>>
          /\ phase' = [phase EXCEPT ![t] = "ready"]
          /\ UNCHANGED <<queue, item, started>>

(***************************************************************************)
(* POSIX lets pthread_cond_wait() return although nobody signalled.        *)
(***************************************************************************)
SpuriousWakeup(t) ==
    /\ phase[t] = "wait"
    /\ phase' = [phase EXCEPT ![t] = "woken"]
    /\ UNCHANGED <<queue, item, started>>

(***************************************************************************)
(* The handler returns.                                                    *)
(***************************************************************************)
Finish(t) ==
    /\ phase[t] = "busy"
    /\ phase' = [phase EXCEPT ![t] = "ready"]
    /\ item' = [item EXCEPT ![t] = None]
    /\ UNCHANGED <<queue, started>>

Step(t) == Fetch(t) \/ Resume(t) \/ Finish(t)

Arrive == \E i \in Item : i = Len(started) + Len(queue) + 1 /\ Put(i)

Next ==
    \/ Arrive
    \/ \E t \in Thread : Step(t)
    \/ \E t \in Thread : SpuriousWakeup(t)

Spec == Init /\ [][Next]_vars

(***************************************************************************)
(* Some thread that wants the mutex gets it, although the mutex may be     *)
(* unfair to any one of them.  Handlers run without it, and return.        *)
(***************************************************************************)
FairSpec ==
    /\ Spec
    /\ WF_vars(\E t \in Thread : Fetch(t) \/ Resume(t))
    /\ \A t \in Thread : WF_vars(Finish(t))
-----------------------------------------------------------------------------
(***************************************************************************)
(* The types of the variables: in particular handlers are only ever called *)
(* for items that were put in.                                             *)
(***************************************************************************)
TypeOK ==
    /\ queue \in Seq(Item)
    /\ phase \in [Thread -> {"ready", "wait", "woken", "busy"}]
    /\ item \in [Thread -> Item \cup {None}]
    /\ started \in Seq(Item)

Awake == In("ready") \cup In("woken")

(***************************************************************************)
(* No wakeup is lost, although the wait is guarded by an if and not by a   *)
(* loop: while some thread of the pool still sleeps, every queued item has *)
(* a thread of its own that is awake and on its way to the queue.          *)
(***************************************************************************)
NoLostWakeup == In("wait") # {} => Len(queue) <= Cardinality(Awake)

(***************************************************************************)
(* Work is started in the order of its arrival, and none is skipped or     *)
(* started twice, whichever threads race for it.                           *)
(***************************************************************************)
StartedInOrder == \A k \in 1 .. Len(started) : started[k] = k

(***************************************************************************)
(* A handler is never called with NULL, and no two threads have the same   *)
(* item in hand.                                                           *)
(***************************************************************************)
ExclusiveItem ==
    /\ \A t \in In("busy") : item[t] # None
    /\ \A t, u \in In("busy") : item[t] = item[u] => t = u

(***************************************************************************)
(* Every item put in is started in the end.                                *)
(***************************************************************************)
AllStarted == \A i \in Item :
    (\E k \in 1 .. Len(queue) : queue[k] = i) ~>
        (\E k \in 1 .. Len(started) : started[k] = i)

(***************************************************************************)
(* The pool with its mutex and condition variable implements WorkPool: a   *)
(* thread that is not in the handler has nothing in hand, and that some    *)
(* threads sleep never keeps an item waiting.                              *)
(***************************************************************************)
Pool == INSTANCE WorkPool

ImplementsPool == Pool!FairSpec
=============================================================================
