------------------------------ MODULE WorkPool ------------------------------
(***************************************************************************)
(* What the thread pools of memcache_lite/server_mt.c promise to the rest  *)
(* of the server: work comes out in the order in which it went in, each    *)
(* item to one thread, and none stays behind while a thread is free.  How  *)
(* the threads sleep and are woken is left to WorkQueue, which implements  *)
(* this module.                                                            *)
(***************************************************************************)
EXTENDS Naturals, Sequences

CONSTANTS Thread, Item, None

VARIABLES
    queue,      \* the work nobody has taken
    item        \* item[t]: what thread t works on, or None

Init == queue = <<>> /\ item = [t \in Thread |-> None]

Put(i) == queue' = Append(queue, i) /\ item' = item

Take(t) ==
    /\ item[t] = None
    /\ queue # <<>>
    /\ queue' = Tail(queue)
    /\ item' = [item EXCEPT ![t] = Head(queue)]

Finish(t) ==
    /\ item[t] # None
    /\ item' = [item EXCEPT ![t] = None]
    /\ queue' = queue

Next ==
    \/ \E i \in Item : Put(i)
    \/ \E t \in Thread : Take(t) \/ Finish(t)

Spec == Init /\ [][Next]_<<queue, item>>

FairSpec ==
    /\ Spec
    /\ WF_<<queue, item>>(\E t \in Thread : Take(t))
    /\ \A t \in Thread : WF_<<queue, item>>(Finish(t))
=============================================================================
