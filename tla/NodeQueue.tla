----------------------------- MODULE NodeQueue -----------------------------
(***************************************************************************)
(* The message queue of a middleware process as its handlers use it: the   *)
(* set of the nodes linked from head, and the state of tail, "null",       *)
(* "last" (the last linked node) or "off" (not NULL, but no node linked    *)
(* from head).  order_queue() runs after every enqueue(), so the first     *)
(* node of the list is always the least one.  TobNode shows that the list  *)
(* of queue.c is such a queue; Tob uses these operators.                   *)
(***************************************************************************)
EXTENDS Naturals

CONSTANT Pid    \* Pid[p]: the pid that fork() gave to process p

(***************************************************************************)
(* The order of order_queue(): lower clock first, then higher pid.         *)
(***************************************************************************)
Before(m, n) == \/ m.lc < n.lc
                \/ m.lc = n.lc /\ Pid[m.port] > Pid[n.port]

IsHead(n, q) == n \in q /\ \A m \in q : ~ Before(m, n)

(***************************************************************************)
(* enqueue() on a queue whose tail is t.  When tail is not NULL the node   *)
(* is linked behind tail and head is left alone: with tail "off" the node  *)
(* is not reachable from head.                                             *)
(***************************************************************************)
enqueue(q, t, n) == IF t = "off" THEN q ELSE q \cup {n}

enqueue_tail(t) == IF t = "off" THEN "off" ELSE "last"

(***************************************************************************)
(* dequeue() of the first node leaves tail alone: when it was the only     *)
(* node, head becomes NULL and tail keeps the address of the freed node.   *)
(***************************************************************************)
dequeue_tail(q, t, n) == IF q = {n} THEN "off" ELSE t
=============================================================================
