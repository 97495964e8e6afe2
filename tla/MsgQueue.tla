------------------------------ MODULE MsgQueue ------------------------------
(***************************************************************************)
(* What a middleware process promises about its message queue: the first   *)
(* node in the order of the issuers' clocks is the one acknowledged, each  *)
(* node at most once, acknowledgements are counted on a linked node, and   *)
(* only acknowledged nodes leave.  The queue that has been emptied takes   *)
(* no node any more ("off").                                               *)
(***************************************************************************)
EXTENDS NodeQueue

VARIABLES
    offered,  \* the nodes of the messages broadcast so far
    nodes,    \* the nodes of the queue
    tl        \* the state of tail, as in NodeQueue

vars == <<offered, nodes, tl>>

Init ==
    /\ nodes = {}
    /\ tl = "null"

(***************************************************************************)
(* The queue q once its first node has been acknowledged.                  *)
(***************************************************************************)
Acked(q, n) == (q \ {n}) \cup {[n EXCEPT !.ack_flg = 1]}

(***************************************************************************)
(* A message of q is due for its acknowledgement, or none is.              *)
(***************************************************************************)
AckFirst(q) ==
    \/ \E n \in q :
          /\ IsHead(n, q)
          /\ n.ack_flg = 0
          /\ nodes' = Acked(q, n)
    \/ /\ \A n \in q : IsHead(n, q) => n.ack_flg = 1
       /\ nodes' = q

Receive ==
    /\ \E n \in offered : AckFirst(enqueue(nodes, tl, n))
    /\ tl' = enqueue_tail(tl)
    /\ UNCHANGED offered

Count ==
    /\ \E n \in nodes :
          nodes' = (nodes \ {n}) \cup {[n EXCEPT !.ack_count = @ + 1]}
    /\ UNCHANGED <<offered, tl>>

Remove ==
    /\ \E n \in nodes :
          /\ n.ack_flg = 1
          /\ nodes' = nodes \ {n}
          /\ tl' = dequeue_tail(nodes, tl, n)
    /\ UNCHANGED offered

(***************************************************************************)
(* Other processes go on broadcasting.                                     *)
(***************************************************************************)
Offer ==
    /\ offered \subseteq offered'
    /\ UNCHANGED <<nodes, tl>>

Next == Receive \/ Count \/ Remove \/ Offer

Spec == Init /\ [][Next]_vars
=============================================================================
