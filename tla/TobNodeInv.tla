----------------------------- MODULE TobNodeInv -----------------------------
(***************************************************************************)
(* The inductive invariant of TobNode: there is a sequence of addresses    *)
(* that the walk from head comes to, and enqueue(), order_queue() and      *)
(* dequeue() add to it, permute it and take out of it, while the marks of  *)
(* the nodes follow the messages the process exchanges.  TLC checks it as  *)
(* an invariant of the run tob_node; TobNodeProofs proves it.              *)
(***************************************************************************)
EXTENDS TobNode

(***************************************************************************)
(* The sequences of different addresses.                                   *)
(***************************************************************************)
Lists == {s \in UNION {[1 .. n -> Addr] : n \in 0 .. Size} :
             \A i, j \in DOMAIN s : s[i] = s[j] => i = j}

At(s, i) == IF i \in 1 .. Len(s) THEN s[i] ELSE NULL

(***************************************************************************)
(* The walk from a comes to the addresses s, and ends.                     *)
(***************************************************************************)
IsPath(heap, a, s) ==
    /\ a = At(s, 1)
    /\ \A i \in 1 .. Len(s) : heap[s[i]].next = At(s, i + 1)

InOrder(heap, s) ==
    \A i, j \in 1 .. Len(s) : i < j => Stays(heap[s[i]], heap[s[j]])

(***************************************************************************)
(* The list has the nodes s, sorted and allocated, and tail is the last.   *)
(***************************************************************************)
IsList(L, s) ==
    /\ IsPath(L.heap, L.head, s)
    /\ InOrder(L.heap, s)
    /\ \A i \in 1 .. Len(s) : s[i] \in L.live
    /\ s # <<>> => L.tail = s[Len(s)]

ListInv == \E s \in Lists : IsList(list, s)

(***************************************************************************)
(* The node n has these fields of the frame.                               *)
(***************************************************************************)
Matches(n, frame, fields) ==
    /\ "uid" \in fields => n.uid = frame.uid
    /\ "pid" \in fields => n.pid = frame.pid
    /\ "port" \in fields => n.port = frame.port
    /\ "lc" \in fields => n.lc = frame.lc

(***************************************************************************)
(* A frame is on its way or has been handled, and each node comes from one.*)
(***************************************************************************)
FrameInv ==
    /\ wire \cup arrived =
          {[msg |-> m, frame |-> encode_broadcast_buffer(m)] : m \in Issued}
    /\ wire \cap arrived = {}
    /\ \A a \in Linked(list) :
          /\ origin[a].of \in arrived
          /\ Matches(list.heap[a], origin[a].of.frame, origin[a].kept)
          /\ Whole => origin[a].kept = DOMAIN FieldAt

(***************************************************************************)
(* The messages issued have different uids.                                *)
(***************************************************************************)
DistinctUids ==
    \A m, n \in Issued :
        generate_uid(m.pid, m.lc) = generate_uid(n.pid, n.lc) => m = n

(***************************************************************************)
(* No two messages have the same place in the order of order_queue().      *)
(***************************************************************************)
Untied ==
    \A m, n \in Issued :
        m.pid = n.pid /\ ClockField(m.lc + 1) = ClockField(n.lc + 1) => m = n

(***************************************************************************)
(* The pids of the processes are different, and fit in 20 bits.            *)
(***************************************************************************)
PidsDiffer ==
    /\ \A p, q \in 0 .. NumProc - 1 : Pid[p] = Pid[q] => p = q
    /\ \A m \in Issued : m.pid < 2^20

(***************************************************************************)
(* A message has one node at most, marked when it is acknowledged, until   *)
(* its READY is handled; READY comes after the acknowledgement, and none   *)
(* is counted before the message is there.                                 *)
(***************************************************************************)
AckInv ==
    /\ \A a, b \in Linked(list) : list.heap[a].uid = list.heap[b].uid => a = b
    /\ \A a \in Linked(list) : /\ list.heap[a].ack_flg = 1 <=>
                                     AckOf(list.heap[a]) \in acked
                               /\ origin[a].of \notin done
    /\ acked \subseteq {AckOf(k.frame) : k \in arrived}
    /\ \A k \in readied : AckOf(k.frame) \in acked
    /\ \A k \in wire : heard[k.msg] = 0
    /\ AckedIsFound
    /\ AcksCountOwn

(***************************************************************************)
(* The inductive invariant: the list of queue.c has its nodes in a row,    *)
(* each made from a frame, and, if no two messages share a uid and no      *)
(* frame has been garbled, one for every message that is acknowledged and  *)
(* not yet READY, with the count of its acknowledgements.                  *)
(***************************************************************************)
NInv == /\ TypeOK
        /\ ListInv
        /\ FrameInv
        /\ DistinctUids /\ Whole => AckInv
=============================================================================
