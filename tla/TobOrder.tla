------------------------------ MODULE TobOrder ------------------------------
(***************************************************************************)
(* The part of the inductive invariant of Tob that is about order: a       *)
(* process serves its accept queue first come, first served, and the       *)
(* broadcasts it sends to itself stand there in the order in which it      *)
(* issued them, each ahead of every acknowledgement of it.  TLC checks it  *)
(* as an invariant of the runs tob_safety and tob_faults; TobOrderProofs   *)
(* proves it.                                                              *)
(***************************************************************************)
EXTENDS TobInv

Queued(p) == {backlog[p][i] : i \in 1 .. Len(backlog[p])}

(***************************************************************************)
(* The connections p has not yet handled: the one it reads from and those  *)
(* in its accept queue, and which of two of them p comes to first.         *)
(***************************************************************************)
Pending(p) == Queued(p) \cup (IF pc[p] = "recv" THEN {cur[p]} ELSE {})

Ahead(p, a, b) ==
    \/ pc[p] = "recv" /\ a = cur[p] /\ b \in Queued(p)
    \/ \E i, j \in 1 .. Len(backlog[p]) :
          i < j /\ backlog[p][i] = a /\ backlog[p][j] = b

Own(c, p) == c.op = "BROAD" /\ c.from = p

(***************************************************************************)
(* The accept queue of p has p's own broadcasts in the order of their      *)
(* uids, and no acknowledgement ahead of the broadcast it answers.         *)
(***************************************************************************)
FifoOK(p) ==
    \A a, b \in Pending(p) : Ahead(p, a, b) /\ Own(b, p) =>
        /\ Own(a, p) => a.uid <= b.uid
        /\ a.op = "ACK00" => a.uid # b.uid

(***************************************************************************)
(* A broadcast goes to all processes, and has the latest uid of p.         *)
(***************************************************************************)
LatestOK(p) ==
    Sending(p) /\ out[p].op = "BROAD" =>
        /\ out[p].dests = Proc
        /\ \A b \in opened : Own(b, p) => b.uid <= out[p].uid

(***************************************************************************)
(* A message of p that p has queued is older than those on their way to it.*)
(***************************************************************************)
AheadOK(p) ==
    \A n \in queue[p] : \A b \in Pending(p) :
        n.port = p /\ Own(b, p) => n.uid <= b.uid

(***************************************************************************)
(* p has nothing of its own left that is older than u.                     *)
(***************************************************************************)
Passed(p, u) ==
    /\ \A b \in Pending(p) : Own(b, p) => u <= b.uid
    /\ \A n \in queue[p] : n.port = p => u <= n.uid

(***************************************************************************)
(* When p acknowledges a message of its own, it has passed the older ones. *)
(***************************************************************************)
SelfAckOK(p) ==
    /\ \A a \in opened :
          a.op = "ACK00" /\ a.from = p /\ a.to = p => Passed(p, a.uid)
    /\ Sending(p) /\ out[p].op = "ACK00" /\ p \in out[p].dests =>
          Passed(p, out[p].uid)

(***************************************************************************)
(* When p starts to send READY it has handled every acknowledgement,       *)
(***************************************************************************)
CountOK(p) ==
    /\ \A c \in opened : c.op = "READY" /\ c.from = p => Ackers(p, c.uid) = Proc
    /\ ReadyActive(p, out[p].uid) => Ackers(p, out[p].uid) = Proc

(***************************************************************************)
(* and no later message of p has been written.                             *)
(***************************************************************************)
WriteOK(p) ==
    ReadyActive(p, out[p].uid) =>
        \A i \in 1 .. Len(shared) :
            shared[i] \div LCBound = Pid[p] => shared[i] <= out[p].uid

OrderOK(p) == /\ FifoOK(p)
              /\ LatestOK(p)
              /\ AheadOK(p)
              /\ SelfAckOK(p)
              /\ CountOK(p)
              /\ WriteOK(p)

OrderInv == \A p \in Proc : OrderOK(p)

UpInv == \A p \in Proc : pc[p] # "accept" => p \in up

(***************************************************************************)
(* total_broadcast() connects to every process before it sends to any.     *)
(***************************************************************************)
ReachInv ==
    \A b \in sent : b.op = "BROAD" =>
        \A d \in Proc : BroadConn(b.from, d, b.uid, b.lc) \in opened

(***************************************************************************)
(* Where the copy is that a broadcast made for its own issuer.             *)
(***************************************************************************)
PlaceInv ==
    \A b \in opened : b.op = "BROAD" /\ b.from = b.to =>
        \/ b \in Pending(b.to)
        \/ b \in handled
        \/ b \in closed
        \/ b.to \notin up

(***************************************************************************)
(* What becomes of it once it is handled: it is linked until it is READY,  *)
(* unless the list is lost.                                                *)
(***************************************************************************)
KeptInv ==
    \A b \in handled : b.op = "BROAD" /\ b.from = b.to =>
        \/ \E n \in queue[b.to] : n.uid = b.uid
        \/ tail[b.to] = "off"
        \/ ReadyConn(b.to, b.to, b.uid) \in handled

(***************************************************************************)
(* The order in which a process handles, acknowledges and writes its own   *)
(* messages is the order in which handle_issue() took them.                *)
(***************************************************************************)
OInv == /\ OrderInv
        /\ UpInv
        /\ ReachInv
        /\ PlaceInv
        /\ KeptInv
        /\ WrittenInIssueOrder
=============================================================================
