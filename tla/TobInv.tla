------------------------------- MODULE TobInv -------------------------------
(***************************************************************************)
(* The inductive invariant of Tob.  Its conjuncts say where a message, an  *)
(* acknowledgement and a READY come from:                                  *)
(*    a linked node     <- a handled BROAD                                 *)
(*    an acknowledgement <- a handled BROAD, and the node is flagged       *)
(*    a READY, a write   <- an acknowledgement from every process          *)
(* and that no connection is opened, queued or handled twice.  TLC checks  *)
(* it as an invariant of the run tob_faults; TobInvProofs proves it.       *)
(***************************************************************************)
EXTENDS Tob

BroadConn(p, q, u, ts) == [op |-> "BROAD", from |-> p, to |-> q, uid |-> u,
                           lc |-> ts]

AckConn(q, p, u) == [op |-> "ACK00", from |-> q, to |-> p, uid |-> u, lc |-> 0]

ReadyConn(p, q, u) == [op |-> "READY", from |-> p, to |-> q, uid |-> u,
                       lc |-> 0]

(***************************************************************************)
(* u is the uid of the message that p broadcast with timestamp ts.         *)
(***************************************************************************)
IssuedAt(u, p, ts) ==
    /\ ts \in 1 .. LCBound - 1
    /\ u = generate_uid(p, ts - 1)

(***************************************************************************)
(* What is known of a connection that has been established.                *)
(***************************************************************************)
ConnOK(c) ==
    /\ c.op # "NONE"
    /\ c.op = "ISSUE" => client[c.from] # "new"
    /\ c.op = "BROAD" => IssuedAt(c.uid, c.from, c.lc) /\ c.lc <= lc[c.from]
    /\ c.op \in {"ACK00", "READY"} => c.lc = 0

ConnInv == \A c \in opened : ConnOK(c)

SetsInv == handled \subseteq sent /\ sent \subseteq opened

(***************************************************************************)
(* The accept queue of p and the connection p reads from hold different    *)
(* connections, none of which has been handled.                            *)
(***************************************************************************)
InboxOK(p) ==
    /\ \A i \in 1 .. Len(backlog[p]) :
          /\ backlog[p][i] \in opened
          /\ backlog[p][i] \notin handled
          /\ backlog[p][i].to = p
          /\ pc[p] = "recv" => backlog[p][i] # cur[p]
    /\ \A i, j \in 1 .. Len(backlog[p]) :
          backlog[p][i] = backlog[p][j] => i = j
    /\ pc[p] = "recv" => /\ cur[p] \in opened
                         /\ cur[p] \notin handled
                         /\ cur[p].to = p

InboxInv == \A p \in Proc : InboxOK(p)

Sending(p) == pc[p] \in {"connect", "send", "write"}

(***************************************************************************)
(* What p is sending, and how far its loop has come.                       *)
(***************************************************************************)
OutOK(p) ==
    /\ out[p].op \in {"BROAD", "ACK00", "READY"}
    /\ pc[p] = "write" => out[p].op = "READY"
    /\ out[p].op = "BROAD" => /\ IssuedAt(out[p].uid, p, out[p].lc)
                              /\ out[p].lc <= lc[p]
    /\ out[p].op = "ACK00" => /\ out[p].lc = 0
                              /\ \E n \in queue[p] : /\ n.uid = out[p].uid
                                                     /\ n.ack_flg = 1
                                                     /\ out[p].dests = {n.port}
    /\ out[p].op = "READY" => out[p].lc = 0
    /\ todo[p] \subseteq out[p].dests
    /\ pc[p] = "connect" =>
          /\ \A d \in todo[p] : Link(p, d) \notin opened
          /\ \A d \in out[p].dests \ todo[p] : Link(p, d) \in opened
    /\ pc[p] = "send" => \A d \in out[p].dests : Link(p, d) \in opened

OutInv == \A p \in Proc : Sending(p) => OutOK(p)

(***************************************************************************)
(* The processes whose acknowledgement of u has been handled by p.         *)
(***************************************************************************)
Ackers(p, u) == {q \in Proc : AckConn(q, p, u) \in handled}

NodeOK(p, n) ==
    /\ BroadConn(n.port, p, n.uid, n.lc) \in handled
    /\ n.ack_count <= Cardinality(Ackers(p, n.uid))

NodeInv ==
    \A p \in Proc : /\ \A n \in queue[p] : NodeOK(p, n)
                    /\ \A m, n \in queue[p] : m.uid = n.uid => m = n

ClockInv == \A b \in handled : b.op = "BROAD" => b.lc <= lc[b.to]

(***************************************************************************)
(* q has acknowledged u to p: it has handled the BROAD of u from p, and    *)
(* the node of u is flagged, until the READY of u takes it out.            *)
(***************************************************************************)
AckOK(q, p, u) ==
    /\ \E ts \in 1 .. LCBound - 1 : BroadConn(p, q, u, ts) \in handled
    /\ \A n \in queue[q] : n.uid = u => n.ack_flg = 1
    /\ \/ \E n \in queue[q] : n.uid = u
       \/ ReadyConn(p, q, u) \in handled

AckInv == \A a \in opened : a.op = "ACK00" => AckOK(a.from, a.to, a.uid)

(***************************************************************************)
(* Every process has acknowledged u to p, and the counter of the node of u *)
(* at p has passed the point where a further acknowledgement could start a *)
(* READY broadcast.                                                        *)
(***************************************************************************)
AllAcked(p, u) == /\ \A q \in Proc : AckConn(q, p, u) \in opened
                  /\ \A n \in queue[p] : n.uid = u => n.ack_count >= NumProc

ReadyActive(p, u) == Sending(p) /\ out[p].op = "READY" /\ out[p].uid = u

ReadyInv ==
    /\ \A p \in Proc : ReadyActive(p, out[p].uid) => AllAcked(p, out[p].uid)
    /\ \A c \in opened : c.op = "READY" => AllAcked(c.from, c.uid)

WriteInv ==
    \A i \in 1 .. Len(shared) :
        \E p \in Proc : AllAcked(p, shared[i]) /\ ~ ReadyActive(p, shared[i])

(***************************************************************************)
(* The inductive invariant: everything that is linked, sent, counted or    *)
(* written by the handlers of client_handle.c has the history that the     *)
(* protocol gives it, whatever connections fail and processes die.         *)
(***************************************************************************)
IInv == /\ TypeOK
        /\ ConnInv
        /\ SetsInv
        /\ InboxInv
        /\ OutInv
        /\ NodeInv
        /\ ClockInv
        /\ AckInv
        /\ ReadyInv
        /\ WriteInv
        /\ WrittenOnce
=============================================================================
