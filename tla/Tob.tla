-------------------------------- MODULE Tob --------------------------------
(***************************************************************************)
(* The totally ordered broadcast middleware of TOB/: NumProc single        *)
(* threaded processes forked by main(), each serving one TCP connection at *)
(* a time from the accept queue of its listening socket (server.c), with   *)
(* the ISSUE / BROAD / ACK00 / READY handlers of client_handle.c, and the  *)
(* one-shot clients of client_app.c.                                       *)
(*                                                                         *)
(* A handler is split where another process can observe it: every          *)
(* connect() and every send() of its loops is a step of its own, and so is *)
(* the write to the shared file.  Everything between two such calls is     *)
(* local to the process and belongs to the step before it.                 *)
(*                                                                         *)
(* The message queue of a process is kept as NodeQueue has it: the set of  *)
(* the nodes linked from head, and what is left to know about tail.        *)
(***************************************************************************)
EXTENDS NodeQueue, Sequences, FiniteSets

CONSTANTS
    NumProc,    \* number of middleware processes (NUMPROC, argv[1])
    Client,     \* the client_app processes, each issuing one message
    Short,      \* the clients whose message has at most four characters
    Late,       \* the processes that do not listen yet when clients start
    BACKLOG,    \* the backlog given to listen()
    MaxCrash    \* bound: how many processes may be killed in a run

Proc == 0 .. NumProc - 1

(***************************************************************************)
(* A pid below 2^20 survives generate_uid()'s shift by 12 in 32 bits.      *)
(***************************************************************************)
MaxPid == 1048575

ASSUME NumProcAssumption == NumProc \in Nat \ {0}
ASSUME PidAssumption ==
    /\ Pid \in [Proc -> Nat \ {0}]
    /\ \A p \in Proc : Pid[p] <= MaxPid
    /\ \A p, q \in Proc : Pid[p] = Pid[q] => p = q
ASSUME BacklogAssumption == BACKLOG \in Nat
ASSUME CrashAssumption == MaxCrash \in Nat
ASSUME ClientAssumption == Client \cap Proc = {} /\ Short \subseteq Client
ASSUME LateAssumption == Late \subseteq Proc

VARIABLES
    lc,       \* lc[p]: Lamport clock of process p
    queue,    \* queue[p]: the nodes linked from head
    tail,     \* tail[p]: "null", "last" (the last linked node), or "off":
              \*   not NULL, but no node linked from head
    backlog,  \* backlog[p]: established connections not yet accepted
    pc,       \* pc[p]: the call the thread of p is in
    cur,      \* cur[p]: the connection p is serving
    out,      \* out[p]: the message p is sending from within a handler
    todo,     \* todo[p]: the processes the current loop has still to reach
    sent,     \* connections on which the message has been sent
    closed,   \* connections closed by a broadcast that was given up
    shared,   \* the shared file: uids of the written messages, in order
    short,    \* the uids of the messages of at most four characters
    client,   \* client[c]: what client c has seen so far
    up,       \* the processes that have not been killed
    opened,   \* history: every connection ever established
    handled   \* history: every connection whose message was handled

vars == <<lc, queue, tail, backlog, pc, cur, out, todo, sent, closed, shared,
          short, client, up, opened, handled>>

(***************************************************************************)
(* Below LCBound, lc fits in the 12 bits generate_uid() leaves for it and  *)
(* in the four digits of the BROAD frame, and the uid is pid * 2^12 + lc.  *)
(* Faulty variant: only two bits of the clock kept.                        *)
(***************************************************************************)
LCBound == 4096

generate_uid_Narrow(p, c) == Pid[p] * LCBound + (c % 4)

generate_uid(p, c) == Pid[p] * LCBound + c

(***************************************************************************)
(* The timestamp broadcast with a uid: handle_issue() takes the uid from   *)
(* the clock, total_broadcast() increments the clock once more.            *)
(***************************************************************************)
Timestamp(uid) == (uid % LCBound) + 1

(***************************************************************************)
(* The messages processes send to each other; "NONE" stands for no message.*)
(***************************************************************************)
PeerOp == {"BROAD", "ACK00", "READY", "NONE"}

(***************************************************************************)
(* A connection, with the one message its opener sends on it.              *)
(***************************************************************************)
Conn == [op : {"ISSUE"}, from : Client, to : Proc, uid : {0}, lc : {0}]
        \cup [op : PeerOp, from : Proc, to : Proc, uid : Nat, lc : Nat]

NoConn == [op |-> "NONE", from |-> 0, to |-> 0, uid |-> 0, lc |-> 0]

Out == [op : PeerOp, uid : Nat, lc : Nat, dests : SUBSET Proc]

NoOut == [op |-> "NONE", uid |-> 0, lc |-> 0, dests |-> {}]

Node == [uid : Nat, port : Proc, lc : Nat, ack_flg : {0, 1}, ack_count : Nat]

(***************************************************************************)
(* The node of a received BROAD.  Faulty variant: the counter starts one   *)
(* too low.                                                                *)
(***************************************************************************)
create_node_Short(c) == [uid |-> c.uid, port |-> c.from, lc |-> c.lc,
                         ack_flg |-> 0, ack_count |-> 0 - 1]

create_node(c) == [uid |-> c.uid, port |-> c.from, lc |-> c.lc,
                   ack_flg |-> 0, ack_count |-> 0]

-----------------------------------------------------------------------------
Init ==
    /\ lc = [p \in Proc |-> 0]
    /\ queue = [p \in Proc |-> {}]
    /\ tail = [p \in Proc |-> "null"]
    /\ backlog = [p \in Proc |-> <<>>]
    /\ pc = [p \in Proc |-> IF p \in Late THEN "start" ELSE "accept"]
    /\ cur = [p \in Proc |-> NoConn]
    /\ out = [p \in Proc |-> NoOut]
    /\ todo = [p \in Proc |-> {}]
    /\ sent = {}
    /\ closed = {}
    /\ shared = <<>>
    /\ short = {}
    /\ client = [c \in Client |-> "new"]
    /\ up = Proc
    /\ opened = {}
    /\ handled = {}

(***************************************************************************)
(* The kernel completes a connect() to a socket that listens while its     *)
(* accept queue has room.  With a full queue the caller blocks, and in the *)
(* end gets ETIMEDOUT; without a listening socket it is refused.           *)
(***************************************************************************)
Reachable(d) == d \in up /\ pc[d] # "start" /\ Len(backlog[d]) <= BACKLOG

(***************************************************************************)
(* The end of handle_client(): "ACK\r\n" goes back on the connection, which*)
(* only a client reads, and sock_serve() returns to accept().              *)
(***************************************************************************)
Return(p) ==
    /\ pc' = [pc EXCEPT ![p] = "accept"]
    /\ cur' = [cur EXCEPT ![p] = NoConn]
    /\ out' = [out EXCEPT ![p] = NoOut]
    /\ todo' = [todo EXCEPT ![p] = {}]
    /\ client' = IF cur[p].op = "ISSUE"
                 THEN [client EXCEPT ![cur[p].from] = "acked"] ELSE client

(***************************************************************************)
(* A handler of p starts to send a message to every process of dests.      *)
(***************************************************************************)
StartOut(p, op, uid, ts, dests) ==
    /\ pc' = [pc EXCEPT ![p] = "connect"]
    /\ out' = [out EXCEPT ![p] = [op |-> op, uid |-> uid, lc |-> ts,
                                  dests |-> dests]]
    /\ todo' = [todo EXCEPT ![p] = dests]
    /\ UNCHANGED <<cur, client>>

(***************************************************************************)
(* The connection on which p sends its current message to d.               *)
(***************************************************************************)
Link(p, d) == [op |-> out[p].op, from |-> p, to |-> d,
               uid |-> out[p].uid, lc |-> out[p].lc]

(***************************************************************************)
(* The loops over the processes go by increasing port number.              *)
(***************************************************************************)
NextDest(p, d) == d \in todo[p] /\ \A e \in todo[p] : d <= e

-----------------------------------------------------------------------------
(* client_app.c *)

IssueConn(c, p) == [op |-> "ISSUE", from |-> c, to |-> p, uid |-> 0, lc |-> 0]

(***************************************************************************)
(* Client c picks the port of p, connects and sends its message.           *)
(***************************************************************************)
ClientIssue(c, p) ==
    /\ client[c] = "new"
    /\ Reachable(p)
    /\ client' = [client EXCEPT ![c] = "sent"]
    /\ backlog' = [backlog EXCEPT ![p] = Append(@, IssueConn(c, p))]
    /\ opened' = opened \cup {IssueConn(c, p)}
    /\ sent' = sent \cup {IssueConn(c, p)}
    /\ UNCHANGED <<lc, queue, tail, pc, cur, out, todo, closed, shared, short,
                   up, handled>>

(***************************************************************************)
(* connect() fails and the client exits.                                   *)
(***************************************************************************)
ClientRefused(c, p) ==
    /\ client[c] = "new"
    /\ ~ Reachable(p)
    /\ client' = [client EXCEPT ![c] = "failed"]
    /\ UNCHANGED <<lc, queue, tail, backlog, pc, cur, out, todo, sent, closed,
                   shared, short, up, opened, handled>>

-----------------------------------------------------------------------------
(* server.c *)

(***************************************************************************)
(* A process that main() has forked binds its port and listens.  The ports *)
(* file was written before, so clients and other processes may be earlier. *)
(***************************************************************************)
Listen(p) ==
    /\ p \in up
    /\ pc[p] = "start"
    /\ pc' = [pc EXCEPT ![p] = "accept"]
    /\ UNCHANGED <<lc, queue, tail, backlog, cur, out, todo, sent, closed,
                   shared, short, client, up, opened, handled>>

Accept(p) ==
    /\ p \in up
    /\ pc[p] = "accept"
    /\ backlog[p] # <<>>
    /\ cur' = [cur EXCEPT ![p] = Head(backlog[p])]
    /\ backlog' = [backlog EXCEPT ![p] = Tail(@)]
    /\ pc' = [pc EXCEPT ![p] = "recv"]
    /\ UNCHANGED <<lc, queue, tail, out, todo, sent, closed, shared, short,
                   client, up, opened, handled>>

(***************************************************************************)
(* A frame is header (7 bytes), metadata (38), message and "\r\n", and      *)
(* total_broadcast() sends 40 bytes and the message of it.  The message is *)
(* one longer than what the client gave (a null byte), so up to a length   *)
(* of four nothing is left of it behind the metadata, and the receiver     *)
(* waits in recv() until the issuer, which never closes a connection it    *)
(* has broadcast on, is gone.                                              *)
(***************************************************************************)
Complete(c) ==
    c.op = "BROAD" /\ c.uid \in short => c.from \notin up \/ c \in closed

(***************************************************************************)
(* handle_client() blocks in recv() until the peer has sent its message,   *)
(* then dispatches on the header.                                          *)
(***************************************************************************)
Receives(p, op) ==
    /\ p \in up
    /\ pc[p] = "recv"
    /\ cur[p].op = op
    /\ cur[p] \in sent
    /\ Complete(cur[p])
    /\ handled' = handled \cup {cur[p]}
    /\ UNCHANGED <<backlog, sent, closed, shared, up, opened>>

(***************************************************************************)
(* The peer closed the connection, or died, and sent nothing: recv()       *)
(* returns no byte and no header matches.                                  *)
(***************************************************************************)
RecvEof(p) ==
    /\ p \in up
    /\ pc[p] = "recv"
    /\ cur[p] \notin sent
    /\ cur[p] \in closed \/ cur[p].from \notin up
    /\ Return(p)
    /\ UNCHANGED <<lc, queue, tail, backlog, sent, closed, shared, short, up,
                   opened, handled>>

-----------------------------------------------------------------------------
(* client_handle.c *)

(***************************************************************************)
(* The length of the message p takes from its client: recv_buffer() reads  *)
(* as many characters as the client announced, and a null byte is added.   *)
(***************************************************************************)
NoteLength(p) ==
    short' = IF cur[p].from \in Short
             THEN short \cup {generate_uid(p, lc[p] + 1)} ELSE short

(***************************************************************************)
(* An issued message takes one tick for its uid and one for the broadcast. *)
(* Faulty variants: the issuer does not send to itself; the broadcast does *)
(* not tick.                                                               *)
(***************************************************************************)
handle_issue_NotToSelf(p) ==
    /\ Receives(p, "ISSUE")
    /\ lc[p] + 2 < LCBound
    /\ lc' = [lc EXCEPT ![p] = @ + 2]
    /\ StartOut(p, "BROAD", generate_uid(p, lc[p] + 1), lc[p] + 2, Proc \ {p})
    /\ NoteLength(p)
    /\ UNCHANGED <<queue, tail>>

handle_issue_OneTick(p) ==
    /\ Receives(p, "ISSUE")
    /\ lc[p] + 2 < LCBound
    /\ lc' = [lc EXCEPT ![p] = @ + 1]
    /\ StartOut(p, "BROAD", generate_uid(p, lc[p] + 1), lc[p] + 1, Proc)
    /\ NoteLength(p)
    /\ UNCHANGED <<queue, tail>>

handle_issue(p) ==
    /\ Receives(p, "ISSUE")
    /\ lc[p] + 2 < LCBound
    /\ lc' = [lc EXCEPT ![p] = @ + 2]
    /\ StartOut(p, "BROAD", generate_uid(p, lc[p] + 1), lc[p] + 2, Proc)
    /\ NoteLength(p)
    /\ UNCHANGED <<queue, tail>>

(***************************************************************************)
(* The clock after a BROAD stamped ts reached a process whose clock was c. *)
(* Faulty variant: the timestamp is ignored.                               *)
(***************************************************************************)
AdjustLC_NoMax(c, ts) == c + 1

AdjustLC(c, ts) == IF ts > c + 1 THEN ts ELSE c + 1

(***************************************************************************)
(* check_and_ack_head() on the queue q of p: the first node is            *)
(* acknowledged to the process that issued it, once.                       *)
(***************************************************************************)
check_and_ack_head(p, q) ==
    \/ \E n \in q :
          /\ IsHead(n, q)
          /\ n.ack_flg = 0
          /\ queue' = [queue EXCEPT
                          ![p] = (q \ {n}) \cup {[n EXCEPT !.ack_flg = 1]}]
          /\ StartOut(p, "ACK00", n.uid, 0, {n.port})
    \/ /\ \A n \in q : IsHead(n, q) => n.ack_flg = 1
       /\ queue' = [queue EXCEPT ![p] = q]
       /\ Return(p)

handle_broadcast(p) ==
    /\ Receives(p, "BROAD")
    /\ lc' = [lc EXCEPT ![p] = AdjustLC(@, cur[p].lc)]
    /\ tail' = [tail EXCEPT ![p] = enqueue_tail(@)]
    /\ check_and_ack_head(p, enqueue(queue[p], tail[p], create_node(cur[p])))
    /\ short' = short

(***************************************************************************)
(* The NumProc-th acknowledgement starts broadcast_ready_message().  Faulty*)
(* variants: one acknowledgement too early; again on every later one; one  *)
(* too late.                                                               *)
(***************************************************************************)
AllAcksIn_Early(count) == count = NumProc - 1

AllAcksIn_Again(count) == count >= NumProc - 1

AllAcksIn_Late(count) == count > NumProc

AllAcksIn(count) == count = NumProc

handle_ack(p) ==
    /\ Receives(p, "ACK00")
    /\ \/ \E n \in queue[p] :
             /\ n.uid = cur[p].uid
             /\ queue' = [queue EXCEPT
                             ![p] = (@ \ {n}) \cup {[n EXCEPT !.ack_count = @ + 1]}]
             /\ IF AllAcksIn(n.ack_count + 1)
                THEN /\ lc' = [lc EXCEPT ![p] = @ + 1]
                     /\ StartOut(p, "READY", n.uid, 0, Proc)
                ELSE /\ Return(p)
                     /\ lc' = lc
       \/ /\ \A n \in queue[p] : n.uid # cur[p].uid
          /\ Return(p)
          /\ UNCHANGED <<lc, queue>>
    /\ UNCHANGED <<tail, short>>

handle_ready(p) ==
    /\ Receives(p, "READY")
    /\ \/ \E n \in queue[p] :
             /\ n.uid = cur[p].uid
             /\ queue' = [queue EXCEPT ![p] = @ \ {n}]
             /\ tail' = [tail EXCEPT ![p] = dequeue_tail(queue[p], @, n)]
       \/ /\ \A n \in queue[p] : n.uid # cur[p].uid
          /\ UNCHANGED <<queue, tail>>
    /\ Return(p)
    /\ UNCHANGED <<lc, short>>

-----------------------------------------------------------------------------
(***************************************************************************)
(* total_broadcast(), send_p2p_ack() and broadcast_ready_message(): first  *)
(* a connection to every destination, then the message on each of them.    *)
(***************************************************************************)
Connect(p) ==
    \E d \in todo[p] :
        /\ p \in up
        /\ pc[p] = "connect"
        /\ NextDest(p, d)
        /\ Reachable(d)
        /\ backlog' = [backlog EXCEPT ![d] = Append(@, Link(p, d))]
        /\ opened' = opened \cup {Link(p, d)}
        /\ IF todo[p] = {d}
           THEN /\ pc' = [pc EXCEPT ![p] = "send"]
                /\ todo' = [todo EXCEPT ![p] = out[p].dests]
           ELSE /\ pc' = pc
                /\ todo' = [todo EXCEPT ![p] = @ \ {d}]
        /\ UNCHANGED <<lc, queue, tail, cur, out, sent, closed, shared, short,
                       client, up, handled>>

(***************************************************************************)
(* After a READY broadcast, however it ended, handle_ack() goes on to      *)
(* write_shared(); the other handlers end with their loop.                 *)
(***************************************************************************)
EndLoop(p) ==
    IF out[p].op = "READY"
    THEN /\ pc' = [pc EXCEPT ![p] = "write"]
         /\ todo' = [todo EXCEPT ![p] = {}]
         /\ UNCHANGED <<cur, out, client>>
    ELSE Return(p)

(***************************************************************************)
(* connect() fails: the loop is left, and the connections it has made are  *)
(* neither used nor closed.  Faulty variant: it is tried again.            *)
(***************************************************************************)
ConnectFail_Retry(p) ==
    \E d \in todo[p] :
        /\ p \in up
        /\ pc[p] = "connect"
        /\ NextDest(p, d)
        /\ ~ Reachable(d)
        /\ UNCHANGED vars

ConnectFail(p) ==
    \E d \in todo[p] :
        /\ p \in up
        /\ pc[p] = "connect"
        /\ NextDest(p, d)
        /\ ~ Reachable(d)
        /\ EndLoop(p)
        /\ UNCHANGED <<lc, queue, tail, backlog, sent, closed, shared, short,
                       up, opened, handled>>

Send(p) ==
    \E d \in todo[p] :
        /\ p \in up
        /\ pc[p] = "send"
        /\ NextDest(p, d)
        /\ sent' = sent \cup {Link(p, d)}
        /\ IF todo[p] = {d}
           THEN EndLoop(p)
           ELSE /\ todo' = [todo EXCEPT ![p] = @ \ {d}]
                /\ UNCHANGED <<pc, cur, out, client>>
        /\ UNCHANGED <<lc, queue, tail, backlog, closed, shared, short, up,
                       opened, handled>>

(***************************************************************************)
(* send_buffer() fails on a connection whose peer was killed:              *)
(* total_broadcast() closes all its connections and gives up.              *)
(***************************************************************************)
SendFail(p) ==
    \E d \in todo[p] :
        /\ p \in up
        /\ pc[p] = "send"
        /\ out[p].op = "BROAD"
        /\ NextDest(p, d)
        /\ d \notin up
        /\ closed' = closed \cup {Link(p, e) : e \in out[p].dests}
        /\ Return(p)
        /\ UNCHANGED <<lc, queue, tail, backlog, sent, shared, short, up,
                       opened, handled>>

write_shared(p) ==
    /\ p \in up
    /\ pc[p] = "write"
    /\ shared' = Append(shared, out[p].uid)
    /\ Return(p)
    /\ UNCHANGED <<lc, queue, tail, backlog, sent, closed, short, up, opened,
                   handled>>

(***************************************************************************)
(* A process is killed.  The kernel closes its sockets; the parent only    *)
(* waits, so nothing restarts it.                                          *)
(***************************************************************************)
ServedBy(p, c) == \/ cur[p].from = c
                  \/ \E i \in 1 .. Len(backlog[p]) : backlog[p][i].from = c

Crash(p) ==
    /\ p \in up
    /\ Cardinality(Proc \ up) < MaxCrash
    /\ up' = up \ {p}
    /\ backlog' = [backlog EXCEPT ![p] = <<>>]
    /\ pc' = [pc EXCEPT ![p] = "accept"]
    /\ cur' = [cur EXCEPT ![p] = NoConn]
    /\ out' = [out EXCEPT ![p] = NoOut]
    /\ todo' = [todo EXCEPT ![p] = {}]
    /\ client' = [c \in Client |-> IF ServedBy(p, c) THEN "failed"
                                   ELSE client[c]]
    /\ UNCHANGED <<lc, queue, tail, sent, closed, shared, short, opened,
                   handled>>

-----------------------------------------------------------------------------
(***************************************************************************)
(* One step of the thread of process p.                                    *)
(***************************************************************************)
Step(p) ==
    \/ Listen(p)
    \/ Accept(p)
    \/ RecvEof(p)
    \/ handle_issue(p)
    \/ handle_broadcast(p)
    \/ handle_ack(p)
    \/ handle_ready(p)
    \/ Connect(p)
    \/ ConnectFail(p)
    \/ Send(p)
    \/ SendFail(p)
    \/ write_shared(p)

Next ==
    \/ \E p \in Proc : Step(p)
    \/ \E p \in Proc : Crash(p)
    \/ \E c \in Client, p \in Proc : ClientIssue(c, p) \/ ClientRefused(c, p)

Spec == Init /\ [][Next]_vars

(***************************************************************************)
(* The operating system schedules every process that can run.  Clients may *)
(* never be started, and nobody has to be killed.                          *)
(***************************************************************************)
FairSpec == Spec /\ \A p \in Proc : WF_vars(Step(p))
-----------------------------------------------------------------------------
(* Properties *)

(***************************************************************************)
(* The types of the variables: every clock and counter stays a natural     *)
(* number, every flag 0 or 1, every message well formed.                   *)
(***************************************************************************)
TypeOK ==
    /\ lc \in [Proc -> Nat]
    /\ queue \in [Proc -> SUBSET Node]
    /\ tail \in [Proc -> {"null", "last", "off"}]
    /\ backlog \in [Proc -> Seq(Conn)]
    /\ pc \in [Proc -> {"start", "accept", "recv", "connect", "send", "write"}]
    /\ cur \in [Proc -> Conn]
    /\ out \in [Proc -> Out]
    /\ todo \in [Proc -> SUBSET Proc]
    /\ sent \subseteq Conn
    /\ closed \subseteq Conn
    /\ shared \in Seq(Nat)
    /\ short \subseteq Nat
    /\ client \in [Client -> {"new", "sent", "acked", "failed"}]
    /\ up \subseteq Proc
    /\ opened \subseteq Conn
    /\ handled \subseteq Conn

Written == {shared[i] : i \in 1 .. Len(shared)}

(***************************************************************************)
(* A message is stable once it is written: the clock of every process has  *)
(* reached its timestamp, so no message issued from then on can be ordered *)
(* before it.  This is what the acknowledgement round of handle_broadcast  *)
(* and handle_ack is for.                                                  *)
(***************************************************************************)
StableOnWrite == \A p \in Proc : \A u \in Written : Timestamp(u) <= lc[p]

(***************************************************************************)
(* handle_ack() calls write_shared() at most once for a message, although  *)
(* it is called for the acknowledgement of every process, and broadcasts   *)
(* of READY may be given up halfway.                                       *)
(***************************************************************************)
WrittenOnce == \A i, j \in 1 .. Len(shared) : shared[i] = shared[j] => i = j

(***************************************************************************)
(* handle_ready() always finds the node it is asked to dequeue, already    *)
(* acknowledged by this process: READY never overtakes the BROAD of its    *)
(* message.                                                                *)
(***************************************************************************)
ReadyFindsNode ==
    \A p \in Proc :
        pc[p] = "recv" /\ cur[p].op = "READY" =>
            \E n \in queue[p] : n.uid = cur[p].uid /\ n.ack_flg = 1

(***************************************************************************)
(* As long as the list of the issuer is intact, and the broadcast was not  *)
(* given up at a failed send, handle_ack() never reports "Node with UID    *)
(* not found": total_broadcast() connects to every process, itself         *)
(* included, before it sends to any, so the issuer's own copy is in its    *)
(* accept queue ahead of every acknowledgement.                            *)
(***************************************************************************)
AckFindsNode ==
    \A p \in Proc :
        /\ pc[p] = "recv" /\ cur[p].op = "ACK00" /\ tail[p] # "off"
        /\ \A c \in closed : c.uid # cur[p].uid
        => \E n \in queue[p] : n.uid = cur[p].uid

(***************************************************************************)
(* Messages issued through the same process are written in the order in    *)
(* which handle_issue() took them.                                         *)
(***************************************************************************)
WrittenInIssueOrder ==
    \A i, j \in 1 .. Len(shared) :
        /\ i < j
        /\ shared[i] \div LCBound = shared[j] \div LCBound
        => shared[i] < shared[j]

(***************************************************************************)
(* "Crash recovery mechanism": whoever is killed, the handlers of the      *)
(* others return.                                                          *)
(***************************************************************************)
HandlersReturn == \A p \in Proc : pc[p] # "accept" ~> pc[p] = "accept"

(***************************************************************************)
(* The peer of connection c lives and will not send what p waits for: its  *)
(* broadcast was given up at a failed connect(), or the message is short.  *)
(***************************************************************************)
Underway(c) == pc[c.from] \in {"connect", "send"} /\ c = Link(c.from, c.to)

Silent(c) == /\ c.from \in up
             /\ c \notin closed
             /\ IF c \in sent THEN ~ Complete(c) ELSE ~ Underway(c)

(***************************************************************************)
(* No handler waits for ever in connect(), not even for its own accept     *)
(* queue or for a process that waits for it, and none waits for ever in    *)
(* recv(), unless its peer lives and is silent: a failed connect() ends    *)
(* the loops of total_broadcast(), send_p2p_ack() and                      *)
(* broadcast_ready_message(), and a dead peer ends recv().                 *)
(***************************************************************************)
OnlySilenceBlocks ==
    \A p \in Proc :
        pc[p] # "accept" ~>
            pc[p] = "accept" \/ (pc[p] = "recv" /\ Silent(cur[p]))

BroadcastNodes == {create_node(c) : c \in {k \in opened : k.op = "BROAD"}}

(***************************************************************************)
(* For each client that has its ACK a message was sent to every process.   *)
(***************************************************************************)
SentToAll ==
    Cardinality({c \in Client : client[c] = "acked"}) <=
        Cardinality({u \in {c.uid : c \in sent} : \A p \in Proc :
            \E c \in sent : c.op = "BROAD" /\ c.uid = u /\ c.to = p})

(***************************************************************************)
(* A node that is marked has had its acknowledgement sent, or is having it *)
(* sent.                                                                   *)
(***************************************************************************)
MarkedIsSent ==
    \A p \in Proc : \A n \in queue[p] : n.ack_flg = 1 =>
        \/ \E c \in sent : c.op = "ACK00" /\ c.from = p /\ c.uid = n.uid
        \/ pc[p] \in {"connect", "send"} /\ out[p].op = "ACK00" /\ out[p].uid = n.uid

(***************************************************************************)
(* What is written has been sent as READY to every process.                *)
(***************************************************************************)
WrittenIsReadied ==
    \A u \in Written : \A p \in Proc :
        \E c \in sent : c.op = "READY" /\ c.uid = u /\ c.to = p

(***************************************************************************)
(* Once a client has its ACK, the message that order_queue() puts before   *)
(* all others broadcast is written in the end and leaves every queue,      *)
(* unless a process was killed, a message is short, or a connect() failed, *)
(* which is not tried again: in total_broadcast(), in send_p2p_ack() after *)
(* ack_flg was set, or in broadcast_ready_message().                       *)
(***************************************************************************)
LeastIsDelivered ==
    (\E c \in Client : client[c] = "acked") ~>
        \/ \E n \in BroadcastNodes :
              /\ IsHead(n, BroadcastNodes)
              /\ n.uid \in Written
              /\ \A p \in Proc : \A m \in queue[p] : m.uid # n.uid
        \/ up # Proc
        \/ short # {}
        \/ ~ (SentToAll /\ MarkedIsSent /\ WrittenIsReadied)

(***************************************************************************)
(* What the handlers do to the queue of a process is what MsgQueue allows. *)
(***************************************************************************)
Queue(p) == INSTANCE MsgQueue WITH
                offered <- BroadcastNodes, nodes <- queue[p], tl <- tail[p]

(***************************************************************************)
(* Every process implements the message queue, whatever the others do: it  *)
(* acknowledges in the order of the clocks and, although handle_ready()    *)
(* dequeues a node wherever it stands and without looking at it, only what *)
(* it has acknowledged leaves its queue.                                   *)
(***************************************************************************)
ImplementsMsgQueue ==
    /\ \A p \in Proc : Queue(p)!Init
    /\ [][\A p \in Proc : [Queue(p)!Next]_(Queue(p)!vars)]_vars

(***************************************************************************)
(* "When a message is received: 1. It is put into a local queue."          *)
(***************************************************************************)
ReceivedIsQueued ==
    [][\A p \in Proc :
          handle_broadcast(p) => \E n \in queue'[p] : n.uid = cur[p].uid]_vars

(***************************************************************************)
(* "Sender sends to all recipients, including itself": every process that  *)
(* a broadcast was sent to takes it in, as long as it is not killed.       *)
(***************************************************************************)
BroadcastArrives ==
    \A p, q \in Proc :
        (\E c \in sent : c.op = "BROAD" /\ c.from = p /\ c.to = q)
        ~> (\E c \in handled : c.op = "BROAD" /\ c.from = p /\ c.to = q) \/ q \notin up

Readied(u) == \E c \in opened : c.op = "READY" /\ c.uid = u

Holds(p, u) == \E n \in queue[p] : n.uid = u

(***************************************************************************)
(* "Total order preservation": no two processes dequeue the same two ready *)
(* messages in opposite orders.                                            *)
(***************************************************************************)
TotalOrder ==
    \A p, q \in Proc : \A m, n \in queue[p] \cup queue[q] :
        Readied(m.uid) /\ Readied(n.uid) =>
            ~ (/\ Holds(p, m.uid) /\ ~ Holds(p, n.uid)
               /\ Holds(q, n.uid) /\ ~ Holds(q, m.uid))
=============================================================================
