------------------------------ MODULE TobNode ------------------------------
(***************************************************************************)
(* One middleware process, Self, on the list of queue.c in memory and with *)
(* the frames of client_handle.c: it takes the BROAD frames of the others  *)
(* and of itself in any order, acknowledges, counts acknowledgements of    *)
(* its own messages and dequeues on READY.  The process is single          *)
(* threaded, so a handler is one step.  What the other processes do is     *)
(* what Tob shows of them: every process acknowledges a message at most    *)
(* once, and READY follows this process's own acknowledgement.  The text   *)
(* of a message, and with it the length field of the frame, is left out.   *)
(***************************************************************************)
EXTENDS MsgList, TobFrame

CONSTANTS
    NumProc,   \* number of middleware processes
    Pid,       \* Pid[p]: the pid of process p
    Self,      \* the process modelled here
    Issued,    \* the messages issued: [pid, port, lc], lc before the broadcast
    Splits,    \* bound: how TCP may cut the 38 bytes, by the ends of the pieces
    Junk       \* bound: what fields may read as whose bytes are not in place

ASSUME NodeAssumption ==
    /\ NumProc \in Nat /\ Self \in 0 .. NumProc - 1
    /\ Issued \subseteq [pid : Nat, port : 0 .. NumProc - 1, lc : Nat]
    /\ \A m \in Issued : m.pid = Pid[m.port]
    /\ \A m \in Issued : (m.lc + 1) \div 2^12 < 2^20

ASSUME SplitAssumption ==
    \A e \in Splits : /\ e \in Seq(1 .. MetaLen)
                      /\ Len(e) >= 1
                      /\ e[Len(e)] = MetaLen
                      /\ \A i \in 2 .. Len(e) : e[i - 1] < e[i]

ASSUME JunkAssumption ==
    \A j \in Junk : j \in [uid : Uid, pid : Int, port : Int, lc : Nat]

VARIABLES
    list,     \* the list in memory
    lc,       \* the Lamport clock
    wire,     \* the BROAD frames on their way, with the messages they are of
    arrived,  \* those that have been handled
    acked,    \* the acknowledgements sent: of which uid, to which port
    heard,    \* heard[m]: the acknowledgements that came for message m
    readied,  \* the frames whose READY is on its way to this process
    done,     \* the frames whose READY has been handled
    origin,   \* history: origin[a]: the frame the node at a was made from,
              \*   and the fields whose bytes got to their place
    garbled   \* history: the frames of which not all did

vars == <<list, lc, wire, arrived, acked, heard, readied, done, origin, garbled>>

Init ==
    /\ list = EmptyList
    /\ lc = 0
    /\ wire = {[msg |-> m, frame |-> encode_broadcast_buffer(m)] : m \in Issued}
    /\ arrived = {}
    /\ acked = {}
    /\ heard = [m \in Issued |-> 0]
    /\ readied = {}
    /\ done = {}
    /\ origin = [a \in Addr |-> NULL]
    /\ garbled = {}

(***************************************************************************)
(* send_p2p_ack() sends the uid to the port the node has.                  *)
(***************************************************************************)
AckOf(n) == [uid |-> n.uid, port |-> n.port]

check_and_ack_head(L0) ==
    LET L == order_queue(L0)
    IN  IF L.head # NULL /\ L.heap[L.head].ack_flg = 0
        THEN /\ list' = [L EXCEPT !.heap[L.head].ack_flg = 1]
             /\ acked' = acked \cup {AckOf(L.heap[L.head])}
        ELSE list' = L /\ acked' = acked

(***************************************************************************)
(* A frame k arrives in pieces with these ends; the node for it is         *)
(* allocated at a.                                                         *)
(***************************************************************************)
handle_broadcast(k, ends, junk, a) ==
    LET fields == Decoded(k.frame, recv_buffer(ends), junk)
    IN  /\ a \notin list.live
        /\ wire' = wire \ {k}
        /\ arrived' = arrived \cup {k}
        /\ lc' = IF fields.lc > lc + 1 THEN fields.lc ELSE lc + 1
        /\ check_and_ack_head(enqueue(Allocate(list, a, create_node(fields)), a))
        /\ origin' = [origin EXCEPT ![a] = [of |-> k, kept |-> Kept(ends)]]
        /\ garbled' = IF Kept(ends) = DOMAIN FieldAt THEN garbled
                      ELSE garbled \cup {k}
        /\ UNCHANGED <<heard, readied, done>>

(***************************************************************************)
(* An acknowledgement of one of the process's own messages comes, its own  *)
(* among them if it sent one.  Only the uid tells which node it counts on; *)
(* with the last one READY is broadcast, to this process too.              *)
(***************************************************************************)
handle_ack(k) ==
    LET a == find_node(list, k.frame.uid)
    IN  /\ k.frame.port = Self
        /\ heard[k.msg] < IF AckOf(k.frame) \in acked THEN NumProc ELSE NumProc - 1
        /\ heard' = [heard EXCEPT ![k.msg] = @ + 1]
        /\ IF a = NULL THEN list' = list
           ELSE list' = [list EXCEPT !.heap[a].ack_count = @ + 1]
        /\ IF a # NULL /\ list'.heap[a].ack_count = NumProc
           THEN readied' = readied \cup {k} /\ lc' = lc + 1
           ELSE UNCHANGED <<readied, lc>>
        /\ UNCHANGED <<wire, arrived, acked, done, origin, garbled>>

(***************************************************************************)
(* Another issuer has all its acknowledgements and broadcasts READY.       *)
(***************************************************************************)
PeerReadies(k) ==
    /\ k.frame.port # Self
    /\ AckOf(k.frame) \in acked
    /\ readied' = readied \cup {k}
    /\ UNCHANGED <<list, lc, wire, arrived, acked, heard, done, origin, garbled>>

handle_ready(k) ==
    /\ k \notin done
    /\ list' = dequeue(list, k.frame.uid)
    /\ done' = done \cup {k}
    /\ UNCHANGED <<lc, wire, arrived, acked, heard, readied, origin, garbled>>

Next ==
    \/ \E k \in wire, ends \in Splits, junk \in Junk, a \in Addr :
          handle_broadcast(k, ends, junk, a)
    \/ \E k \in arrived : handle_ack(k) \/ PeerReadies(k)
    \/ \E k \in readied : handle_ready(k)

Spec == Init /\ [][Next]_vars
-----------------------------------------------------------------------------
(* Properties *)

Cell == [uid : Uid, pid : Int, port : Int, lc : Nat, ack_flg : {0, 1},
         ack_count : Nat, next : Addr \cup {NULL}]

(***************************************************************************)
(* The types of the variables: a uid has 32 bits, every pointer is NULL or *)
(* an address, and no message has more acknowledgements than processes.    *)
(***************************************************************************)
TypeOK ==
    /\ list \in [heap : [Addr -> Cell], head : Addr \cup {NULL},
                tail : Addr \cup {NULL}, live : SUBSET Addr]
    /\ lc \in Nat
    /\ {k.msg : k \in wire \cup arrived} = Issued
    /\ acked \subseteq [uid : Uid, port : Int]
    /\ heard \in [Issued -> 0 .. NumProc]
    /\ readied \subseteq arrived /\ done \subseteq readied
    /\ origin \in [Addr -> [of : arrived, kept : SUBSET DOMAIN FieldAt] \cup {NULL}]
    /\ garbled \subseteq arrived

(***************************************************************************)
(* The list of queue.c never links freed memory, and as long as it has a   *)
(* node it ends, at tail, and is in the order of order_queue(), whatever   *)
(* enqueue(), order_queue() and dequeue() were called in between.          *)
(***************************************************************************)
ListIntact ==
    /\ Linked(list) \subseteq list.live
    /\ list.head # NULL => /\ list.tail \in Linked(list)
                          /\ list.heap[list.tail].next = NULL
    /\ \A a \in Linked(list) :
          LET b == list.heap[a].next
          IN  IF b = NULL THEN list.tail = a
              ELSE Stays(list.heap[a], list.heap[b])

(***************************************************************************)
(* The node n has what the issuer gave the message m in these fields, the  *)
(* timestamp up to clock 9999.                                             *)
(***************************************************************************)
AsIssued(n, m, fields) ==
    /\ "uid" \in fields => n.uid = generate_uid(m.pid, m.lc)
    /\ "pid" \in fields => n.pid = m.pid
    /\ "port" \in fields => n.port = m.port
    /\ "lc" \in fields /\ m.lc + 1 < 10^4 => n.lc = m.lc + 1

(***************************************************************************)
(* However many pieces recv_buffer() gets a frame in, the node has what    *)
(* its issuer gave the message in every field that lies in the first two   *)
(* and that no later piece was written over; in all fields when there are  *)
(* one or two.                                                             *)
(***************************************************************************)
NodesAsIssued ==
    \A a \in Linked(list) :
        /\ origin[a].of \in arrived
        /\ AsIssued(list.heap[a], origin[a].of.msg, origin[a].kept)

(***************************************************************************)
(* Every frame so far came in one or two pieces, or in more of which none  *)
(* hit a field (but the length, which is left out).                        *)
(***************************************************************************)
Whole == garbled = {}

(***************************************************************************)
(* handle_ack() "increments ack_count" of the message the acknowledgement  *)
(* is for: a node counts what came for its message, and nothing else, as   *)
(* long as no frame was garbled.                                           *)
(***************************************************************************)
AcksCountOwn ==
    Whole => \A a \in Linked(list) :
                list.heap[a].ack_count = heard[origin[a].of.msg]

(***************************************************************************)
(* A message this process acknowledged is found in the list by find_node() *)
(* until its READY is handled: neither the sorting nor the dequeuing of    *)
(* others loses it, as long as no frame was garbled.                       *)
(***************************************************************************)
AckedIsFound ==
    Whole => \A k \in arrived \ done :
                AckOf(k.frame) \in acked =>
                    \E a \in Linked(list) :
                        list.heap[a].uid = k.frame.uid /\ list.heap[a].ack_flg = 1

(***************************************************************************)
(* The list is the queue the protocol is verified with.                    *)
(***************************************************************************)
AbsNode(n) == [uid |-> n.uid, port |-> n.port, lc |-> n.lc,
               ack_flg |-> n.ack_flg, ack_count |-> n.ack_count]

TailState == IF list.tail = NULL THEN "null"
             ELSE IF list.tail \in Linked(list) THEN "last" ELSE "off"

Queue == INSTANCE MsgQueue WITH
             offered <- {AbsNode(create_node(k.frame)) : k \in wire \cup arrived},
             nodes <- {AbsNode(list.heap[a]) : a \in Linked(list)},
             tl <- TailState

(***************************************************************************)
(* queue.c implements the message queue: with its stale tail, the order of *)
(* its insertion sort and its removal from any place, as long as no frame  *)
(* was garbled.                                                            *)
(***************************************************************************)
ImplementsMsgQueue ==
    /\ Queue!Init
    /\ [][Whole' => [Queue!Next]_(Queue!vars)]_vars
=============================================================================
