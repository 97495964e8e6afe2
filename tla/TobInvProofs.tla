---------------------------- MODULE TobInvProofs ----------------------------
(***************************************************************************)
(* Proofs about Tob, for every number of processes, every set of clients,  *)
(* every backlog and any number of crashes: the variables keep their       *)
(* types, the invariant IInv of TobInv is inductive, what follows from it, *)
(* and that the queues of the processes implement MsgQueue.                *)
(***************************************************************************)
EXTENDS TobInv, TLAPS, FiniteSetTheorems

-----------------------------------------------------------------------------
(* Type correctness *)

(***************************************************************************)
(* LCBound is a positive number.                                           *)
(***************************************************************************)
LEMMA BoundType == LCBound \in Nat \ {0}
BY SMT DEF LCBound

(***************************************************************************)
(* Products of naturals are naturals.                                      *)
(***************************************************************************)
LEMMA NatTimes == \A a, b \in Nat : a * b \in Nat
OBVIOUS

(***************************************************************************)
(* Pids are positive numbers.                                              *)
(***************************************************************************)
LEMMA PidType == \A p \in Proc : Pid[p] \in Nat \ {0}
BY PidAssumption

(***************************************************************************)
(* The values that stand for nothing have their types.                     *)
(***************************************************************************)
LEMMA NoneType == NoConn \in Conn /\ NoOut \in Out
<1>1. 0 \in Proc
  BY NumProcAssumption DEF Proc
<1>2. QED
  BY <1>1 DEF NoConn, NoOut, Conn, Out, PeerOp

(***************************************************************************)
(* The variables that describe where the thread of a process is.           *)
(***************************************************************************)
ThreadTypeOK ==
    /\ pc \in [Proc -> {"start", "accept", "recv", "connect", "send", "write"}]
    /\ cur \in [Proc -> Conn]
    /\ out \in [Proc -> Out]
    /\ todo \in [Proc -> SUBSET Proc]
    /\ client \in [Client -> {"new", "sent", "acked", "failed"}]

(***************************************************************************)
(* The end of a handler and the start of a sending loop keep these types.  *)
(***************************************************************************)
LEMMA ReturnType ==
    ASSUME TypeOK, NEW p \in Proc, Return(p)
    PROVE  ThreadTypeOK'
<1>1. NoConn \in Conn /\ NoOut \in Out
  BY NoneType
<1>2. client' \in [Client -> {"new", "sent", "acked", "failed"}]
  BY DEF Return, TypeOK
<1>3. QED
  BY <1>1, <1>2 DEF Return, TypeOK, ThreadTypeOK

(***************************************************************************)
(* StartOut keeps the types.                                               *)
(***************************************************************************)
LEMMA StartOutType ==
    ASSUME TypeOK, NEW p \in Proc, NEW op \in PeerOp, NEW u \in Nat,
           NEW ts \in Nat, NEW D \in SUBSET Proc, StartOut(p, op, u, ts, D)
    PROVE  ThreadTypeOK'
BY DEF StartOut, TypeOK, ThreadTypeOK, Out

(***************************************************************************)
(* So does EndLoop.                                                        *)
(***************************************************************************)
LEMMA EndLoopType ==
    ASSUME TypeOK, NEW p \in Proc, EndLoop(p)
    PROVE  ThreadTypeOK'
<1>1. CASE out[p].op = "READY"
  BY <1>1 DEF EndLoop, TypeOK, ThreadTypeOK
<1>2. CASE out[p].op # "READY"
  BY <1>2, ReturnType DEF EndLoop
<1>3. QED
  BY <1>1, <1>2

(***************************************************************************)
(* Link is a connection.                                                   *)
(***************************************************************************)
LEMMA LinkType ==
    ASSUME TypeOK, NEW p \in Proc, NEW d \in Proc
    PROVE  Link(p, d) \in Conn
<1>1. out[p] \in Out
  BY DEF TypeOK
<1>2. QED
  BY <1>1 DEF Link, Conn, Out

(***************************************************************************)
(* check_and_ack_head() on a queue of nodes leaves a queue of nodes.       *)
(***************************************************************************)
LEMMA CheckAndAckHeadType ==
    ASSUME TypeOK, NEW p \in Proc, NEW Q \in SUBSET Node,
           check_and_ack_head(p, Q)
    PROVE  queue' \in [Proc -> SUBSET Node] /\ ThreadTypeOK'
<1>1. ASSUME NEW n \in Q,
             queue' = [queue EXCEPT
                          ![p] = (Q \ {n}) \cup {[n EXCEPT !.ack_flg = 1]}],
             StartOut(p, "ACK00", n.uid, 0, {n.port})
      PROVE  queue' \in [Proc -> SUBSET Node] /\ ThreadTypeOK'
  <2>1. n \in Node /\ [n EXCEPT !.ack_flg = 1] \in Node
    BY DEF Node
  <2>2. queue' \in [Proc -> SUBSET Node]
    BY <1>1, <2>1 DEF TypeOK
  <2>3. n.uid \in Nat /\ {n.port} \in SUBSET Proc /\ "ACK00" \in PeerOp
    BY <2>1 DEF Node, PeerOp
  <2>4. QED
    BY <1>1, <2>2, <2>3, StartOutType
<1>2. ASSUME queue' = [queue EXCEPT ![p] = Q], Return(p)
      PROVE  queue' \in [Proc -> SUBSET Node] /\ ThreadTypeOK'
  BY <1>2, ReturnType DEF TypeOK
<1>3. QED
  BY <1>1, <1>2 DEF check_and_ack_head

(***************************************************************************)
(* Every step of Next keeps the type invariant.                            *)
(***************************************************************************)
LEMMA TypeStep ==
    ASSUME TypeOK, [Next]_vars
    PROVE  TypeOK'
<1>1. ASSUME NEW c \in Client, NEW p \in Proc, ClientIssue(c, p)
      PROVE  TypeOK'
  <2>1. IssueConn(c, p) \in Conn
    BY DEF IssueConn, Conn
  <2>2. backlog' \in [Proc -> Seq(Conn)]
    BY <1>1, <2>1 DEF ClientIssue, TypeOK
  <2>3. QED
    BY <1>1, <2>1, <2>2 DEF ClientIssue, TypeOK
<1>2. ASSUME NEW c \in Client, NEW p \in Proc, ClientRefused(c, p)
      PROVE  TypeOK'
  BY <1>2 DEF ClientRefused, TypeOK
<1>3. ASSUME NEW p \in Proc, Accept(p)
      PROVE  TypeOK'
  <2>1. backlog[p] \in Seq(Conn) /\ backlog[p] # <<>>
    BY <1>3 DEF Accept, TypeOK
  <2>2. Head(backlog[p]) \in Conn /\ Tail(backlog[p]) \in Seq(Conn)
    BY <2>1
  <2>3. QED
    BY <1>3, <2>2 DEF Accept, TypeOK
<1>4. ASSUME NEW p \in Proc, RecvEof(p)
      PROVE  TypeOK'
  BY <1>4, ReturnType DEF RecvEof, TypeOK, ThreadTypeOK
<1>5. ASSUME NEW p \in Proc, handle_issue(p)
      PROVE  TypeOK'
  <2>0. lc[p] \in Nat
    BY DEF TypeOK
  <2>00. Pid[p] * LCBound \in Nat
    BY PidType, BoundType, NatTimes
  <2>1. generate_uid(p, lc[p] + 1) \in Nat /\ lc[p] + 2 \in Nat
    BY <2>0, <2>00 DEF generate_uid
  <2>2. "BROAD" \in PeerOp /\ Proc \in SUBSET Proc
    BY DEF PeerOp
  <2>3. ThreadTypeOK'
    BY <1>5, <2>1, <2>2, StartOutType DEF handle_issue
  <2>4. handled' \subseteq Conn
    BY <1>5 DEF handle_issue, Receives, TypeOK
  <2>5. lc' \in [Proc -> Nat]
    BY <1>5 DEF handle_issue, TypeOK
  <2>6. short' \subseteq Nat
    BY <1>5, <2>1 DEF handle_issue, NoteLength, TypeOK
  <2>7. QED
    BY <1>5, <2>3, <2>4, <2>5, <2>6
       DEF handle_issue, Receives, TypeOK, ThreadTypeOK
<1>6. ASSUME NEW p \in Proc, handle_broadcast(p)
      PROVE  TypeOK'
  <2>1. handled' \subseteq Conn
    BY <1>6 DEF handle_broadcast, Receives, TypeOK
  <2>2. create_node(cur[p]) \in Node /\ cur[p].lc \in Nat
    BY <1>6 DEF handle_broadcast, Receives, TypeOK, Conn, create_node, Node
  <2>3. enqueue(queue[p], tail[p], create_node(cur[p])) \in SUBSET Node
    BY <2>2 DEF enqueue, TypeOK
  <2>4. queue' \in [Proc -> SUBSET Node] /\ ThreadTypeOK'
    BY <1>6, <2>3, CheckAndAckHeadType DEF handle_broadcast
  <2>5. lc' \in [Proc -> Nat]
    BY <1>6, <2>2 DEF handle_broadcast, AdjustLC, TypeOK
  <2>6. tail' \in [Proc -> {"null", "last", "off"}]
    BY <1>6 DEF handle_broadcast, enqueue_tail, TypeOK
  <2>7. QED
    BY <1>6, <2>1, <2>4, <2>5, <2>6
       DEF handle_broadcast, Receives, TypeOK, ThreadTypeOK
<1>7. ASSUME NEW p \in Proc, handle_ack(p)
      PROVE  TypeOK'
  <2>1. handled' \subseteq Conn
    BY <1>7 DEF handle_ack, Receives, TypeOK
  <2>2. queue' \in [Proc -> SUBSET Node] /\ lc' \in [Proc -> Nat]
        /\ ThreadTypeOK'
    <3>1. CASE \A n \in queue[p] : n.uid # cur[p].uid
      BY <1>7, <3>1, ReturnType DEF handle_ack, TypeOK
    <3>2. ASSUME NEW n \in queue[p],
                 queue' = [queue EXCEPT ![p] =
                     (@ \ {n}) \cup {[n EXCEPT !.ack_count = @ + 1]}],
                 IF AllAcksIn(n.ack_count + 1)
                 THEN /\ lc' = [lc EXCEPT ![p] = @ + 1]
                      /\ StartOut(p, "READY", n.uid, 0, Proc)
                 ELSE Return(p) /\ lc' = lc
          PROVE  queue' \in [Proc -> SUBSET Node] /\ lc' \in [Proc -> Nat]
                 /\ ThreadTypeOK'
      <4>0. n \in Node /\ lc[p] \in Nat
        BY DEF TypeOK
      <4>1. [n EXCEPT !.ack_count = @ + 1] \in Node
        BY <4>0 DEF Node
      <4>2. queue' \in [Proc -> SUBSET Node]
        BY <3>2, <4>1 DEF TypeOK
      <4>3. lc' \in [Proc -> Nat]
        <5>1. lc \in [Proc -> Nat]
          BY DEF TypeOK
        <5>2. CASE lc' = lc
          BY <5>1, <5>2
        <5>3. CASE lc' = [lc EXCEPT ![p] = @ + 1]
          BY <4>0, <5>1, <5>3
        <5>4. QED
          BY <3>2, <5>2, <5>3
      <4>4. n.uid \in Nat /\ Proc \in SUBSET Proc /\ "READY" \in PeerOp
        BY <4>0 DEF Node, PeerOp
      <4>5. ThreadTypeOK'
        BY <3>2, <4>4, StartOutType, ReturnType
      <4>6. QED
        BY <4>2, <4>3, <4>5
    <3>3. QED
      BY <1>7, <3>1, <3>2 DEF handle_ack
  <2>3. QED
    BY <1>7, <2>1, <2>2 DEF handle_ack, Receives, TypeOK, ThreadTypeOK
<1>8. ASSUME NEW p \in Proc, handle_ready(p)
      PROVE  TypeOK'
  <2>1. handled' \subseteq Conn
    BY <1>8 DEF handle_ready, Receives, TypeOK
  <2>2. ThreadTypeOK'
    BY <1>8, ReturnType DEF handle_ready
  <2>3. queue' \in [Proc -> SUBSET Node]
    <3>1. ASSUME NEW n \in queue[p], queue' = [queue EXCEPT ![p] = @ \ {n}]
          PROVE  queue' \in [Proc -> SUBSET Node]
      BY <3>1 DEF TypeOK
    <3>2. CASE queue' = queue
      BY <3>2 DEF TypeOK
    <3>3. QED
      BY <1>8, <3>1, <3>2 DEF handle_ready
  <2>4. tail' \in [Proc -> {"null", "last", "off"}]
    BY <1>8 DEF handle_ready, dequeue_tail, TypeOK
  <2>5. QED
    BY <1>8, <2>1, <2>2, <2>3, <2>4
       DEF handle_ready, Receives, TypeOK, ThreadTypeOK
<1>9. ASSUME NEW p \in Proc, Connect(p)
      PROVE  TypeOK'
  <2>1. PICK d \in todo[p] :
           /\ backlog' = [backlog EXCEPT ![d] = Append(@, Link(p, d))]
           /\ opened' = opened \cup {Link(p, d)}
           /\ IF todo[p] = {d}
              THEN /\ pc' = [pc EXCEPT ![p] = "send"]
                   /\ todo' = [todo EXCEPT ![p] = out[p].dests]
              ELSE /\ pc' = pc
                   /\ todo' = [todo EXCEPT ![p] = @ \ {d}]
    BY <1>9 DEF Connect
  <2>2. d \in Proc /\ out[p].dests \in SUBSET Proc /\ todo[p] \in SUBSET Proc
    BY DEF TypeOK, Out
  <2>3. backlog' \in [Proc -> Seq(Conn)] /\ opened' \subseteq Conn
    BY <2>1, <2>2, LinkType DEF TypeOK
  <2>4. pc' \in [Proc -> {"start", "accept", "recv", "connect", "send", "write"}]
    BY <2>1 DEF TypeOK
  <2>5. todo' \in [Proc -> SUBSET Proc]
    <3>1. CASE todo' = [todo EXCEPT ![p] = out[p].dests]
      BY <2>2, <3>1 DEF TypeOK
    <3>2. CASE todo' = [todo EXCEPT ![p] = @ \ {d}]
      BY <3>2 DEF TypeOK
    <3>3. QED
      BY <2>1, <3>1, <3>2
  <2>6. QED
    BY <1>9, <2>3, <2>4, <2>5 DEF Connect, TypeOK
<1>10. ASSUME NEW p \in Proc, ConnectFail(p)
       PROVE  TypeOK'
  BY <1>10, EndLoopType DEF ConnectFail, TypeOK, ThreadTypeOK
<1>11. ASSUME NEW p \in Proc, Send(p)
       PROVE  TypeOK'
  <2>1. PICK d \in todo[p] :
           /\ sent' = sent \cup {Link(p, d)}
           /\ IF todo[p] = {d}
              THEN EndLoop(p)
              ELSE /\ todo' = [todo EXCEPT ![p] = @ \ {d}]
                   /\ UNCHANGED <<pc, cur, out, client>>
    BY <1>11 DEF Send
  <2>2. sent' \subseteq Conn
    BY <2>1, LinkType DEF TypeOK
  <2>3. ThreadTypeOK'
    <3>1. CASE todo[p] = {d}
      BY <2>1, <3>1, EndLoopType
    <3>2. CASE todo[p] # {d}
      <4>1. todo' = [todo EXCEPT ![p] = @ \ {d}]
        BY <2>1, <3>2
      <4>2. todo' \in [Proc -> SUBSET Proc]
        BY <4>1 DEF TypeOK
      <4>3. UNCHANGED <<pc, cur, out, client>>
        BY <2>1, <3>2
      <4>4. QED
        BY <4>2, <4>3 DEF TypeOK, ThreadTypeOK
    <3>3. QED
      BY <3>1, <3>2
  <2>4. QED
    BY <1>11, <2>2, <2>3 DEF Send, TypeOK, ThreadTypeOK
<1>12. ASSUME NEW p \in Proc, SendFail(p)
       PROVE  TypeOK'
  <2>0. \A e \in out[p].dests : Link(p, e) \in Conn
    <3>1. out[p].dests \subseteq Proc
      BY DEF TypeOK, Out
    <3>2. QED
      BY <3>1, LinkType
  <2>1. closed' \subseteq Conn
    BY <1>12, <2>0 DEF SendFail, TypeOK
  <2>2. ThreadTypeOK'
    BY <1>12, ReturnType DEF SendFail
  <2>3. QED
    BY <1>12, <2>1, <2>2 DEF SendFail, TypeOK, ThreadTypeOK
<1>13. ASSUME NEW p \in Proc, write_shared(p)
       PROVE  TypeOK'
  <2>1. shared' \in Seq(Nat)
    BY <1>13 DEF write_shared, TypeOK, Out
  <2>2. ThreadTypeOK'
    BY <1>13, ReturnType DEF write_shared
  <2>3. QED
    BY <1>13, <2>1, <2>2 DEF write_shared, TypeOK, ThreadTypeOK
<1>14. ASSUME NEW p \in Proc, Crash(p)
       PROVE  TypeOK'
  <2>1. NoConn \in Conn /\ NoOut \in Out
    BY NoneType
  <2>2. client' \in [Client -> {"new", "sent", "acked", "failed"}]
    BY <1>14 DEF Crash, TypeOK
  <2>3. backlog' \in [Proc -> Seq(Conn)]
    BY <1>14 DEF Crash, TypeOK
  <2>4. QED
    BY <1>14, <2>1, <2>2, <2>3 DEF Crash, TypeOK
<1>15. CASE UNCHANGED vars
  BY <1>15 DEF vars, TypeOK
<1>16. ASSUME NEW p \in Proc, Listen(p)
       PROVE  TypeOK'
  BY <1>16 DEF Listen, TypeOK
<1>17. QED
  BY <1>1, <1>2, <1>3, <1>4, <1>5, <1>6, <1>7, <1>8, <1>9, <1>10, <1>11,
     <1>12, <1>13, <1>14, <1>15, <1>16 DEF Next, Step

(***************************************************************************)
(* Every variable keeps its type in every run of the middleware.           *)
(***************************************************************************)
THEOREM TypeCorrect == Spec => []TypeOK
<1>1. Init => TypeOK
  BY NoneType DEF Init, TypeOK
<1>2. TypeOK /\ [Next]_vars => TypeOK'
  BY TypeStep
<1>3. QED
  BY <1>1, <1>2, PTL DEF Spec

-----------------------------------------------------------------------------
(* Uids, connections and acknowledgements *)

(***************************************************************************)
(* The remainder of a uid is the clock it was made from.                   *)
(***************************************************************************)
LEMMA UidRemainder ==
    ASSUME NEW a \in Nat, NEW s \in 1 .. LCBound - 1
    PROVE  (a * LCBound + (s - 1)) % LCBound = s - 1
BY SMT DEF LCBound

(***************************************************************************)
(* Equal uids come from equal pids and equal clocks.                       *)
(***************************************************************************)
LEMMA DivideUid ==
    ASSUME NEW a \in Nat, NEW b \in Nat, NEW s \in 1 .. LCBound - 1,
           NEW t \in 1 .. LCBound - 1,
           a * LCBound + (s - 1) = b * LCBound + (t - 1)
    PROVE  a = b /\ s = t
<1>1. s - 1 = t - 1
  BY UidRemainder
<1>2. s = t
  BY <1>1, BoundType
<1>3. a * LCBound = b * LCBound
  BY <1>2, SMT DEF LCBound
<1>4. a = b
  BY <1>3, SMT DEF LCBound
<1>5. QED
  BY <1>2, <1>4

(***************************************************************************)
(* A uid determines the process that issued it and its timestamp.          *)
(***************************************************************************)
LEMMA UidUnique ==
    ASSUME NEW u, NEW p \in Proc, NEW q \in Proc, NEW s, NEW t,
           IssuedAt(u, p, s), IssuedAt(u, q, t)
    PROVE  p = q /\ s = t
<1>1. Pid[p] \in Nat /\ Pid[q] \in Nat
  BY PidType
<1>2. Pid[p] = Pid[q] /\ s = t
  BY <1>1, DivideUid DEF IssuedAt, generate_uid
<1>3. QED
  BY <1>2, PidAssumption

(***************************************************************************)
(* The timestamp of a uid is the one it was broadcast with.                *)
(***************************************************************************)
LEMMA UidTimestamp ==
    ASSUME NEW u, NEW p \in Proc, NEW s, IssuedAt(u, p, s)
    PROVE  Timestamp(u) = s
<1>1. Pid[p] \in Nat
  BY PidType
<1>2. s \in 1 .. LCBound - 1 /\ u = Pid[p] * LCBound + (s - 1)
  BY DEF IssuedAt, generate_uid
<1>3. u % LCBound = s - 1
  BY <1>1, <1>2, UidRemainder
<1>4. QED
  BY <1>2, <1>3, BoundType DEF Timestamp

(***************************************************************************)
(* A connection is the record of its fields.                               *)
(***************************************************************************)
LEMMA ConnFields ==
    ASSUME NEW c \in Conn
    PROVE  c = [op |-> c.op, from |-> c.from, to |-> c.to, uid |-> c.uid,
                lc |-> c.lc]
BY DEF Conn

(***************************************************************************)
(* Only ISSUE comes from a client.                                         *)
(***************************************************************************)
LEMMA PeerFrom ==
    ASSUME NEW c \in Conn, c.op # "ISSUE"
    PROVE  c.from \in Proc /\ c.uid \in Nat /\ c.lc \in Nat
BY DEF Conn

(***************************************************************************)
(* Connections lead to processes.                                          *)
(***************************************************************************)
LEMMA ConnTo ==
    ASSUME NEW c \in Conn
    PROVE  c.to \in Proc
BY DEF Conn

(***************************************************************************)
(* A handled BROAD was issued by its sender at its timestamp.              *)
(***************************************************************************)
LEMMA BroadIssued ==
    ASSUME IInv, NEW p, NEW q, NEW u, NEW ts,
           BroadConn(p, q, u, ts) \in opened
    PROVE  p \in Proc /\ q \in Proc /\ IssuedAt(u, p, ts)
<1> DEFINE b == BroadConn(p, q, u, ts)
<1>1. b \in Conn /\ ConnOK(b)
  BY DEF IInv, TypeOK, ConnInv
<1>2. b.op = "BROAD" /\ b.from = p /\ b.to = q /\ b.uid = u /\ b.lc = ts
  BY DEF BroadConn
<1>3. QED
  BY <1>1, <1>2, PeerFrom, ConnTo DEF ConnOK

(***************************************************************************)
(* What was handled was opened.                                            *)
(***************************************************************************)
LEMMA HandledOpened ==
    ASSUME IInv
    PROVE  handled \subseteq opened
BY DEF IInv, SetsInv

(***************************************************************************)
(* A process acknowledges a message to one process only: its issuer.       *)
(***************************************************************************)
LEMMA AckUnique ==
    ASSUME IInv, NEW q \in Proc, NEW p, NEW r, NEW u,
           AckConn(q, p, u) \in opened, AckConn(q, r, u) \in opened
    PROVE  p = r
<1>1. AckOK(q, p, u) /\ AckOK(q, r, u)
  BY DEF IInv, AckInv, AckConn
<1>2. PICK s \in 1 .. LCBound - 1 : BroadConn(p, q, u, s) \in handled
  BY <1>1 DEF AckOK
<1>3. PICK t \in 1 .. LCBound - 1 : BroadConn(r, q, u, t) \in handled
  BY <1>1 DEF AckOK
<1>4. p \in Proc /\ IssuedAt(u, p, s) /\ r \in Proc /\ IssuedAt(u, r, t)
  BY <1>2, <1>3, BroadIssued, HandledOpened
<1>5. QED
  BY <1>4, UidUnique

(***************************************************************************)
(* No two processes collect all the acknowledgements of one message.       *)
(***************************************************************************)
LEMMA AllAckedUnique ==
    ASSUME IInv, NEW p \in Proc, NEW q \in Proc, NEW u, AllAcked(p, u),
           AllAcked(q, u)
    PROVE  p = q
BY AckUnique DEF AllAcked

-----------------------------------------------------------------------------
(* What a step leaves alone *)

OthersSame(p) ==
    \A q \in Proc \ {p} : /\ pc'[q] = pc[q]
                          /\ cur'[q] = cur[q]
                          /\ out'[q] = out[q]
                          /\ todo'[q] = todo[q]

ClientsGrow == \A c \in Client : client[c] # "new" => client'[c] # "new"

ClocksGrow == \A q \in Proc : lc[q] <= lc'[q]

(***************************************************************************)
(* What the end of a handler changes.                                      *)
(***************************************************************************)
LEMMA ReturnFacts ==
    ASSUME TypeOK, NEW p \in Proc, Return(p)
    PROVE  pc'[p] = "accept" /\ OthersSame(p) /\ ClientsGrow
<1>1. pc'[p] = "accept" /\ OthersSame(p)
  BY DEF Return, TypeOK, OthersSame
<1>2. ClientsGrow
  BY DEF Return, TypeOK, ClientsGrow
<1>3. QED
  BY <1>1, <1>2

(***************************************************************************)
(* What the start of a loop changes.                                       *)
(***************************************************************************)
LEMMA StartOutFacts ==
    ASSUME TypeOK, NEW p \in Proc, NEW op, NEW u, NEW ts, NEW D,
           StartOut(p, op, u, ts, D)
    PROVE  /\ pc'[p] = "connect"
           /\ out'[p] = [op |-> op, uid |-> u, lc |-> ts, dests |-> D]
           /\ todo'[p] = D
           /\ OthersSame(p)
           /\ ClientsGrow
<1>1. ClientsGrow
  BY DEF StartOut, ClientsGrow
<1>2. QED
  BY <1>1 DEF StartOut, TypeOK, OthersSame

(***************************************************************************)
(* What the end of a loop changes.                                         *)
(***************************************************************************)
LEMMA EndLoopFacts ==
    ASSUME TypeOK, NEW p \in Proc, EndLoop(p)
    PROVE  /\ \/ pc'[p] = "accept"
              \/ /\ pc'[p] = "write"
                 /\ out'[p] = out[p] /\ out[p].op = "READY"
                 /\ todo'[p] = {}
           /\ OthersSame(p)
           /\ ClientsGrow
<1>1. CASE out[p].op = "READY"
  <2>1. ClientsGrow
    BY <1>1 DEF EndLoop, ClientsGrow
  <2>2. QED
    BY <1>1, <2>1 DEF EndLoop, TypeOK, OthersSame
<1>2. CASE out[p].op # "READY"
  BY <1>2, ReturnFacts DEF EndLoop
<1>3. QED
  BY <1>1, <1>2

(***************************************************************************)
(* Connections stay sound while clocks and clients only advance.           *)
(***************************************************************************)
LEMMA ConnFrame ==
    ASSUME IInv, TypeOK', opened' = opened, ClientsGrow, ClocksGrow
    PROVE  ConnInv'
<1>1. SUFFICES ASSUME NEW c \in opened PROVE ConnOK(c)'
  BY DEF ConnInv
<1>2. ConnOK(c) /\ c \in Conn
  BY DEF IInv, ConnInv, TypeOK
<1>3. CASE c.op = "ISSUE"
  <2>1. c.from \in Client
    BY <1>2, <1>3 DEF Conn, PeerOp
  <2>2. QED
    BY <1>2, <1>3, <2>1 DEF ConnOK, ClientsGrow
<1>4. CASE c.op # "ISSUE"
  <2>1. c.from \in Proc /\ c.lc \in Nat
    BY <1>2, <1>4, PeerFrom
  <2>2. lc[c.from] \in Nat /\ lc'[c.from] \in Nat /\ lc[c.from] <= lc'[c.from]
    BY <2>1 DEF IInv, TypeOK, ClocksGrow
  <2>3. c.lc <= lc[c.from] => c.lc <= lc'[c.from]
    BY <2>1, <2>2
  <2>4. QED
    BY <1>2, <1>4, <2>3 DEF ConnOK
<1>5. QED
  BY <1>3, <1>4

(***************************************************************************)
(* The handlers take the connection they serve out of the inbox.           *)
(***************************************************************************)
LEMMA InboxHandled ==
    ASSUME IInv, NEW p \in Proc, pc[p] = "recv", pc'[p] # "recv",
           OthersSame(p), handled' = handled \cup {cur[p]},
           UNCHANGED <<backlog, opened>>
    PROVE  InboxInv'
<1>1. SUFFICES ASSUME NEW q \in Proc PROVE InboxOK(q)'
  BY DEF InboxInv
<1>2. InboxOK(q) /\ InboxOK(p)
  BY DEF IInv, InboxInv
<1>3. CASE q = p
  BY <1>2, <1>3 DEF InboxOK
<1>4. CASE q # p
  <2>1. cur[p].to = p
    BY <1>2 DEF InboxOK
  <2>2. pc'[q] = pc[q] /\ cur'[q] = cur[q]
    BY <1>4 DEF OthersSame
  <2>3. QED
    BY <1>2, <1>4, <2>1, <2>2 DEF InboxOK
<1>5. QED
  BY <1>3, <1>4

(***************************************************************************)
(* A step that opens and handles nothing, and after which no other thread  *)
(* is in recv(), keeps the inboxes.                                        *)
(***************************************************************************)
LEMMA InboxFrame ==
    ASSUME IInv, NEW p \in Proc, pc'[p] # "recv", OthersSame(p),
           UNCHANGED <<backlog, opened, handled>>
    PROVE  InboxInv'
<1>1. SUFFICES ASSUME NEW q \in Proc PROVE InboxOK(q)'
  BY DEF InboxInv
<1>2. InboxOK(q)
  BY DEF IInv, InboxInv
<1>3. CASE q = p
  BY <1>2, <1>3 DEF InboxOK
<1>4. CASE q # p
  BY <1>2, <1>4 DEF InboxOK, OthersSame
<1>5. QED
  BY <1>3, <1>4

(***************************************************************************)
(* What a process sends stays sound while its own state stays.             *)
(***************************************************************************)
LEMMA OutFrame ==
    ASSUME IInv, TypeOK', NEW q \in Proc, pc'[q] = pc[q], out'[q] = out[q],
           todo'[q] = todo[q], queue'[q] = queue[q], lc[q] <= lc'[q],
           opened' = opened
    PROVE  (Sending(q) => OutOK(q))'
<1>1. SUFFICES ASSUME Sending(q) PROVE OutOK(q)'
  BY DEF Sending
<1>2. OutOK(q)
  BY <1>1 DEF IInv, OutInv
<1>3. lc[q] \in Nat /\ lc'[q] \in Nat /\ out[q].lc \in Nat
  BY DEF IInv, TypeOK, Out
<1>4. out[q].lc <= lc[q] => out[q].lc <= lc'[q]
  BY <1>3
<1>5. \A d : Link(q, d)' = Link(q, d)
  BY DEF Link
<1>6. QED
  BY <1>2, <1>4, <1>5 DEF OutOK

(***************************************************************************)
(* A step that handles no BROAD preserves ClockInv.                        *)
(***************************************************************************)
LEMMA ClockFrame ==
    ASSUME IInv, TypeOK', ClocksGrow, NEW c,
           handled' = handled \/ (handled' = handled \cup {c} /\ c.op # "BROAD")
    PROVE  ClockInv'
<1>1. SUFFICES ASSUME NEW b \in handled', b.op = "BROAD" PROVE b.lc <= lc'[b.to]
  BY DEF ClockInv
<1>2. b \in handled
  BY <1>1
<1>3. b \in Conn
  BY <1>2 DEF IInv, TypeOK
<1>4. b.to \in Proc /\ b.lc \in Nat
  BY <1>1, <1>3, PeerFrom, ConnTo
<1>5. b.lc <= lc[b.to]
  BY <1>1, <1>2 DEF IInv, ClockInv
<1>6. lc[b.to] \in Nat /\ lc'[b.to] \in Nat /\ lc[b.to] <= lc'[b.to]
  BY <1>4 DEF IInv, TypeOK, ClocksGrow
<1>7. QED
  BY <1>4, <1>5, <1>6

(***************************************************************************)
(* Complete acknowledgements stay complete, and nobody starts to send a    *)
(* READY: the conjuncts about READY and the shared file are kept.          *)
(***************************************************************************)
AckedStays == \A p \in Proc : \A u : AllAcked(p, u) => AllAcked(p, u)'

(***************************************************************************)
(* A step that opens and writes nothing and starts no READY broadcast      *)
(* preserves what is known of READYs and of the shared file.               *)
(***************************************************************************)
LEMMA ReadyFrame ==
    ASSUME IInv, AckedStays, UNCHANGED <<opened, shared>>,
           \A p \in Proc : \A u : ReadyActive(p, u)' => ReadyActive(p, u)
    PROVE  ReadyInv' /\ WriteInv' /\ WrittenOnce'
<1>1. ASSUME NEW p \in Proc, ReadyActive(p, out[p].uid)'
      PROVE  AllAcked(p, out[p].uid)'
  <2>1. ReadyActive(p, out'[p].uid)
    BY <1>1 DEF ReadyActive, Sending
  <2>2. out'[p].uid = out[p].uid
    BY <2>1 DEF ReadyActive
  <2>3. AllAcked(p, out[p].uid)
    BY <2>1, <2>2 DEF IInv, ReadyInv
  <2>4. QED
    BY <2>2, <2>3 DEF AckedStays, AllAcked
<1>2. ASSUME NEW c \in opened, c.op = "READY"
      PROVE  AllAcked(c.from, c.uid)'
  <2>1. AllAcked(c.from, c.uid)
    BY <1>2 DEF IInv, ReadyInv
  <2>2. c.from \in Proc
    BY <1>2, PeerFrom DEF IInv, TypeOK
  <2>3. QED
    BY <2>1, <2>2 DEF AckedStays
<1>3. ReadyInv'
  BY <1>1, <1>2 DEF ReadyInv
<1>4. WriteInv'
  <2>1. SUFFICES ASSUME NEW i \in 1 .. Len(shared)
                 PROVE  \E p \in Proc : /\ AllAcked(p, shared[i])'
                                        /\ ~ ReadyActive(p, shared[i])'
    BY DEF WriteInv
  <2>2. PICK p \in Proc : AllAcked(p, shared[i]) /\ ~ ReadyActive(p, shared[i])
    BY DEF IInv, WriteInv
  <2>3. AllAcked(p, shared[i])' /\ ~ ReadyActive(p, shared[i])'
    <3>1. \A u : AllAcked(p, u) => AllAcked(p, u)'
      BY DEF AckedStays
    <3>2. QED
      BY <2>2, <3>1 DEF AllAcked, ReadyActive, Sending
  <2>4. QED
    BY <2>3
<1>5. WrittenOnce'
  BY DEF IInv, WrittenOnce
<1>6. QED
  BY <1>3, <1>4, <1>5

(***************************************************************************)
(* A step that only moves threads and accept queues.                       *)
(***************************************************************************)
LEMMA QuietStep ==
    ASSUME IInv, TypeOK', InboxInv', OutInv', SetsInv', ClientsGrow,
           UNCHANGED <<lc, queue, opened, handled, shared>>,
           \A p \in Proc : Sending(p)' => Sending(p) /\ out'[p] = out[p]
    PROVE  IInv'
<1>1. ConnInv'
  <2>1. ClocksGrow
    BY DEF ClocksGrow, IInv, TypeOK
  <2>2. QED
    BY <2>1, ConnFrame
<1>2. NodeInv'
  BY DEF IInv, NodeInv, NodeOK, Ackers
<1>3. ClockInv'
  BY DEF IInv, ClockInv
<1>4. AckInv'
  BY DEF IInv, AckInv, AckOK
<1>5. ReadyInv' /\ WriteInv' /\ WrittenOnce'
  <2>1. AckedStays
    BY DEF AckedStays, AllAcked
  <2>2. \A p \in Proc : \A u : ReadyActive(p, u)' => ReadyActive(p, u)
    BY DEF ReadyActive
  <2>3. QED
    BY <2>1, <2>2, ReadyFrame
<1>6. QED
  BY <1>1, <1>2, <1>3, <1>4, <1>5 DEF IInv

-----------------------------------------------------------------------------
(* Steps that only move threads and accept queues *)

(***************************************************************************)
(* The thread of p goes back to accept(), or on to write_shared().         *)
(***************************************************************************)
LEMMA LoopLeft ==
    ASSUME IInv, TypeOK', SetsInv', NEW p \in Proc, pc[p] # "recv",
           EndLoop(p), Sending(p),
           UNCHANGED <<lc, queue, backlog, opened, handled, shared>>
    PROVE  IInv'
<1>1. /\ \/ pc'[p] = "accept"
         \/ /\ pc'[p] = "write"
            /\ out'[p] = out[p] /\ out[p].op = "READY"
            /\ todo'[p] = {}
      /\ OthersSame(p)
      /\ ClientsGrow
  BY EndLoopFacts DEF IInv
<1>2. InboxInv'
  BY <1>1, InboxFrame
<1>3. OutInv'
  <2>1. SUFFICES ASSUME NEW q \in Proc PROVE (Sending(q) => OutOK(q))'
    BY DEF OutInv
  <2>2. CASE q # p
    <3>1. lc[q] <= lc'[q]
      BY DEF IInv, TypeOK
    <3>2. QED
      BY <1>1, <2>2, <3>1, OutFrame DEF OthersSame
  <2>3. CASE q = p /\ pc'[p] = "accept"
    BY <2>3 DEF Sending
  <2>4. CASE q = p /\ pc'[p] = "write"
    <3>1. OutOK(p)
      BY DEF IInv, OutInv
    <3>2. QED
      BY <1>1, <2>4, <3>1 DEF OutOK
  <2>5. QED
    BY <1>1, <2>2, <2>3, <2>4
<1>4. \A q \in Proc : Sending(q)' => Sending(q) /\ out'[q] = out[q]
  BY <1>1 DEF Sending, OthersSame
<1>5. QED
  BY <1>1, <1>2, <1>3, <1>4, QuietStep

(***************************************************************************)
(* The thread of p goes back to accept().                                  *)
(***************************************************************************)
LEMMA Returned ==
    ASSUME IInv, TypeOK', SetsInv', NEW p \in Proc, Return(p),
           UNCHANGED <<lc, queue, backlog, opened, handled, shared>>
    PROVE  IInv'
<1>1. pc'[p] = "accept" /\ OthersSame(p) /\ ClientsGrow
  BY ReturnFacts DEF IInv
<1>2. InboxInv'
  BY <1>1, InboxFrame
<1>3. OutInv'
  <2>1. SUFFICES ASSUME NEW q \in Proc PROVE (Sending(q) => OutOK(q))'
    BY DEF OutInv
  <2>2. CASE q # p
    <3>1. lc[q] <= lc'[q]
      BY DEF IInv, TypeOK
    <3>2. QED
      BY <1>1, <2>2, <3>1, OutFrame DEF OthersSame
  <2>3. CASE q = p
    BY <1>1, <2>3 DEF Sending
  <2>4. QED
    BY <2>2, <2>3
<1>4. \A q \in Proc : Sending(q)' => Sending(q) /\ out'[q] = out[q]
  BY <1>1 DEF Sending, OthersSame
<1>5. QED
  BY <1>1, <1>2, <1>3, <1>4, QuietStep

(***************************************************************************)
(* ClientRefused preserves IInv.                                           *)
(***************************************************************************)
LEMMA ClientRefusedInv ==
    ASSUME IInv, TypeOK', NEW c \in Client, NEW p \in Proc, ClientRefused(c, p)
    PROVE  IInv'
<1>1. ClientsGrow
  BY DEF ClientRefused, ClientsGrow, IInv, TypeOK
<1>2. InboxInv' /\ SetsInv'
  BY DEF IInv, ClientRefused, InboxInv, InboxOK, SetsInv
<1>3. OutInv'
  <2>1. SUFFICES ASSUME NEW q \in Proc PROVE (Sending(q) => OutOK(q))'
    BY DEF OutInv
  <2>2. lc[q] <= lc'[q]
    BY DEF IInv, TypeOK, ClientRefused
  <2>3. QED
    BY <2>2, OutFrame DEF ClientRefused
<1>4. QED
  BY <1>1, <1>2, <1>3, QuietStep DEF ClientRefused, Sending

(***************************************************************************)
(* Listen preserves IInv: the process has neither read nor sent anything.  *)
(***************************************************************************)
LEMMA ListenInv ==
    ASSUME IInv, TypeOK', NEW p \in Proc, Listen(p)
    PROVE  IInv'
<1>1. pc'[p] = "accept" /\ \A q \in Proc \ {p} : pc'[q] = pc[q]
  BY DEF Listen, IInv, TypeOK
<1>2. UNCHANGED <<lc, queue, backlog, cur, out, todo, sent, shared, client,
                  opened, handled>>
  BY DEF Listen
<1>3. OthersSame(p) /\ ClientsGrow /\ SetsInv'
  BY <1>1, <1>2 DEF OthersSame, ClientsGrow, SetsInv, IInv
<1>4. InboxInv'
  BY <1>1, <1>2, <1>3, InboxFrame
<1>5. OutInv'
  <2>1. SUFFICES ASSUME NEW q \in Proc PROVE (Sending(q) => OutOK(q))'
    BY DEF OutInv
  <2>2. CASE q # p
    <3>1. lc[q] <= lc'[q]
      BY <1>2 DEF IInv, TypeOK
    <3>2. QED
      BY <1>1, <1>2, <2>2, <3>1, OutFrame
  <2>3. CASE q = p
    BY <1>1, <2>3 DEF Sending
  <2>4. QED
    BY <2>2, <2>3
<1>6. \A q \in Proc : Sending(q)' => Sending(q) /\ out'[q] = out[q]
  BY <1>1, <1>2 DEF Sending
<1>7. QED
  BY <1>2, <1>3, <1>4, <1>5, <1>6, QuietStep

(***************************************************************************)
(* Accept preserves IInv.                                                  *)
(***************************************************************************)
LEMMA AcceptInv ==
    ASSUME IInv, TypeOK', NEW p \in Proc, Accept(p)
    PROVE  IInv'
<1>1. /\ pc'[p] = "recv"
      /\ cur'[p] = Head(backlog[p])
      /\ backlog'[p] = Tail(backlog[p])
      /\ backlog[p] \in Seq(Conn)
      /\ backlog[p] # <<>>
  BY DEF Accept, IInv, TypeOK
<1>2. \A q \in Proc \ {p} : /\ backlog'[q] = backlog[q]
                            /\ pc'[q] = pc[q]
                            /\ cur'[q] = cur[q]
  BY DEF Accept, IInv, TypeOK
<1>3. InboxInv'
  <2>1. SUFFICES ASSUME NEW q \in Proc PROVE InboxOK(q)'
    BY DEF InboxInv
  <2>2. InboxOK(q)
    BY DEF IInv, InboxInv
  <2>3. CASE q # p
    BY <1>2, <2>2, <2>3 DEF InboxOK, Accept
  <2>4. CASE q = p
    <3>1. 1 \in 1 .. Len(backlog[p]) /\ cur'[p] = backlog[p][1]
      BY <1>1
    <3>2. /\ Len(backlog'[p]) = Len(backlog[p]) - 1
          /\ \A i \in 1 .. Len(backlog'[p]) :
                /\ i + 1 \in 1 .. Len(backlog[p])
                /\ backlog'[p][i] = backlog[p][i + 1]
      BY <1>1
    <3>3. UNCHANGED <<opened, handled>>
      BY DEF Accept
    <3>4. cur'[p] \in opened /\ cur'[p] \notin handled /\ cur'[p].to = p
      BY <2>2, <2>4, <3>1 DEF InboxOK
    <3>5. \A i \in 1 .. Len(backlog'[p]) :
              /\ backlog'[p][i] \in opened
              /\ backlog'[p][i] \notin handled
              /\ backlog'[p][i].to = p
      BY <2>2, <2>4, <3>2 DEF InboxOK
    <3>6. \A i \in 1 .. Len(backlog'[p]) : backlog'[p][i] # cur'[p]
      <4>1. \A i \in 1 .. Len(backlog'[p]) : i + 1 # 1
        OBVIOUS
      <4>2. QED
        BY <2>2, <2>4, <3>1, <3>2, <4>1 DEF InboxOK
    <3>7. \A i, j \in 1 .. Len(backlog'[p]) :
              backlog'[p][i] = backlog'[p][j] => i = j
      <4>1. SUFFICES ASSUME NEW i \in 1 .. Len(backlog'[p]),
                            NEW j \in 1 .. Len(backlog'[p]),
                            backlog'[p][i] = backlog'[p][j]
                     PROVE  i = j
        OBVIOUS
      <4>2. i + 1 = j + 1
        BY <2>2, <2>4, <3>2, <4>1 DEF InboxOK
      <4>3. QED
        BY <4>2
    <3>8. QED
      BY <2>4, <3>3, <3>4, <3>5, <3>6, <3>7 DEF InboxOK
  <2>5. QED
    BY <2>3, <2>4
<1>4. OutInv'
  <2>1. SUFFICES ASSUME NEW q \in Proc PROVE (Sending(q) => OutOK(q))'
    BY DEF OutInv
  <2>2. CASE q # p
    <3>1. lc[q] <= lc'[q]
      BY DEF IInv, TypeOK, Accept
    <3>2. QED
      BY <1>2, <2>2, <3>1, OutFrame DEF Accept
  <2>3. CASE q = p
    BY <1>1, <2>3 DEF Sending
  <2>4. QED
    BY <2>2, <2>3
<1>5. \A q \in Proc : Sending(q)' => Sending(q) /\ out'[q] = out[q]
  BY <1>1, <1>2 DEF Sending, Accept
<1>6. ClientsGrow /\ SetsInv'
  BY DEF ClientsGrow, Accept, SetsInv, IInv
<1>7. QED
  BY <1>3, <1>4, <1>5, <1>6, QuietStep DEF Accept

(***************************************************************************)
(* RecvEof preserves IInv.                                                 *)
(***************************************************************************)
LEMMA RecvEofInv ==
    ASSUME IInv, TypeOK', NEW p \in Proc, RecvEof(p)
    PROVE  IInv'
<1>1. SetsInv'
  BY DEF RecvEof, SetsInv, IInv
<1>2. QED
  BY <1>1, Returned DEF RecvEof

(***************************************************************************)
(* ConnectFail preserves IInv.                                             *)
(***************************************************************************)
LEMMA ConnectFailInv ==
    ASSUME IInv, TypeOK', NEW p \in Proc, ConnectFail(p)
    PROVE  IInv'
<1>1. SetsInv'
  BY DEF ConnectFail, SetsInv, IInv
<1>2. QED
  BY <1>1, LoopLeft DEF ConnectFail, Sending

(***************************************************************************)
(* SendFail preserves IInv.                                                *)
(***************************************************************************)
LEMMA SendFailInv ==
    ASSUME IInv, TypeOK', NEW p \in Proc, SendFail(p)
    PROVE  IInv'
<1>1. SetsInv'
  BY DEF SendFail, SetsInv, IInv
<1>2. QED
  BY <1>1, Returned DEF SendFail

(***************************************************************************)
(* Send preserves IInv.                                                    *)
(***************************************************************************)
LEMMA SendInv ==
    ASSUME IInv, TypeOK', NEW p \in Proc, Send(p)
    PROVE  IInv'
<1>1. PICK d \in todo[p] :
         /\ sent' = sent \cup {Link(p, d)}
         /\ IF todo[p] = {d}
            THEN EndLoop(p)
            ELSE /\ todo' = [todo EXCEPT ![p] = @ \ {d}]
                 /\ UNCHANGED <<pc, cur, out, client>>
  BY DEF Send
<1>2. pc[p] = "send" /\ Sending(p) /\ OutOK(p)
  BY DEF Send, Sending, IInv, OutInv
<1>3. SetsInv'
  <2>1. Link(p, d) \in opened
    BY <1>2 DEF OutOK
  <2>2. QED
    BY <1>1, <2>1 DEF Send, SetsInv, IInv
<1>4. CASE todo[p] = {d}
  BY <1>1, <1>2, <1>3, <1>4, LoopLeft DEF Send
<1>5. CASE todo[p] # {d}
  <2>1. UNCHANGED <<pc, cur, out, client, lc, queue, backlog, opened, handled,
                    shared>>
    BY <1>1, <1>5 DEF Send
  <2>2. todo' = [todo EXCEPT ![p] = @ \ {d}]
    BY <1>1, <1>5
  <2>3. OthersSame(p) /\ ClientsGrow
    BY <2>1, <2>2 DEF OthersSame, ClientsGrow, IInv, TypeOK
  <2>4. InboxInv'
    BY <1>2, <2>1, <2>3, InboxFrame
  <2>5. OutInv'
    <3>1. SUFFICES ASSUME NEW q \in Proc PROVE (Sending(q) => OutOK(q))'
      BY DEF OutInv
    <3>2. CASE q # p
      <4>1. lc[q] <= lc'[q]
        BY <2>1 DEF IInv, TypeOK
      <4>2. QED
        BY <2>1, <2>3, <3>2, <4>1, OutFrame DEF OthersSame
    <3>3. CASE q = p
      <4>1. todo'[p] = todo[p] \ {d}
        BY <2>2 DEF IInv, TypeOK
      <4>2. \A e : Link(p, e)' = Link(p, e)
        BY <2>1 DEF Link
      <4>3. OutOK(p)'
        BY <1>2, <2>1, <4>1, <4>2 DEF OutOK
      <4>4. QED
        BY <3>3, <4>3
    <3>4. QED
      BY <3>2, <3>3
  <2>6. \A q \in Proc : Sending(q)' => Sending(q) /\ out'[q] = out[q]
    BY <2>1 DEF Sending
  <2>7. QED
    BY <1>3, <2>1, <2>3, <2>4, <2>5, <2>6, QuietStep
<1>6. QED
  BY <1>4, <1>5

(***************************************************************************)
(* Crash preserves IInv.                                                   *)
(***************************************************************************)
LEMMA CrashInv ==
    ASSUME IInv, TypeOK', NEW p \in Proc, Crash(p)
    PROVE  IInv'
<1>1. pc'[p] = "accept" /\ backlog'[p] = <<>>
  BY DEF Crash, IInv, TypeOK
<1>2. OthersSame(p) /\ \A q \in Proc \ {p} : backlog'[q] = backlog[q]
  BY DEF Crash, IInv, TypeOK, OthersSame
<1>3. InboxInv'
  <2>1. SUFFICES ASSUME NEW q \in Proc PROVE InboxOK(q)'
    BY DEF InboxInv
  <2>2. CASE q # p
    <3>1. InboxOK(q)
      BY DEF IInv, InboxInv
    <3>2. QED
      BY <1>2, <2>2, <3>1 DEF InboxOK, Crash, OthersSame
  <2>3. CASE q = p
    <3>1. Len(backlog'[p]) = 0
      BY <1>1
    <3>2. \A i : i \notin 1 .. Len(backlog'[p])
      BY <3>1
    <3>3. QED
      BY <1>1, <2>3, <3>2 DEF InboxOK
  <2>4. QED
    BY <2>2, <2>3
<1>4. OutInv'
  <2>1. SUFFICES ASSUME NEW q \in Proc PROVE (Sending(q) => OutOK(q))'
    BY DEF OutInv
  <2>2. CASE q # p
    <3>1. lc[q] <= lc'[q]
      BY DEF IInv, TypeOK, Crash
    <3>2. QED
      BY <1>2, <2>2, <3>1, OutFrame DEF Crash, OthersSame
  <2>3. CASE q = p
    BY <1>1, <2>3 DEF Sending
  <2>4. QED
    BY <2>2, <2>3
<1>5. \A q \in Proc : Sending(q)' => Sending(q) /\ out'[q] = out[q]
  BY <1>1, <1>2 DEF Sending, OthersSame
<1>6. ClientsGrow /\ SetsInv'
  BY DEF ClientsGrow, Crash, SetsInv, IInv
<1>7. QED
  BY <1>3, <1>4, <1>5, <1>6, QuietStep DEF Crash

-----------------------------------------------------------------------------
(* The write to the shared file, and the steps that open connections *)

(***************************************************************************)
(* write_shared() preserves IInv.                                          *)
(***************************************************************************)
LEMMA WriteSharedInv ==
    ASSUME IInv, TypeOK', NEW p \in Proc, write_shared(p)
    PROVE  IInv'
<1> DEFINE u == out[p].uid
<1>1. pc[p] = "write" /\ Sending(p) /\ OutOK(p)
  BY DEF write_shared, Sending, IInv, OutInv
<1>2. ReadyActive(p, u) /\ AllAcked(p, u)
  BY <1>1 DEF ReadyActive, OutOK, IInv, ReadyInv
<1>3. pc'[p] = "accept" /\ OthersSame(p) /\ ClientsGrow
  BY ReturnFacts DEF IInv, write_shared
<1>4. UNCHANGED <<lc, queue, backlog, sent, closed, up, opened, handled>>
  BY DEF write_shared
<1>5. SetsInv' /\ ClockInv' /\ NodeInv' /\ AckInv'
  BY <1>4 DEF IInv, SetsInv, ClockInv, NodeInv, NodeOK, Ackers, AckInv, AckOK
<1>6. ClocksGrow
  BY <1>4 DEF ClocksGrow, IInv, TypeOK
<1>7. ConnInv'
  BY <1>3, <1>4, <1>6, ConnFrame
<1>8. InboxInv'
  BY <1>3, <1>4, InboxFrame
<1>9. OutInv'
  <2>1. SUFFICES ASSUME NEW q \in Proc PROVE (Sending(q) => OutOK(q))'
    BY DEF OutInv
  <2>2. CASE q # p
    BY <1>3, <1>4, <1>6, <2>2, OutFrame DEF OthersSame, ClocksGrow
  <2>3. CASE q = p
    BY <1>3, <2>3 DEF Sending
  <2>4. QED
    BY <2>2, <2>3
<1>10. ReadyInv'
  BY <1>3, <1>4 DEF IInv, ReadyInv, ReadyActive, Sending, AllAcked, OthersSame
<1>11. /\ Len(shared') = Len(shared) + 1
       /\ shared'[Len(shared) + 1] = u
       /\ \A i \in 1 .. Len(shared) : shared'[i] = shared[i]
       /\ Len(shared) \in Nat
  BY DEF write_shared, IInv, TypeOK
<1>12. WriteInv'
  <2>1. SUFFICES ASSUME NEW i \in 1 .. Len(shared')
                 PROVE  \E q \in Proc : /\ AllAcked(q, shared[i])'
                                        /\ ~ ReadyActive(q, shared[i])'
    BY DEF WriteInv
  <2>2. CASE i \in 1 .. Len(shared)
    <3>1. PICK q \in Proc : AllAcked(q, shared[i]) /\ ~ ReadyActive(q, shared[i])
      BY <2>2 DEF IInv, WriteInv
    <3>2. AllAcked(q, shared[i])' /\ ~ ReadyActive(q, shared[i])'
      <4>1. shared'[i] = shared[i]
        BY <1>11, <2>2
      <4>2. AllAcked(q, shared[i])'
        BY <1>4, <3>1, <4>1 DEF AllAcked
      <4>3. ~ ReadyActive(q, shared[i])'
        BY <1>3, <3>1, <4>1 DEF ReadyActive, Sending, OthersSame
      <4>4. QED
        BY <4>2, <4>3
    <3>3. QED
      BY <3>2
  <2>3. CASE i = Len(shared) + 1
    <3>1. shared'[i] = u
      BY <1>11, <2>3
    <3>2. AllAcked(p, shared[i])' /\ ~ ReadyActive(p, shared[i])'
      BY <1>2, <1>3, <1>4, <3>1 DEF AllAcked, ReadyActive, Sending
    <3>3. QED
      BY <3>2
  <2>4. QED
    BY <1>11, <2>2, <2>3
<1>13. \A i \in 1 .. Len(shared) : shared[i] # u
  <2>1. SUFFICES ASSUME NEW i \in 1 .. Len(shared), shared[i] = u PROVE FALSE
    OBVIOUS
  <2>2. PICK q \in Proc : AllAcked(q, u) /\ ~ ReadyActive(q, u)
    BY <2>1 DEF IInv, WriteInv
  <2>3. q = p
    BY <1>2, <2>2, AllAckedUnique
  <2>4. QED
    BY <1>2, <2>2, <2>3
<1>14. WrittenOnce'
  <2>1. SUFFICES ASSUME NEW i \in 1 .. Len(shared'), NEW j \in 1 .. Len(shared'),
                        shared'[i] = shared'[j]
                 PROVE  i = j
    BY DEF WrittenOnce
  <2>2. CASE i \in 1 .. Len(shared) /\ j \in 1 .. Len(shared)
    BY <1>11, <2>1, <2>2 DEF IInv, WrittenOnce
  <2>3. CASE i = Len(shared) + 1 /\ j \in 1 .. Len(shared)
    BY <1>11, <1>13, <2>1, <2>3
  <2>4. CASE i \in 1 .. Len(shared) /\ j = Len(shared) + 1
    BY <1>11, <1>13, <2>1, <2>4
  <2>5. QED
    BY <1>11, <2>2, <2>3, <2>4
<1>15. QED
  BY <1>5, <1>7, <1>8, <1>9, <1>10, <1>12, <1>14 DEF IInv

(***************************************************************************)
(* A new connection goes to the end of the accept queue of d.              *)
(***************************************************************************)
LEMMA InboxOpened ==
    ASSUME IInv, NEW d \in Proc, NEW k \in Conn, k.to = d, k \notin opened,
           backlog' = [backlog EXCEPT ![d] = Append(@, k)],
           opened' = opened \cup {k}, handled' = handled,
           \A q \in Proc : pc'[q] = "recv" => pc[q] = "recv" /\ cur'[q] = cur[q]
    PROVE  InboxInv'
<1>1. SUFFICES ASSUME NEW q \in Proc PROVE InboxOK(q)'
  BY DEF InboxInv
<1>2. InboxOK(q)
  BY DEF IInv, InboxInv
<1>3. CASE q # d
  <2>1. backlog'[q] = backlog[q]
    BY <1>3 DEF IInv, TypeOK
  <2>2. opened \subseteq opened' /\ handled' = handled
    OBVIOUS
  <2>3. pc'[q] = "recv" => pc[q] = "recv" /\ cur'[q] = cur[q]
    OBVIOUS
  <2>4. \A i \in 1 .. Len(backlog'[q]) :
            /\ backlog'[q][i] \in opened'
            /\ backlog'[q][i] \notin handled'
            /\ backlog'[q][i].to = q
            /\ pc'[q] = "recv" => backlog'[q][i] # cur'[q]
    BY <1>2, <2>1, <2>2, <2>3 DEF InboxOK
  <2>5. pc'[q] = "recv" => /\ cur'[q] \in opened'
                           /\ cur'[q] \notin handled'
                           /\ cur'[q].to = q
    BY <1>2, <2>2, <2>3 DEF InboxOK
  <2>6. \A i, j \in 1 .. Len(backlog'[q]) :
            backlog'[q][i] = backlog'[q][j] => i = j
    BY <1>2, <2>1 DEF InboxOK
  <2>7. QED
    BY <2>4, <2>5, <2>6 DEF InboxOK
<1>4. CASE q = d
  <2>1. /\ Len(backlog'[d]) = Len(backlog[d]) + 1
        /\ backlog'[d][Len(backlog[d]) + 1] = k
        /\ \A i \in 1 .. Len(backlog[d]) : backlog'[d][i] = backlog[d][i]
        /\ Len(backlog[d]) \in Nat
    BY DEF IInv, TypeOK
  <2>2. k \notin handled
    BY HandledOpened
  <2>3. \A i \in 1 .. Len(backlog[d]) : backlog[d][i] # k
    BY <1>2, <1>4 DEF InboxOK
  <2>4. \A i \in 1 .. Len(backlog'[d]) :
            i \in 1 .. Len(backlog[d]) \/ i = Len(backlog[d]) + 1
    BY <2>1
  <2>5. \A i \in 1 .. Len(backlog'[d]) :
            /\ backlog'[d][i] \in opened'
            /\ backlog'[d][i] \notin handled'
            /\ backlog'[d][i].to = d
            /\ pc'[d] = "recv" => backlog'[d][i] # cur'[d]
    <3>1. SUFFICES ASSUME NEW i \in 1 .. Len(backlog'[d])
                   PROVE  /\ backlog'[d][i] \in opened'
                          /\ backlog'[d][i] \notin handled'
                          /\ backlog'[d][i].to = d
                          /\ pc'[d] = "recv" => backlog'[d][i] # cur'[d]
      OBVIOUS
    <3>2. CASE i \in 1 .. Len(backlog[d])
      BY <1>2, <1>4, <2>1, <3>2 DEF InboxOK
    <3>3. CASE i = Len(backlog[d]) + 1
      BY <1>2, <1>4, <2>1, <2>2, <3>3 DEF InboxOK
    <3>4. QED
      BY <2>4, <3>2, <3>3
  <2>6. \A i, j \in 1 .. Len(backlog'[d]) :
            backlog'[d][i] = backlog'[d][j] => i = j
    <3>1. SUFFICES ASSUME NEW i \in 1 .. Len(backlog'[d]),
                          NEW j \in 1 .. Len(backlog'[d]),
                          backlog'[d][i] = backlog'[d][j]
                   PROVE  i = j
      OBVIOUS
    <3>2. CASE i \in 1 .. Len(backlog[d]) /\ j \in 1 .. Len(backlog[d])
      BY <1>2, <1>4, <2>1, <3>1, <3>2 DEF InboxOK
    <3>3. QED
      BY <2>1, <2>3, <2>4, <3>1, <3>2
  <2>7. pc'[d] = "recv" => /\ cur'[d] \in opened'
                           /\ cur'[d] \notin handled'
                           /\ cur'[d].to = d
    BY <1>2, <1>4 DEF InboxOK
  <2>8. QED
    BY <1>4, <2>5, <2>6, <2>7 DEF InboxOK
<1>5. QED
  BY <1>3, <1>4

(***************************************************************************)
(* The conjuncts about nodes and READY do not mind a new connection that   *)
(* is neither an acknowledgement nor a READY, or that satisfies them.      *)
(***************************************************************************)
LEMMA OpenedFrame ==
    ASSUME IInv, NEW k \in Conn, opened' = opened \cup {k},
           UNCHANGED <<lc, queue, handled, shared>>,
           k.op = "ACK00" => AckOK(k.from, k.to, k.uid),
           k.op = "READY" => AllAcked(k.from, k.uid),
           \A p \in Proc : Sending(p)' <=> Sending(p),
           \A p \in Proc : out'[p] = out[p]
    PROVE  NodeInv' /\ ClockInv' /\ AckInv' /\ ReadyInv' /\ WriteInv'
           /\ WrittenOnce'
<1>1. NodeInv' /\ ClockInv' /\ WrittenOnce'
  BY DEF IInv, NodeInv, NodeOK, Ackers, ClockInv, WrittenOnce
<1>2. AckInv'
  <2>1. SUFFICES ASSUME NEW a \in opened', a.op = "ACK00"
                 PROVE  AckOK(a.from, a.to, a.uid)'
    BY DEF AckInv
  <2>2. AckOK(a.from, a.to, a.uid)
    BY <2>1 DEF IInv, AckInv
  <2>3. QED
    BY <2>2 DEF AckOK
<1>3. \A p \in Proc : \A u : AllAcked(p, u) => AllAcked(p, u)'
  BY DEF AllAcked
<1>4. \A p \in Proc : \A u : ReadyActive(p, u)' <=> ReadyActive(p, u)
  BY DEF ReadyActive
<1>5. ReadyInv'
  <2>1. ASSUME NEW p \in Proc, ReadyActive(p, out[p].uid)'
        PROVE  AllAcked(p, out[p].uid)'
    <3>1. out'[p] = out[p] /\ ReadyActive(p, out[p].uid)
      BY <2>1 DEF ReadyActive
    <3>2. AllAcked(p, out[p].uid)
      BY <3>1 DEF IInv, ReadyInv
    <3>3. QED
      BY <3>1, <3>2 DEF AllAcked
  <2>2. ASSUME NEW c \in opened', c.op = "READY"
        PROVE  AllAcked(c.from, c.uid)'
    <3>1. AllAcked(c.from, c.uid)
      BY <2>2 DEF IInv, ReadyInv
    <3>2. QED
      BY <3>1 DEF AllAcked
  <2>3. QED
    BY <2>1, <2>2 DEF ReadyInv
<1>6. WriteInv'
  <2>1. SUFFICES ASSUME NEW i \in 1 .. Len(shared)
                 PROVE  \E p \in Proc : /\ AllAcked(p, shared[i])'
                                        /\ ~ ReadyActive(p, shared[i])'
    BY DEF WriteInv
  <2>2. PICK p \in Proc : AllAcked(p, shared[i]) /\ ~ ReadyActive(p, shared[i])
    BY DEF IInv, WriteInv
  <2>3. AllAcked(p, shared[i])'
    BY <2>2 DEF AllAcked
  <2>4. ~ ReadyActive(p, shared[i])'
    BY <2>2 DEF ReadyActive
  <2>5. QED
    BY <2>3, <2>4
<1>7. QED
  BY <1>1, <1>2, <1>5, <1>6

(***************************************************************************)
(* ClientIssue preserves IInv.                                             *)
(***************************************************************************)
LEMMA ClientIssueInv ==
    ASSUME IInv, TypeOK', NEW c \in Client, NEW p \in Proc, ClientIssue(c, p)
    PROVE  IInv'
<1> DEFINE k == IssueConn(c, p)
<1>1. k \in Conn /\ k.op = "ISSUE" /\ k.from = c /\ k.to = p
  BY DEF IssueConn, Conn
<1>2. k \notin opened
  BY <1>1 DEF ClientIssue, IInv, ConnInv, ConnOK
<1>3. /\ opened' = opened \cup {k}
      /\ sent' = sent \cup {k}
      /\ backlog' = [backlog EXCEPT ![p] = Append(@, k)]
      /\ UNCHANGED <<lc, queue, tail, pc, cur, out, todo, closed, shared, up,
                     handled>>
  BY DEF ClientIssue
<1>4. client'[c] = "sent" /\ ClientsGrow
  BY DEF ClientIssue, IInv, TypeOK, ClientsGrow
<1>5. ConnInv'
  <2>1. SUFFICES ASSUME NEW e \in opened' PROVE ConnOK(e)'
    BY DEF ConnInv
  <2>2. CASE e = k
    <3>1. e.op = "ISSUE" /\ e.from = c
      BY <1>1, <2>2
    <3>2. QED
      BY <1>4, <3>1 DEF ConnOK
  <2>3. CASE e \in opened
    <3>1. e \in Conn /\ ConnOK(e)
      BY <2>3 DEF IInv, TypeOK, ConnInv
    <3>2. e.op = "ISSUE" => e.from \in Client
      BY <3>1 DEF Conn, PeerOp
    <3>3. QED
      BY <1>3, <1>4, <3>1, <3>2 DEF ConnOK, ClientsGrow
  <2>4. QED
    BY <1>3, <2>2, <2>3
<1>6. SetsInv'
  BY <1>3 DEF IInv, SetsInv
<1>7. InboxInv'
  BY <1>1, <1>2, <1>3, InboxOpened
<1>8. OutInv'
  <2>1. SUFFICES ASSUME NEW q \in Proc, Sending(q)' PROVE OutOK(q)'
    BY DEF OutInv
  <2>2. OutOK(q)
    BY <1>3, <2>1 DEF IInv, OutInv, Sending
  <2>3. \A d : Link(q, d)' = Link(q, d)
    BY <1>3 DEF Link
  <2>4. \A d : Link(q, d) # k
    <3>1. \A d : Link(q, d).op = out[q].op
      BY DEF Link
    <3>2. QED
      BY <1>1, <2>2, <3>1 DEF OutOK
  <2>5. QED
    BY <1>3, <2>2, <2>3, <2>4 DEF OutOK
<1>9. NodeInv' /\ ClockInv' /\ AckInv' /\ ReadyInv' /\ WriteInv' /\ WrittenOnce'
  BY <1>1, <1>3, OpenedFrame DEF Sending
<1>10. QED
  BY <1>5, <1>6, <1>7, <1>8, <1>9 DEF IInv

(***************************************************************************)
(* Connect preserves IInv.                                                 *)
(***************************************************************************)
LEMMA ConnectInv ==
    ASSUME IInv, TypeOK', NEW p \in Proc, Connect(p)
    PROVE  IInv'
<1>1. PICK d \in todo[p] :
         /\ backlog' = [backlog EXCEPT ![d] = Append(@, Link(p, d))]
         /\ opened' = opened \cup {Link(p, d)}
         /\ IF todo[p] = {d}
            THEN /\ pc' = [pc EXCEPT ![p] = "send"]
                 /\ todo' = [todo EXCEPT ![p] = out[p].dests]
            ELSE /\ pc' = pc
                 /\ todo' = [todo EXCEPT ![p] = @ \ {d}]
  BY DEF Connect
<1> DEFINE k == Link(p, d)
<1>2. UNCHANGED <<lc, queue, tail, cur, out, sent, closed, shared, client, up,
                  handled>>
  BY DEF Connect
<1>3. pc[p] = "connect" /\ Sending(p) /\ OutOK(p)
  BY DEF Connect, Sending, IInv, OutInv
<1>4. d \in Proc /\ d \in out[p].dests /\ k \notin opened
  BY <1>3 DEF OutOK, IInv, TypeOK
<1>5. /\ k \in Conn
      /\ k.op = out[p].op /\ k.from = p /\ k.to = d
      /\ k.uid = out[p].uid /\ k.lc = out[p].lc
  BY <1>4, LinkType DEF Link, IInv
<1>6. /\ pc'[p] \in {"connect", "send"}
      /\ todo'[p] \subseteq out[p].dests
      /\ pc'[p] = "connect" => todo'[p] = todo[p] \ {d}
      /\ pc'[p] = "send" => todo[p] = {d}
      /\ OthersSame(p)
  <2>1. CASE todo[p] = {d}
    <3>1. /\ pc' = [pc EXCEPT ![p] = "send"]
          /\ todo' = [todo EXCEPT ![p] = out[p].dests]
      BY <1>1, <2>1
    <3>2. QED
      BY <1>2, <2>1, <3>1 DEF OthersSame, IInv, TypeOK
  <2>2. CASE todo[p] # {d}
    <3>1. pc' = pc /\ todo' = [todo EXCEPT ![p] = @ \ {d}]
      BY <1>1, <2>2
    <3>2. todo'[p] = todo[p] \ {d} /\ pc'[p] = "connect"
      BY <1>3, <3>1 DEF IInv, TypeOK
    <3>3. OthersSame(p)
      BY <1>2, <3>1 DEF OthersSame, IInv, TypeOK
    <3>4. todo'[p] \subseteq out[p].dests
      BY <1>3, <3>2 DEF OutOK
    <3>5. QED
      BY <3>2, <3>3, <3>4
  <2>3. QED
    BY <2>1, <2>2
<1>7. ConnInv'
  <2>1. SUFFICES ASSUME NEW e \in opened' PROVE ConnOK(e)'
    BY DEF ConnInv
  <2>2. CASE e \in opened
    BY <1>2, <2>2 DEF IInv, ConnInv, ConnOK
  <2>3. CASE e = k
    BY <1>2, <1>3, <1>5, <2>3 DEF OutOK, ConnOK
  <2>4. QED
    BY <1>1, <2>2, <2>3
<1>8. SetsInv'
  BY <1>1, <1>2 DEF IInv, SetsInv
<1>9. InboxInv'
  <2>1. \A q \in Proc : pc'[q] = "recv" => pc[q] = "recv" /\ cur'[q] = cur[q]
    BY <1>2, <1>6 DEF OthersSame
  <2>2. QED
    BY <1>1, <1>2, <1>4, <1>5, <2>1, InboxOpened
<1>10. OutInv'
  <2>1. SUFFICES ASSUME NEW q \in Proc, Sending(q)' PROVE OutOK(q)'
    BY DEF OutInv
  <2>2. \A e : Link(q, e)' = Link(q, e)
    BY <1>2 DEF Link
  <2>3. \A e : Link(q, e).from = q /\ Link(q, e).to = e
    BY DEF Link
  <2>4. CASE q # p
    <3>1. pc'[q] = pc[q] /\ todo'[q] = todo[q]
      BY <1>6, <2>4 DEF OthersSame
    <3>2. OutOK(q)
      BY <2>1, <3>1 DEF IInv, OutInv, Sending
    <3>3. \A e : Link(q, e) # k
      BY <1>5, <2>3, <2>4
    <3>4. QED
      BY <1>1, <1>2, <2>2, <3>1, <3>2, <3>3 DEF OutOK
  <2>5. CASE q = p
    <3>1. ASSUME pc'[p] = "connect"
          PROVE  /\ \A e \in todo'[p] : Link(p, e) \notin opened'
                 /\ \A e \in out[p].dests \ todo'[p] : Link(p, e) \in opened'
      <4>1. todo'[p] = todo[p] \ {d}
        BY <1>6, <3>1
      <4>2. \A e \in todo'[p] : Link(p, e) # k
        BY <2>3, <2>5, <4>1
      <4>3. QED
        BY <1>1, <1>3, <4>1, <4>2 DEF OutOK
    <3>2. ASSUME pc'[p] = "send"
          PROVE  \A e \in out[p].dests : Link(p, e) \in opened'
      BY <1>1, <1>3, <1>6, <3>2 DEF OutOK
    <3>3. QED
      BY <1>2, <1>3, <1>6, <2>2, <2>5, <3>1, <3>2 DEF OutOK
  <2>6. QED
    BY <2>4, <2>5
<1>11. k.op = "ACK00" => AckOK(k.from, k.to, k.uid)
  <2>1. SUFFICES ASSUME out[p].op = "ACK00" PROVE AckOK(p, d, out[p].uid)
    BY <1>5
  <2>2. PICK n \in queue[p] : /\ n.uid = out[p].uid
                              /\ n.ack_flg = 1
                              /\ out[p].dests = {n.port}
    BY <1>3, <2>1 DEF OutOK
  <2>3. n.port = d
    BY <1>4, <2>2
  <2>4. BroadConn(d, p, out[p].uid, n.lc) \in handled
    BY <2>2, <2>3 DEF IInv, NodeInv, NodeOK
  <2>5. n.lc \in 1 .. LCBound - 1
    BY <2>4, BroadIssued, HandledOpened DEF IssuedAt
  <2>6. \A m \in queue[p] : m.uid = out[p].uid => m = n
    BY <2>2 DEF IInv, NodeInv
  <2>7. QED
    BY <2>2, <2>4, <2>5, <2>6 DEF AckOK
<1>12. k.op = "READY" => AllAcked(k.from, k.uid)
  BY <1>3, <1>5 DEF IInv, ReadyInv, ReadyActive
<1>13. NodeInv' /\ ClockInv' /\ AckInv' /\ ReadyInv' /\ WriteInv' /\ WrittenOnce'
  <2>1. \A q \in Proc : Sending(q)' <=> Sending(q)
    BY <1>3, <1>6 DEF Sending, OthersSame
  <2>2. QED
    BY <1>1, <1>2, <1>5, <1>11, <1>12, <2>1, OpenedFrame
<1>14. QED
  BY <1>7, <1>8, <1>9, <1>10, <1>13 DEF IInv

-----------------------------------------------------------------------------
(* The handlers *)

(***************************************************************************)
(* What the receipt of a message says about the connection.                *)
(***************************************************************************)
LEMMA ReceivesFacts ==
    ASSUME IInv, NEW p \in Proc, NEW op, Receives(p, op), pc'[p] # "recv",
           OthersSame(p)
    PROVE  /\ cur[p] \in Conn /\ cur[p] \in opened /\ cur[p] \notin handled
           /\ cur[p].op = op /\ cur[p].to = p
           /\ handled' = handled \cup {cur[p]}
           /\ UNCHANGED <<backlog, sent, closed, shared, up, opened>>
           /\ SetsInv' /\ InboxInv'
<1>1. InboxOK(p) /\ pc[p] = "recv"
  BY DEF IInv, InboxInv, Receives
<1>2. cur[p] \in Conn /\ cur[p] \in opened /\ cur[p] \notin handled
      /\ cur[p].to = p
  BY <1>1 DEF InboxOK, IInv, TypeOK
<1>3. SetsInv'
  BY DEF Receives, IInv, SetsInv
<1>4. InboxInv'
  BY <1>1, InboxHandled DEF Receives
<1>5. QED
  BY <1>2, <1>3, <1>4 DEF Receives

(***************************************************************************)
(* A message that is no acknowledgement leaves the Ackers alone.           *)
(***************************************************************************)
LEMMA AckersSame ==
    ASSUME NEW c, c.op # "ACK00", handled' = handled \cup {c}
    PROVE  \A p, u : Ackers(p, u)' = Ackers(p, u)
<1>1. \A q, p, u : AckConn(q, p, u) # c
  BY DEF AckConn
<1>2. QED
  BY <1>1 DEF Ackers

(***************************************************************************)
(* OutInv for the threads a handler of p does not run in.                  *)
(***************************************************************************)
LEMMA OutOthers ==
    ASSUME IInv, TypeOK', NEW p \in Proc, OthersSame(p), ClocksGrow,
           opened' = opened, \A q \in Proc \ {p} : queue'[q] = queue[q],
           (Sending(p) => OutOK(p))'
    PROVE  OutInv'
<1>1. SUFFICES ASSUME NEW q \in Proc PROVE (Sending(q) => OutOK(q))'
  BY DEF OutInv
<1>2. CASE q # p
  BY <1>2, OutFrame DEF OthersSame, ClocksGrow
<1>3. QED
  BY <1>2

(***************************************************************************)
(* handle_issue() preserves IInv.                                          *)
(***************************************************************************)
LEMMA HandleIssueInv ==
    ASSUME IInv, TypeOK', NEW p \in Proc, handle_issue(p)
    PROVE  IInv'
<1> DEFINE c == cur[p]
           t == lc[p] + 2
           u == generate_uid(p, lc[p] + 1)
<1>1. /\ pc'[p] = "connect"
      /\ out'[p] = [op |-> "BROAD", uid |-> u, lc |-> t, dests |-> Proc]
      /\ todo'[p] = Proc
      /\ OthersSame(p)
      /\ ClientsGrow
  BY StartOutFacts DEF handle_issue, IInv
<1>2. /\ c \in Conn /\ c.op = "ISSUE" /\ handled' = handled \cup {c}
      /\ UNCHANGED <<backlog, sent, closed, shared, up, opened>>
      /\ SetsInv' /\ InboxInv'
  BY <1>1, ReceivesFacts DEF handle_issue
<1>3. queue' = queue /\ lc[p] \in Nat /\ t < LCBound /\ lc'[p] = t
  BY DEF handle_issue, IInv, TypeOK
<1>4. ClocksGrow
  BY DEF ClocksGrow, handle_issue, IInv, TypeOK
<1>5. ConnInv'
  BY <1>1, <1>2, <1>4, ConnFrame
<1>6. OutInv'
  <2>1. IssuedAt(u, p, t)
    <3>1. t \in 1 .. LCBound - 1 /\ t - 1 = lc[p] + 1
      BY <1>3, BoundType
    <3>2. QED
      BY <3>1 DEF IssuedAt
  <2>2. \A d \in Proc : Link(p, d)' \notin opened
    <3>1. SUFFICES ASSUME NEW d \in Proc, Link(p, d)' \in opened PROVE FALSE
      OBVIOUS
    <3>2. Link(p, d)' = BroadConn(p, d, u, t)
      BY <1>1 DEF Link, BroadConn
    <3>3. ConnOK(BroadConn(p, d, u, t))
      BY <3>1, <3>2 DEF IInv, ConnInv
    <3>4. t <= lc[p]
      BY <3>3 DEF ConnOK, BroadConn
    <3>5. QED
      BY <1>3, <3>4
  <2>3. t <= lc'[p]
    BY <1>3
  <2>4. OutOK(p)'
    BY <1>1, <1>2, <2>1, <2>2, <2>3 DEF OutOK
  <2>5. QED
    BY <1>1, <1>2, <1>3, <1>4, <2>4, OutOthers
<1>7. NodeInv'
  BY <1>2, <1>3, AckersSame DEF IInv, NodeInv, NodeOK
<1>8. ClockInv'
  BY <1>2, <1>4, ClockFrame
<1>9. AckInv'
  BY <1>2, <1>3 DEF IInv, AckInv, AckOK
<1>10. ReadyInv' /\ WriteInv' /\ WrittenOnce'
  <2>1. AckedStays
    BY <1>2, <1>3 DEF AckedStays, AllAcked
  <2>2. \A q \in Proc : \A v : ReadyActive(q, v)' => ReadyActive(q, v)
    BY <1>1 DEF ReadyActive, Sending, OthersSame
  <2>3. QED
    BY <1>2, <2>1, <2>2, ReadyFrame
<1>11. QED
  BY <1>2, <1>5, <1>6, <1>7, <1>8, <1>9, <1>10 DEF IInv

(***************************************************************************)
(* handle_ready() preserves IInv.                                          *)
(***************************************************************************)
LEMMA HandleReadyInv ==
    ASSUME IInv, TypeOK', NEW p \in Proc, handle_ready(p)
    PROVE  IInv'
<1> DEFINE c == cur[p]
<1>1. pc'[p] = "accept" /\ OthersSame(p) /\ ClientsGrow
  BY ReturnFacts DEF handle_ready, IInv
<1>2. /\ c \in Conn /\ c \in opened /\ c \notin handled /\ c.to = p
      /\ c.op = "READY" /\ handled' = handled \cup {c}
      /\ UNCHANGED <<backlog, sent, closed, shared, up, opened>>
      /\ SetsInv' /\ InboxInv'
  BY <1>1, ReceivesFacts DEF handle_ready
<1>3. c.from \in Proc /\ c = ReadyConn(c.from, p, c.uid)
  <2>1. c.lc = 0
    BY <1>2 DEF IInv, ConnInv, ConnOK
  <2>2. QED
    BY <1>2, <2>1, ConnFields, PeerFrom DEF ReadyConn
<1>4. /\ \A q \in Proc \ {p} : queue'[q] = queue[q]
      /\ queue'[p] \subseteq queue[p]
      /\ \A n \in queue[p] : n.uid # c.uid => n \in queue'[p]
  <2>1. ASSUME NEW n \in queue[p], n.uid = c.uid,
               queue' = [queue EXCEPT ![p] = @ \ {n}]
        PROVE  <1>4!1 /\ <1>4!2 /\ <1>4!3
    BY <2>1 DEF IInv, TypeOK
  <2>2. CASE queue' = queue
    BY <2>2
  <2>3. QED
    BY <2>1, <2>2 DEF handle_ready
<1>5. ClocksGrow
  BY DEF ClocksGrow, handle_ready, IInv, TypeOK
<1>6. ConnInv'
  BY <1>1, <1>2, <1>5, ConnFrame
<1>7. OutInv'
  <2>1. (Sending(p) => OutOK(p))'
    BY <1>1 DEF Sending
  <2>2. QED
    BY <1>1, <1>2, <1>4, <1>5, <2>1, OutOthers
<1>8. NodeInv'
  <2>1. SUFFICES ASSUME NEW q \in Proc
                 PROVE  /\ \A n \in queue'[q] : NodeOK(q, n)'
                        /\ \A m, n \in queue'[q] : m.uid = n.uid => m = n
    BY DEF NodeInv
  <2>2. queue'[q] \subseteq queue[q]
    BY <1>4
  <2>3. \A u : Ackers(q, u)' = Ackers(q, u)
    BY <1>2, AckersSame
  <2>4. QED
    BY <1>2, <2>2, <2>3 DEF IInv, NodeInv, NodeOK
<1>9. ClockInv'
  BY <1>2, <1>5, ClockFrame
<1>10. AckInv'
  <2>1. SUFFICES ASSUME NEW a \in opened, a.op = "ACK00"
                 PROVE  AckOK(a.from, a.to, a.uid)'
    BY <1>2 DEF AckInv
  <2>2. AckOK(a.from, a.to, a.uid) /\ a.from \in Proc
    BY <2>1, PeerFrom DEF IInv, AckInv, TypeOK
  <2>3. CASE a.from = p /\ a.uid = c.uid
    <3>1. AckConn(p, c.from, c.uid) \in opened
      BY <1>2 DEF IInv, ReadyInv, AllAcked
    <3>2. a.lc = 0 /\ a \in Conn
      BY <2>1 DEF IInv, ConnInv, ConnOK, TypeOK
    <3>3. a = AckConn(p, a.to, c.uid)
      BY <2>1, <2>3, <3>2, ConnFields DEF AckConn
    <3>4. a.to = c.from
      BY <2>1, <3>1, <3>3, AckUnique
    <3>5. ReadyConn(a.to, p, c.uid) \in handled'
      BY <1>2, <1>3, <3>4
    <3>6. QED
      BY <1>2, <1>4, <2>2, <2>3, <3>5 DEF AckOK
  <2>4. CASE a.from # p
    BY <1>2, <1>4, <2>2, <2>4 DEF AckOK
  <2>5. CASE a.from = p /\ a.uid # c.uid
    BY <1>2, <1>4, <2>2, <2>5 DEF AckOK
  <2>6. QED
    BY <2>3, <2>4, <2>5
<1>11. ReadyInv' /\ WriteInv' /\ WrittenOnce'
  <2>1. AckedStays
    <3>1. \A q \in Proc : queue'[q] \subseteq queue[q]
      BY <1>4
    <3>2. QED
      BY <1>2, <3>1 DEF AckedStays, AllAcked
  <2>2. \A q \in Proc : \A v : ReadyActive(q, v)' => ReadyActive(q, v)
    BY <1>1 DEF ReadyActive, Sending, OthersSame
  <2>3. QED
    BY <1>2, <2>1, <2>2, ReadyFrame
<1>12. QED
  BY <1>2, <1>6, <1>7, <1>8, <1>9, <1>10, <1>11 DEF IInv

(***************************************************************************)
(* There are NumProc processes.                                            *)
(***************************************************************************)
LEMMA ProcFinite == IsFiniteSet(Proc) /\ Cardinality(Proc) = NumProc
<1>1. IsFiniteSet(0 .. NumProc - 1)
      /\ Cardinality(0 .. NumProc - 1) =
            IF 0 > NumProc - 1 THEN 0 ELSE (NumProc - 1) - 0 + 1
  BY NumProcAssumption, FS_Interval
<1>2. QED
  BY <1>1, NumProcAssumption DEF Proc

(***************************************************************************)
(* Ackers are finitely many, and at most NumProc,                          *)
(***************************************************************************)
LEMMA AckersFinite ==
    ASSUME NEW p, NEW u
    PROVE  /\ IsFiniteSet(Ackers(p, u))
           /\ Cardinality(Ackers(p, u)) \in Nat
           /\ Cardinality(Ackers(p, u)) <= NumProc
           /\ Cardinality(Ackers(p, u)) = NumProc => Ackers(p, u) = Proc
<1>1. Ackers(p, u) \in SUBSET Proc
  BY DEF Ackers
<1>2. IsFiniteSet(Ackers(p, u))
  BY <1>1, ProcFinite, FS_Subset
<1>3. Cardinality(Ackers(p, u)) \in Nat
  BY <1>2, FS_CardinalityType
<1>4. QED
  BY <1>1, <1>2, <1>3, ProcFinite, FS_Subset

(***************************************************************************)
(* after a step as well.                                                   *)
(***************************************************************************)
LEMMA AckersFinitePrime ==
    ASSUME NEW p, NEW u
    PROVE  (/\ Cardinality(Ackers(p, u)) \in Nat
            /\ Cardinality(Ackers(p, u)) <= NumProc
            /\ Cardinality(Ackers(p, u)) = NumProc => Ackers(p, u) = Proc)'
<1>1. Ackers(p, u)' \in SUBSET Proc
  BY DEF Ackers
<1>2. IsFiniteSet(Ackers(p, u)')
  BY <1>1, ProcFinite, FS_Subset
<1>3. Cardinality(Ackers(p, u)') \in Nat
  BY <1>2, FS_CardinalityType
<1>4. QED
  BY <1>1, <1>2, <1>3, ProcFinite, FS_Subset

(***************************************************************************)
(* Handling the acknowledgement of u from q adds q to the ackers of u.     *)
(***************************************************************************)
LEMMA AckersGrow ==
    ASSUME NEW q \in Proc, NEW p, NEW u, AckConn(q, p, u) \notin handled,
           handled' = handled \cup {AckConn(q, p, u)}
    PROVE  /\ Cardinality(Ackers(p, u))' = Cardinality(Ackers(p, u)) + 1
           /\ \A r, v : r # p \/ v # u => Ackers(r, v)' = Ackers(r, v)
<1>1. \A x, r, v : AckConn(x, r, v) = AckConn(q, p, u) <=>
                       x = q /\ r = p /\ v = u
  <2>1. \A x, r, v : /\ AckConn(x, r, v).from = x
                     /\ AckConn(x, r, v).to = r
                     /\ AckConn(x, r, v).uid = v
    BY DEF AckConn
  <2>2. QED
    BY <2>1
<1>2. Ackers(p, u)' = Ackers(p, u) \cup {q}
  BY <1>1 DEF Ackers
<1>3. q \notin Ackers(p, u)
  BY DEF Ackers
<1>4. Cardinality(Ackers(p, u) \cup {q}) = Cardinality(Ackers(p, u)) + 1
  BY <1>3, AckersFinite, FS_AddElement
<1>5. \A r, v : r # p \/ v # u => Ackers(r, v)' = Ackers(r, v)
  BY <1>1 DEF Ackers
<1>6. QED
  BY <1>2, <1>4, <1>5

(***************************************************************************)
(* handle_ack() preserves IInv.                                            *)
(***************************************************************************)
LEMMA HandleAckInv ==
    ASSUME IInv, TypeOK', NEW p \in Proc, handle_ack(p)
    PROVE  IInv'
<1>0. PICK c : c = cur[p]
  OBVIOUS
<1>1. /\ pc'[p] # "recv" /\ OthersSame(p) /\ ClientsGrow
      /\ ClocksGrow
  <2>1. ASSUME NEW n \in queue[p],
               IF AllAcksIn(n.ack_count + 1)
               THEN /\ lc' = [lc EXCEPT ![p] = @ + 1]
                    /\ StartOut(p, "READY", n.uid, 0, Proc)
               ELSE Return(p) /\ lc' = lc
        PROVE  pc'[p] # "recv" /\ OthersSame(p) /\ ClientsGrow /\ ClocksGrow
    <3>1. pc'[p] # "recv" /\ OthersSame(p) /\ ClientsGrow
      BY <2>1, StartOutFacts, ReturnFacts DEF IInv
    <3>2. ClocksGrow
      <4>1. CASE lc' = lc
        BY <4>1 DEF ClocksGrow, IInv, TypeOK
      <4>2. CASE lc' = [lc EXCEPT ![p] = @ + 1]
        BY <4>2 DEF ClocksGrow, IInv, TypeOK
      <4>3. QED
        BY <2>1, <4>1, <4>2
    <3>3. QED
      BY <3>1, <3>2
  <2>2. CASE Return(p) /\ lc' = lc
    <3>1. ClocksGrow
      BY <2>2 DEF ClocksGrow, IInv, TypeOK
    <3>2. QED
      BY <2>2, <3>1, ReturnFacts DEF IInv
  <2>3. QED
    BY <2>1, <2>2 DEF handle_ack
<1>2. /\ c \in Conn /\ c \in opened /\ c \notin handled /\ c.to = p
      /\ c.op = "ACK00" /\ handled' = handled \cup {c}
      /\ UNCHANGED <<backlog, sent, closed, shared, up, opened>>
      /\ SetsInv' /\ InboxInv'
  BY <1>0, <1>1, ReceivesFacts DEF handle_ack
<1>3. c.from \in Proc /\ c = AckConn(c.from, p, c.uid)
  <2>1. c.lc = 0
    BY <1>2 DEF IInv, ConnInv, ConnOK
  <2>2. QED
    BY <1>2, <2>1, ConnFields, PeerFrom DEF AckConn
<1>4. /\ Cardinality(Ackers(p, c.uid))' = Cardinality(Ackers(p, c.uid)) + 1
      /\ \A r, v : r # p \/ v # c.uid => Ackers(r, v)' = Ackers(r, v)
  BY <1>2, <1>3, AckersGrow
<1>5. ConnInv' /\ ClockInv'
  BY <1>1, <1>2, ConnFrame, ClockFrame
<1>6. CASE \A n \in queue[p] : n.uid # c.uid
  <2>1. Return(p) /\ queue' = queue
    BY <1>0, <1>6 DEF handle_ack
  <2>2. pc'[p] = "accept"
    BY <2>1, ReturnFacts DEF IInv
  <2>3. OutInv'
    BY <1>1, <1>2, <2>1, <2>2, OutOthers DEF Sending
  <2>4. NodeInv'
    <3>1. ASSUME NEW q \in Proc, NEW n \in queue[q]
          PROVE  NodeOK(q, n)'
      <4>1. Ackers(q, n.uid)' = Ackers(q, n.uid)
        BY <1>4, <1>6
      <4>2. QED
        BY <1>2, <4>1 DEF IInv, NodeInv, NodeOK
    <3>2. QED
      BY <2>1, <3>1 DEF IInv, NodeInv
  <2>5. AckInv'
    BY <1>2, <2>1 DEF IInv, AckInv, AckOK
  <2>6. ReadyInv' /\ WriteInv' /\ WrittenOnce'
    <3>1. AckedStays
      BY <1>2, <2>1 DEF AckedStays, AllAcked
    <3>2. \A q \in Proc : \A v : ReadyActive(q, v)' => ReadyActive(q, v)
      BY <1>1, <2>2 DEF ReadyActive, Sending, OthersSame
    <3>3. QED
      BY <1>2, <3>1, <3>2, ReadyFrame
  <2>7. QED
    BY <1>2, <1>5, <2>3, <2>4, <2>5, <2>6 DEF IInv
<1>7. CASE \E n \in queue[p] : n.uid = c.uid
  <2>1. PICK n \in queue[p] :
           /\ n.uid = c.uid
           /\ queue' = [queue EXCEPT
                           ![p] = (@ \ {n}) \cup {[n EXCEPT !.ack_count = @ + 1]}]
           /\ IF AllAcksIn(n.ack_count + 1)
              THEN /\ lc' = [lc EXCEPT ![p] = @ + 1]
                   /\ StartOut(p, "READY", n.uid, 0, Proc)
              ELSE Return(p) /\ lc' = lc
    BY <1>0, <1>7 DEF handle_ack
  <2>2. PICK m : m = [n EXCEPT !.ack_count = @ + 1]
    OBVIOUS
  <2>3. n \in Node
    BY DEF IInv, TypeOK
  <2>4. /\ m.uid = c.uid /\ m.port = n.port /\ m.lc = n.lc
        /\ m.ack_flg = n.ack_flg /\ m.ack_count = n.ack_count + 1
        /\ n.ack_count \in Nat
    BY <2>1, <2>2, <2>3 DEF Node
  <2>5. /\ queue'[p] = (queue[p] \ {n}) \cup {m}
        /\ \A q \in Proc \ {p} : queue'[q] = queue[q]
    BY <2>1, <2>2 DEF IInv, TypeOK
  <2>6. \A k \in queue[p] : k.uid = c.uid => k = n
    BY <2>1 DEF IInv, NodeInv
  <2>7. NodeInv'
    <3>1. ASSUME NEW q \in Proc, NEW k \in queue'[q], k # m \/ q # p
          PROVE  NodeOK(q, k)'
      <4>1. k \in queue[q] /\ NodeOK(q, k)
        BY <2>5, <3>1 DEF IInv, NodeInv
      <4>2. q # p \/ k.uid # c.uid
        BY <2>5, <2>6, <3>1
      <4>3. Ackers(q, k.uid)' = Ackers(q, k.uid)
        BY <1>4, <4>2
      <4>4. QED
        BY <1>2, <4>1, <4>3 DEF NodeOK
    <3>2. NodeOK(p, m)'
      <4>1. NodeOK(p, n)
        BY DEF IInv, NodeInv
      <4>2. BroadConn(m.port, p, m.uid, m.lc) \in handled'
        BY <1>2, <2>1, <2>4, <4>1 DEF NodeOK
      <4>3. n.ack_count <= Cardinality(Ackers(p, c.uid))
        BY <2>1, <4>1 DEF NodeOK
      <4>4. m.ack_count <= Cardinality(Ackers(p, c.uid))'
        BY <1>4, <2>4, <4>3, AckersFinite
      <4>5. QED
        BY <2>4, <4>2, <4>4 DEF NodeOK
    <3>3. ASSUME NEW q \in Proc, NEW k \in queue'[q], NEW l \in queue'[q],
                 k.uid = l.uid
          PROVE  k = l
      <4>1. CASE q # p
        BY <2>5, <3>3, <4>1 DEF IInv, NodeInv
      <4>2. CASE q = p
        BY <2>4, <2>5, <2>6, <3>3, <4>2 DEF IInv, NodeInv
      <4>3. QED
        BY <4>1, <4>2
    <3>4. QED
      BY <3>1, <3>2, <3>3 DEF NodeInv
  <2>8. AckInv'
    <3>1. SUFFICES ASSUME NEW a \in opened, a.op = "ACK00"
                   PROVE  AckOK(a.from, a.to, a.uid)'
      BY <1>2 DEF AckInv
    <3>2. AckOK(a.from, a.to, a.uid) /\ a.from \in Proc
      BY <3>1, PeerFrom DEF IInv, AckInv, TypeOK
    <3>3. CASE a.from # p
      BY <1>2, <2>5, <3>2, <3>3 DEF AckOK
    <3>4. CASE a.from = p
      <4>1. \A k \in queue'[p] : k.uid = a.uid => k.ack_flg = 1
        BY <2>1, <2>4, <2>5, <3>2, <3>4 DEF AckOK
      <4>2. (\E k \in queue[p] : k.uid = a.uid) =>
                \E k \in queue'[p] : k.uid = a.uid
        BY <2>1, <2>4, <2>5
      <4>3. QED
        BY <1>2, <3>2, <3>4, <4>1, <4>2 DEF AckOK
    <3>5. QED
      BY <3>3, <3>4
  <2>9. AckedStays
    <3>1. SUFFICES ASSUME NEW q \in Proc, NEW u, AllAcked(q, u)
                   PROVE  AllAcked(q, u)'
      BY DEF AckedStays
    <3>2. CASE q # p
      BY <1>2, <2>5, <3>1, <3>2 DEF AllAcked
    <3>3. CASE q = p
      <4>1. \A k \in queue'[p] : k.uid = u => k.ack_count >= NumProc
        <5>1. SUFFICES ASSUME NEW k \in queue'[p], k.uid = u
                       PROVE  k.ack_count >= NumProc
          OBVIOUS
        <5>2. CASE k \in queue[p]
          BY <3>1, <3>3, <5>1, <5>2 DEF AllAcked
        <5>3. CASE k = m
          <6>1. n.ack_count >= NumProc
            BY <2>1, <2>4, <3>1, <3>3, <5>1, <5>3 DEF AllAcked
          <6>2. QED
            BY <2>4, <5>3, <6>1, NumProcAssumption
        <5>4. QED
          BY <2>5, <5>2, <5>3
      <4>2. QED
        BY <1>2, <3>1, <3>3, <4>1 DEF AllAcked
    <3>4. QED
      BY <3>2, <3>3
  <2>10. CASE n.ack_count + 1 # NumProc
    <3>1. pc'[p] = "accept"
      BY <2>1, <2>10, ReturnFacts DEF IInv, AllAcksIn
    <3>2. OutInv'
      BY <1>1, <1>2, <2>5, <3>1, OutOthers DEF Sending
    <3>3. \A q \in Proc : \A v : ReadyActive(q, v)' => ReadyActive(q, v)
      BY <1>1, <3>1 DEF ReadyActive, Sending, OthersSame
    <3>4. ReadyInv' /\ WriteInv' /\ WrittenOnce'
      BY <1>2, <2>9, <3>3, ReadyFrame
    <3>5. QED
      BY <1>2, <1>5, <2>7, <2>8, <3>2, <3>4 DEF IInv
  <2>11. CASE n.ack_count + 1 = NumProc
    <3>1. /\ pc'[p] = "connect"
          /\ out'[p] = [op |-> "READY", uid |-> c.uid, lc |-> 0,
                        dests |-> Proc]
          /\ todo'[p] = Proc
      BY <2>1, <2>11, StartOutFacts DEF IInv, AllAcksIn
    <3>2. ~ AllAcked(p, c.uid)
      <4>1. ~ (n.ack_count >= NumProc)
        BY <2>4, <2>11, NumProcAssumption
      <4>2. QED
        BY <2>1, <4>1 DEF AllAcked
    <3>3. AllAcked(p, c.uid)'
      <4>1. m.ack_count <= Cardinality(Ackers(p, c.uid))'
        BY <2>4, <2>5, <2>7 DEF NodeInv, NodeOK
      <4>2. Cardinality(Ackers(p, c.uid))' = NumProc
        BY <2>4, <2>11, <4>1, AckersFinitePrime, NumProcAssumption
      <4>3. Ackers(p, c.uid)' = Proc
        BY <4>2, AckersFinitePrime
      <4>4. \A q \in Proc : AckConn(q, p, c.uid) \in handled'
        BY <4>3 DEF Ackers
      <4>5. \A q \in Proc : AckConn(q, p, c.uid) \in opened'
        BY <1>2, <4>4, HandledOpened
      <4>6. \A k \in queue'[p] : k.uid = c.uid => k.ack_count >= NumProc
        BY <2>4, <2>5, <2>6, <2>11, NumProcAssumption
      <4>7. QED
        BY <4>5, <4>6 DEF AllAcked
    <3>4. OutInv'
      <4>1. \A d \in Proc : Link(p, d)' \notin opened
        <5>1. SUFFICES ASSUME NEW d \in Proc, Link(p, d)' \in opened PROVE FALSE
          OBVIOUS
        <5>2. Link(p, d)' = ReadyConn(p, d, c.uid)
          BY <3>1 DEF Link, ReadyConn
        <5>3. AllAcked(p, c.uid)
          BY <5>1, <5>2 DEF IInv, ReadyInv, ReadyConn
        <5>4. QED
          BY <3>2, <5>3
      <4>2. OutOK(p)'
        BY <1>2, <3>1, <4>1 DEF OutOK
      <4>3. QED
        BY <1>1, <1>2, <2>5, <4>2, OutOthers
    <3>5. \A q \in Proc : \A v : ReadyActive(q, v)' =>
              (q = p /\ v = c.uid) \/ (q # p /\ ReadyActive(q, v))
      BY <1>1, <3>1 DEF ReadyActive, Sending, OthersSame
    <3>6. ReadyInv'
      <4>1. ASSUME NEW q \in Proc, ReadyActive(q, out[q].uid)'
            PROVE  AllAcked(q, out[q].uid)'
        <5>1. CASE q = p
          BY <3>1, <3>3, <5>1
        <5>2. CASE q # p
          <6>1. out'[q] = out[q] /\ ReadyActive(q, out[q].uid)
            BY <1>1, <4>1, <5>2 DEF ReadyActive, Sending, OthersSame
          <6>2. AllAcked(q, out[q].uid)
            BY <6>1 DEF IInv, ReadyInv
          <6>3. PICK u : u = out[q].uid
            OBVIOUS
          <6>4. AllAcked(q, u)'
            BY <2>9, <6>2, <6>3 DEF AckedStays
          <6>5. QED
            BY <6>1, <6>3, <6>4
        <5>3. QED
          BY <5>1, <5>2
      <4>2. ASSUME NEW k \in opened', k.op = "READY"
            PROVE  AllAcked(k.from, k.uid)'
        <5>1. k \in opened /\ k.from \in Proc
          BY <1>2, <4>2, PeerFrom DEF IInv, TypeOK
        <5>2. QED
          BY <2>9, <4>2, <5>1 DEF IInv, ReadyInv, AckedStays
      <4>3. QED
        BY <4>1, <4>2 DEF ReadyInv
    <3>7. WriteInv'
      <4>1. SUFFICES ASSUME NEW i \in 1 .. Len(shared)
                     PROVE  \E q \in Proc : /\ AllAcked(q, shared[i])'
                                            /\ ~ ReadyActive(q, shared[i])'
        BY <1>2 DEF WriteInv
      <4>2. PICK v : v = shared[i]
        OBVIOUS
      <4>3. PICK q \in Proc : AllAcked(q, v) /\ ~ ReadyActive(q, v)
        BY <4>2 DEF IInv, WriteInv
      <4>4. AllAcked(q, v)'
        BY <2>9, <4>3 DEF AckedStays
      <4>5. ~ ReadyActive(q, v)'
        BY <3>2, <3>5, <4>3
      <4>6. shared'[i] = v
        BY <1>2, <4>2
      <4>7. QED
        BY <4>4, <4>5, <4>6
    <3>8. WrittenOnce'
      BY <1>2 DEF IInv, WrittenOnce
    <3>9. QED
      BY <1>2, <1>5, <2>7, <2>8, <3>4, <3>6, <3>7, <3>8 DEF IInv
  <2>12. QED
    BY <2>10, <2>11
<1>8. QED
  BY <1>6, <1>7

(***************************************************************************)
(* handle_broadcast(p) of the connection c: the node of c may be added to  *)
(* the queue, and the head may be flagged and its acknowledgement started. *)
(***************************************************************************)
LEMMA BroadcastQueue ==
    ASSUME IInv, NEW p \in Proc, handle_broadcast(p)
    PROVE  \E Q \in SUBSET Node :
              /\ Q = queue[p] \/ Q = queue[p] \cup {create_node(cur[p])}
              /\ \/ /\ queue' = [queue EXCEPT ![p] = Q]
                    /\ Return(p)
                 \/ \E n \in Q :
                       /\ n.ack_flg = 0
                       /\ queue' = [queue EXCEPT ![p] =
                              (Q \ {n}) \cup {[n EXCEPT !.ack_flg = 1]}]
                       /\ StartOut(p, "ACK00", n.uid, 0, {n.port})
<1>1. create_node(cur[p]) \in Node
  BY DEF handle_broadcast, Receives, IInv, TypeOK, Conn, create_node, Node
<1>2. queue[p] \in SUBSET Node
  BY DEF IInv, TypeOK
<1>3. PICK Q : Q = enqueue(queue[p], tail[p], create_node(cur[p]))
  OBVIOUS
<1>4. Q = queue[p] \/ Q = queue[p] \cup {create_node(cur[p])}
  BY <1>3 DEF enqueue
<1>5. Q \in SUBSET Node
  BY <1>1, <1>2, <1>4
<1>6. check_and_ack_head(p, Q)
  BY <1>3 DEF handle_broadcast
<1>7. \/ /\ queue' = [queue EXCEPT ![p] = Q]
         /\ Return(p)
      \/ \E n \in Q :
            /\ n.ack_flg = 0
            /\ queue' = [queue EXCEPT ![p] =
                   (Q \ {n}) \cup {[n EXCEPT !.ack_flg = 1]}]
            /\ StartOut(p, "ACK00", n.uid, 0, {n.port})
  BY <1>6 DEF check_and_ack_head
<1>8. QED
  BY <1>4, <1>5, <1>7

(***************************************************************************)
(* handle_broadcast() preserves IInv.                                      *)
(***************************************************************************)
LEMMA HandleBroadcastInv ==
    ASSUME IInv, TypeOK', NEW p \in Proc, handle_broadcast(p)
    PROVE  IInv'
<1>0. PICK c : c = cur[p]
  OBVIOUS
<1>1. PICK Q \in SUBSET Node :
         /\ Q = queue[p] \/ Q = queue[p] \cup {create_node(c)}
         /\ \/ /\ queue' = [queue EXCEPT ![p] = Q]
               /\ Return(p)
            \/ \E n \in Q :
                  /\ n.ack_flg = 0
                  /\ queue' = [queue EXCEPT ![p] =
                         (Q \ {n}) \cup {[n EXCEPT !.ack_flg = 1]}]
                  /\ StartOut(p, "ACK00", n.uid, 0, {n.port})
  BY <1>0, BroadcastQueue
<1>2. pc'[p] # "recv" /\ OthersSame(p) /\ ClientsGrow
  BY <1>1, StartOutFacts, ReturnFacts DEF IInv
<1>3. /\ c \in Conn /\ c \in opened /\ c \notin handled /\ c.to = p
      /\ c.op = "BROAD" /\ handled' = handled \cup {c}
      /\ UNCHANGED <<backlog, sent, closed, shared, up, opened>>
      /\ SetsInv' /\ InboxInv'
  BY <1>0, <1>2, ReceivesFacts DEF handle_broadcast
<1>4. c.from \in Proc /\ c.lc \in Nat /\ c = BroadConn(c.from, p, c.uid, c.lc)
  BY <1>3, ConnFields, PeerFrom DEF BroadConn
<1>5. IssuedAt(c.uid, c.from, c.lc)
  BY <1>3 DEF IInv, ConnInv, ConnOK
<1>6. \A r, ts : BroadConn(r, p, c.uid, ts) \notin handled
  <2>1. SUFFICES ASSUME NEW r, NEW ts, BroadConn(r, p, c.uid, ts) \in handled
                 PROVE  FALSE
    OBVIOUS
  <2>2. r \in Proc /\ IssuedAt(c.uid, r, ts)
    BY <2>1, BroadIssued, HandledOpened
  <2>3. r = c.from /\ ts = c.lc
    BY <1>4, <1>5, <2>2, UidUnique
  <2>4. QED
    BY <1>3, <1>4, <2>1, <2>3
<1>7. \A n \in queue[p] : n.uid # c.uid
  BY <1>6 DEF IInv, NodeInv, NodeOK
<1>8. \A a \in opened : a.op = "ACK00" /\ a.from = p => a.uid # c.uid
  BY <1>6 DEF IInv, AckInv, AckOK
<1>9. PICK N : N = create_node(c)
  OBVIOUS
<1>10. /\ N.uid = c.uid /\ N.port = c.from /\ N.lc = c.lc
       /\ N.ack_flg = 0 /\ N.ack_count = 0
  BY <1>9 DEF create_node
<1>11. Q = queue[p] \/ Q = queue[p] \cup {N}
  BY <1>1, <1>9
<1>12. \A m, n \in Q : m.uid = n.uid => m = n
  BY <1>7, <1>10, <1>11 DEF IInv, NodeInv
<1>13. lc'[p] \in Nat /\ c.lc <= lc'[p] /\ ClocksGrow
  <2>1. lc[p] \in Nat /\ lc' = [lc EXCEPT ![p] = AdjustLC(lc[p], c.lc)]
    BY <1>0 DEF handle_broadcast, IInv, TypeOK
  <2>2. /\ AdjustLC(lc[p], c.lc) \in Nat
        /\ c.lc <= AdjustLC(lc[p], c.lc)
        /\ lc[p] <= AdjustLC(lc[p], c.lc)
    BY <1>4, <2>1 DEF AdjustLC
  <2>3. QED
    BY <2>1, <2>2 DEF ClocksGrow, IInv, TypeOK
<1>14. ConnInv'
  BY <1>2, <1>3, <1>13, ConnFrame
<1>15. ClockInv'
  <2>1. SUFFICES ASSUME NEW b \in handled', b.op = "BROAD"
                 PROVE  b.lc <= lc'[b.to]
    BY DEF ClockInv
  <2>2. CASE b = c
    BY <1>3, <1>13, <2>2
  <2>3. CASE b \in handled
    <3>1. b.to \in Proc /\ b.lc \in Nat /\ b.lc <= lc[b.to]
      BY <2>1, <2>3, PeerFrom, ConnTo DEF IInv, TypeOK, ClockInv
    <3>2. lc[b.to] \in Nat /\ lc'[b.to] \in Nat /\ lc[b.to] <= lc'[b.to]
      BY <1>13, <3>1 DEF IInv, TypeOK, ClocksGrow
    <3>3. QED
      BY <3>1, <3>2
  <2>4. QED
    BY <1>3, <2>2, <2>3
<1>16. \A q, u : Ackers(q, u)' = Ackers(q, u)
  BY <1>3, AckersSame
(* What the new queue of p holds, in terms of the nodes of Q. *)
<1>17. /\ \A q \in Proc \ {p} : queue'[q] = queue[q]
       /\ \A m \in queue'[p] : \E n \in Q :
             /\ m.uid = n.uid /\ m.port = n.port /\ m.lc = n.lc
             /\ m.ack_count = n.ack_count
             /\ m.ack_flg = n.ack_flg \/ m.ack_flg = 1
       /\ \A n \in Q : \E m \in queue'[p] : m.uid = n.uid
       /\ \A m, n \in queue'[p] : m.uid = n.uid => m = n
  <2>1. CASE queue' = [queue EXCEPT ![p] = Q]
    BY <1>12, <2>1 DEF IInv, TypeOK
  <2>2. ASSUME NEW n \in Q,
               queue' = [queue EXCEPT ![p] =
                   (Q \ {n}) \cup {[n EXCEPT !.ack_flg = 1]}]
        PROVE  <1>17!1 /\ <1>17!2 /\ <1>17!3 /\ <1>17!4
    <3>1. PICK m : m = [n EXCEPT !.ack_flg = 1]
      OBVIOUS
    <3>2. /\ m.uid = n.uid /\ m.port = n.port /\ m.lc = n.lc
          /\ m.ack_count = n.ack_count /\ m.ack_flg = 1
      BY <3>1 DEF Node
    <3>3. /\ queue'[p] = (Q \ {n}) \cup {m}
          /\ \A q \in Proc \ {p} : queue'[q] = queue[q]
      BY <2>2, <3>1 DEF IInv, TypeOK
    <3>4. <1>17!2
      BY <3>2, <3>3
    <3>5. <1>17!3
      BY <3>2, <3>3
    <3>6. <1>17!4
      BY <1>12, <3>2, <3>3
    <3>7. QED
      BY <3>3, <3>4, <3>5, <3>6
  <2>3. QED
    BY <1>1, <2>1, <2>2
<1>18. NodeInv'
  <2>1. ASSUME NEW q \in Proc, NEW m \in queue'[q]
        PROVE  NodeOK(q, m)'
    <3>1. CASE q # p
      <4>1. NodeOK(q, m)
        BY <1>17, <2>1, <3>1 DEF IInv, NodeInv
      <4>2. QED
        BY <1>3, <1>16, <4>1 DEF NodeOK
    <3>2. CASE q = p
      <4>1. PICK n \in Q : /\ m.uid = n.uid /\ m.port = n.port /\ m.lc = n.lc
                           /\ m.ack_count = n.ack_count
        BY <1>17, <2>1, <3>2
      <4>2. CASE n \in queue[p]
        <5>1. NodeOK(p, n)
          BY <4>2 DEF IInv, NodeInv
        <5>2. QED
          BY <1>3, <1>16, <3>2, <4>1, <5>1 DEF NodeOK
      <4>3. CASE n = N
        <5>1. BroadConn(m.port, p, m.uid, m.lc) \in handled'
          BY <1>3, <1>4, <1>10, <4>1, <4>3
        <5>2. m.ack_count <= Cardinality(Ackers(p, m.uid))'
          BY <1>10, <1>16, <4>1, <4>3, AckersFinite
        <5>3. QED
          BY <3>2, <5>1, <5>2 DEF NodeOK
      <4>4. QED
        BY <1>11, <4>2, <4>3
    <3>3. QED
      BY <3>1, <3>2
  <2>2. ASSUME NEW q \in Proc, NEW m \in queue'[q], NEW n \in queue'[q],
               m.uid = n.uid
        PROVE  m = n
    BY <1>17, <2>2 DEF IInv, NodeInv
  <2>3. QED
    BY <2>1, <2>2 DEF NodeInv
<1>19. AckInv'
  <2>1. SUFFICES ASSUME NEW a \in opened, a.op = "ACK00"
                 PROVE  AckOK(a.from, a.to, a.uid)'
    BY <1>3 DEF AckInv
  <2>2. AckOK(a.from, a.to, a.uid) /\ a.from \in Proc
    BY <2>1, PeerFrom DEF IInv, AckInv, TypeOK
  <2>3. CASE a.from # p
    BY <1>3, <1>17, <2>2, <2>3 DEF AckOK
  <2>4. CASE a.from = p
    <3>1. a.uid # c.uid
      BY <1>8, <2>1, <2>4
    <3>2. \A m \in queue'[p] : m.uid = a.uid => m.ack_flg = 1
      BY <1>10, <1>11, <1>17, <2>2, <2>4, <3>1 DEF AckOK
    <3>3. (\E n \in queue[p] : n.uid = a.uid) =>
              \E n \in queue'[p] : n.uid = a.uid
      BY <1>11, <1>17
    <3>4. QED
      BY <1>3, <2>2, <2>4, <3>2, <3>3 DEF AckOK
  <2>5. QED
    BY <2>3, <2>4
<1>20. ReadyInv' /\ WriteInv' /\ WrittenOnce'
  <2>1. AckedStays
    <3>1. SUFFICES ASSUME NEW q \in Proc, NEW u, AllAcked(q, u)
                   PROVE  AllAcked(q, u)'
      BY DEF AckedStays
    <3>2. CASE q # p
      BY <1>3, <1>17, <3>1, <3>2 DEF AllAcked
    <3>3. CASE q = p
      <4>1. AckConn(p, p, u) \in opened
        BY <3>1, <3>3 DEF AllAcked
      <4>2. u # c.uid
        BY <1>8, <4>1 DEF AckConn
      <4>3. \A m \in queue'[p] : m.uid = u => m.ack_count >= NumProc
        BY <1>10, <1>11, <1>17, <3>1, <3>3, <4>2 DEF AllAcked
      <4>4. QED
        BY <1>3, <3>1, <3>3, <4>3 DEF AllAcked
    <3>4. QED
      BY <3>2, <3>3
  <2>2. \A q \in Proc : \A v : ReadyActive(q, v)' => ReadyActive(q, v)
    <3>1. pc'[p] = "accept" \/ out'[p].op = "ACK00"
      <4>1. ASSUME Return(p) PROVE pc'[p] = "accept"
        BY <4>1, ReturnFacts DEF IInv
      <4>2. ASSUME NEW n \in Q, StartOut(p, "ACK00", n.uid, 0, {n.port})
            PROVE  out'[p].op = "ACK00"
        <5>1. out'[p] = [op |-> "ACK00", uid |-> n.uid, lc |-> 0,
                         dests |-> {n.port}]
          BY <4>2, StartOutFacts DEF IInv
        <5>2. QED
          BY <5>1
      <4>3. QED
        BY <1>1, <4>1, <4>2
    <3>2. QED
      BY <1>2, <3>1 DEF ReadyActive, Sending, OthersSame
  <2>3. QED
    BY <1>3, <2>1, <2>2, ReadyFrame
<1>21. OutInv'
  <2>1. ASSUME Return(p) PROVE (Sending(p) => OutOK(p))'
    BY <2>1, ReturnFacts DEF IInv, Sending
  <2>2. ASSUME NEW n \in Q, n.ack_flg = 0,
               queue' = [queue EXCEPT ![p] =
                   (Q \ {n}) \cup {[n EXCEPT !.ack_flg = 1]}],
               StartOut(p, "ACK00", n.uid, 0, {n.port})
        PROVE  OutOK(p)'
    <3>1. /\ pc'[p] = "connect"
          /\ out'[p] = [op |-> "ACK00", uid |-> n.uid, lc |-> 0,
                        dests |-> {n.port}]
          /\ todo'[p] = {n.port}
      BY <2>2, StartOutFacts DEF IInv
    <3>2. \E m \in queue'[p] : /\ m.uid = n.uid
                               /\ m.ack_flg = 1
                               /\ {n.port} = {m.port}
      <4>1. PICK m : m = [n EXCEPT !.ack_flg = 1]
        OBVIOUS
      <4>2. m.uid = n.uid /\ m.port = n.port /\ m.ack_flg = 1
        BY <4>1 DEF Node
      <4>3. m \in queue'[p]
        BY <2>2, <4>1 DEF IInv, TypeOK
      <4>4. QED
        BY <4>2, <4>3
    <3>3. \A d : Link(p, d)' \notin opened
      <4>1. SUFFICES ASSUME NEW d, Link(p, d)' \in opened PROVE FALSE
        OBVIOUS
      <4>2. Link(p, d)' = AckConn(p, d, n.uid)
        BY <3>1 DEF Link, AckConn
      <4>3. AckOK(p, d, n.uid) /\ n.uid # c.uid
        BY <1>8, <4>1, <4>2 DEF IInv, AckInv, AckConn
      <4>4. n \in queue[p]
        BY <1>10, <1>11, <4>3
      <4>5. QED
        BY <2>2, <4>3, <4>4 DEF AckOK
    <3>4. QED
      BY <1>3, <3>1, <3>2, <3>3 DEF OutOK
  <2>3. (Sending(p) => OutOK(p))'
    BY <1>1, <2>1, <2>2
  <2>4. QED
    BY <1>2, <1>3, <1>13, <1>17, <2>3, OutOthers
<1>22. QED
  BY <1>3, <1>14, <1>15, <1>18, <1>19, <1>20, <1>21 DEF IInv

-----------------------------------------------------------------------------
(* The theorems *)

(***************************************************************************)
(* The initial states satisfy IInv.                                        *)
(***************************************************************************)
LEMMA InvInit == Init => IInv
<1>1. SUFFICES ASSUME Init PROVE IInv
  OBVIOUS
<1>2. TypeOK
  BY <1>1, NoneType DEF Init, TypeOK
<1>3. \A p \in Proc : /\ pc[p] \in {"start", "accept"}
                      /\ queue[p] = {}
                      /\ backlog[p] = <<>>
  BY <1>1 DEF Init
<1>4. \A p \in Proc : \A i : i \notin 1 .. Len(backlog[p])
  <2>1. SUFFICES ASSUME NEW p \in Proc PROVE \A i : i \notin 1 .. Len(backlog[p])
    OBVIOUS
  <2>2. Len(backlog[p]) = 0
    BY <1>3
  <2>3. QED
    BY <2>2
<1>5. \A i : i \notin 1 .. Len(shared)
  BY <1>1 DEF Init
<1>6. InboxInv /\ OutInv /\ NodeInv
  BY <1>3, <1>4 DEF InboxInv, InboxOK, OutInv, Sending, NodeInv
<1>7. ConnInv /\ SetsInv /\ ClockInv /\ AckInv
  BY <1>1 DEF Init, ConnInv, SetsInv, ClockInv, AckInv
<1>8. ReadyInv
  BY <1>1, <1>3 DEF Init, ReadyInv, ReadyActive, Sending
<1>9. WriteInv /\ WrittenOnce
  BY <1>5 DEF WriteInv, WrittenOnce
<1>10. QED
  BY <1>2, <1>6, <1>7, <1>8, <1>9 DEF IInv

(***************************************************************************)
(* Every step preserves IInv.                                              *)
(***************************************************************************)
LEMMA InvStep ==
    ASSUME IInv, [Next]_vars
    PROVE  IInv'
<1>1. TypeOK'
  BY TypeStep DEF IInv
<1>2. CASE UNCHANGED vars
  <2>1. UNCHANGED <<lc, queue, backlog, pc, cur, out, todo, sent, shared,
                    client, opened, handled>>
    BY <1>2 DEF vars
  <2>2. InboxInv' /\ SetsInv'
    BY <2>1 DEF IInv, InboxInv, InboxOK, SetsInv
  <2>3. OutInv'
    <3>1. SUFFICES ASSUME NEW q \in Proc PROVE (Sending(q) => OutOK(q))'
      BY DEF OutInv
    <3>2. lc[q] <= lc'[q]
      BY <2>1 DEF IInv, TypeOK
    <3>3. QED
      BY <1>1, <2>1, <3>2, OutFrame
  <2>4. QED
    BY <1>1, <2>1, <2>2, <2>3, QuietStep DEF ClientsGrow, Sending
<1>3. ASSUME NEW p \in Proc, Step(p)
      PROVE  IInv'
  BY <1>1, <1>3, ListenInv, AcceptInv, RecvEofInv, HandleIssueInv,
     HandleBroadcastInv, HandleAckInv, HandleReadyInv, ConnectInv,
     ConnectFailInv, SendInv, SendFailInv, WriteSharedInv DEF Step
<1>4. ASSUME NEW p \in Proc, Crash(p)
      PROVE  IInv'
  BY <1>1, <1>4, CrashInv
<1>5. ASSUME NEW c \in Client, NEW p \in Proc,
             ClientIssue(c, p) \/ ClientRefused(c, p)
      PROVE  IInv'
  BY <1>1, <1>5, ClientIssueInv, ClientRefusedInv
<1>6. QED
  BY <1>2, <1>3, <1>4, <1>5 DEF Next

(***************************************************************************)
(* IInv holds in every reachable state, for any number of processes and    *)
(* clients, any backlog and any crashes.                                   *)
(***************************************************************************)
THEOREM Invariance == Spec => []IInv
<1>1. IInv /\ [Next]_vars => IInv'
  BY InvStep
<1>2. QED
  BY <1>1, InvInit, PTL DEF Spec

(***************************************************************************)
(* A message is written to the shared file at most once, however its       *)
(* acknowledgements interleave (handle_ack, write_shared).                 *)
(***************************************************************************)
THEOREM WrittenOnceAlways == Spec => []WrittenOnce
<1>1. IInv => WrittenOnce
  BY DEF IInv
<1>2. QED
  BY <1>1, Invariance, PTL

(***************************************************************************)
(* When a message is in the shared file, the clock of every process has    *)
(* reached its timestamp.                                                  *)
(***************************************************************************)
THEOREM StableOnWriteAlways == Spec => []StableOnWrite
<1>1. ASSUME IInv PROVE StableOnWrite
  <2>1. SUFFICES ASSUME NEW q \in Proc, NEW u \in Written
                 PROVE  Timestamp(u) <= lc[q]
    BY DEF StableOnWrite
  <2>2. PICK i \in 1 .. Len(shared) : u = shared[i]
    BY DEF Written
  <2>3. PICK p \in Proc : AllAcked(p, u)
    BY <1>1, <2>2 DEF IInv, WriteInv
  <2>4. AckConn(q, p, u) \in opened
    BY <2>3 DEF AllAcked
  <2>5. AckOK(q, p, u)
    BY <1>1, <2>4 DEF IInv, AckInv, AckConn
  <2>6. PICK t \in 1 .. LCBound - 1 : BroadConn(p, q, u, t) \in handled
    BY <2>5 DEF AckOK
  <2>7. t <= lc[q]
    BY <1>1, <2>6 DEF IInv, ClockInv, BroadConn
  <2>8. IssuedAt(u, p, t)
    BY <1>1, <2>6, BroadIssued, HandledOpened
  <2>9. Timestamp(u) = t
    BY <2>8, UidTimestamp
  <2>10. QED
    BY <2>7, <2>9
<1>2. QED
  BY <1>1, Invariance, PTL

(***************************************************************************)
(* A READY that is about to be handled finds its node.                     *)
(***************************************************************************)
LEMMA ReadyHasNode ==
    ASSUME IInv
    PROVE  ReadyFindsNode
<1>1. SUFFICES ASSUME NEW p \in Proc, pc[p] = "recv", cur[p].op = "READY"
               PROVE  \E n \in queue[p] : n.uid = cur[p].uid /\ n.ack_flg = 1
  BY DEF ReadyFindsNode
<1>2. PICK c : c = cur[p]
  OBVIOUS
<1>3. c \in opened /\ c \notin handled /\ c.to = p /\ c \in Conn
  BY <1>1, <1>2 DEF IInv, InboxInv, InboxOK, TypeOK
<1>4. c.lc = 0 /\ AllAcked(c.from, c.uid)
  BY <1>1, <1>2, <1>3 DEF IInv, ConnInv, ConnOK, ReadyInv
<1>5. c = ReadyConn(c.from, p, c.uid)
  BY <1>1, <1>2, <1>3, <1>4, ConnFields DEF ReadyConn
<1>6. AckConn(p, c.from, c.uid) \in opened
  BY <1>4 DEF AllAcked
<1>7. AckOK(p, c.from, c.uid)
  BY <1>6 DEF IInv, AckInv, AckConn
<1>8. QED
  BY <1>2, <1>3, <1>5, <1>7 DEF AckOK

(***************************************************************************)
(* A process that is handed a READY holds the node the READY names, and    *)
(* has acknowledged it.                                                    *)
(***************************************************************************)
THEOREM ReadyFindsNodeAlways == Spec => []ReadyFindsNode
<1>1. IInv => ReadyFindsNode
  BY ReadyHasNode
<1>2. QED
  BY <1>1, Invariance, PTL

-----------------------------------------------------------------------------
(* The queues implement MsgQueue.  The invariant is needed in two places:  *)
(* a BROAD that is handled was broadcast, and the node that a READY takes  *)
(* out has been acknowledged.                                              *)

(***************************************************************************)
(* A step that leaves the queue of p alone and forgets no broadcast is an  *)
(* Offer step, or none.                                                    *)
(***************************************************************************)
LEMMA OfferStep ==
    ASSUME NEW p \in Proc, opened \subseteq opened',
           queue'[p] = queue[p], tail'[p] = tail[p]
    PROVE  Queue(p)!Next
<1>1. BroadcastNodes \subseteq BroadcastNodes'
  BY DEF BroadcastNodes, create_node
<1>2. QED
  BY <1>1 DEF Queue!Next, Queue!Offer

(***************************************************************************)
(* handle_broadcast() of p is a Receive step of its queue.                 *)
(***************************************************************************)
LEMMA BroadcastIsReceive ==
    ASSUME IInv, NEW p \in Proc, handle_broadcast(p)
    PROVE  Queue(p)!Receive
<1> DEFINE n == create_node(cur[p])
           q == enqueue(queue[p], tail[p], n)
<1>1. n \in BroadcastNodes
  BY DEF handle_broadcast, Receives, IInv, InboxInv, InboxOK, BroadcastNodes
<1>2. BroadcastNodes' = BroadcastNodes
  BY DEF handle_broadcast, Receives, BroadcastNodes
<1>3. tail'[p] = enqueue_tail(tail[p])
  BY DEF handle_broadcast, IInv, TypeOK
<1>4. \/ \E m \in q : /\ IsHead(m, q)
                     /\ m.ack_flg = 0
                     /\ queue'[p] = (q \ {m}) \cup {[m EXCEPT !.ack_flg = 1]}
      \/ /\ \A m \in q : IsHead(m, q) => m.ack_flg = 1
         /\ queue'[p] = q
  <2>1. check_and_ack_head(p, q) /\ queue \in [Proc -> SUBSET Node]
    BY DEF handle_broadcast, IInv, TypeOK
  <2> HIDE DEF q
  <2>2. QED
    BY <2>1 DEF check_and_ack_head
<1>5. q = Queue(p)!enqueue(queue[p], tail[p], n)
  BY DEF enqueue, Queue!enqueue
<1>6. Queue(p)!AckFirst(q)
  <2> HIDE DEF q
  <2>1. \A m : IsHead(m, q) <=> Queue(p)!IsHead(m, q)
    BY DEF IsHead, Queue!IsHead, Before, Queue!Before
  <2>2. QED
    BY <1>4, <2>1 DEF Queue!AckFirst, Queue!Acked
<1>7. tail'[p] = Queue(p)!enqueue_tail(tail[p])
  BY <1>3 DEF enqueue_tail, Queue!enqueue_tail
<1>8. QED
  <2> HIDE DEF n, q
  <2>1. QED
    BY <1>1, <1>2, <1>5, <1>6, <1>7 DEF Queue!Receive

(***************************************************************************)
(* handle_ack() of p counts on one node of its queue, or on none.          *)
(***************************************************************************)
LEMMA AckIsCount ==
    ASSUME IInv, NEW p \in Proc, handle_ack(p)
    PROVE  Queue(p)!Next
<1>1. opened' = opened /\ BroadcastNodes' = BroadcastNodes /\ tail' = tail
  BY DEF handle_ack, Receives, BroadcastNodes
<1>2. CASE queue' = queue
  BY <1>1, <1>2, OfferStep
<1>3. ASSUME NEW n \in queue[p],
             queue' = [queue EXCEPT
                          ![p] = (@ \ {n}) \cup {[n EXCEPT !.ack_count = @ + 1]}]
      PROVE  Queue(p)!Next
  <2>1. queue'[p] = (queue[p] \ {n}) \cup {[n EXCEPT !.ack_count = @ + 1]}
    BY <1>3 DEF IInv, TypeOK
  <2>2. QED
    BY <1>1, <2>1 DEF Queue!Next, Queue!Count
<1>4. QED
  BY <1>2, <1>3 DEF handle_ack

(***************************************************************************)
(* handle_ready() of p removes an acknowledged node from its queue.        *)
(***************************************************************************)
LEMMA ReadyIsRemove ==
    ASSUME IInv, NEW p \in Proc, handle_ready(p)
    PROVE  Queue(p)!Next
<1>1. BroadcastNodes' = BroadcastNodes
  BY DEF handle_ready, Receives, BroadcastNodes
<1>2. PICK m \in queue[p] : m.uid = cur[p].uid /\ m.ack_flg = 1
  BY ReadyHasNode DEF ReadyFindsNode, handle_ready, Receives
<1>3. PICK n \in queue[p] :
         /\ n.uid = cur[p].uid
         /\ queue' = [queue EXCEPT ![p] = @ \ {n}]
         /\ tail' = [tail EXCEPT ![p] = dequeue_tail(queue[p], @, n)]
  BY <1>2 DEF handle_ready
<1>4. n.ack_flg = 1
  BY <1>2, <1>3 DEF IInv, NodeInv
<1>5. queue'[p] = queue[p] \ {n} /\ tail'[p] = dequeue_tail(queue[p], tail[p], n)
  BY <1>3 DEF IInv, TypeOK
<1>6. QED
  BY <1>1, <1>4, <1>5 DEF Queue!Next, Queue!Remove, dequeue_tail, Queue!dequeue_tail

(***************************************************************************)
(* A step of another process, or of p outside its three handlers, does not *)
(* touch the queue of p.                                                   *)
(***************************************************************************)
LEMMA StepImplements ==
    ASSUME IInv, NEW p \in Proc, NEW r \in Proc, Step(r)
    PROVE  Queue(p)!Next
<1> USE DEF Receives
<1>1. /\ queue \in [Proc -> SUBSET Node]
      /\ tail \in [Proc -> {"null", "last", "off"}]
  BY DEF IInv, TypeOK
<1>2. CASE handle_broadcast(r)
  <2>1. CASE r = p
    BY <1>2, <2>1, BroadcastIsReceive DEF Queue!Next
  <2>2. CASE r # p
    <3>1. queue'[p] = queue[p]
      BY <1>1, <1>2, <2>2 DEF handle_broadcast, check_and_ack_head
    <3>2. tail'[p] = tail[p] /\ opened' = opened
      BY <1>1, <1>2, <2>2 DEF handle_broadcast
    <3>3. QED
      BY <3>1, <3>2, OfferStep
  <2>3. QED
    BY <2>1, <2>2
<1>3. CASE handle_ack(r)
  <2>1. CASE r = p
    BY <1>3, <2>1, AckIsCount
  <2>2. CASE r # p
    <3>1. queue'[p] = queue[p] /\ tail' = tail /\ opened' = opened
      BY <1>1, <1>3, <2>2 DEF handle_ack
    <3>2. QED
      BY <3>1, OfferStep
  <2>3. QED
    BY <2>1, <2>2
<1>4. CASE handle_ready(r)
  <2>1. CASE r = p
    BY <1>4, <2>1, ReadyIsRemove
  <2>2. CASE r # p
    <3>1. queue'[p] = queue[p] /\ tail'[p] = tail[p] /\ opened' = opened
      BY <1>1, <1>4, <2>2 DEF handle_ready
    <3>2. QED
      BY <3>1, OfferStep
  <2>3. QED
    BY <2>1, <2>2
<1>5. CASE \/ Listen(r) \/ Accept(r) \/ RecvEof(r) \/ handle_issue(r)
           \/ Connect(r) \/ ConnectFail(r) \/ Send(r) \/ SendFail(r)
           \/ write_shared(r)
  <2>1. queue' = queue /\ tail' = tail /\ opened \subseteq opened'
    BY <1>5 DEF Listen, Accept, RecvEof, handle_issue, Connect, ConnectFail,
                Send, SendFail, write_shared
  <2>2. QED
    BY <2>1, OfferStep
<1>6. QED
  BY <1>2, <1>3, <1>4, <1>5 DEF Step

(***************************************************************************)
(* Every step of the system is a step of the message queue of p, or leaves *)
(* it as it is.                                                            *)
(***************************************************************************)
LEMMA NextImplements ==
    ASSUME IInv, [Next]_vars, NEW p \in Proc
    PROVE  [Queue(p)!Next]_(Queue(p)!vars)
<1>1. CASE UNCHANGED vars
  BY <1>1, OfferStep DEF vars
<1>2. CASE \E r \in Proc : Step(r)
  BY <1>2, StepImplements
<1>3. CASE \/ \E r \in Proc : Crash(r)
           \/ \E c \in Client, r \in Proc : \/ ClientIssue(c, r)
                                             \/ ClientRefused(c, r)
  <2>1. queue' = queue /\ tail' = tail /\ opened \subseteq opened'
    BY <1>3 DEF Crash, ClientIssue, ClientRefused
  <2>2. QED
    BY <2>1, OfferStep
<1>4. QED
  BY <1>1, <1>2, <1>3 DEF Next

(***************************************************************************)
(* The queue of every process starts empty.                                *)
(***************************************************************************)
LEMMA InitImplements ==
    ASSUME Init, NEW p \in Proc
    PROVE  Queue(p)!Init
BY DEF Init, Queue!Init

(***************************************************************************)
(* For any number of processes and clients and any failures, every process *)
(* keeps to the message queue of MsgQueue: it acknowledges the first node  *)
(* of its queue, each node once, and only acknowledged nodes leave         *)
(* (handle_broadcast, handle_ack, handle_ready).                           *)
(***************************************************************************)
THEOREM QueueRefinement == Spec => ImplementsMsgQueue
<1>1. Init => \A p \in Proc : Queue(p)!Init
  BY InitImplements
<1>2. IInv /\ [Next]_vars => [\A p \in Proc : [Queue(p)!Next]_(Queue(p)!vars)]_vars
  BY NextImplements
<1>3. QED
  BY <1>1, <1>2, Invariance, PTL DEF Spec, ImplementsMsgQueue
=============================================================================
