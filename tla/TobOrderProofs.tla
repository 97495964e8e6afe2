--------------------------- MODULE TobOrderProofs ---------------------------
(***************************************************************************)
(* The invariant OInv of TobOrder holds next to IInv, and what follows     *)
(* from it: messages of one issuer are written in the order of issue, and  *)
(* acknowledgements find their node.                                       *)
(***************************************************************************)
EXTENDS TobOrder, TobInvProofs

-----------------------------------------------------------------------------
(* What a step does to the connections a process has not yet handled *)

(***************************************************************************)
(* Of p's own broadcasts no new one is pending, and their order is kept.   *)
(***************************************************************************)
NoneNew(p) ==
    /\ \A b : b \in Pending(p)' /\ Own(b, p) => b \in Pending(p)
    /\ \A a, b : Ahead(p, a, b)' /\ Own(b, p) => Ahead(p, a, b)

(***************************************************************************)
(* Of two connections of which one is ahead, both are pending.             *)
(***************************************************************************)
LEMMA AheadPending ==
    ASSUME NEW p, NEW a, NEW b, Ahead(p, a, b)
    PROVE  a \in Pending(p) /\ b \in Pending(p)
  BY DEF Ahead, Pending, Queued

(***************************************************************************)
(* A process that neither accepts nor ends a handler keeps its inbox while *)
(* nobody connects to it.                                                  *)
(***************************************************************************)
LEMMA InboxKept ==
    ASSUME NEW p, backlog'[p] = backlog[p], pc'[p] = "recv" <=> pc[p] = "recv",
           pc[p] = "recv" => cur'[p] = cur[p]
    PROVE  Pending(p)' = Pending(p) /\ NoneNew(p)
  BY DEF Pending, Ahead, Queued, NoneNew

(***************************************************************************)
(* accept() takes the first connection, and changes no order.              *)
(***************************************************************************)
LEMMA InboxAccept ==
    ASSUME TypeOK, NEW p \in Proc, Accept(p), NEW q \in Proc
    PROVE  Pending(q)' = Pending(q) /\ NoneNew(q)
<1>1. CASE q # p
  <2>1. backlog'[q] = backlog[q] /\ pc'[q] = pc[q] /\ cur'[q] = cur[q]
    BY <1>1 DEF Accept, TypeOK
  <2>2. QED
    BY <2>1, InboxKept
<1>2. CASE q = p
  <2>1. /\ pc'[p] = "recv"
        /\ pc[p] = "accept"
        /\ cur'[p] = Head(backlog[p])
        /\ backlog'[p] = Tail(backlog[p])
        /\ backlog[p] \in Seq(Conn)
        /\ backlog[p] # <<>>
    BY DEF Accept, TypeOK
  <2>2. PICK n : n = Len(backlog[p])
    OBVIOUS
  <2>3. n \in Nat /\ n >= 1 /\ Len(backlog'[p]) = n - 1
    BY <2>1, <2>2
  <2>4. cur'[p] = backlog[p][1]
    BY <2>1
  <2>5. \A i \in 1 .. n - 1 : backlog'[p][i] = backlog[p][i + 1]
    BY <2>1, <2>2, <2>3
  <2>6. \A i \in 1 .. n : i = 1 \/ (i - 1 \in 1 .. n - 1
                                    /\ backlog[p][i] = backlog'[p][i - 1])
    <3>1. SUFFICES ASSUME NEW i \in 1 .. n, i # 1
                   PROVE  i - 1 \in 1 .. n - 1 /\ backlog[p][i] = backlog'[p][i - 1]
      OBVIOUS
    <3>2. i - 1 \in 1 .. n - 1 /\ (i - 1) + 1 = i
      BY <2>3, <3>1
    <3>3. QED
      BY <2>5, <3>2
  <2>7. \A b : b \in Queued(p)' <=> \E i \in 1 .. n - 1 : b = backlog'[p][i]
    BY <2>3 DEF Queued
  <2>8. \A b : b \in Queued(p) <=> \E i \in 1 .. n : b = backlog[p][i]
    BY <2>2 DEF Queued
  <2>9. \A i \in 1 .. n - 1 : i + 1 \in 1 .. n
    BY <2>3
  <2>10. 1 \in 1 .. n
    BY <2>3
  <2>11. \A b : b \in Pending(p)' <=> b \in Pending(p)
    <3>1. \A b : b \in Pending(p)' <=> b \in Queued(p)' \/ b = cur'[p]
      BY <2>1 DEF Pending
    <3>2. \A b : b \in Pending(p) <=> b \in Queued(p)
      BY <2>1 DEF Pending
    <3>3. \A b : b \in Queued(p)' => b \in Queued(p)
      BY <2>5, <2>7, <2>8, <2>9
    <3>4. \A b : b \in Queued(p) => b \in Queued(p)' \/ b = cur'[p]
      BY <2>4, <2>6, <2>7, <2>8
    <3>5. cur'[p] \in Queued(p)
      BY <2>4, <2>8, <2>10
    <3>6. QED
      BY <3>1, <3>2, <3>3, <3>4, <3>5
  <2>12. ASSUME NEW a, NEW b, Ahead(p, a, b)' PROVE Ahead(p, a, b)
    <3>1. CASE a = cur'[p] /\ b \in Queued(p)'
      <4>1. PICK j \in 1 .. n - 1 : b = backlog'[p][j]
        BY <2>7, <3>1
      <4>2. j + 1 \in 1 .. n /\ 1 < j + 1 /\ backlog[p][j + 1] = b
        BY <2>5, <2>9, <4>1
      <4>3. backlog[p][1] = a
        BY <2>4, <3>1
      <4>4. QED
        BY <2>2, <2>10, <4>2, <4>3 DEF Ahead
    <3>2. CASE \E i, j \in 1 .. Len(backlog'[p]) :
                  i < j /\ backlog'[p][i] = a /\ backlog'[p][j] = b
      <4>1. PICK i \in 1 .. n - 1, j \in 1 .. n - 1 :
                  i < j /\ backlog'[p][i] = a /\ backlog'[p][j] = b
        BY <2>3, <3>2
      <4>2. i + 1 \in 1 .. n /\ j + 1 \in 1 .. n /\ i + 1 < j + 1
        BY <2>9, <4>1
      <4>3. backlog[p][i + 1] = a /\ backlog[p][j + 1] = b
        BY <2>5, <4>1
      <4>4. QED
        BY <2>2, <4>2, <4>3 DEF Ahead
    <3>3. QED
      BY <2>12, <3>1, <3>2 DEF Ahead
  <2>13. Pending(p)' = Pending(p)
    BY <2>11
  <2>14. QED
    BY <1>2, <2>11, <2>12, <2>13 DEF NoneNew
<1>3. QED
  BY <1>1, <1>2

(***************************************************************************)
(* A handler takes the connection it served out, which was ahead of all    *)
(* the others.                                                             *)
(***************************************************************************)
LEMMA InboxServed ==
    ASSUME IInv, NEW p \in Proc, pc[p] = "recv", pc'[p] # "recv",
           OthersSame(p), backlog' = backlog, NEW q \in Proc
    PROVE  /\ NoneNew(q)
           /\ q # p => Pending(q)' = Pending(q)
           /\ Pending(p)' = Pending(p) \ {cur[p]}
           /\ cur[p] \in Pending(p)
           /\ \A b \in Pending(p)' : Ahead(p, cur[p], b)
<1>1. ASSUME q # p PROVE Pending(q)' = Pending(q) /\ NoneNew(q)
  <2>1. pc'[q] = pc[q] /\ cur'[q] = cur[q]
    BY <1>1 DEF OthersSame
  <2>2. QED
    BY <2>1, InboxKept
<1>2. Queued(p)' = Queued(p)
  BY DEF Queued
<1>3. cur[p] \notin Queued(p)
  BY DEF IInv, InboxInv, InboxOK, Queued
<1>4. Pending(p)' = Queued(p) /\ Pending(p) = Queued(p) \cup {cur[p]}
  BY <1>2 DEF Pending
<1>5. \A b \in Queued(p) : Ahead(p, cur[p], b)
  BY DEF Ahead
<1>6. \A a, b : Ahead(p, a, b)' => Ahead(p, a, b)
  BY DEF Ahead
<1>7. NoneNew(p)
  BY <1>4, <1>6 DEF NoneNew
<1>8. QED
  BY <1>1, <1>3, <1>4, <1>5, <1>7

(***************************************************************************)
(* A new connection goes behind all the others.                            *)
(***************************************************************************)
LEMMA InboxGrows ==
    ASSUME TypeOK, NEW d \in Proc, NEW k,
           backlog' = [backlog EXCEPT ![d] = Append(@, k)], NEW q \in Proc,
           pc'[q] = "recv" <=> pc[q] = "recv", cur'[q] = cur[q]
    PROVE  /\ q # d => Pending(q)' = Pending(q) /\ NoneNew(q)
           /\ q = d => /\ Pending(d)' = Pending(d) \cup {k}
                       /\ \A a, b : Ahead(d, a, b)' =>
                             \/ Ahead(d, a, b)
                             \/ a \in Pending(d) /\ b = k
<1>1. ASSUME q # d PROVE Pending(q)' = Pending(q) /\ NoneNew(q)
  <2>1. backlog'[q] = backlog[q]
    BY <1>1 DEF TypeOK
  <2>2. QED
    BY <2>1, InboxKept
<1>2. CASE q = d
  <2>1. PICK n : n = Len(backlog[d])
    OBVIOUS
  <2>2. /\ n \in Nat
        /\ Len(backlog'[d]) = n + 1
        /\ backlog'[d][n + 1] = k
        /\ \A i \in 1 .. n : backlog'[d][i] = backlog[d][i]
    BY <2>1 DEF TypeOK
  <2>3. \A i : i \in 1 .. n + 1 <=> i \in 1 .. n \/ i = n + 1
    BY <2>2
  <2>4. \A b : b \in Queued(d) <=> \E i \in 1 .. n : b = backlog[d][i]
    BY <2>1 DEF Queued
  <2>5. \A b : b \in Queued(d)' <=> \E i \in 1 .. n + 1 : b = backlog'[d][i]
    BY <2>2 DEF Queued
  <2>6. \A b : b \in Queued(d)' <=> b \in Queued(d) \/ b = k
    BY <2>2, <2>3, <2>4, <2>5
  <2>7. \A b : b \in Pending(d)' <=> b \in Pending(d) \/ b = k
    BY <1>2, <2>6 DEF Pending
  <2>8. Pending(d)' = Pending(d) \cup {k}
    BY <2>7
  <2>9. ASSUME NEW a, NEW b, Ahead(d, a, b)'
        PROVE  Ahead(d, a, b) \/ (a \in Pending(d) /\ b = k)
    <3>1. CASE pc'[d] = "recv" /\ a = cur'[d] /\ b \in Queued(d)'
      BY <1>2, <2>6, <3>1 DEF Ahead, Pending
    <3>2. CASE \E i, j \in 1 .. Len(backlog'[d]) :
                  i < j /\ backlog'[d][i] = a /\ backlog'[d][j] = b
      <4>1. PICK i \in 1 .. n + 1, j \in 1 .. n + 1 :
                  i < j /\ backlog'[d][i] = a /\ backlog'[d][j] = b
        BY <2>2, <3>2
      <4>2. i \in 1 .. n
        BY <2>2, <4>1
      <4>3. backlog[d][i] = a /\ a \in Pending(d)
        BY <2>2, <2>4, <4>1, <4>2 DEF Pending
      <4>4. CASE j \in 1 .. n
        BY <2>1, <2>2, <4>1, <4>2, <4>3, <4>4 DEF Ahead
      <4>5. CASE j = n + 1
        BY <2>2, <4>1, <4>3, <4>5
      <4>6. QED
        BY <2>3, <4>4, <4>5
    <3>3. QED
      BY <2>9, <3>1, <3>2 DEF Ahead
  <2>10. QED
    BY <1>2, <2>8, <2>9
<1>3. QED
  BY <1>1, <1>2

-----------------------------------------------------------------------------
(* What a step leaves alone *)

(***************************************************************************)
(* p links no message that it had not linked before.                       *)
(***************************************************************************)
OldNodes(p) ==
    \A n \in queue'[p] : \E m \in queue[p] : m.uid = n.uid /\ m.port = n.port

(***************************************************************************)
(* What p has passed stays passed while no own broadcast and no node comes *)
(* in.                                                                     *)
(***************************************************************************)
LEMMA PassedStays ==
    ASSUME NEW p \in Proc, NEW u, Passed(p, u), NoneNew(p), OldNodes(p)
    PROVE  Passed(p, u)'
<1>1. \A b \in Pending(p)' : Own(b, p) => u <= b.uid
  BY DEF Passed, NoneNew
<1>2. \A n \in queue'[p] : n.port = p => u <= n.uid
  BY DEF Passed, OldNodes
<1>3. QED
  BY <1>1, <1>2 DEF Passed

(***************************************************************************)
(* The order of the inbox does not mind a step that adds no own broadcast. *)
(***************************************************************************)
LEMMA FifoFrame ==
    ASSUME NEW p \in Proc, FifoOK(p), NoneNew(p)
    PROVE  FifoOK(p)'
<1>1. SUFFICES ASSUME NEW a, NEW b, Ahead(p, a, b)', Own(b, p)
               PROVE  /\ Own(a, p) => a.uid <= b.uid
                      /\ a.op = "ACK00" => a.uid # b.uid
  BY DEF FifoOK, Own
<1>2. Ahead(p, a, b)
  BY <1>1 DEF NoneNew
<1>3. QED
  BY <1>1, <1>2, AheadPending DEF FifoOK

(***************************************************************************)
(* Nor does the order between queue and inbox, when no node is new either. *)
(***************************************************************************)
LEMMA AheadFrame ==
    ASSUME NEW p \in Proc, AheadOK(p), NoneNew(p), OldNodes(p)
    PROVE  AheadOK(p)'
<1>1. SUFFICES ASSUME NEW n \in queue'[p], NEW b \in Pending(p)',
                      n.port = p, Own(b, p)
               PROVE  n.uid <= b.uid
  BY DEF AheadOK, Own
<1>2. b \in Pending(p)
  BY <1>1 DEF NoneNew
<1>3. PICK m \in queue[p] : m.uid = n.uid /\ m.port = n.port
  BY DEF OldNodes
<1>4. QED
  BY <1>1, <1>2, <1>3 DEF AheadOK

(***************************************************************************)
(* The order at p does not mind a step that brings p no own broadcast and  *)
(* no node, that opens no connection of p and starts no loop of p.         *)
(***************************************************************************)
LEMMA OrderFrame ==
    ASSUME NEW p \in Proc, OrderOK(p), NoneNew(p), OldNodes(p),
           handled \subseteq handled', shared' = shared \/ WriteOK(p)',
           \A c \in opened' : c \in opened \/ c.from # p,
           Sending(p)' => Sending(p) /\ out'[p] = out[p]
    PROVE  OrderOK(p)'
<1>1. FifoOK(p)'
  BY FifoFrame DEF OrderOK
<1>2. LatestOK(p)'
  BY DEF OrderOK, LatestOK, Own
<1>3. AheadOK(p)'
  BY AheadFrame DEF OrderOK
<1>4. SelfAckOK(p)'
  <2>1. ASSUME NEW a \in opened', a.op = "ACK00", a.from = p, a.to = p
        PROVE  Passed(p, a.uid)'
    <3>1. a \in opened
      BY <2>1
    <3>2. Passed(p, a.uid)
      BY <2>1, <3>1 DEF OrderOK, SelfAckOK
    <3>3. QED
      BY <3>2, PassedStays
  <2>2. ASSUME Sending(p)', out'[p].op = "ACK00", p \in out'[p].dests
        PROVE  Passed(p, out[p].uid)'
    <3>1. Sending(p) /\ out'[p] = out[p]
      BY <2>2
    <3>2. Passed(p, out[p].uid)
      BY <2>2, <3>1 DEF OrderOK, SelfAckOK
    <3>3. PICK u : u = out[p].uid
      OBVIOUS
    <3>4. Passed(p, u)'
      BY <3>2, <3>3, PassedStays
    <3>5. QED
      BY <3>1, <3>3, <3>4 DEF Passed
  <2>3. QED
    BY <2>1, <2>2 DEF SelfAckOK
<1>5. CountOK(p)'
  <2>1. \A u : Ackers(p, u) = Proc => Ackers(p, u)' = Proc
    BY DEF Ackers
  <2>2. ASSUME NEW c \in opened', c.op = "READY", c.from = p
        PROVE  Ackers(p, c.uid)' = Proc
    BY <2>1, <2>2 DEF OrderOK, CountOK
  <2>3. ASSUME ReadyActive(p, out[p].uid)' PROVE Ackers(p, out[p].uid)' = Proc
    <3>1. out'[p] = out[p] /\ ReadyActive(p, out[p].uid)
      BY <2>3 DEF ReadyActive
    <3>2. Ackers(p, out[p].uid) = Proc
      BY <3>1 DEF OrderOK, CountOK
    <3>3. QED
      BY <3>1, <3>2 DEF Ackers
  <2>4. QED
    BY <2>2, <2>3 DEF CountOK
<1>6. WriteOK(p)'
  BY DEF OrderOK, WriteOK, ReadyActive
<1>7. QED
  BY <1>1, <1>2, <1>3, <1>4, <1>5, <1>6 DEF OrderOK

(***************************************************************************)
(* Nothing new is sent.                                                    *)
(***************************************************************************)
LEMMA ReachFrame ==
    ASSUME ReachInv, opened \subseteq opened',
           \A b \in sent' : b \in sent \/ b.op # "BROAD"
    PROVE  ReachInv'
  BY DEF ReachInv

(***************************************************************************)
(* A broadcast of a process to itself is put into its inbox and does not   *)
(* leave it.                                                               *)
(***************************************************************************)
LEMMA PlaceFrame ==
    ASSUME IInv, PlaceInv, handled \subseteq handled', closed \subseteq closed',
           up' \subseteq up,
           \A b \in opened' : \/ b \in opened
                             \/ b.op # "BROAD"
                             \/ b.from # b.to
                             \/ b \in Pending(b.to)',
           \A q \in Proc : \A b \in Pending(q) :
              b.op = "BROAD" /\ b.from = b.to =>
                 b \in Pending(q)' \/ b \in handled' \/ b \in closed' \/ q \notin up'
    PROVE  PlaceInv'
<1>1. SUFFICES ASSUME NEW b \in opened', b.op = "BROAD", b.from = b.to
               PROVE  \/ b \in Pending(b.to)' \/ b \in handled' \/ b \in closed'
                      \/ b.to \notin up'
  BY DEF PlaceInv
<1>2. CASE b \in opened
  <2>1. b.to \in Proc
    BY <1>2, ConnTo DEF IInv, TypeOK
  <2>2. QED
    BY <1>1, <1>2, <2>1 DEF PlaceInv
<1>3. QED
  BY <1>1, <1>2

(***************************************************************************)
(* What a process handles of its own is linked, and no node is lost but to *)
(* its READY.                                                              *)
(***************************************************************************)
LEMMA KeptFrame ==
    ASSUME IInv, KeptInv, handled \subseteq handled',
           \A b \in handled' :
              \/ b \in handled
              \/ b.op # "BROAD"
              \/ b.from # b.to
              \/ \E n \in queue'[b.to] : n.uid = b.uid
              \/ tail'[b.to] = "off",
           \A q \in Proc : tail[q] = "off" => tail'[q] = "off",
           \A q \in Proc : \A m \in queue[q] :
              \/ \E n \in queue'[q] : n.uid = m.uid
              \/ ReadyConn(q, q, m.uid) \in handled'
              \/ m.port # q
    PROVE  KeptInv'
<1>1. SUFFICES ASSUME NEW b \in handled', b.op = "BROAD", b.from = b.to
               PROVE  \/ \E n \in queue'[b.to] : n.uid = b.uid
                      \/ tail'[b.to] = "off"
                      \/ ReadyConn(b.to, b.to, b.uid) \in handled'
  BY DEF KeptInv
<1>0. SUFFICES ASSUME b \in handled
               PROVE  \/ \E n \in queue'[b.to] : n.uid = b.uid
                      \/ tail'[b.to] = "off"
                      \/ ReadyConn(b.to, b.to, b.uid) \in handled'
  BY <1>1
<1>2. b \in handled /\ b \in Conn /\ b \in opened
  BY <1>0, <1>1, HandledOpened DEF IInv, TypeOK
<1>3. b.to \in Proc
  BY <1>2, ConnTo
<1>4. CASE \E m \in queue[b.to] : m.uid = b.uid
  <2>1. PICK m \in queue[b.to] : m.uid = b.uid
    BY <1>4
  <2>2. BroadConn(m.port, b.to, m.uid, m.lc) \in opened
    BY <1>3, HandledOpened DEF IInv, NodeInv, NodeOK
  <2>3. m.port \in Proc /\ IssuedAt(m.uid, m.port, m.lc)
    BY <2>2, BroadIssued
  <2>4. b = BroadConn(b.from, b.to, b.uid, b.lc)
    BY <1>1, <1>2, ConnFields DEF BroadConn
  <2>5. IssuedAt(b.uid, b.from, b.lc)
    BY <1>2, <2>4, BroadIssued
  <2>6. m.port = b.to
    BY <1>1, <1>3, <2>1, <2>3, <2>5, UidUnique
  <2>7. QED
    BY <1>3, <2>1, <2>6
<1>5. CASE tail[b.to] = "off"
  BY <1>3, <1>5
<1>6. CASE ReadyConn(b.to, b.to, b.uid) \in handled
  BY <1>6
<1>7. QED
  BY <1>1, <1>2, <1>4, <1>5, <1>6 DEF KeptInv

-----------------------------------------------------------------------------
(* Steps that only move threads and accept queues *)

(***************************************************************************)
(* A step that opens, handles, links and writes nothing.                   *)
(***************************************************************************)
LEMMA QuietOrder ==
    ASSUME IInv, OInv, UpInv', ReachInv', closed \subseteq closed',
           up' \subseteq up, UNCHANGED <<queue, tail, opened, handled, shared>>,
           \A q \in Proc : NoneNew(q),
           \A q \in Proc : Sending(q)' => Sending(q) /\ out'[q] = out[q],
           \A q \in Proc : \A b \in Pending(q) :
              b.op = "BROAD" /\ b.from = b.to =>
                 b \in Pending(q)' \/ b \in closed' \/ q \notin up'
    PROVE  OInv'
<1>1. OrderInv'
  <2>1. SUFFICES ASSUME NEW q \in Proc PROVE OrderOK(q)'
    BY DEF OrderInv
  <2>2. OrderOK(q) /\ OldNodes(q)
    BY DEF OInv, OrderInv, OldNodes
  <2>3. QED
    BY <2>2, OrderFrame
<1>2. PlaceInv'
  BY PlaceFrame DEF OInv
<1>3. KeptInv'
  BY KeptFrame DEF OInv
<1>4. WrittenInIssueOrder'
  BY DEF OInv, WrittenInIssueOrder
<1>5. QED
  BY <1>1, <1>2, <1>3, <1>4 DEF OInv

(***************************************************************************)
(* A process that takes a step is up, and stays so.                        *)
(***************************************************************************)
LEMMA UpStays ==
    ASSUME UpInv, NEW p \in Proc, p \in up, up' = up,
           \A q \in Proc \ {p} : pc'[q] = pc[q]
    PROVE  UpInv'
  BY DEF UpInv

(***************************************************************************)
(* ClientRefused preserves OInv.                                           *)
(***************************************************************************)
LEMMA ClientRefusedOrder ==
    ASSUME IInv, OInv, NEW c \in Client, NEW p \in Proc, ClientRefused(c, p)
    PROVE  OInv'
<1>1. UNCHANGED <<queue, tail, opened, handled, shared, closed, up, sent, pc,
                  cur, out, backlog>>
  BY DEF ClientRefused
<1>2. \A q \in Proc : Pending(q)' = Pending(q) /\ NoneNew(q)
  BY <1>1, InboxKept
<1>3. UpInv' /\ ReachInv'
  BY <1>1 DEF OInv, UpInv, ReachInv
<1>4. QED
  BY <1>1, <1>2, <1>3, QuietOrder DEF Sending

(***************************************************************************)
(* Listen preserves OInv.                                                  *)
(***************************************************************************)
LEMMA ListenOrder ==
    ASSUME IInv, OInv, NEW p \in Proc, Listen(p)
    PROVE  OInv'
<1>1. /\ UNCHANGED <<queue, tail, backlog, cur, opened, handled, shared,
                     closed, up, sent, out>>
      /\ p \in up /\ pc[p] = "start" /\ pc'[p] = "accept"
      /\ \A q \in Proc \ {p} : pc'[q] = pc[q]
  BY DEF Listen, IInv, TypeOK
<1>2. \A q \in Proc : Pending(q)' = Pending(q) /\ NoneNew(q)
  <2>1. \A q \in Proc : pc'[q] = "recv" <=> pc[q] = "recv"
    BY <1>1
  <2>2. QED
    BY <1>1, <2>1, InboxKept
<1>3. UpInv' /\ ReachInv'
  BY <1>1, UpStays, ReachFrame DEF OInv
<1>4. \A q \in Proc : Sending(q)' => Sending(q) /\ out'[q] = out[q]
  BY <1>1 DEF Sending
<1>5. QED
  BY <1>1, <1>2, <1>3, <1>4, QuietOrder

(***************************************************************************)
(* Accept preserves OInv.                                                  *)
(***************************************************************************)
LEMMA AcceptOrder ==
    ASSUME IInv, OInv, NEW p \in Proc, Accept(p)
    PROVE  OInv'
<1>1. /\ UNCHANGED <<queue, tail, opened, handled, shared, closed, up, sent,
                     out>>
      /\ p \in up /\ pc'[p] = "recv"
      /\ \A q \in Proc \ {p} : pc'[q] = pc[q]
  BY DEF Accept, IInv, TypeOK
<1>2. \A q \in Proc : Pending(q)' = Pending(q) /\ NoneNew(q)
  BY InboxAccept DEF IInv
<1>3. UpInv' /\ ReachInv'
  BY <1>1, UpStays, ReachFrame DEF OInv
<1>4. \A q \in Proc : Sending(q)' => Sending(q) /\ out'[q] = out[q]
  BY <1>1 DEF Sending
<1>5. QED
  BY <1>1, <1>2, <1>3, <1>4, QuietOrder

(***************************************************************************)
(* RecvEof preserves OInv: a process is not cut off from itself, so the    *)
(* connection was closed by a broadcast that was given up.                 *)
(***************************************************************************)
LEMMA RecvEofOrder ==
    ASSUME IInv, OInv, NEW p \in Proc, RecvEof(p)
    PROVE  OInv'
<1>1. UNCHANGED <<queue, tail, opened, handled, shared, closed, up, sent,
                  backlog>> /\ p \in up /\ pc[p] = "recv"
  BY DEF RecvEof
<1>2. pc'[p] = "accept" /\ OthersSame(p)
  BY ReturnFacts DEF RecvEof, IInv
<1>3. /\ \A q \in Proc : NoneNew(q) /\ (q # p => Pending(q)' = Pending(q))
      /\ Pending(p)' = Pending(p) \ {cur[p]}
  BY <1>1, <1>2, InboxServed
<1>4. UpInv' /\ ReachInv'
  BY <1>1, <1>2, UpStays, ReachFrame DEF OInv, OthersSame
<1>5. \A q \in Proc : Sending(q)' => Sending(q) /\ out'[q] = out[q]
  BY <1>2 DEF Sending, OthersSame
<1>6. cur[p].to = p
  BY <1>1 DEF IInv, InboxInv, InboxOK
<1>7. cur[p].from = cur[p].to => cur[p] \in closed
  BY <1>1, <1>6 DEF RecvEof
<1>8. QED
  BY <1>1, <1>3, <1>4, <1>5, <1>7, QuietOrder

(***************************************************************************)
(* The thread of p leaves its loop.                                        *)
(***************************************************************************)
LEMMA LoopLeftOrder ==
    ASSUME IInv, OInv, ReachInv', NEW p \in Proc, p \in up, Sending(p),
           EndLoop(p) \/ Return(p), closed \subseteq closed',
           UNCHANGED <<queue, tail, backlog, opened, handled, shared, up>>
    PROVE  OInv'
<1>1. /\ pc'[p] = "accept" \/ (pc'[p] = "write" /\ out'[p] = out[p])
      /\ OthersSame(p)
  BY EndLoopFacts, ReturnFacts DEF IInv
<1>2. \A q \in Proc : Pending(q)' = Pending(q) /\ NoneNew(q)
  <2>1. SUFFICES ASSUME NEW q \in Proc PROVE Pending(q)' = Pending(q) /\ NoneNew(q)
    OBVIOUS
  <2>2. pc'[q] = "recv" <=> pc[q] = "recv"
    BY <1>1 DEF Sending, OthersSame
  <2>3. pc[q] = "recv" => cur'[q] = cur[q]
    BY <1>1 DEF Sending, OthersSame
  <2>4. QED
    BY <2>2, <2>3, InboxKept
<1>3. UpInv'
  BY <1>1, UpStays DEF OInv, OthersSame
<1>4. \A q \in Proc : Sending(q)' => Sending(q) /\ out'[q] = out[q]
  BY <1>1 DEF Sending, OthersSame
<1>5. QED
  BY <1>2, <1>3, <1>4, QuietOrder

(***************************************************************************)
(* ConnectFail and SendFail preserve OInv.                                 *)
(***************************************************************************)
LEMMA FailOrder ==
    ASSUME IInv, OInv, NEW p \in Proc, ConnectFail(p) \/ SendFail(p)
    PROVE  OInv'
<1>1. /\ p \in up /\ Sending(p) /\ closed \subseteq closed'
      /\ EndLoop(p) \/ Return(p)
      /\ UNCHANGED <<queue, tail, backlog, opened, handled, shared, up, sent>>
  BY DEF ConnectFail, SendFail, Sending
<1>2. ReachInv'
  BY <1>1, ReachFrame DEF OInv
<1>3. QED
  BY <1>1, <1>2, LoopLeftOrder

(***************************************************************************)
(* Send preserves OInv: the connections of the loop are all open.          *)
(***************************************************************************)
LEMMA SendOrder ==
    ASSUME IInv, OInv, NEW p \in Proc, Send(p)
    PROVE  OInv'
<1>1. PICK d \in todo[p] :
         /\ sent' = sent \cup {Link(p, d)}
         /\ IF todo[p] = {d}
            THEN EndLoop(p)
            ELSE /\ todo' = [todo EXCEPT ![p] = @ \ {d}]
                 /\ UNCHANGED <<pc, cur, out, client>>
  BY DEF Send
<1>2. /\ p \in up /\ pc[p] = "send" /\ Sending(p) /\ OutOK(p)
      /\ UNCHANGED <<queue, tail, backlog, opened, handled, shared, up, closed>>
  BY DEF Send, Sending, IInv, OutInv
<1>3. ReachInv'
  <2>1. SUFFICES ASSUME NEW b \in sent', b.op = "BROAD", NEW e \in Proc
                 PROVE  BroadConn(b.from, e, b.uid, b.lc) \in opened
    BY <1>2 DEF ReachInv
  <2>2. CASE b \in sent
    BY <2>1, <2>2 DEF OInv, ReachInv
  <2>3. CASE b = Link(p, d)
    <3>1. /\ b.op = out[p].op /\ b.from = p /\ b.uid = out[p].uid
          /\ b.lc = out[p].lc
      BY <2>3 DEF Link
    <3>2. out[p].dests = Proc
      BY <1>2, <2>1, <3>1 DEF OInv, OrderInv, OrderOK, LatestOK
    <3>3. Link(p, e) \in opened
      BY <1>2, <3>2 DEF OutOK
    <3>4. Link(p, e) = BroadConn(b.from, e, b.uid, b.lc)
      BY <2>1, <3>1 DEF Link, BroadConn
    <3>5. QED
      BY <3>3, <3>4
  <2>4. QED
    BY <1>1, <2>2, <2>3
<1>4. CASE todo[p] = {d}
  BY <1>1, <1>2, <1>3, <1>4, LoopLeftOrder
<1>5. CASE todo[p] # {d}
  <2>1. UNCHANGED <<pc, cur, out>>
    BY <1>1, <1>5
  <2>2. \A q \in Proc : Pending(q)' = Pending(q) /\ NoneNew(q)
    BY <1>2, <2>1, InboxKept
  <2>3. UpInv'
    BY <1>2, <2>1 DEF OInv, UpInv
  <2>4. \A q \in Proc : Sending(q)' => Sending(q) /\ out'[q] = out[q]
    BY <2>1 DEF Sending
  <2>5. QED
    BY <1>2, <1>3, <2>2, <2>3, <2>4, QuietOrder
<1>6. QED
  BY <1>4, <1>5

(***************************************************************************)
(* Crash preserves OInv.                                                   *)
(***************************************************************************)
LEMMA CrashOrder ==
    ASSUME IInv, OInv, NEW p \in Proc, Crash(p)
    PROVE  OInv'
<1>1. /\ pc'[p] = "accept" /\ backlog'[p] = <<>> /\ up' = up \ {p}
      /\ \A q \in Proc \ {p} : /\ backlog'[q] = backlog[q] /\ pc'[q] = pc[q]
                               /\ cur'[q] = cur[q] /\ out'[q] = out[q]
      /\ UNCHANGED <<queue, tail, sent, closed, shared, opened, handled>>
  BY DEF Crash, IInv, TypeOK
<1>2. \A q \in Proc \ {p} : Pending(q)' = Pending(q) /\ NoneNew(q)
  BY <1>1, InboxKept
<1>3. NoneNew(p)
  <2>1. \A i : i \notin 1 .. Len(backlog'[p])
    BY <1>1
  <2>2. (\A b : b \notin Pending(p)') /\ (\A a, b : ~ Ahead(p, a, b)')
    BY <1>1, <2>1 DEF Pending, Queued, Ahead
  <2>3. QED
    BY <2>2 DEF NoneNew
<1>4. UpInv'
  BY <1>1 DEF OInv, UpInv
<1>5. ReachInv'
  BY <1>1, ReachFrame DEF OInv
<1>6. \A q \in Proc : Sending(q)' => Sending(q) /\ out'[q] = out[q]
  BY <1>1 DEF Sending
<1>7. QED
  BY <1>1, <1>2, <1>3, <1>4, <1>5, <1>6, QuietOrder

-----------------------------------------------------------------------------
(* Uids in order *)

(***************************************************************************)
(* A uid starts with the pid of its issuer.                                *)
(***************************************************************************)
LEMMA UidIssuer ==
    ASSUME NEW u, NEW p \in Proc, NEW s, IssuedAt(u, p, s)
    PROVE  u \in Nat /\ u \div LCBound = Pid[p]
<1>1. Pid[p] \in Nat /\ s \in 1 .. LCBound - 1
  BY PidType DEF IssuedAt
<1>2. u = Pid[p] * LCBound + (s - 1)
  BY DEF IssuedAt, generate_uid
<1>3. \A a \in Nat : /\ a * LCBound + (s - 1) \in Nat
                     /\ (a * LCBound + (s - 1)) \div LCBound = a
  BY <1>1, SMT DEF LCBound
<1>4. QED
  BY <1>1, <1>2, <1>3

(***************************************************************************)
(* The uids of a process grow with its clock.                              *)
(***************************************************************************)
LEMMA UidGrows ==
    ASSUME NEW u, NEW v, NEW p \in Proc, NEW s, NEW t, IssuedAt(u, p, s),
           IssuedAt(v, p, t), s <= t
    PROVE  u <= v
<1>1. Pid[p] \in Nat /\ s \in 1 .. LCBound - 1 /\ t \in 1 .. LCBound - 1
  BY PidType DEF IssuedAt
<1>2. u = Pid[p] * LCBound + (s - 1) /\ v = Pid[p] * LCBound + (t - 1)
  BY DEF IssuedAt, generate_uid
<1>3. \A a \in Nat : a * LCBound + (s - 1) <= a * LCBound + (t - 1)
  BY <1>1, SMT DEF LCBound
<1>4. QED
  BY <1>1, <1>2, <1>3

(***************************************************************************)
(* What is acknowledged to p was issued by p, and reached the sender.      *)
(***************************************************************************)
LEMMA AckIssued ==
    ASSUME IInv, NEW q, NEW p, NEW u, AckConn(q, p, u) \in opened
    PROVE  /\ p \in Proc
           /\ \E ts \in 1 .. LCBound - 1 : /\ BroadConn(p, q, u, ts) \in handled
                                           /\ IssuedAt(u, p, ts)
<1>1. AckOK(q, p, u)
  BY DEF IInv, AckInv, AckConn
<1>2. PICK ts \in 1 .. LCBound - 1 : BroadConn(p, q, u, ts) \in handled
  BY <1>1 DEF AckOK
<1>3. p \in Proc /\ IssuedAt(u, p, ts)
  BY <1>2, BroadIssued, HandledOpened
<1>4. QED
  BY <1>2, <1>3

(***************************************************************************)
(* What everybody acknowledged to p was issued by p.                       *)
(***************************************************************************)
LEMMA AllAckedIssued ==
    ASSUME IInv, NEW p \in Proc, NEW u, AllAcked(p, u)
    PROVE  \E ts : IssuedAt(u, p, ts)
<1>1. AckConn(p, p, u) \in opened
  BY DEF AllAcked
<1>2. QED
  BY <1>1, AckIssued

-----------------------------------------------------------------------------
(* The write to the shared file, and the steps that open connections *)

(***************************************************************************)
(* write_shared() preserves OInv: what p has written before is older.      *)
(***************************************************************************)
LEMMA WriteSharedOrder ==
    ASSUME IInv, OInv, IInv', NEW p \in Proc, write_shared(p)
    PROVE  OInv'
<1>0. PICK u : u = out[p].uid
  OBVIOUS
<1>1. /\ p \in up /\ pc[p] = "write" /\ Sending(p) /\ OutOK(p)
      /\ UNCHANGED <<queue, tail, backlog, sent, closed, up, opened, handled>>
  BY DEF write_shared, Sending, IInv, OutInv
<1>2. ReadyActive(p, u) /\ AllAcked(p, u)
  BY <1>0, <1>1 DEF ReadyActive, OutOK, IInv, ReadyInv
<1>3. pc'[p] = "accept" /\ OthersSame(p)
  BY ReturnFacts DEF IInv, write_shared
<1>4. /\ Len(shared') = Len(shared) + 1
      /\ shared'[Len(shared) + 1] = u
      /\ \A i \in 1 .. Len(shared) : shared'[i] = shared[i]
      /\ Len(shared) \in Nat
  BY <1>0 DEF write_shared, IInv, TypeOK
<1>5. u \in Nat /\ u \div LCBound = Pid[p]
  BY <1>2, AllAckedIssued, UidIssuer
<1>6. \A q \in Proc : Pending(q)' = Pending(q) /\ NoneNew(q)
  <2>1. SUFFICES ASSUME NEW q \in Proc PROVE Pending(q)' = Pending(q) /\ NoneNew(q)
    OBVIOUS
  <2>2. pc'[q] = "recv" <=> pc[q] = "recv"
    BY <1>1, <1>3 DEF OthersSame
  <2>3. pc[q] = "recv" => cur'[q] = cur[q]
    BY <1>1, <1>3 DEF OthersSame
  <2>4. QED
    BY <1>1, <2>2, <2>3, InboxKept
<1>7. OrderInv'
  <2>1. SUFFICES ASSUME NEW q \in Proc PROVE OrderOK(q)'
    BY DEF OrderInv
  <2>2. Sending(q)' => Sending(q) /\ out'[q] = out[q] /\ q # p
    BY <1>3 DEF Sending, OthersSame
  <2>3. WriteOK(q)'
    <3>1. SUFFICES ASSUME ReadyActive(q, out[q].uid)',
                          NEW i \in 1 .. Len(shared'),
                          shared'[i] \div LCBound = Pid[q]
                   PROVE  shared'[i] <= out'[q].uid
      BY DEF WriteOK
    <3>2. q # p /\ out'[q] = out[q] /\ ReadyActive(q, out[q].uid)
      BY <2>2, <3>1 DEF ReadyActive
    <3>3. i # Len(shared) + 1
      BY <1>4, <1>5, <3>1, <3>2, PidAssumption
    <3>4. i \in 1 .. Len(shared)
      BY <1>4, <3>3
    <3>5. shared[i] <= out[q].uid
      BY <1>4, <3>1, <3>2, <3>4 DEF OInv, OrderInv, OrderOK, WriteOK
    <3>6. QED
      BY <1>4, <3>2, <3>4, <3>5
  <2>4. OrderOK(q) /\ OldNodes(q) /\ NoneNew(q)
    BY <1>1, <1>6 DEF OInv, OrderInv, OldNodes
  <2>5. QED
    BY <1>1, <2>2, <2>3, <2>4, OrderFrame
<1>8. UpInv' /\ ReachInv'
  BY <1>1, <1>3, UpStays, ReachFrame DEF OInv, OthersSame
<1>9. PlaceInv'
  BY <1>1, <1>6, PlaceFrame DEF OInv
<1>10. KeptInv'
  BY <1>1, KeptFrame DEF OInv
<1>11. WrittenInIssueOrder'
  <2>1. SUFFICES ASSUME NEW i \in 1 .. Len(shared'), NEW j \in 1 .. Len(shared'),
                        i < j, shared'[i] \div LCBound = shared'[j] \div LCBound
                 PROVE  shared'[i] < shared'[j]
    BY DEF WrittenInIssueOrder
  <2>2. i \in 1 .. Len(shared) /\ shared'[i] = shared[i]
    BY <1>4, <2>1
  <2>3. CASE j \in 1 .. Len(shared)
    BY <1>4, <2>1, <2>2, <2>3 DEF OInv, WrittenInIssueOrder
  <2>4. CASE j = Len(shared) + 1
    <3>1. shared'[j] = u
      BY <1>4, <2>4
    <3>2. shared[i] <= u
      BY <1>0, <1>2, <1>5, <2>1, <2>2, <3>1 DEF OInv, OrderInv, OrderOK, WriteOK
    <3>3. shared'[i] # shared'[j]
      <4>1. i # j
        BY <2>1
      <4>2. QED
        BY <4>1 DEF IInv, WrittenOnce
    <3>4. shared[i] \in Nat
      BY <2>2 DEF IInv, TypeOK
    <3>5. QED
      BY <1>5, <2>2, <3>1, <3>2, <3>3, <3>4
  <2>5. QED
    BY <1>4, <2>3, <2>4
<1>12. QED
  BY <1>7, <1>8, <1>9, <1>10, <1>11 DEF OInv

(***************************************************************************)
(* ClientIssue preserves OInv.                                             *)
(***************************************************************************)
LEMMA ClientIssueOrder ==
    ASSUME IInv, OInv, NEW c \in Client, NEW p \in Proc, ClientIssue(c, p)
    PROVE  OInv'
<1> DEFINE k == IssueConn(c, p)
<1>1. k.op = "ISSUE" /\ k.from = c
  BY DEF IssueConn
<1>2. /\ opened' = opened \cup {k}
      /\ sent' = sent \cup {k}
      /\ backlog' = [backlog EXCEPT ![p] = Append(@, k)]
      /\ UNCHANGED <<queue, tail, pc, cur, out, closed, shared, up, handled>>
  BY DEF ClientIssue
<1> HIDE DEF k
<1>3. \A q \in Proc : NoneNew(q) /\ Pending(q) \subseteq Pending(q)'
  <2>1. SUFFICES ASSUME NEW q \in Proc
                 PROVE  NoneNew(q) /\ Pending(q) \subseteq Pending(q)'
    OBVIOUS
  <2>2. CASE q # p
    BY <1>2, <2>2, InboxGrows DEF IInv
  <2>3. CASE q = p
    <3>1. /\ Pending(p)' = Pending(p) \cup {k}
          /\ \A a, b : Ahead(p, a, b)' => \/ Ahead(p, a, b)
                                          \/ a \in Pending(p) /\ b = k
      BY <1>2, InboxGrows DEF IInv
    <3>2. ~ Own(k, p)
      BY <1>1 DEF Own
    <3>3. QED
      BY <2>3, <3>1, <3>2 DEF NoneNew
  <2>4. QED
    BY <2>2, <2>3
<1>4. OrderInv'
  <2>1. SUFFICES ASSUME NEW q \in Proc PROVE OrderOK(q)'
    BY DEF OrderInv
  <2>2. k.from # q
    BY <1>1, ClientAssumption
  <2>3. OrderOK(q) /\ OldNodes(q) /\ NoneNew(q)
    BY <1>2, <1>3 DEF OInv, OrderInv, OldNodes
  <2>4. Sending(q)' => Sending(q) /\ out'[q] = out[q]
    BY <1>2 DEF Sending
  <2>5. \A e \in opened' : e \in opened \/ e.from # q
    BY <1>2, <2>2
  <2>6. QED
    BY <1>2, <2>3, <2>4, <2>5, OrderFrame
<1>5. UpInv'
  BY <1>2 DEF OInv, UpInv
<1>6. ReachInv'
  BY <1>1, <1>2, ReachFrame DEF OInv
<1>7. PlaceInv'
  BY <1>1, <1>2, <1>3, PlaceFrame DEF OInv
<1>8. KeptInv'
  BY <1>2, KeptFrame DEF OInv
<1>9. WrittenInIssueOrder'
  BY <1>2 DEF OInv, WrittenInIssueOrder
<1>10. QED
  BY <1>4, <1>5, <1>6, <1>7, <1>8, <1>9 DEF OInv

(***************************************************************************)
(* The broadcast of p has come to p itself: its uid is the latest, so it   *)
(* may stand behind everything, and nobody can have acknowledged it.       *)
(***************************************************************************)
LEMMA OwnCopy ==
    ASSUME IInv, OInv, NEW p \in Proc, pc[p] = "connect", out[p].op = "BROAD",
           NEW k, k = Link(p, p), p \in todo[p],
           queue' = queue, opened' = opened \cup {k},
           Pending(p)' = Pending(p) \cup {k},
           \A a, b : Ahead(p, a, b)' => \/ Ahead(p, a, b)
                                        \/ a \in Pending(p) /\ b = k
    PROVE  /\ FifoOK(p)' /\ AheadOK(p)'
           /\ \A a \in opened : a.op = "ACK00" /\ a.from = p /\ a.to = p =>
                 Passed(p, a.uid)'
<1>1. Sending(p) /\ OutOK(p) /\ OrderOK(p)
  BY DEF Sending, IInv, OutInv, OInv, OrderInv
<1>2. k \notin opened /\ IssuedAt(out[p].uid, p, out[p].lc)
  BY <1>1 DEF OutOK
<1>3. k = BroadConn(p, p, out[p].uid, out[p].lc) /\ k.uid = out[p].uid
  BY DEF Link, BroadConn
<1>4. \A b \in opened : Own(b, p) => b.uid <= k.uid
  BY <1>1, <1>3 DEF OrderOK, LatestOK
<1>5. ASSUME NEW u, NEW q, AckConn(q, p, u) \in opened
      PROVE  u # k.uid /\ (q = p => u <= k.uid)
  <2>1. PICK ts \in 1 .. LCBound - 1 : /\ BroadConn(p, q, u, ts) \in handled
                                       /\ IssuedAt(u, p, ts)
    BY <1>5, AckIssued
  <2>2. BroadConn(p, q, u, ts) \in sent /\ BroadConn(p, q, u, ts) \in opened
    BY <2>1 DEF IInv, SetsInv
  <2>3. BroadConn(p, p, u, ts) \in opened
    BY <2>2 DEF OInv, ReachInv, BroadConn
  <2>4. u # k.uid
    <3>1. SUFFICES ASSUME u = out[p].uid PROVE FALSE
      BY <1>3
    <3>2. ts = out[p].lc
      BY <1>2, <2>1, <3>1, UidUnique
    <3>3. QED
      BY <1>2, <1>3, <2>3, <3>1, <3>2
  <2>5. u <= k.uid
    <3>1. Own(BroadConn(p, p, u, ts), p) /\ BroadConn(p, p, u, ts).uid = u
      BY DEF Own, BroadConn
    <3>2. QED
      BY <1>4, <2>3, <3>1
  <2>6. QED
    BY <2>4, <2>5
<1>6. \A a \in opened : a.op = "ACK00" => a = AckConn(a.from, a.to, a.uid)
  <2>1. \A a \in opened : a.op = "ACK00" => a.lc = 0 /\ a \in Conn
    BY DEF IInv, ConnInv, ConnOK, TypeOK
  <2>2. QED
    BY <2>1, ConnFields DEF AckConn
<1>7. \A a \in Pending(p) : a \in opened /\ a.to = p
  BY DEF IInv, InboxInv, InboxOK, Pending, Queued
<1>8. FifoOK(p)'
  <2>1. SUFFICES ASSUME NEW a, NEW b, Ahead(p, a, b)', Own(b, p)
                 PROVE  /\ Own(a, p) => a.uid <= b.uid
                        /\ a.op = "ACK00" => a.uid # b.uid
    BY DEF FifoOK, Own
  <2>2. CASE Ahead(p, a, b)
    BY <1>1, <2>1, <2>2, AheadPending DEF OrderOK, FifoOK
  <2>3. CASE a \in Pending(p) /\ b = k
    <3>1. a \in opened /\ a.to = p
      BY <1>7, <2>3
    <3>2. Own(a, p) => a.uid <= b.uid
      BY <1>4, <2>3, <3>1
    <3>3. a.op = "ACK00" => a.uid # b.uid
      BY <1>5, <1>6, <2>3, <3>1
    <3>4. QED
      BY <3>2, <3>3
  <2>4. QED
    BY <2>1, <2>2, <2>3
<1>9. \A n \in queue[p] : n.port = p => n.uid <= k.uid
  <2>1. SUFFICES ASSUME NEW n \in queue[p], n.port = p PROVE n.uid <= k.uid
    OBVIOUS
  <2>2. BroadConn(p, p, n.uid, n.lc) \in opened
    BY <2>1, HandledOpened DEF IInv, NodeInv, NodeOK
  <2>3. Own(BroadConn(p, p, n.uid, n.lc), p)
        /\ BroadConn(p, p, n.uid, n.lc).uid = n.uid
    BY DEF Own, BroadConn
  <2>4. QED
    BY <1>4, <2>2, <2>3
<1>10. AheadOK(p)'
  <2>1. SUFFICES ASSUME NEW n \in queue[p], NEW b \in Pending(p)', n.port = p,
                        Own(b, p)
                 PROVE  n.uid <= b.uid
    BY DEF AheadOK, Own
  <2>2. CASE b \in Pending(p)
    BY <1>1, <2>1, <2>2 DEF OrderOK, AheadOK
  <2>3. CASE b = k
    BY <1>9, <2>1, <2>3
  <2>4. QED
    BY <2>1, <2>2, <2>3
<1>11. ASSUME NEW a \in opened, a.op = "ACK00", a.from = p, a.to = p
       PROVE  Passed(p, a.uid)'
  <2>1. Passed(p, a.uid)
    BY <1>1, <1>11 DEF OrderOK, SelfAckOK
  <2>2. a.uid <= k.uid
    BY <1>5, <1>6, <1>11
  <2>3. QED
    BY <2>1, <2>2 DEF Passed
<1>12. QED
  BY <1>8, <1>10, <1>11

(***************************************************************************)
(* Connect preserves OInv.                                                 *)
(***************************************************************************)
LEMMA ConnectOrder ==
    ASSUME IInv, OInv, NEW p \in Proc, Connect(p)
    PROVE  OInv'
<1>1. PICK d \in todo[p] :
         /\ backlog' = [backlog EXCEPT ![d] = Append(@, Link(p, d))]
         /\ opened' = opened \cup {Link(p, d)}
         /\ pc' = [pc EXCEPT ![p] = "send"] \/ pc' = pc
  BY DEF Connect
<1>2. PICK k : k = Link(p, d)
  OBVIOUS
<1>3. /\ p \in up /\ pc[p] = "connect" /\ Sending(p) /\ OutOK(p) /\ OrderOK(p)
      /\ UNCHANGED <<queue, tail, cur, out, sent, closed, shared, up, handled>>
  BY DEF Connect, Sending, IInv, OutInv, OInv, OrderInv
<1>4. /\ \A q \in Proc \ {p} : pc'[q] = pc[q]
      /\ pc'[p] \in {"connect", "send"}
      /\ \A q \in Proc : pc'[q] = "recv" <=> pc[q] = "recv"
      /\ \A q \in Proc : Sending(q)' <=> Sending(q)
  BY <1>1, <1>3 DEF IInv, TypeOK, Sending
<1>5. d \in Proc /\ d \in out[p].dests
  BY <1>3 DEF IInv, TypeOK, OutOK
<1>6. k.op = out[p].op /\ k.from = p /\ k.to = d /\ k.uid = out[p].uid
  BY <1>2 DEF Link
<1>7. /\ \A q \in Proc \ {d} : Pending(q)' = Pending(q) /\ NoneNew(q)
      /\ Pending(d)' = Pending(d) \cup {k}
      /\ \A a, b : Ahead(d, a, b)' => \/ Ahead(d, a, b)
                                      \/ a \in Pending(d) /\ b = k
  <2>1. TypeOK /\ backlog' = [backlog EXCEPT ![d] = Append(@, k)]
    BY <1>1, <1>2 DEF IInv
  <2>2. \A q \in Proc : /\ pc'[q] = "recv" <=> pc[q] = "recv"
                        /\ cur'[q] = cur[q]
    BY <1>3, <1>4
  <2>3. ASSUME NEW q \in Proc, q # d PROVE Pending(q)' = Pending(q) /\ NoneNew(q)
    BY <1>5, <2>1, <2>2, <2>3, InboxGrows
  <2>4. /\ Pending(d)' = Pending(d) \cup {k}
        /\ \A a, b : Ahead(d, a, b)' => \/ Ahead(d, a, b)
                                        \/ a \in Pending(d) /\ b = k
    BY <1>5, <2>1, <2>2, InboxGrows
  <2>5. QED
    BY <2>3, <2>4
<1>8. \A q \in Proc : ~ Own(k, q) => NoneNew(q)
  BY <1>7 DEF NoneNew
<1>9. \A q \in Proc : OldNodes(q)
  BY <1>3 DEF OldNodes
<1>10. ASSUME NEW q \in Proc, q # p PROVE OrderOK(q)'
  <2>1. OrderOK(q) /\ NoneNew(q)
    BY <1>6, <1>8, <1>10 DEF OInv, OrderInv, Own
  <2>2. \A c \in opened' : c \in opened \/ c.from # q
    BY <1>1, <1>2, <1>6, <1>10
  <2>3. QED
    BY <1>3, <1>4, <1>9, <2>1, <2>2, OrderFrame
<1>11. LatestOK(p)'
  <2>1. SUFFICES ASSUME out[p].op = "BROAD"
                 PROVE  /\ out[p].dests = Proc
                        /\ \A b \in opened' : Own(b, p) => b.uid <= out[p].uid
    BY <1>3 DEF LatestOK
  <2>2. out[p].uid \in Nat
    BY DEF IInv, TypeOK, Out
  <2>3. out[p].uid <= out[p].uid
    BY <2>2
  <2>4. QED
    BY <1>1, <1>2, <1>3, <1>6, <2>1, <2>3 DEF OrderOK, LatestOK
<1>12. CountOK(p)'
  <2>1. \A u : Ackers(p, u)' = Ackers(p, u)
    BY <1>3 DEF Ackers
  <2>2. ASSUME NEW c \in opened', c.op = "READY", c.from = p
        PROVE  Ackers(p, c.uid)' = Proc
    <3>1. CASE c \in opened
      BY <1>3, <2>1, <2>2, <3>1 DEF OrderOK, CountOK
    <3>2. CASE c = k
      <4>1. ReadyActive(p, out[p].uid)
        BY <1>3, <1>6, <2>2, <3>2 DEF ReadyActive
      <4>2. QED
        BY <1>3, <1>6, <2>1, <3>2, <4>1 DEF OrderOK, CountOK
    <3>3. QED
      BY <1>1, <1>2, <2>2, <3>1, <3>2
  <2>3. ASSUME ReadyActive(p, out[p].uid)' PROVE Ackers(p, out[p].uid)' = Proc
    <3>1. ReadyActive(p, out[p].uid)
      BY <1>3, <1>4, <2>3 DEF ReadyActive
    <3>2. QED
      BY <1>3, <3>1 DEF OrderOK, CountOK, Ackers
  <2>4. QED
    BY <2>2, <2>3 DEF CountOK
<1>13. WriteOK(p)'
  BY <1>3, <1>4 DEF OrderOK, WriteOK, ReadyActive
<1>14. FifoOK(p)' /\ AheadOK(p)' /\ SelfAckOK(p)'
  <2>1. CASE d = p /\ out[p].op = "BROAD"
    <3>1. /\ FifoOK(p)' /\ AheadOK(p)'
          /\ \A a \in opened : a.op = "ACK00" /\ a.from = p /\ a.to = p =>
                Passed(p, a.uid)'
      BY <1>1, <1>2, <1>3, <1>7, <2>1, OwnCopy
    <3>2. SelfAckOK(p)'
      <4>1. \A a \in opened' : a.op = "ACK00" => a \in opened
        BY <1>1, <1>2, <1>6, <2>1
      <4>2. out'[p].op # "ACK00"
        BY <1>3, <2>1
      <4>3. QED
        BY <3>1, <4>1, <4>2 DEF SelfAckOK
    <3>3. QED
      BY <3>1, <3>2
  <2>2. CASE d # p \/ out[p].op # "BROAD"
    <3>1. NoneNew(p)
      BY <1>6, <1>7, <1>8, <2>2 DEF Own
    <3>2. FifoOK(p)' /\ AheadOK(p)'
      BY <1>3, <1>9, <3>1, FifoFrame, AheadFrame DEF OrderOK
    <3>3. ASSUME NEW a \in opened', a.op = "ACK00", a.from = p, a.to = p
          PROVE  Passed(p, a.uid)'
      <4>1. CASE a \in opened
        BY <1>3, <1>9, <3>1, <3>3, <4>1, PassedStays DEF OrderOK, SelfAckOK
      <4>2. CASE a = k
        <5>1. out[p].op = "ACK00" /\ p \in out[p].dests
          BY <1>5, <1>6, <3>3, <4>2
        <5>2. Passed(p, a.uid)
          BY <1>3, <1>6, <4>2, <5>1 DEF OrderOK, SelfAckOK
        <5>3. QED
          BY <1>9, <3>1, <5>2, PassedStays
      <4>3. QED
        BY <1>1, <1>2, <3>3, <4>1, <4>2
    <3>4. ASSUME out'[p].op = "ACK00", p \in out'[p].dests
          PROVE  Passed(p, out[p].uid)'
      <4>1. Passed(p, out[p].uid)
        BY <1>3, <3>4 DEF OrderOK, SelfAckOK
      <4>2. PICK u : u = out[p].uid
        OBVIOUS
      <4>3. Passed(p, u)'
        BY <1>9, <3>1, <4>1, <4>2, PassedStays
      <4>4. QED
        BY <1>3, <4>2, <4>3 DEF Passed
    <3>5. SelfAckOK(p)'
      BY <3>3, <3>4 DEF SelfAckOK
    <3>6. QED
      BY <3>2, <3>5
  <2>3. QED
    BY <2>1, <2>2
<1>15. OrderInv'
  BY <1>10, <1>11, <1>12, <1>13, <1>14 DEF OrderInv, OrderOK
<1>16. UpInv'
  BY <1>3, <1>4, UpStays DEF OInv
<1>17. ReachInv'
  BY <1>1, <1>3, ReachFrame DEF OInv
<1>18. PlaceInv'
  <2>1. \A q \in Proc : Pending(q) \subseteq Pending(q)'
    BY <1>7
  <2>2. \A b \in opened' : b \in opened \/ b \in Pending(b.to)'
    BY <1>1, <1>2, <1>6, <1>7
  <2>3. QED
    BY <1>3, <2>1, <2>2, PlaceFrame DEF OInv
<1>19. KeptInv'
  BY <1>3, KeptFrame DEF OInv
<1>20. WrittenInIssueOrder'
  BY <1>3 DEF OInv, WrittenInIssueOrder
<1>21. QED
  BY <1>15, <1>16, <1>17, <1>18, <1>19, <1>20 DEF OInv

-----------------------------------------------------------------------------
(* The handlers *)

(***************************************************************************)
(* What a handler of p does to the others, and to its own inbox.           *)
(***************************************************************************)
LEMMA HandlerFrame ==
    ASSUME IInv, OInv, NEW p \in Proc, NEW op, Receives(p, op),
           pc'[p] # "recv", OthersSame(p),
           \A q \in Proc \ {p} : queue'[q] = queue[q]
    PROVE  /\ \A q \in Proc \ {p} : OrderOK(q)'
           /\ OrderOK(p) /\ FifoOK(p)' /\ NoneNew(p)
           /\ Pending(p)' = Pending(p) \ {cur[p]} /\ cur[p] \in Pending(p)
           /\ \A b \in Pending(p)' : Ahead(p, cur[p], b)
           /\ UpInv' /\ ReachInv' /\ PlaceInv' /\ WrittenInIssueOrder'
<1>1. /\ p \in up /\ pc[p] = "recv" /\ handled' = handled \cup {cur[p]}
      /\ UNCHANGED <<backlog, sent, closed, shared, up, opened>>
  BY DEF Receives
<1>2. /\ \A q \in Proc : NoneNew(q) /\ (q # p => Pending(q)' = Pending(q))
      /\ Pending(p)' = Pending(p) \ {cur[p]}
      /\ cur[p] \in Pending(p)
      /\ \A b \in Pending(p)' : Ahead(p, cur[p], b)
  BY <1>1, InboxServed
<1>3. OrderOK(p) /\ FifoOK(p)'
  BY <1>2, FifoFrame DEF OInv, OrderInv, OrderOK
<1>4. ASSUME NEW q \in Proc, q # p PROVE OrderOK(q)'
  <2>1. OrderOK(q) /\ OldNodes(q)
    BY <1>4 DEF OInv, OrderInv, OldNodes
  <2>2. Sending(q)' => Sending(q) /\ out'[q] = out[q]
    BY <1>4 DEF Sending, OthersSame
  <2>3. QED
    BY <1>1, <1>2, <2>1, <2>2, OrderFrame
<1>5. UpInv' /\ ReachInv'
  BY <1>1, UpStays, ReachFrame DEF OInv, OthersSame
<1>6. PlaceInv'
  BY <1>1, <1>2, PlaceFrame DEF OInv
<1>7. WrittenInIssueOrder'
  BY <1>1 DEF OInv, WrittenInIssueOrder
<1>8. QED
  BY <1>2, <1>3, <1>4, <1>5, <1>6, <1>7

(***************************************************************************)
(* The READYs p has sent stay counted.                                     *)
(***************************************************************************)
LEMMA CountedStays ==
    ASSUME NEW p \in Proc, CountOK(p), opened' = opened,
           handled \subseteq handled'
    PROVE  \A c \in opened' : c.op = "READY" /\ c.from = p =>
              Ackers(p, c.uid)' = Proc
<1>1. \A u : Ackers(p, u) = Proc => Ackers(p, u)' = Proc
  BY DEF Ackers
<1>2. QED
  BY <1>1 DEF CountOK

(***************************************************************************)
(* handle_issue() preserves OInv: the clock makes the uid the latest.      *)
(***************************************************************************)
LEMMA HandleIssueOrder ==
    ASSUME IInv, OInv, NEW p \in Proc, handle_issue(p)
    PROVE  OInv'
<1> DEFINE t == lc[p] + 2
           u == generate_uid(p, lc[p] + 1)
<1>1. /\ pc'[p] = "connect"
      /\ out'[p] = [op |-> "BROAD", uid |-> u, lc |-> t, dests |-> Proc]
      /\ OthersSame(p)
  BY StartOutFacts DEF handle_issue, IInv
<1>2. /\ queue' = queue /\ tail' = tail /\ lc[p] \in Nat /\ t < LCBound
      /\ handled' = handled \cup {cur[p]} /\ cur[p].op = "ISSUE"
      /\ UNCHANGED <<shared, opened>> /\ Receives(p, "ISSUE")
  BY DEF handle_issue, Receives, IInv, TypeOK
<1>3. /\ \A q \in Proc \ {p} : OrderOK(q)'
      /\ OrderOK(p) /\ FifoOK(p)' /\ NoneNew(p)
      /\ UpInv' /\ ReachInv' /\ PlaceInv' /\ WrittenInIssueOrder'
  BY <1>1, <1>2, HandlerFrame
<1>4. OldNodes(p)
  BY <1>2 DEF OldNodes
<1>5. IssuedAt(u, p, t)
  <2>1. t \in 1 .. LCBound - 1 /\ t - 1 = lc[p] + 1
    BY <1>2, BoundType
  <2>2. QED
    BY <2>1 DEF IssuedAt
<1>6. LatestOK(p)'
  <2>1. \A b \in opened : Own(b, p) => b.uid <= u
    <3>1. SUFFICES ASSUME NEW b \in opened, Own(b, p) PROVE b.uid <= u
      OBVIOUS
    <3>2. IssuedAt(b.uid, p, b.lc) /\ b.lc <= lc[p]
      BY <3>1 DEF Own, IInv, ConnInv, ConnOK
    <3>3. b.lc \in Nat
      BY <3>1, PeerFrom DEF Own, IInv, TypeOK
    <3>4. b.lc <= t
      BY <1>2, <3>2, <3>3
    <3>5. QED
      BY <1>5, <3>2, <3>4, UidGrows
  <2>2. QED
    BY <1>1, <1>2, <2>1 DEF LatestOK, Own
<1>7. AheadOK(p)'
  BY <1>3, <1>4, AheadFrame DEF OrderOK
<1>8. SelfAckOK(p)'
  <2>1. \A a \in opened : a.op = "ACK00" /\ a.from = p /\ a.to = p =>
           Passed(p, a.uid)'
    BY <1>3, <1>4, PassedStays DEF OrderOK, SelfAckOK
  <2>2. out'[p].op # "ACK00"
    BY <1>1
  <2>3. QED
    BY <1>2, <2>1, <2>2 DEF SelfAckOK
<1>9. CountOK(p)' /\ WriteOK(p)'
  <2>1. ~ ReadyActive(p, out[p].uid)'
    BY <1>1 DEF ReadyActive
  <2>2. QED
    BY <1>2, <1>3, <2>1, CountedStays DEF OrderOK, CountOK, WriteOK
<1>10. OrderInv'
  BY <1>3, <1>6, <1>7, <1>8, <1>9 DEF OrderInv, OrderOK
<1>11. KeptInv'
  BY <1>2, KeptFrame DEF OInv
<1>12. QED
  BY <1>3, <1>10, <1>11 DEF OInv

(***************************************************************************)
(* handle_ready() preserves OInv: the READY of an own message that is      *)
(* dequeued is handled.                                                    *)
(***************************************************************************)
LEMMA HandleReadyOrder ==
    ASSUME IInv, OInv, NEW p \in Proc, handle_ready(p)
    PROVE  OInv'
<1>0. PICK c : c = cur[p]
  OBVIOUS
<1>1. pc'[p] = "accept" /\ OthersSame(p)
  BY ReturnFacts DEF handle_ready, IInv
<1>2. /\ c \in Conn /\ c \in opened /\ c.to = p
      /\ c.op = "READY" /\ handled' = handled \cup {c}
      /\ UNCHANGED <<shared, opened>> /\ Receives(p, "READY")
  BY <1>0, <1>1, ReceivesFacts DEF handle_ready
<1>3. /\ \A q \in Proc \ {p} : queue'[q] = queue[q] /\ tail'[q] = tail[q]
      /\ queue'[p] \subseteq queue[p]
      /\ \A n \in queue[p] : n.uid # c.uid => n \in queue'[p]
      /\ tail[p] = "off" => tail'[p] = "off"
  <2>1. ASSUME NEW n \in queue[p], n.uid = c.uid,
               queue' = [queue EXCEPT ![p] = @ \ {n}],
               tail' = [tail EXCEPT ![p] = dequeue_tail(queue[p], @, n)]
        PROVE  <1>3!1 /\ <1>3!2 /\ <1>3!3 /\ <1>3!4
    BY <2>1 DEF IInv, TypeOK, dequeue_tail
  <2>2. CASE queue' = queue /\ tail' = tail
    BY <2>2
  <2>3. QED
    BY <1>0, <2>1, <2>2 DEF handle_ready
<1>4. /\ \A q \in Proc \ {p} : OrderOK(q)'
      /\ OrderOK(p) /\ NoneNew(p)
      /\ UpInv' /\ ReachInv' /\ PlaceInv' /\ WrittenInIssueOrder'
  BY <1>1, <1>2, <1>3, HandlerFrame
<1>5. OrderOK(p)'
  <2>1. OldNodes(p) /\ ~ Sending(p)'
    BY <1>1, <1>3 DEF OldNodes, Sending
  <2>2. QED
    BY <1>2, <1>4, <2>1, OrderFrame
<1>6. KeptInv'
  <2>1. \A q \in Proc : tail[q] = "off" => tail'[q] = "off"
    BY <1>3
  <2>2. ASSUME NEW q \in Proc, NEW m \in queue[q]
        PROVE  \/ \E n \in queue'[q] : n.uid = m.uid
               \/ ReadyConn(q, q, m.uid) \in handled'
               \/ m.port # q
    <3>1. CASE q # p \/ m.uid # c.uid
      BY <1>3, <2>2, <3>1
    <3>2. CASE q = p /\ m.uid = c.uid
      <4>1. c.lc = 0 /\ AllAcked(c.from, c.uid) /\ c.from \in Proc
        BY <1>2, PeerFrom DEF IInv, ConnInv, ConnOK, ReadyInv
      <4>2. PICK ts : IssuedAt(c.uid, c.from, ts)
        BY <4>1, AllAckedIssued
      <4>3. BroadConn(m.port, p, m.uid, m.lc) \in opened
        BY <3>2, HandledOpened DEF IInv, NodeInv, NodeOK
      <4>4. m.port = c.from
        BY <3>2, <4>1, <4>2, <4>3, BroadIssued, UidUnique
      <4>5. c = ReadyConn(c.from, p, c.uid)
        BY <1>2, <4>1, ConnFields DEF ReadyConn
      <4>6. QED
        BY <1>2, <3>2, <4>4, <4>5
    <3>3. QED
      BY <3>1, <3>2
  <2>3. \A b \in handled' : b \in handled \/ b.op # "BROAD"
    BY <1>2
  <2>4. QED
    BY <1>2, <2>1, <2>2, <2>3, KeptFrame DEF OInv
<1>7. OrderInv'
  BY <1>4, <1>5 DEF OrderInv
<1>8. QED
  BY <1>4, <1>6, <1>7 DEF OInv

(***************************************************************************)
(* The acknowledgement that starts a READY broadcast was the last one.     *)
(***************************************************************************)
LEMMA LastAck ==
    ASSUME IInv, NEW p \in Proc, NEW c \in opened, c.op = "ACK00", c.to = p,
           c \notin handled, handled' = handled \cup {c},
           NEW n \in queue[p], n.uid = c.uid, n.ack_count + 1 = NumProc
    PROVE  Ackers(p, n.uid)' = Proc
<1>1. c \in Conn /\ c.lc = 0 /\ c.from \in Proc
  BY PeerFrom DEF IInv, TypeOK, ConnInv, ConnOK
<1>2. c = AckConn(c.from, p, c.uid)
  BY <1>1, ConnFields DEF AckConn
<1>3. Cardinality(Ackers(p, n.uid))' = Cardinality(Ackers(p, n.uid)) + 1
  BY <1>1, <1>2, AckersGrow
<1>4. n.ack_count <= Cardinality(Ackers(p, n.uid)) /\ n.ack_count \in Nat
  BY DEF IInv, NodeInv, NodeOK, TypeOK, Node
<1>5. /\ Cardinality(Ackers(p, n.uid)) \in Nat
      /\ Cardinality(Ackers(p, n.uid))' \in Nat
      /\ Cardinality(Ackers(p, n.uid))' <= NumProc
      /\ Cardinality(Ackers(p, n.uid))' = NumProc => Ackers(p, n.uid)' = Proc
  BY AckersFinite, AckersFinitePrime
<1>6. Cardinality(Ackers(p, n.uid))' = NumProc
  BY <1>3, <1>4, <1>5, NumProcAssumption
<1>7. QED
  BY <1>5, <1>6

(***************************************************************************)
(* Of the messages of p, those that were written are older than one whose  *)
(* node p still has: p acknowledged them when it had passed what is older. *)
(***************************************************************************)
LEMMA WrittenOlder ==
    ASSUME IInv, OInv, NEW p \in Proc, NEW n \in queue[p], n.port = p,
           NEW i \in 1 .. Len(shared), shared[i] \div LCBound = Pid[p]
    PROVE  shared[i] <= n.uid
<1>1. PICK u : u = shared[i]
  OBVIOUS
<1>2. PICK r \in Proc : AllAcked(r, u)
  BY <1>1 DEF IInv, WriteInv
<1>3. PICK ts : IssuedAt(u, r, ts)
  BY <1>2, AllAckedIssued
<1>4. Pid[r] = Pid[p]
  BY <1>1, <1>3, UidIssuer
<1>5. r = p
  BY <1>4, PidAssumption
<1>6. AckConn(p, p, u) \in opened
  BY <1>2, <1>5 DEF AllAcked
<1>7. Passed(p, u)
  BY <1>6 DEF OInv, OrderInv, OrderOK, SelfAckOK, AckConn
<1>8. QED
  BY <1>1, <1>7 DEF Passed

(***************************************************************************)
(* handle_ack() preserves OInv.                                            *)
(***************************************************************************)
LEMMA HandleAckOrder ==
    ASSUME IInv, OInv, NEW p \in Proc, handle_ack(p)
    PROVE  OInv'
<1>0. PICK c : c = cur[p]
  OBVIOUS
<1>1. \/ Return(p) /\ queue' = queue
      \/ \E n \in queue[p] :
            /\ n.uid = c.uid
            /\ queue' = [queue EXCEPT
                            ![p] = (@ \ {n}) \cup {[n EXCEPT !.ack_count = @ + 1]}]
            /\ \/ Return(p)
               \/ /\ n.ack_count + 1 = NumProc
                  /\ StartOut(p, "READY", n.uid, 0, Proc)
  BY <1>0 DEF handle_ack, AllAcksIn
<1>2. pc'[p] # "recv" /\ OthersSame(p)
  BY <1>1, ReturnFacts, StartOutFacts DEF IInv
<1>3. /\ c \in Conn /\ c \in opened /\ c \notin handled /\ c.to = p
      /\ c.op = "ACK00" /\ handled' = handled \cup {c}
      /\ UNCHANGED <<shared, opened, tail>> /\ Receives(p, "ACK00")
  BY <1>0, <1>2, ReceivesFacts DEF handle_ack
<1>4. /\ \A q \in Proc \ {p} : queue'[q] = queue[q]
      /\ \A n \in queue'[p] : \E m \in queue[p] : m.uid = n.uid /\ m.port = n.port
      /\ \A m \in queue[p] : \E n \in queue'[p] : n.uid = m.uid
  <2>1. CASE queue' = queue
    BY <2>1
  <2>2. ASSUME NEW n \in queue[p],
               queue' = [queue EXCEPT
                            ![p] = (@ \ {n}) \cup {[n EXCEPT !.ack_count = @ + 1]}]
        PROVE  <1>4!1 /\ <1>4!2 /\ <1>4!3
    <3>1. PICK m : m = [n EXCEPT !.ack_count = @ + 1]
      OBVIOUS
    <3>2. m.uid = n.uid /\ m.port = n.port
      BY <3>1 DEF IInv, TypeOK, Node
    <3>3. queue'[p] = (queue[p] \ {n}) \cup {m}
          /\ \A q \in Proc \ {p} : queue'[q] = queue[q]
      BY <2>2, <3>1 DEF IInv, TypeOK
    <3>4. QED
      BY <3>2, <3>3
  <2>3. QED
    BY <1>1, <2>1, <2>2
<1>5. /\ \A q \in Proc \ {p} : OrderOK(q)'
      /\ OrderOK(p) /\ FifoOK(p)' /\ NoneNew(p)
      /\ UpInv' /\ ReachInv' /\ PlaceInv' /\ WrittenInIssueOrder'
  BY <1>2, <1>3, <1>4, HandlerFrame
<1>6. OldNodes(p)
  BY <1>4 DEF OldNodes
<1>7. OrderOK(p)'
  <2>1. CASE Return(p)
    <3>1. ~ Sending(p)'
      BY <2>1, ReturnFacts DEF Sending, IInv
    <3>2. QED
      BY <1>3, <1>5, <1>6, <3>1, OrderFrame
  <2>2. ASSUME NEW n \in queue[p], n.uid = c.uid, n.ack_count + 1 = NumProc,
               StartOut(p, "READY", n.uid, 0, Proc)
        PROVE  OrderOK(p)'
    <3>1. /\ pc'[p] = "connect"
          /\ out'[p] = [op |-> "READY", uid |-> n.uid, lc |-> 0, dests |-> Proc]
      BY <2>2, StartOutFacts DEF IInv
    <3>2. LatestOK(p)'
      BY <3>1 DEF LatestOK
    <3>3. AheadOK(p)'
      BY <1>5, <1>6, AheadFrame DEF OrderOK
    <3>4. SelfAckOK(p)'
      <4>1. \A a \in opened : a.op = "ACK00" /\ a.from = p /\ a.to = p =>
               Passed(p, a.uid)'
        BY <1>5, <1>6, PassedStays DEF OrderOK, SelfAckOK
      <4>2. QED
        BY <1>3, <3>1, <4>1 DEF SelfAckOK
    <3>5. CountOK(p)'
      <4>1. Ackers(p, n.uid)' = Proc
        BY <1>3, <2>2, LastAck
      <4>2. Ackers(p, out[p].uid)' = Proc
        BY <3>1, <4>1 DEF Ackers
      <4>3. QED
        BY <1>3, <1>5, <4>2, CountedStays DEF OrderOK, CountOK
    <3>6. n.port = p
      <4>1. c.lc = 0
        BY <1>3 DEF IInv, ConnInv, ConnOK
      <4>2. c = AckConn(c.from, p, c.uid)
        BY <1>3, <4>1, ConnFields DEF AckConn
      <4>3. PICK ts : IssuedAt(c.uid, p, ts)
        BY <1>3, <4>2, AckIssued
      <4>4. BroadConn(n.port, p, n.uid, n.lc) \in opened
        BY HandledOpened DEF IInv, NodeInv, NodeOK
      <4>5. QED
        BY <2>2, <4>3, <4>4, BroadIssued, UidUnique
    <3>7. WriteOK(p)'
      <4>1. \A i \in 1 .. Len(shared) :
               shared[i] \div LCBound = Pid[p] => shared[i] <= n.uid
        BY <3>6, WrittenOlder
      <4>2. QED
        BY <1>3, <3>1, <4>1 DEF WriteOK
    <3>8. QED
      BY <1>5, <3>2, <3>3, <3>4, <3>5, <3>7 DEF OrderOK
  <2>3. QED
    BY <1>1, <2>1, <2>2
<1>8. KeptInv'
  BY <1>3, <1>4, KeptFrame DEF OInv
<1>9. OrderInv'
  BY <1>5, <1>7 DEF OrderInv
<1>10. QED
  BY <1>5, <1>8, <1>9 DEF OInv

(***************************************************************************)
(* handle_broadcast(p): the queue Q after enqueue(), of which the first    *)
(* node is acknowledged, or none.                                          *)
(***************************************************************************)
LEMMA BroadcastHead ==
    ASSUME IInv, NEW p \in Proc, handle_broadcast(p)
    PROVE  \E Q \in SUBSET Node :
              /\ Q = IF tail[p] = "off" THEN queue[p]
                     ELSE queue[p] \cup {create_node(cur[p])}
              /\ \/ /\ queue' = [queue EXCEPT ![p] = Q]
                    /\ Return(p)
                 \/ \E n \in Q :
                       /\ IsHead(n, Q)
                       /\ queue' = [queue EXCEPT ![p] =
                              (Q \ {n}) \cup {[n EXCEPT !.ack_flg = 1]}]
                       /\ StartOut(p, "ACK00", n.uid, 0, {n.port})
<1>1. create_node(cur[p]) \in Node
  BY DEF handle_broadcast, Receives, IInv, TypeOK, Conn, create_node, Node
<1>2. queue[p] \in SUBSET Node
  BY DEF IInv, TypeOK
<1>3. PICK Q : Q = enqueue(queue[p], tail[p], create_node(cur[p]))
  OBVIOUS
<1>4. Q = IF tail[p] = "off" THEN queue[p] ELSE queue[p] \cup {create_node(cur[p])}
  BY <1>3 DEF enqueue
<1>5. Q \in SUBSET Node
  BY <1>1, <1>2, <1>4
<1>6. check_and_ack_head(p, Q)
  BY <1>3 DEF handle_broadcast
<1>7. QED
  BY <1>4, <1>5, <1>6 DEF check_and_ack_head

(***************************************************************************)
(* handle_broadcast() preserves OInv: an own message that is linked comes  *)
(* before those still to be read, and the first of the queue is the oldest *)
(* of the own ones.                                                        *)
(***************************************************************************)
LEMMA HandleBroadcastOrder ==
    ASSUME IInv, OInv, NEW p \in Proc, handle_broadcast(p)
    PROVE  OInv'
<1>0. PICK c : c = cur[p]
  OBVIOUS
<1>1. PICK Q \in SUBSET Node :
         /\ Q = IF tail[p] = "off" THEN queue[p]
                ELSE queue[p] \cup {create_node(c)}
         /\ \/ /\ queue' = [queue EXCEPT ![p] = Q]
               /\ Return(p)
            \/ \E n \in Q :
                  /\ IsHead(n, Q)
                  /\ queue' = [queue EXCEPT ![p] =
                         (Q \ {n}) \cup {[n EXCEPT !.ack_flg = 1]}]
                  /\ StartOut(p, "ACK00", n.uid, 0, {n.port})
  BY <1>0, BroadcastHead
<1>2. pc'[p] # "recv" /\ OthersSame(p)
  BY <1>1, ReturnFacts, StartOutFacts DEF IInv
<1>3. /\ c \in Conn /\ c \in opened /\ c \notin handled /\ c.to = p
      /\ c.op = "BROAD" /\ handled' = handled \cup {c}
      /\ UNCHANGED <<shared, opened>> /\ Receives(p, "BROAD")
  BY <1>0, <1>2, ReceivesFacts DEF handle_broadcast
<1>4. /\ \A q \in Proc \ {p} : queue'[q] = queue[q]
      /\ \A n \in queue'[p] : \E m \in Q : m.uid = n.uid /\ m.port = n.port
      /\ \A m \in Q : \E n \in queue'[p] : n.uid = m.uid /\ n.port = m.port
  <2>1. CASE queue' = [queue EXCEPT ![p] = Q]
    BY <2>1 DEF IInv, TypeOK
  <2>2. ASSUME NEW n \in Q,
               queue' = [queue EXCEPT ![p] =
                            (Q \ {n}) \cup {[n EXCEPT !.ack_flg = 1]}]
        PROVE  <1>4!1 /\ <1>4!2 /\ <1>4!3
    <3>1. PICK m : m = [n EXCEPT !.ack_flg = 1]
      OBVIOUS
    <3>2. m.uid = n.uid /\ m.port = n.port
      BY <3>1 DEF Node
    <3>3. queue'[p] = (Q \ {n}) \cup {m}
          /\ \A q \in Proc \ {p} : queue'[q] = queue[q]
      BY <2>2, <3>1 DEF IInv, TypeOK
    <3>4. QED
      BY <3>2, <3>3
  <2>3. QED
    BY <1>1, <2>1, <2>2
<1>5. /\ \A q \in Proc \ {p} : OrderOK(q)'
      /\ OrderOK(p) /\ FifoOK(p)' /\ NoneNew(p)
      /\ Pending(p)' = Pending(p) \ {c} /\ c \in Pending(p)
      /\ \A b \in Pending(p)' : Ahead(p, c, b)
      /\ UpInv' /\ ReachInv' /\ PlaceInv' /\ WrittenInIssueOrder'
  BY <1>0, <1>2, <1>3, <1>4, HandlerFrame
<1>6. \A m \in Q : m \in queue[p] \/ (m.uid = c.uid /\ m.port = c.from /\ m.lc = c.lc)
  BY <1>1 DEF create_node
<1>7. ASSUME NEW m \in Q, m.port = p PROVE IssuedAt(m.uid, p, m.lc) /\ m.lc \in Nat
  <2>1. m.lc \in Nat
    BY <1>7 DEF Node
  <2>2. CASE m \in queue[p]
    <3>1. BroadConn(p, p, m.uid, m.lc) \in opened
      BY <1>7, <2>2, HandledOpened DEF IInv, NodeInv, NodeOK
    <3>2. QED
      BY <2>1, <3>1, BroadIssued
  <2>3. CASE m.uid = c.uid /\ m.port = c.from /\ m.lc = c.lc
    BY <1>3, <1>7, <2>1, <2>3 DEF IInv, ConnInv, ConnOK
  <2>4. QED
    BY <1>6, <2>2, <2>3
<1>8. \A m \in Q : \A b \in Pending(p)' :
         m.port = p /\ Own(b, p) => m.uid <= b.uid
  <2>1. SUFFICES ASSUME NEW m \in Q, NEW b \in Pending(p)', m.port = p, Own(b, p)
                 PROVE  m.uid <= b.uid
    OBVIOUS
  <2>2. b \in Pending(p) /\ Ahead(p, c, b)
    BY <1>5
  <2>3. CASE m \in queue[p]
    BY <1>5, <2>1, <2>2, <2>3 DEF OrderOK, AheadOK
  <2>4. CASE m.uid = c.uid /\ m.port = c.from
    <3>1. Own(c, p)
      BY <1>3, <2>1, <2>4 DEF Own
    <3>2. QED
      BY <1>5, <2>1, <2>2, <2>4, <3>1 DEF OrderOK, FifoOK
  <2>5. QED
    BY <1>6, <2>3, <2>4
<1>9. AheadOK(p)'
  <2>1. SUFFICES ASSUME NEW n \in queue'[p], NEW b \in Pending(p)', n.port = p,
                        Own(b, p)
                 PROVE  n.uid <= b.uid
    BY DEF AheadOK, Own
  <2>2. PICK m \in Q : m.uid = n.uid /\ m.port = n.port
    BY <1>4
  <2>3. QED
    BY <1>8, <2>1, <2>2
<1>10. ASSUME NEW a \in opened', a.op = "ACK00", a.from = p, a.to = p
       PROVE  Passed(p, a.uid)'
  <2>1. Passed(p, a.uid)
    BY <1>3, <1>5, <1>10 DEF OrderOK, SelfAckOK
  <2>2. \A b \in Pending(p)' : Own(b, p) => a.uid <= b.uid
    BY <1>5, <2>1 DEF Passed
  <2>3. \A m \in Q : m.port = p => a.uid <= m.uid
    <3>1. SUFFICES ASSUME NEW m \in Q, m.port = p PROVE a.uid <= m.uid
      OBVIOUS
    <3>2. CASE m \in queue[p]
      BY <2>1, <3>1, <3>2 DEF Passed
    <3>3. CASE m.uid = c.uid /\ m.port = c.from
      BY <1>3, <1>5, <2>1, <3>1, <3>3 DEF Passed, Own
    <3>4. QED
      BY <1>6, <3>2, <3>3
  <2>4. \A n \in queue'[p] : n.port = p => a.uid <= n.uid
    BY <1>4, <2>3
  <2>5. QED
    BY <2>2, <2>4 DEF Passed
<1>11. OrderOK(p)'
  <2>1. CASE Return(p)
    <3>1. ~ Sending(p)'
      BY <2>1, ReturnFacts DEF Sending, IInv
    <3>2. LatestOK(p)' /\ SelfAckOK(p)' /\ WriteOK(p)'
      BY <1>10, <3>1 DEF LatestOK, SelfAckOK, WriteOK, ReadyActive
    <3>3. CountOK(p)'
      BY <1>3, <1>5, <3>1, CountedStays DEF OrderOK, CountOK, ReadyActive
    <3>4. QED
      BY <1>5, <1>9, <3>2, <3>3 DEF OrderOK
  <2>2. ASSUME NEW n \in Q, IsHead(n, Q), StartOut(p, "ACK00", n.uid, 0, {n.port})
        PROVE  OrderOK(p)'
    <3>1. /\ pc'[p] = "connect"
          /\ out'[p] = [op |-> "ACK00", uid |-> n.uid, lc |-> 0,
                        dests |-> {n.port}]
      BY <2>2, StartOutFacts DEF IInv
    <3>2. ASSUME p \in out'[p].dests PROVE Passed(p, out[p].uid)'
      <4>1. n.port = p
        BY <3>1, <3>2
      <4>2. \A b \in Pending(p)' : Own(b, p) => n.uid <= b.uid
        BY <1>8, <4>1
      <4>3. \A m \in Q : m.port = p => n.uid <= m.uid
        <5>1. SUFFICES ASSUME NEW m \in Q, m.port = p PROVE n.uid <= m.uid
          OBVIOUS
        <5>2. /\ IssuedAt(m.uid, p, m.lc) /\ m.lc \in Nat
              /\ IssuedAt(n.uid, p, n.lc) /\ n.lc \in Nat
          BY <1>7, <4>1, <5>1
        <5>3. ~ (m.lc < n.lc)
          BY <2>2 DEF IsHead, Before
        <5>4. n.lc <= m.lc
          BY <5>2, <5>3
        <5>5. QED
          BY <5>2, <5>4, UidGrows
      <4>4. \A k \in queue'[p] : k.port = p => n.uid <= k.uid
        BY <1>4, <4>3
      <4>5. QED
        BY <3>1, <4>2, <4>4 DEF Passed
    <3>3. LatestOK(p)' /\ WriteOK(p)'
      BY <3>1 DEF LatestOK, WriteOK, ReadyActive
    <3>4. SelfAckOK(p)'
      BY <1>10, <3>2 DEF SelfAckOK
    <3>5. CountOK(p)'
      BY <1>3, <1>5, <3>1, CountedStays DEF OrderOK, CountOK, ReadyActive
    <3>6. QED
      BY <1>5, <1>9, <3>3, <3>4, <3>5 DEF OrderOK
  <2>3. QED
    BY <1>1, <2>1, <2>2
<1>12. KeptInv'
  <2>1. /\ \A q \in Proc : tail[q] = "off" => tail'[q] = "off"
        /\ tail[p] = "off" => tail'[p] = "off"
    BY DEF handle_broadcast, enqueue_tail, IInv, TypeOK
  <2>2. tail[p] = "off" \/ \E n \in queue'[p] : n.uid = c.uid
    <3>1. create_node(c).uid = c.uid
      BY DEF create_node
    <3>2. tail[p] # "off" => create_node(c) \in Q
      BY <1>1
    <3>3. QED
      BY <1>4, <3>1, <3>2
  <2>3. \A q \in Proc : \A m \in queue[q] : \E n \in queue'[q] : n.uid = m.uid
    <3>1. queue[p] \subseteq Q
      BY <1>1
    <3>2. QED
      BY <1>4, <3>1
  <2>4. \A b \in handled' : \/ b \in handled
                            \/ \E n \in queue'[b.to] : n.uid = b.uid
                            \/ tail'[b.to] = "off"
    BY <1>3, <2>1, <2>2
  <2>5. KeptInv /\ handled \subseteq handled'
    BY <1>3 DEF OInv
  <2>6. QED
    BY <2>1, <2>3, <2>4, <2>5, KeptFrame
<1>13. OrderInv'
  BY <1>5, <1>11 DEF OrderInv
<1>14. QED
  BY <1>5, <1>12, <1>13 DEF OInv

-----------------------------------------------------------------------------
(* The theorems *)

(***************************************************************************)
(* OInv holds initially.                                                   *)
(***************************************************************************)
LEMMA OrderInit == Init => OInv
<1>1. SUFFICES ASSUME Init PROVE OInv
  OBVIOUS
<1>2. \A p \in Proc : /\ pc[p] \in {"start", "accept"}
                      /\ queue[p] = {}
                      /\ backlog[p] = <<>>
  BY <1>1 DEF Init
<1>3. /\ opened = {} /\ sent = {} /\ handled = {} /\ shared = <<>>
      /\ Len(shared) = 0
  BY <1>1 DEF Init
<1>4. \A i : i \notin 1 .. Len(shared)
  BY <1>3
<1>5. \A p \in Proc : Pending(p) = {} /\ ~ Sending(p)
  BY <1>2 DEF Pending, Queued, Sending
<1>6. OrderInv
  BY <1>2, <1>3, <1>5 DEF OrderInv, OrderOK, FifoOK, LatestOK, AheadOK,
     SelfAckOK, CountOK, WriteOK, ReadyActive
<1>7. UpInv /\ ReachInv /\ PlaceInv /\ KeptInv
  BY <1>1, <1>3 DEF Init, UpInv, ReachInv, PlaceInv, KeptInv
<1>8. WrittenInIssueOrder
  BY <1>4 DEF WrittenInIssueOrder
<1>9. QED
  BY <1>6, <1>7, <1>8 DEF OInv

(***************************************************************************)
(* Every step preserves OInv, given IInv.                                  *)
(***************************************************************************)
LEMMA OrderStep ==
    ASSUME IInv, OInv, [Next]_vars, IInv'
    PROVE  OInv'
<1>1. CASE UNCHANGED vars
  <2>1. UNCHANGED <<queue, tail, backlog, pc, cur, out, sent, closed, shared,
                    up, opened, handled>>
    BY <1>1 DEF vars
  <2>2. \A q \in Proc : Pending(q)' = Pending(q) /\ NoneNew(q)
    BY <2>1, InboxKept
  <2>3. UpInv' /\ ReachInv'
    BY <2>1 DEF OInv, UpInv, ReachInv
  <2>4. QED
    BY <2>1, <2>2, <2>3, QuietOrder DEF Sending
<1>2. ASSUME NEW p \in Proc, Step(p) PROVE OInv'
  BY <1>2, ListenOrder, AcceptOrder, RecvEofOrder, HandleIssueOrder,
     HandleBroadcastOrder, HandleAckOrder, HandleReadyOrder, ConnectOrder,
     FailOrder, SendOrder, WriteSharedOrder DEF Step
<1>3. ASSUME NEW p \in Proc, Crash(p) PROVE OInv'
  BY <1>3, CrashOrder
<1>4. ASSUME NEW c \in Client, NEW p \in Proc,
             ClientIssue(c, p) \/ ClientRefused(c, p)
      PROVE  OInv'
  BY <1>4, ClientIssueOrder, ClientRefusedOrder
<1>5. QED
  BY <1>1, <1>2, <1>3, <1>4 DEF Next

(***************************************************************************)
(* Every process handles, acknowledges and writes its own messages in the  *)
(* order in which handle_issue() took them, for any number of processes    *)
(* and clients, any backlog and any crashes.                               *)
(***************************************************************************)
THEOREM OrderInvariance == Spec => []OInv
<1>1. IInv /\ OInv /\ [Next]_vars /\ IInv' => OInv'
  BY OrderStep
<1>2. QED
  BY <1>1, OrderInit, Invariance, PTL DEF Spec

(***************************************************************************)
(* Messages issued through one process are written to the shared file in   *)
(* the order in which handle_issue() took them.                            *)
(***************************************************************************)
THEOREM WrittenInIssueOrderAlways == Spec => []WrittenInIssueOrder
<1>1. OInv => WrittenInIssueOrder
  BY DEF OInv
<1>2. QED
  BY <1>1, OrderInvariance, PTL

(***************************************************************************)
(* An acknowledgement that is about to be handled finds its node: the copy *)
(* of the message that its issuer sent to itself has been handled before,  *)
(* and the READY that would take it out is still to come.                  *)
(***************************************************************************)
LEMMA AckHasNode ==
    ASSUME IInv, OInv
    PROVE  AckFindsNode
<1>1. SUFFICES ASSUME NEW p \in Proc, pc[p] = "recv", cur[p].op = "ACK00",
                      tail[p] # "off", \A e \in closed : e.uid # cur[p].uid
               PROVE  \E n \in queue[p] : n.uid = cur[p].uid
  BY DEF AckFindsNode
<1>2. PICK c : c = cur[p]
  OBVIOUS
<1>3. PICK u : u = c.uid
  OBVIOUS
<1>4. c \in opened /\ c \notin handled /\ c.to = p /\ c \in Conn
  BY <1>1, <1>2 DEF IInv, InboxInv, InboxOK, TypeOK
<1>5. c.lc = 0 /\ c.from \in Proc
  BY <1>1, <1>2, <1>4, PeerFrom DEF IInv, ConnInv, ConnOK
<1>6. c = AckConn(c.from, p, u)
  BY <1>1, <1>2, <1>3, <1>4, <1>5, ConnFields DEF AckConn
<1>7. PICK ts \in 1 .. LCBound - 1 : BroadConn(p, c.from, u, ts) \in handled
  BY <1>4, <1>6, AckIssued
<1>8. PICK b : b = BroadConn(p, p, u, ts)
  OBVIOUS
<1>9. b.op = "BROAD" /\ b.from = p /\ b.to = p /\ b.uid = u
  BY <1>8 DEF BroadConn
<1>10. b \in opened
  <2>1. BroadConn(p, c.from, u, ts) \in sent
    BY <1>7 DEF IInv, SetsInv
  <2>2. QED
    BY <1>8, <2>1 DEF OInv, ReachInv, BroadConn
<1>11. b \notin Pending(p)
  <2>1. SUFFICES ASSUME b \in Pending(p) PROVE FALSE
    OBVIOUS
  <2>2. c \in Pending(p) /\ b # c
    BY <1>1, <1>2, <1>9 DEF Pending
  <2>3. b \in Queued(p)
    BY <1>1, <1>2, <2>1, <2>2 DEF Pending
  <2>4. Ahead(p, c, b) /\ Own(b, p)
    BY <1>1, <1>2, <1>9, <2>3 DEF Ahead, Own
  <2>5. QED
    BY <1>1, <1>2, <1>3, <1>9, <2>1, <2>2, <2>4
       DEF OInv, OrderInv, OrderOK, FifoOK
<1>12. b \notin closed /\ p \in up
  BY <1>1, <1>2, <1>3, <1>9 DEF OInv, UpInv
<1>13. b \in handled
  BY <1>9, <1>10, <1>11, <1>12 DEF OInv, PlaceInv
<1>14. ReadyConn(p, p, u) \notin handled
  <2>1. SUFFICES ASSUME ReadyConn(p, p, u) \in opened PROVE c \in handled
    BY <1>4, HandledOpened
  <2>2. Ackers(p, u) = Proc
    BY <2>1 DEF OInv, OrderInv, OrderOK, CountOK, ReadyConn
  <2>3. QED
    BY <1>5, <1>6, <2>2 DEF Ackers
<1>15. QED
  BY <1>1, <1>2, <1>3, <1>9, <1>13, <1>14 DEF OInv, KeptInv

(***************************************************************************)
(* handle_ack() finds the node of the message that is acknowledged, as     *)
(* long as the list of the issuer is intact and its broadcast was not      *)
(* given up at a failed send.                                              *)
(***************************************************************************)
THEOREM AckFindsNodeAlways == Spec => []AckFindsNode
<1>1. IInv /\ OInv => AckFindsNode
  BY AckHasNode
<1>2. QED
  BY <1>1, Invariance, OrderInvariance, PTL
=============================================================================
