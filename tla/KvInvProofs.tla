---------------------------- MODULE KvInvProofs ----------------------------
(***************************************************************************)
(* The invariant KInv of KvInv is inductive, and what follows from it: for *)
(* every set of clients and requests, every number of threads and          *)
(* descriptors, and any number of crashes.                                 *)
(***************************************************************************)
EXTENDS KvInv, HashMapProofs

-----------------------------------------------------------------------------
(* Requests, descriptors and queues *)

(***************************************************************************)
(* The key of a request is a key.                                          *)
(***************************************************************************)
LEMMA ReqKey ==
    ASSUME NEW c \in Client
    PROVE  Req[c].key \in Keys /\ Len(Req[c].key) \in Nat
  BY ReqAssumption DEF Keys

(***************************************************************************)
(* What parse_body() makes of a key: a key, the whole one if it is short.  *)
(***************************************************************************)
LEMMA KeyReadType ==
    ASSUME NEW c \in Client
    PROVE  /\ KeyRead(c) \in Keys
           /\ Len(Req[c].key) <= MaxGet => KeyRead(c) = Req[c].key
           /\ Len(Req[c].key) > MaxGet => Len(KeyRead(c)) = MaxGet
<1> DEFINE k == Req[c].key
           n == IF Len(k) < MaxGet THEN Len(k) ELSE MaxGet
<1>1. k \in Seq(0 .. 127) /\ Len(k) \in Nat /\ MaxGet \in Nat /\ MaxGet > 0
  BY ReqKey DEF Keys, MaxGet
<1>2. n \in Int /\ 1 \in Int /\ \A i \in 1 .. n : k[i] \in 0 .. 127
  <2>1. \A i \in 1 .. Len(k) : k[i] \in 0 .. 127
    BY <1>1, ElementOfSeq
  <2> HIDE DEF k
  <2>2. n \in Nat /\ n <= Len(k)
    BY <1>1
  <2>3. QED
    BY <1>1, <2>1, <2>2
<1>3. KeyRead(c) = SubSeq(k, 1, n)
  BY DEF KeyRead
<1> HIDE DEF k
<1>4. /\ SubSeq(k, 1, n) \in Seq(0 .. 127)
      /\ Len(SubSeq(k, 1, n)) = IF 1 <= n THEN n - 1 + 1 ELSE 0
  <2> HIDE DEF n
  <2> QED
    BY <1>2, SubSeqProperties
<1>5. ASSUME Len(k) <= MaxGet PROVE SubSeq(k, 1, n) = k
  <2>1. n = Len(k)
    BY <1>1, <1>5
  <2>2. QED
    BY <1>1, <2>1, SubSeqFull
<1>6. ASSUME Len(k) > MaxGet PROVE Len(SubSeq(k, 1, n)) = MaxGet
  <2>1. n = MaxGet
    BY <1>1, <1>6
  <2>2. QED
    BY <1>1, <1>4, <2>1
<1>7. QED
  BY <1>3, <1>4, <1>5, <1>6 DEF Keys, k

(***************************************************************************)
(* NoFd is no descriptor, and NoBlock no request.                          *)
(***************************************************************************)
LEMMA NothingIsNothing == NoFd \notin Fd /\ NoBlock \notin Block
<1>1. NoFd \notin Fd
  BY BoundAssumption DEF NoFd, Fd
<1>2. QED
  BY <1>1 DEF NoBlock, Block

(***************************************************************************)
(* Append() at the end of a queue.                                         *)
(***************************************************************************)
LEMMA AtEnd ==
    ASSUME NEW T, NEW s \in Seq(T), NEW x \in T
    PROVE  /\ Append(s, x) \in Seq(T)
           /\ Len(s) \in Nat
           /\ Len(Append(s, x)) = Len(s) + 1
           /\ \A i \in 1 .. Len(s) : Append(s, x)[i] = s[i]
           /\ Append(s, x)[Len(s) + 1] = x
           /\ 1 .. Len(Append(s, x)) = (1 .. Len(s)) \cup {Len(s) + 1}
  OBVIOUS

(***************************************************************************)
(* Head() and Tail() of a queue that is not empty.                         *)
(***************************************************************************)
LEMMA AtFront ==
    ASSUME NEW T, NEW s \in Seq(T), s # <<>>
    PROVE  /\ Head(s) = s[1] /\ Head(s) \in T
           /\ 1 \in 1 .. Len(s)
           /\ Tail(s) \in Seq(T)
           /\ Len(s) \in Nat
           /\ Len(Tail(s)) = Len(s) - 1
           /\ \A i \in 1 .. Len(Tail(s)) : Tail(s)[i] = s[i + 1]
           /\ \A i \in 1 .. Len(Tail(s)) : i + 1 \in 1 .. Len(s)
  OBVIOUS

-----------------------------------------------------------------------------
(* Type correctness *)

(***************************************************************************)
(* The table is a map of HashMapProofs.                                    *)
(***************************************************************************)
LEMMA TypeOfStore ==
    ASSUME TypeOK
    PROVE  /\ hash_map \in MapOf(Value)
           /\ log \in Seq(Nodes(Client))
           /\ Len(log) \in Nat
           /\ replayed \in Nat
<1>1. hash_map \in MapOf(Value) /\ log \in Seq(Nodes(Client))
  BY DEF TypeOK, MapOf, Nodes, Keys
<1>2. Len(log) \in Nat
  BY <1>1
<1>3. QED
  BY <1>1, <1>2 DEF TypeOK

(***************************************************************************)
(* What is sent to a client is a line that it can get.                     *)
(***************************************************************************)
LEMMA SendType ==
    ASSUME TypeOK, NEW f \in Fd, NEW msg \in Answer, msg.line # "none",
           Send(f, msg)
    PROVE  /\ client' \in [Client -> {"new", "waiting", "gone", "VALUE",
                                      "NOTFOUND", "STORED", "Error"}]
           /\ value' \in [Client -> Value]
<1>1. conn[f] \in Client \cup {NoOne} /\ msg.val \in Value
  BY DEF TypeOK, Answer
<1>2. msg.line \in {"new", "waiting", "gone", "VALUE", "NOTFOUND", "STORED", "Error"}
  BY DEF Answer
<1>3. QED
  BY <1>1, <1>2 DEF Send, TypeOK

(***************************************************************************)
(* Each operation of the clients and of main() keeps the types.            *)
(***************************************************************************)
LEMMA ClientTypes ==
    ASSUME TypeOK, NEW c \in Client,
           Connect(c) \/ ConnectRefused(c) \/ ClientKilled(c)
    PROVE  TypeOK'
<1> USE DEF pools, store, ends
<1>1. CASE Connect(c)
  <2>1. backlog' \in Seq(Client)
    BY <1>1 DEF Connect, TypeOK
  <2>2. QED
    BY <1>1, <2>1 DEF Connect, TypeOK
<1>2. CASE ConnectRefused(c)
  BY <1>2 DEF ConnectRefused, TypeOK
<1>3. CASE ClientKilled(c)
  BY <1>3 DEF ClientKilled, TypeOK
<1>4. QED
  BY <1>1, <1>2, <1>3

(***************************************************************************)
(* accept() and the hand-over to the client threads keep the types.        *)
(***************************************************************************)
LEMMA AcceptTypes ==
    ASSUME TypeOK, Accept
    PROVE  TypeOK'
<1> USE DEF pools, store, ends
<1>1. PICK f \in Fd :
         /\ backlog # <<>>
         /\ conn' = [conn EXCEPT ![f] = Head(backlog)]
         /\ backlog' = Tail(backlog)
         /\ client_queue' = Append(client_queue, f)
         /\ client_sock' = client_sock
  BY DEF Accept, ConnPool!Put
<1>2. Head(backlog) \in Client /\ backlog' \in Seq(Client)
  BY <1>1 DEF TypeOK
<1>3. client_queue' \in Seq(Fd)
  BY <1>1 DEF TypeOK
<1>4. QED
  BY <1>1, <1>2, <1>3 DEF Accept, TypeOK

(***************************************************************************)
(* The client threads, handle_client() and parse_body() keep the types.    *)
(***************************************************************************)
LEMMA ConnTypes ==
    ASSUME TypeOK, NEW t \in ConnThread, TakeConn(t) \/ handle_client(t)
    PROVE  TypeOK'
<1> USE DEF pools, store, ends
<1>1. CASE TakeConn(t)
  <2>1. client_queue # <<>> /\ client_queue' = Tail(client_queue)
        /\ client_sock' = [client_sock EXCEPT ![t] = Head(client_queue)]
    BY <1>1 DEF TakeConn, ConnPool!Take
  <2>2. Head(client_queue) \in Fd /\ client_queue' \in Seq(Fd)
    BY <2>1 DEF TypeOK
  <2>3. QED
    BY <1>1, <2>1, <2>2 DEF TakeConn, TypeOK
<1>2. CASE NoOperation(t)
  BY <1>2 DEF NoOperation, ConnPool!Finish, TypeOK
<1>3. ASSUME NEW op \in {"get", "set"}, Reads(t, op), Submit(t, op), conn' = conn
      PROVE  TypeOK'
  <2> DEFINE f == client_sock[t]
             b == [sock_fd |-> f, oper |-> op, key |-> KeyRead(conn[f]),
                   who |-> conn[f]]
  <2>1. f \in Fd /\ conn[f] \in Client
    BY <1>3 DEF Reads, TypeOK
  <2>2. b \in Block
    BY <2>1, KeyReadType DEF Block, Keys
  <2>3. hash_queue' = Append(hash_queue, b) /\ block' = block
    BY <1>3 DEF Submit, HashPool!Put
  <2>4. hash_queue' \in Seq(Block)
    BY <2>2, <2>3 DEF TypeOK
  <2>5. QED
    BY <1>3, <2>3, <2>4 DEF Submit, ConnPool!Finish, TypeOK
<1>4. CASE ReadGet(t)
  BY <1>3, <1>4 DEF ReadGet
<1>5. CASE ReadSet(t)
  BY <1>3, <1>5 DEF ReadSet
<1>6. CASE PartialReceive(t)
  BY <1>6 DEF PartialReceive, Reads, TypeOK
<1>7. CASE SendError(t)
  <2>1. client_sock[t] \in Fd
    BY <1>7 DEF SendError, ConnPool!Finish, TypeOK
  <2>2. Say("Error", NoOne) \in Answer /\ Say("Error", NoOne).line # "none"
    BY DEF Say, Answer, Value
  <2>3. /\ client' \in [Client -> {"new", "waiting", "gone", "VALUE",
                                   "NOTFOUND", "STORED", "Error"}]
        /\ value' \in [Client -> Value]
    BY <1>7, <2>1, <2>2, SendType DEF SendError
  <2>4. QED
    BY <1>7, <2>3 DEF SendError, ConnPool!Finish, TypeOK
<1>8. QED
  BY <1>1, <1>2, <1>4, <1>5, <1>6, <1>7 DEF handle_client

(***************************************************************************)
(* The hash threads and handle_hash() keep the types; that a thread with   *)
(* an answer has a request is AnswerInv.                                   *)
(***************************************************************************)
LEMMA HashTypes ==
    ASSUME TypeOK, AnswerInv, NEW h \in HashThread,
           TakeBlock(h) \/ handle_hash(h)
    PROVE  TypeOK'
<1> USE DEF pools, store, ends
<1>1. CASE TakeBlock(h)
  <2>1. hash_queue # <<>> /\ hash_queue' = Tail(hash_queue)
        /\ block' = [block EXCEPT ![h] = Head(hash_queue)]
    BY <1>1 DEF TakeBlock, HashPool!Take
  <2>2. Head(hash_queue) \in Block /\ hash_queue' \in Seq(Block)
    BY <2>1 DEF TypeOK
  <2>3. QED
    BY <1>1, <2>1, <2>2 DEF TakeBlock, TypeOK
<1>2. CASE LookUp(h)
  <2>1. outcome' \in [HashThread -> Answer]
    <3>1. block[h].key \in Keys
      BY <1>2 DEF LookUp, Works, TypeOK, Block, Keys
    <3>2. \A n \in get_node(hash_map, block[h].key) : n.val \in Value
      <4> DEFINE key == block[h].key
                 s == hash_map[hash_string(key)]
                 I == {i \in 1 .. Len(s) : StartsWith(s[i].key, key)}
      <4>1. s \in Seq(Nodes(Value))
        BY <3>1, HashInBucket, TypeOfStore DEF MapOf
      <4>2. I \in SUBSET Nat
        OBVIOUS
      <4>3. I # {} => FirstOf(I) \in 1 .. Len(s)
        <5>1. I # {} => FirstOf(I) \in I
          BY <4>2, FirstIsLeast
        <5>2. QED
          BY <5>1
      <4>4. I # {} => s[FirstOf(I)] \in Nodes(Value)
        BY <4>1, <4>3, ElementOfSeq
      <4>5. \A n \in get_node(hash_map, key) : I # {} /\ n = s[FirstOf(I)]
        BY DEF get_node
      <4>6. QED
        BY <4>4, <4>5 DEF Nodes
    <3>3. \A v \in Value : Say("VALUE", v) \in Answer /\ Say("NOTFOUND", v) \in Answer
      BY DEF Say, Answer
    <3>4. NoOne \in Value
      BY DEF Value
    <3>5. \E a \in Answer : outcome' = [outcome EXCEPT ![h] = a]
      BY <1>2, <3>2, <3>3, <3>4 DEF LookUp
    <3>6. QED
      BY <3>5 DEF TypeOK
  <2>2. QED
    BY <1>2, <2>1 DEF LookUp, Works, TypeOK
<1>3. CASE LogSet(h)
  <2> DEFINE e == [key |-> block[h].key, val |-> block[h].who]
  <2>1. e \in [key : Seq(0 .. 127), val : Client]
    BY <1>3 DEF LogSet, Works, TypeOK, Block
  <2>2. log' = Append(log, e)
    BY <1>3 DEF LogSet
  <2>3. /\ log' \in Seq([key : Seq(0 .. 127), val : Client])
        /\ replayed \in 0 .. Len(log')
    <3> HIDE DEF e
    <3>1. log \in Seq([key : Seq(0 .. 127), val : Client]) /\ Len(log) \in Nat
          /\ replayed \in 0 .. Len(log)
      BY TypeOfStore DEF TypeOK
    <3>2. QED
      BY <2>1, <2>2, <3>1, AtEnd
  <2>4. QED
    BY <1>3, <2>3 DEF LogSet, Works, TypeOK
<1>4. CASE Insert(h)
  <2> DEFINE n == [key |-> block[h].key, val |-> block[h].who]
  <2>1. n \in Nodes(Value)
    BY <1>4 DEF Insert, Works, TypeOK, Block, Nodes, Keys, Value
  <2>2. hash_map' \in MapOf(Value)
    BY <1>4, <2>1, InsertChain, TypeOfStore DEF Insert
  <2>3. hash_map' \in [Bucket -> Seq([key : Seq(0 .. 127), val : Value])]
    BY <2>2 DEF MapOf, Nodes, Keys
  <2>4. Say("STORED", NoOne) \in Answer
    BY DEF Say, Answer, Value
  <2>5. QED
    BY <1>4, <2>3, <2>4 DEF Insert, Works, TypeOK
<1>5. CASE Reply(h)
  <2>1. block[h].sock_fd \in Fd /\ outcome[h] \in Answer
    BY <1>5 DEF Reply, TypeOK, Block
  <2>2. outcome[h].line # "none"
    BY <1>5 DEF AnswerInv, Reply, Say
  <2>3. /\ client' \in [Client -> {"new", "waiting", "gone", "VALUE",
                                   "NOTFOUND", "STORED", "Error"}]
        /\ value' \in [Client -> Value]
    BY <1>5, <2>1, <2>2, SendType DEF Reply
  <2>4. NoAnswer \in Answer
    BY DEF NoAnswer, Say, Answer, Value
  <2>5. QED
    BY <1>5, <2>3, <2>4 DEF Reply, HashPool!Finish, TypeOK
<1>6. QED
  BY <1>1, <1>2, <1>3, <1>4, <1>5 DEF handle_hash

(***************************************************************************)
(* A kill keeps the types, and so does a start on the log it left.         *)
(***************************************************************************)
LEMMA CrashTypes ==
    ASSUME TypeOK, Crash
    PROVE  TypeOK'
<1> USE DEF pools, store, ends
<1>1. hash_map' \in [Bucket -> Seq([key : Seq(0 .. 127), val : Value])]
  BY DEF Crash, EmptyMap
<1>2. outcome' \in [HashThread -> Answer]
  BY DEF Crash, NoAnswer, Say, Answer, Value
<1>3. crashes' \in 0 .. MaxCrash
  BY BoundAssumption DEF Crash, TypeOK
<1>4. /\ client' \in [Client -> {"new", "waiting", "gone", "VALUE", "NOTFOUND",
                                 "STORED", "Error"}]
      /\ conn' \in [Fd -> Client \cup {NoOne}]
      /\ client_sock' \in [ConnThread -> Fd \cup {NoFd}]
      /\ block' \in [HashThread -> Block \cup {NoBlock}]
  BY DEF Crash, TypeOK
<1>5. /\ backlog' \in Seq(Client)
      /\ client_queue' \in Seq(Fd)
      /\ hash_queue' \in Seq(Block)
  BY DEF Crash
<1>6. /\ log' \in Seq([key : Seq(0 .. 127), val : Client])
      /\ replayed' \in 0 .. Len(log')
      /\ value' \in [Client -> Value]
      /\ known' \in [Client -> SUBSET Client]
  BY DEF Crash, TypeOK
<1>7. up' \in BOOLEAN /\ rejected' \subseteq ConnThread /\ holder' \subseteq HashThread
  BY DEF Crash
<1>8. QED
  BY <1>1, <1>2, <1>3, <1>4, <1>5, <1>6, <1>7 DEF TypeOK

(***************************************************************************)
(* The table rebuilt by init_hash_from_log() has the type of a table.      *)
(***************************************************************************)
LEMMA RestartTypes ==
    ASSUME TypeOK, Restart
    PROVE  TypeOK'
<1> USE DEF pools, store, ends
<1>1. PICK g \in Client \cup {Junk} : hash_map' = init_hash_from_log(log, Large, g)
  BY DEF Restart
<1>2. hash_map' \in MapOf({g})
  BY <1>1, TableFromLog, TypeOfStore DEF Rebuilt
<1>3. Nodes({g}) \subseteq Nodes(Value)
  BY DEF Nodes, Value
<1>4. hash_map' \in [Bucket -> Seq([key : Seq(0 .. 127), val : Value])]
  <2>1. ASSUME NEW b \in Bucket PROVE hash_map'[b] \in Seq(Nodes(Value))
    <3> DEFINE s == hash_map'[b]
    <3>1. s \in Seq(Nodes({g}))
      BY <1>2 DEF MapOf
    <3> HIDE DEF s
    <3>2. Len(s) \in Nat /\ s \in [1 .. Len(s) -> Nodes({g})]
      BY <3>1
    <3>3. s \in [1 .. Len(s) -> Nodes(Value)]
      BY <1>3, <3>2
    <3>4. s \in Seq(Nodes(Value))
      BY <3>2, <3>3
    <3>5. QED
      BY <3>4 DEF s
  <2>2. QED
    BY <1>2, <2>1 DEF MapOf, Nodes, Keys
<1>5. replayed' \in 0 .. Len(log')
  BY TypeOfStore DEF Restart
<1>6. QED
  BY <1>4, <1>5 DEF Restart, TypeOK

-----------------------------------------------------------------------------
(* Descriptors that wait to be read *)

(***************************************************************************)
(* What does not touch the client threads leaves the unread descriptors as *)
(* they are.                                                               *)
(***************************************************************************)
LEMMA SameUnread ==
    ASSUME UNCHANGED <<client_queue, client_sock, rejected>>
    PROVE  Reading' = Reading /\ \A f : Unread(f)' <=> Unread(f)
  BY DEF Reading, Unread

(***************************************************************************)
(* main() adds the descriptor f that accept() returned.                    *)
(***************************************************************************)
LEMMA PutUnread ==
    ASSUME TypeOK, NEW f \in Fd, client_queue' = Append(client_queue, f),
           UNCHANGED <<client_sock, rejected>>
    PROVE  Reading' = Reading /\ \A g : Unread(g)' <=> Unread(g) \/ g = f
<1>1. client_queue \in Seq(Fd)
  BY DEF TypeOK
<1>2. Reading' = Reading
  BY DEF Reading
<1>3. /\ \A i \in 1 .. Len(client_queue) : client_queue'[i] = client_queue[i]
      /\ client_queue'[Len(client_queue) + 1] = f
      /\ 1 .. Len(client_queue') = (1 .. Len(client_queue)) \cup {Len(client_queue) + 1}
  BY <1>1, AtEnd
<1>4. QED
  BY <1>2, <1>3 DEF Unread

(***************************************************************************)
(* A client thread takes the descriptor at the front of the queue.         *)
(***************************************************************************)
LEMMA TakeUnread ==
    ASSUME TypeOK, FdInv, NEW t \in ConnThread, TakeConn(t)
    PROVE  /\ Reading' = Reading \cup {t} /\ t \notin Reading
           /\ client_sock'[t] = client_queue[1]
           /\ \A u \in Reading : client_sock'[u] = client_sock[u]
           /\ \A g : Unread(g)' <=> Unread(g)
<1>1. /\ client_queue # <<>> /\ client_queue' = Tail(client_queue)
      /\ client_sock[t] = NoFd
      /\ client_sock' = [client_sock EXCEPT ![t] = Head(client_queue)]
      /\ rejected' = rejected
  BY DEF TakeConn, ConnPool!Take
<1>2. client_queue \in Seq(Fd) /\ client_sock \in [ConnThread -> Fd \cup {NoFd}]
  BY DEF TypeOK
<1>3. /\ Head(client_queue) = client_queue[1] /\ client_queue[1] \in Fd
      /\ 1 \in 1 .. Len(client_queue)
      /\ Len(client_queue) \in Nat
      /\ Len(client_queue') = Len(client_queue) - 1
      /\ \A i \in 1 .. Len(client_queue') : client_queue'[i] = client_queue[i + 1]
      /\ \A i \in 1 .. Len(client_queue') : i + 1 \in 1 .. Len(client_queue)
  BY <1>1, <1>2, AtFront
<1>4. t \notin rejected
  BY <1>1 DEF FdInv
<1>5. Reading' = Reading \cup {t} /\ t \notin Reading
  BY <1>1, <1>2, <1>3, <1>4, NothingIsNothing DEF Reading
<1>6. /\ client_sock'[t] = client_queue[1]
      /\ \A u \in Reading : client_sock'[u] = client_sock[u]
  BY <1>1, <1>2, <1>3, <1>5 DEF Reading
<1>7. ASSUME NEW g
      PROVE  Unread(g)' <=> Unread(g)
  <2>1. ASSUME NEW i \in 1 .. Len(client_queue), client_queue[i] = g
        PROVE  Unread(g)'
    <3>1. CASE i = 1
      BY <1>5, <1>6, <2>1, <3>1 DEF Unread
    <3>2. CASE i # 1
      <4>1. i - 1 \in 1 .. Len(client_queue') /\ client_queue'[i - 1] = g
        BY <1>3, <2>1, <3>2
      <4>2. QED
        BY <4>1 DEF Unread
    <3>3. QED
      BY <3>1, <3>2
  <2>2. ASSUME NEW u \in Reading, client_sock[u] = g
        PROVE  Unread(g)'
    BY <1>5, <1>6, <2>2 DEF Unread
  <2>3. ASSUME NEW i \in 1 .. Len(client_queue'), client_queue'[i] = g
        PROVE  Unread(g)
    BY <1>3, <2>3 DEF Unread
  <2>4. ASSUME NEW u \in Reading', client_sock'[u] = g
        PROVE  Unread(g)
    BY <1>3, <1>5, <1>6, <2>4 DEF Unread
  <2>5. QED
    BY <2>1, <2>2, <2>3, <2>4 DEF Unread
<1>8. QED
  BY <1>5, <1>6, <1>7

(***************************************************************************)
(* Thread t is done with the descriptor it was to read, or rejects it.     *)
(***************************************************************************)
LEMMA DropUnread ==
    ASSUME TypeOK, FdInv, NEW t \in Reading, client_queue' = client_queue,
           \/ /\ client_sock' = [client_sock EXCEPT ![t] = NoFd]
              /\ rejected' = rejected
           \/ /\ client_sock' = client_sock
              /\ rejected' = rejected \cup {t}
    PROVE  /\ Reading' = Reading \ {t}
           /\ \A u \in Reading' : client_sock'[u] = client_sock[u]
           /\ Unread(client_sock[t]) /\ client_sock[t] \in Fd
           /\ \A g : Unread(g)' <=> Unread(g) /\ g # client_sock[t]
<1>1. client_sock \in [ConnThread -> Fd \cup {NoFd}]
  BY DEF TypeOK
<1>2. Reading' = Reading \ {t} /\ \A u \in Reading' : client_sock'[u] = client_sock[u]
  BY <1>1 DEF Reading
<1>3. Unread(client_sock[t]) /\ client_sock[t] \in Fd
  BY <1>1 DEF Unread, Reading
<1>4. QED
  BY <1>2, <1>3 DEF Unread, FdInv

(***************************************************************************)
(* A thread that has rejected its descriptor was not to read it any more.  *)
(***************************************************************************)
LEMMA ErrorUnread ==
    ASSUME TypeOK, NEW t \in rejected, rejected' = rejected \ {t},
           client_queue' = client_queue,
           client_sock' = [client_sock EXCEPT ![t] = NoFd]
    PROVE  /\ Reading' = Reading
           /\ \A u \in Reading : client_sock'[u] = client_sock[u]
           /\ \A g : Unread(g)' <=> Unread(g)
<1>1. client_sock \in [ConnThread -> Fd \cup {NoFd}] /\ t \in ConnThread
  BY DEF TypeOK
<1>2. Reading' = Reading /\ \A u \in Reading : client_sock'[u] = client_sock[u]
  BY <1>1 DEF Reading
<1>3. QED
  BY <1>2 DEF Unread

(***************************************************************************)
(* A server that was killed has no unread descriptor.                      *)
(***************************************************************************)
LEMMA CrashUnread ==
    ASSUME Crash
    PROVE  Reading' = {} /\ \A f : ~ Unread(f)'
<1>1. Reading' = {}
  BY DEF Crash, Reading
<1>2. QED
  BY <1>1 DEF Crash, Unread

(***************************************************************************)
(* A submitted request: what handle_client() puts in the hash queue.       *)
(***************************************************************************)
LEMMA Submitted ==
    ASSUME TypeOK, NEW t \in ConnThread, ReadGet(t) \/ ReadSet(t)
    PROVE  \E b \in Block :
              /\ t \in Reading
              /\ b.sock_fd = client_sock[t]
              /\ b.who = conn[client_sock[t]]
              /\ b.oper = Req[b.who].op
              /\ b.key = KeyRead(b.who)
              /\ b.oper = "set" => Len(Req[b.who].key) <= MaxSet
              /\ hash_queue' = Append(hash_queue, b)
              /\ client_queue' = client_queue
              /\ client_sock' = [client_sock EXCEPT ![t] = NoFd]
              /\ UNCHANGED <<up, backlog, conn, rejected, block, holder, outcome,
                             store, ends, crashes>>
<1> DEFINE b(op) == [sock_fd |-> client_sock[t], oper |-> op,
                     key |-> KeyRead(conn[client_sock[t]]),
                     who |-> conn[client_sock[t]]]
<1>1. ASSUME NEW op \in {"get", "set"}, Reads(t, op), Submit(t, op)
      PROVE  /\ t \in Reading
             /\ b(op) \in Block
             /\ b(op).oper = Req[b(op).who].op
             /\ hash_queue' = Append(hash_queue, b(op))
             /\ client_queue' = client_queue
             /\ client_sock' = [client_sock EXCEPT ![t] = NoFd]
             /\ UNCHANGED <<up, backlog, rejected, block, holder, outcome,
                            store, ends, crashes>>
  <2>1. t \in Reading /\ client_sock[t] \in Fd /\ conn[client_sock[t]] \in Client
    BY <1>1 DEF Reads, TypeOK, Reading
  <2>2. b(op) \in Block
    BY <2>1, KeyReadType DEF Block, Keys
  <2>3. b(op).oper = Req[b(op).who].op
    BY <1>1 DEF Reads
  <2>4. QED
    BY <1>1, <2>1, <2>2, <2>3 DEF Submit, HashPool!Put, ConnPool!Finish
<1>2. CASE ReadGet(t)
  BY <1>1, <1>2 DEF ReadGet
<1>3. CASE ReadSet(t)
  BY <1>1, <1>3 DEF ReadSet
<1>4. QED
  BY <1>2, <1>3

-----------------------------------------------------------------------------
(* FdInv *)

(***************************************************************************)
(* main() and the client threads pass descriptors on without losing or     *)
(* doubling one.                                                           *)
(***************************************************************************)
LEMMA FdConn ==
    ASSUME TypeOK, FdInv, NEW t \in ConnThread, TakeConn(t) \/ handle_client(t)
    PROVE  FdInv'
<1>1. CASE TakeConn(t)
  <2>1. /\ conn' = conn /\ rejected' = rejected
        /\ client_queue # <<>> /\ client_queue' = Tail(client_queue)
        /\ client_sock[t] = NoFd
        /\ client_sock' = [client_sock EXCEPT ![t] = Head(client_queue)]
    BY <1>1 DEF TakeConn, ConnPool!Take
  <2>2. client_queue \in Seq(Fd)
    BY DEF TypeOK
  <2>3. /\ 1 \in 1 .. Len(client_queue)
        /\ Len(client_queue) \in Nat
        /\ \A i \in 1 .. Len(client_queue') : client_queue'[i] = client_queue[i + 1]
        /\ \A i \in 1 .. Len(client_queue') : i + 1 \in 1 .. Len(client_queue)
    BY <2>1, <2>2, AtFront
  <2>4. /\ Reading' = Reading \cup {t} /\ t \notin Reading
        /\ client_sock'[t] = client_queue[1]
        /\ \A u \in Reading : client_sock'[u] = client_sock[u]
        /\ \A g : Unread(g)' <=> Unread(g)
    BY <1>1, TakeUnread
  <2>5. \A f \in Fd : Unread(f)' => conn'[f] # NoOne
    BY <2>1, <2>4 DEF FdInv
  <2>6. \A i, j \in 1 .. Len(client_queue') :
           client_queue'[i] = client_queue'[j] => i = j
    <3>1. SUFFICES ASSUME NEW i \in 1 .. Len(client_queue'),
                          NEW j \in 1 .. Len(client_queue'),
                          client_queue'[i] = client_queue'[j]
                   PROVE  i = j
      OBVIOUS
    <3>2. i + 1 = j + 1
      BY <2>3, <3>1 DEF FdInv
    <3>3. QED
      BY <3>2
  <2>7. \A u \in Reading' : \A i \in 1 .. Len(client_queue') :
           client_queue'[i] # client_sock'[u]
    <3>1. \A i \in 1 .. Len(client_queue') : i + 1 # 1
      OBVIOUS
    <3>2. \A i \in 1 .. Len(client_queue') : client_queue'[i] # client_queue[1]
      BY <2>3, <3>1 DEF FdInv
    <3>3. QED
      BY <2>3, <2>4, <3>2 DEF FdInv
  <2>8. \A u, v \in Reading' : client_sock'[u] = client_sock'[v] => u = v
    BY <2>3, <2>4 DEF FdInv
  <2>9. \A u \in rejected' : client_sock'[u] # NoFd
    BY <2>1 DEF FdInv, TypeOK
  <2>10. QED
    BY <2>5, <2>6, <2>7, <2>8, <2>9 DEF FdInv
<1>2. ASSUME t \in Reading, client_queue' = client_queue, conn' = conn,
             client_sock' = [client_sock EXCEPT ![t] = NoFd],
             rejected' = rejected
      PROVE  FdInv'
  <2>1. /\ Reading' = Reading \ {t}
        /\ \A u \in Reading' : client_sock'[u] = client_sock[u]
        /\ \A g : Unread(g)' <=> Unread(g) /\ g # client_sock[t]
    BY <1>2, DropUnread
  <2>2. \A u \in rejected' : client_sock'[u] # NoFd
    BY <1>2 DEF FdInv, TypeOK, Reading
  <2>3. QED
    BY <1>2, <2>1, <2>2 DEF FdInv
<1>3. CASE NoOperation(t)
  BY <1>2, <1>3 DEF NoOperation, Reads, Reading, ConnPool!Finish
<1>4. CASE ReadGet(t) \/ ReadSet(t)
  BY <1>2, <1>4, Submitted
<1>5. CASE PartialReceive(t)
  <2>1. /\ t \in Reading /\ client_queue' = client_queue
        /\ client_sock' = client_sock /\ rejected' = rejected \cup {t}
        /\ conn' = [conn EXCEPT ![client_sock[t]] = NoOne]
    BY <1>5 DEF PartialReceive, Reads, Reading, pools
  <2>2. /\ Reading' = Reading \ {t}
        /\ \A g : Unread(g)' <=> Unread(g) /\ g # client_sock[t]
    BY <2>1, DropUnread
  <2>3. \A f \in Fd : Unread(f)' => conn'[f] # NoOne
    BY <2>1, <2>2 DEF FdInv, TypeOK
  <2>4. \A u \in rejected' : client_sock'[u] # NoFd
    BY <2>1 DEF FdInv, Reading
  <2>5. QED
    BY <2>1, <2>2, <2>3, <2>4 DEF FdInv
<1>6. CASE SendError(t)
  <2>1. /\ t \in rejected /\ client_queue' = client_queue
        /\ rejected' = rejected \ {t} /\ conn' = conn
        /\ client_sock' = [client_sock EXCEPT ![t] = NoFd]
    BY <1>6 DEF SendError, ConnPool!Finish
  <2>2. /\ Reading' = Reading
        /\ \A u \in Reading : client_sock'[u] = client_sock[u]
        /\ \A g : Unread(g)' <=> Unread(g)
    BY <2>1, ErrorUnread
  <2>3. \A u \in rejected' : client_sock'[u] # NoFd
    BY <2>1 DEF FdInv, TypeOK
  <2>4. QED
    BY <2>1, <2>2, <2>3 DEF FdInv
<1>7. QED
  BY <1>1, <1>3, <1>4, <1>5, <1>6 DEF handle_client

(***************************************************************************)
(* So does every step of the server.                                       *)
(***************************************************************************)
LEMMA FdStep ==
    ASSUME TypeOK, FdInv, BlockInv, Next
    PROVE  FdInv'
<1>1. ASSUME UNCHANGED <<client_queue, client_sock, rejected, conn>>
      PROVE  FdInv'
  BY <1>1, SameUnread DEF FdInv
<1>2. ASSUME NEW c \in Client, Connect(c) \/ ConnectRefused(c) \/ ClientKilled(c)
      PROVE  FdInv'
  BY <1>1, <1>2 DEF Connect, ConnectRefused, ClientKilled, pools
<1>3. CASE Accept
  <2>1. PICK f \in Fd :
           /\ backlog # <<>>
           /\ conn[f] = NoOne
           /\ conn' = [conn EXCEPT ![f] = Head(backlog)]
           /\ client_queue' = Append(client_queue, f)
           /\ UNCHANGED <<client_sock, rejected>>
    BY <1>3 DEF Accept, ConnPool!Put
  <2>2. Head(backlog) # NoOne
    BY <2>1, ValueAssumption DEF TypeOK
  <2>3. client_queue \in Seq(Fd)
    BY DEF TypeOK
  <2>4. /\ Len(client_queue) \in Nat
        /\ \A i \in 1 .. Len(client_queue) : client_queue'[i] = client_queue[i]
        /\ client_queue'[Len(client_queue) + 1] = f
        /\ 1 .. Len(client_queue') = (1 .. Len(client_queue)) \cup {Len(client_queue) + 1}
    BY <2>1, <2>3, AtEnd
  <2>5. Reading' = Reading /\ \A g : Unread(g)' <=> Unread(g) \/ g = f
    BY <2>1, PutUnread
  <2>6. ~ Unread(f)
    BY <2>1 DEF FdInv
  <2>7. /\ \A i \in 1 .. Len(client_queue) : client_queue[i] # f
        /\ \A t \in Reading : client_sock[t] # f
    BY <2>6 DEF Unread
  <2>8. \A g \in Fd : Unread(g)' => conn'[g] # NoOne
    BY <2>1, <2>2, <2>5 DEF FdInv, TypeOK
  <2>9. QED
    BY <2>1, <2>4, <2>5, <2>7, <2>8 DEF FdInv
<1>4. ASSUME NEW t \in ConnThread, TakeConn(t) \/ handle_client(t)
      PROVE  FdInv'
  BY <1>4, FdConn
<1>5. ASSUME NEW h \in HashThread, TakeBlock(h) \/ LookUp(h) \/ LogSet(h) \/ Insert(h)
      PROVE  FdInv'
  BY <1>1, <1>5 DEF TakeBlock, LookUp, LogSet, Insert, Works, pools
<1>6. ASSUME NEW h \in HashThread, Reply(h)
      PROVE  FdInv'
  <2>1. /\ UNCHANGED <<client_queue, client_sock, rejected>>
        /\ h \in Working
        /\ conn' = [conn EXCEPT ![block[h].sock_fd] = NoOne]
    BY <1>6 DEF Reply, Working
  <2>2. ~ Unread(block[h].sock_fd)
    BY <2>1 DEF BlockInv, InOrder
  <2>3. QED
    BY <2>1, <2>2, SameUnread DEF FdInv, TypeOK
<1>7. CASE Crash
  <2>1. client_queue' = <<>> /\ rejected' = {}
    BY <1>7 DEF Crash
  <2>2. 1 .. Len(client_queue') = {}
    BY <2>1
  <2>3. QED
    BY <1>7, <2>1, <2>2, CrashUnread DEF FdInv
<1>8. CASE Restart
  BY <1>1, <1>8 DEF Restart, pools
<1>9. QED
  BY <1>2, <1>3, <1>4, <1>5, <1>6, <1>7, <1>8 DEF Next, handle_hash

-----------------------------------------------------------------------------
(* BlockInv *)

(***************************************************************************)
(* The requests of the hash threads, by their descriptors.                 *)
(***************************************************************************)
LEMMA BlockFacts ==
    ASSUME TypeOK
    PROVE  /\ hash_queue \in Seq(Block) /\ Len(hash_queue) \in Nat
           /\ \A i \in 1 .. Len(hash_queue) : hash_queue[i] \in Block
           /\ \A h \in Working : h \in HashThread /\ block[h] \in Block
           /\ \A b \in Block : b.sock_fd \in Fd /\ b.who \in Client
                               /\ b.who # NoOne /\ b.key \in Keys
                               /\ b.oper \in {"get", "set"}
<1>1. hash_queue \in Seq(Block) /\ Len(hash_queue) \in Nat
  BY DEF TypeOK
<1>2. \A i \in 1 .. Len(hash_queue) : hash_queue[i] \in Block
  BY <1>1, ElementOfSeq
<1>3. \A h \in Working : h \in HashThread /\ block[h] \in Block
  BY DEF Working, TypeOK
<1>4. \A b \in Block : b.sock_fd \in Fd /\ b.who \in Client /\ b.who # NoOne
                       /\ b.key \in Keys /\ b.oper \in {"get", "set"}
  BY ValueAssumption DEF Block, Keys
<1>5. QED
  BY <1>1, <1>2, <1>3, <1>4

(***************************************************************************)
(* A step that opens no descriptor of a request for reading again, and     *)
(* closes none, keeps every request as it was.                             *)
(***************************************************************************)
LEMMA BlockKept ==
    ASSUME BlockInv, UNCHANGED <<hash_queue, block>>,
           \A f \in Fd : /\ conn[f] # NoOne /\ ~ Unread(f)
                         => conn'[f] = conn[f] /\ ~ Unread(f)',
           TypeOK
    PROVE  BlockInv'
<1>1. ASSUME NEW b \in InOrder PROVE b \in InOrder'
  BY <1>1, BlockFacts DEF InOrder
<1>2. Working' = Working
  BY DEF Working
<1>3. \A i \in 1 .. Len(hash_queue') : hash_queue[i] \in InOrder'
  BY <1>1, BlockFacts DEF BlockInv
<1>4. \A h \in Working : block[h] \in InOrder'
  BY <1>1, BlockFacts DEF BlockInv
<1>5. /\ \A i \in 1 .. Len(hash_queue') : hash_queue'[i] \in InOrder'
      /\ \A h \in Working' : block'[h] \in InOrder'
  BY <1>2, <1>3, <1>4
<1>6. QED
  BY <1>2, <1>5 DEF BlockInv

(***************************************************************************)
(* A request read from a descriptor is in order when it is queued, and the *)
(* only one of its descriptor.                                             *)
(***************************************************************************)
LEMMA BlockSubmit ==
    ASSUME TypeOK, FdInv, BlockInv, NEW t \in ConnThread, ReadGet(t) \/ ReadSet(t)
    PROVE  BlockInv'
<1>1. PICK b \in Block :
         /\ t \in Reading
         /\ b.sock_fd = client_sock[t]
         /\ b.who = conn[client_sock[t]]
         /\ b.oper = Req[b.who].op
         /\ b.key = KeyRead(b.who)
         /\ b.oper = "set" => Len(Req[b.who].key) <= MaxSet
         /\ hash_queue' = Append(hash_queue, b)
         /\ client_queue' = client_queue
         /\ client_sock' = [client_sock EXCEPT ![t] = NoFd]
         /\ UNCHANGED <<conn, rejected, block>>
  BY Submitted
<1>2. /\ Unread(client_sock[t])
      /\ \A g : Unread(g)' <=> Unread(g) /\ g # client_sock[t]
  BY <1>1, DropUnread
<1>3. /\ \A i \in 1 .. Len(hash_queue) : hash_queue'[i] = hash_queue[i]
      /\ hash_queue'[Len(hash_queue) + 1] = b
      /\ 1 .. Len(hash_queue') = (1 .. Len(hash_queue)) \cup {Len(hash_queue) + 1}
      /\ Len(hash_queue) \in Nat
  BY <1>1, BlockFacts, AtEnd
<1>4. Working' = Working
  BY <1>1 DEF Working
<1>5. b \in InOrder'
  BY <1>1, <1>2 DEF InOrder
<1>6. ASSUME NEW a \in InOrder
      PROVE  a \in InOrder' /\ a.sock_fd # b.sock_fd
  BY <1>1, <1>2, <1>6 DEF InOrder
<1>7. \A i \in 1 .. Len(hash_queue') :
         \/ i \in 1 .. Len(hash_queue) /\ hash_queue'[i] = hash_queue[i]
         \/ i = Len(hash_queue) + 1 /\ hash_queue'[i] = b
  BY <1>3
<1>8. \A i \in 1 .. Len(hash_queue) : hash_queue[i] \in InOrder' /\ hash_queue[i].sock_fd # b.sock_fd
  BY <1>6 DEF BlockInv
<1>9. \A h \in Working : block[h] \in InOrder' /\ block[h].sock_fd # b.sock_fd
  BY <1>6 DEF BlockInv
<1>10. \A i \in 1 .. Len(hash_queue') : hash_queue'[i] \in InOrder'
  BY <1>5, <1>7, <1>8
<1>11. \A h \in Working' : block'[h] \in InOrder'
  BY <1>1, <1>4, <1>9
<1>12. \A i, j \in 1 .. Len(hash_queue') :
          hash_queue'[i].sock_fd = hash_queue'[j].sock_fd => i = j
  BY <1>7, <1>8 DEF BlockInv
<1>13. QED
  BY <1>1, <1>4, <1>7, <1>9, <1>10, <1>11, <1>12 DEF BlockInv

(***************************************************************************)
(* A hash thread takes the request at the front.                           *)
(***************************************************************************)
LEMMA BlockTake ==
    ASSUME TypeOK, BlockInv, NEW h \in HashThread, TakeBlock(h)
    PROVE  BlockInv'
<1>1. /\ hash_queue # <<>> /\ hash_queue' = Tail(hash_queue)
      /\ block[h] = NoBlock
      /\ block' = [block EXCEPT ![h] = Head(hash_queue)]
      /\ UNCHANGED <<conn, client_queue, client_sock, rejected>>
  BY DEF TakeBlock, HashPool!Take
<1>2. /\ Head(hash_queue) = hash_queue[1] /\ hash_queue[1] \in Block
      /\ 1 \in 1 .. Len(hash_queue)
      /\ \A i \in 1 .. Len(hash_queue') : hash_queue'[i] = hash_queue[i + 1]
      /\ \A i \in 1 .. Len(hash_queue') : i + 1 \in 1 .. Len(hash_queue)
      /\ \A i \in 1 .. Len(hash_queue') : i + 1 # 1
  BY <1>1, BlockFacts, AtFront
<1>3. /\ Working' = Working \cup {h} /\ h \notin Working
      /\ block'[h] = hash_queue[1]
      /\ \A g \in Working : block'[g] = block[g]
  BY <1>1, <1>2, NothingIsNothing DEF Working, TypeOK
<1>4. ASSUME NEW a \in InOrder PROVE a \in InOrder'
  BY <1>1, <1>4, SameUnread DEF InOrder
<1>5. /\ \A i \in 1 .. Len(hash_queue') : hash_queue[i + 1] \in InOrder'
      /\ \A g \in Working : block[g] \in InOrder'
      /\ hash_queue[1] \in InOrder'
  BY <1>2, <1>4 DEF BlockInv
<1>6. /\ \A i \in 1 .. Len(hash_queue') : hash_queue'[i] \in InOrder'
      /\ \A g \in Working' : block'[g] \in InOrder'
  BY <1>2, <1>3, <1>5
<1>7. \A i, j \in 1 .. Len(hash_queue') :
         hash_queue'[i].sock_fd = hash_queue'[j].sock_fd => i = j
  <2>1. SUFFICES ASSUME NEW i \in 1 .. Len(hash_queue'), NEW j \in 1 .. Len(hash_queue'),
                        hash_queue'[i].sock_fd = hash_queue'[j].sock_fd
                 PROVE  i = j
    OBVIOUS
  <2>2. /\ i + 1 \in 1 .. Len(hash_queue) /\ j + 1 \in 1 .. Len(hash_queue)
        /\ hash_queue[i + 1].sock_fd = hash_queue[j + 1].sock_fd
    BY <1>2, <2>1
  <2>3. i + 1 = j + 1
    BY <2>2 DEF BlockInv
  <2>4. QED
    BY <2>3
<1>8. \A i \in 1 .. Len(hash_queue') : hash_queue'[i].sock_fd # hash_queue[1].sock_fd
  BY <1>2 DEF BlockInv
<1>9. \A g, k \in Working' : block'[g].sock_fd = block'[k].sock_fd => g = k
  BY <1>2, <1>3 DEF BlockInv
<1>10. QED
  BY <1>2, <1>3, <1>6, <1>7, <1>8, <1>9 DEF BlockInv

(***************************************************************************)
(* An answered request is gone, and its descriptor is closed.              *)
(***************************************************************************)
LEMMA BlockReply ==
    ASSUME TypeOK, BlockInv, NEW h \in HashThread, Reply(h)
    PROVE  /\ h \in Working /\ Working' = Working \ {h}
           /\ \A g \in Working' : block'[g] = block[g]
           /\ conn[block[h].sock_fd] = block[h].who
           /\ BlockInv'
<1>1. /\ h \in Working
      /\ conn' = [conn EXCEPT ![block[h].sock_fd] = NoOne]
      /\ block' = [block EXCEPT ![h] = NoBlock] /\ hash_queue' = hash_queue
      /\ UNCHANGED <<client_queue, client_sock, rejected>>
  BY DEF Reply, HashPool!Finish, Working
<1>2. Working' = Working \ {h} /\ \A g \in Working' : block'[g] = block[g]
  BY <1>1 DEF Working, TypeOK
<1>3. ASSUME NEW a \in InOrder, a.sock_fd # block[h].sock_fd
      PROVE  a \in InOrder'
  BY <1>1, <1>3, BlockFacts, SameUnread DEF InOrder, TypeOK
<1>4. /\ \A i \in 1 .. Len(hash_queue') : hash_queue[i] \in InOrder'
      /\ \A g \in Working' : block[g] \in InOrder'
  BY <1>1, <1>2, <1>3, BlockFacts DEF BlockInv
<1>5. /\ \A i \in 1 .. Len(hash_queue') : hash_queue'[i] \in InOrder'
      /\ \A g \in Working' : block'[g] \in InOrder'
  BY <1>1, <1>2, <1>4
<1>6. BlockInv'
  BY <1>1, <1>2, <1>5 DEF BlockInv
<1>7. QED
  BY <1>1, <1>2, <1>6 DEF BlockInv, InOrder

(***************************************************************************)
(* Every step keeps the requests in the hands of the hash threads in order.*)
(***************************************************************************)
LEMMA BlockStep ==
    ASSUME TypeOK, FdInv, BlockInv, Next
    PROVE  BlockInv'
<1>1. ASSUME UNCHANGED <<client_queue, client_sock, rejected, conn, hash_queue, block>>
      PROVE  BlockInv'
  BY <1>1, SameUnread, BlockKept
<1>2. ASSUME NEW c \in Client, Connect(c) \/ ConnectRefused(c) \/ ClientKilled(c)
      PROVE  BlockInv'
  BY <1>1, <1>2 DEF Connect, ConnectRefused, ClientKilled, pools
<1>3. CASE Accept
  <2>1. PICK f \in Fd :
           /\ conn[f] = NoOne
           /\ conn' = [conn EXCEPT ![f] = Head(backlog)]
           /\ client_queue' = Append(client_queue, f)
           /\ UNCHANGED <<client_sock, rejected, hash_queue, block>>
    BY <1>3 DEF Accept, ConnPool!Put
  <2>2. \A g : Unread(g)' <=> Unread(g) \/ g = f
    BY <2>1, PutUnread
  <2>3. \A g \in Fd : conn[g] # NoOne /\ ~ Unread(g) => conn'[g] = conn[g] /\ ~ Unread(g)'
    BY <2>1, <2>2 DEF TypeOK
  <2>4. QED
    BY <2>1, <2>3, BlockKept
<1>4. ASSUME NEW t \in ConnThread, TakeConn(t)
      PROVE  BlockInv'
  <2>1. UNCHANGED <<conn, hash_queue, block>> /\ \A g : Unread(g)' <=> Unread(g)
    BY <1>4, TakeUnread DEF TakeConn
  <2>2. QED
    BY <2>1, BlockKept
<1>5. ASSUME NEW t \in ConnThread, NoOperation(t)
      PROVE  BlockInv'
  <2>1. /\ t \in Reading /\ client_queue' = client_queue /\ rejected' = rejected
        /\ client_sock' = [client_sock EXCEPT ![t] = NoFd]
        /\ UNCHANGED <<conn, hash_queue, block>>
    BY <1>5 DEF NoOperation, Reads, Reading, ConnPool!Finish
  <2>2. \A g : Unread(g)' <=> Unread(g) /\ g # client_sock[t]
    BY <2>1, DropUnread
  <2>3. QED
    BY <2>1, <2>2, BlockKept
<1>6. ASSUME NEW t \in ConnThread, ReadGet(t) \/ ReadSet(t)
      PROVE  BlockInv'
  BY <1>6, BlockSubmit
<1>7. ASSUME NEW t \in ConnThread, PartialReceive(t)
      PROVE  BlockInv'
  <2>1. /\ t \in Reading /\ client_queue' = client_queue
        /\ client_sock' = client_sock /\ rejected' = rejected \cup {t}
        /\ conn' = [conn EXCEPT ![client_sock[t]] = NoOne]
        /\ UNCHANGED <<hash_queue, block>>
    BY <1>7 DEF PartialReceive, Reads, Reading, pools
  <2>2. /\ Unread(client_sock[t])
        /\ \A g : Unread(g)' <=> Unread(g) /\ g # client_sock[t]
    BY <2>1, DropUnread
  <2>3. \A g \in Fd : conn[g] # NoOne /\ ~ Unread(g) => conn'[g] = conn[g] /\ ~ Unread(g)'
    BY <2>1, <2>2 DEF TypeOK
  <2>4. QED
    BY <2>1, <2>3, BlockKept
<1>8. ASSUME NEW t \in ConnThread, SendError(t)
      PROVE  BlockInv'
  <2>1. /\ t \in rejected /\ client_queue' = client_queue
        /\ rejected' = rejected \ {t}
        /\ client_sock' = [client_sock EXCEPT ![t] = NoFd]
        /\ UNCHANGED <<conn, hash_queue, block>>
    BY <1>8 DEF SendError, ConnPool!Finish
  <2>2. \A g : Unread(g)' <=> Unread(g)
    BY <2>1, ErrorUnread
  <2>3. QED
    BY <2>1, <2>2, BlockKept
<1>9. ASSUME NEW h \in HashThread, TakeBlock(h)
      PROVE  BlockInv'
  BY <1>9, BlockTake
<1>10. ASSUME NEW h \in HashThread, LookUp(h) \/ LogSet(h) \/ Insert(h)
       PROVE  BlockInv'
  BY <1>1, <1>10 DEF LookUp, LogSet, Insert, Works, pools
<1>11. ASSUME NEW h \in HashThread, Reply(h)
       PROVE  BlockInv'
  BY <1>11, BlockReply
<1>12. CASE Crash
  <2>1. Working' = {} /\ hash_queue' = <<>>
    BY <1>12 DEF Crash, Working
  <2>2. 1 .. Len(hash_queue') = {}
    BY <2>1
  <2>3. QED
    BY <2>1, <2>2 DEF BlockInv
<1>13. CASE Restart
  BY <1>1, <1>13 DEF Restart, pools
<1>14. QED
  BY <1>2, <1>3, <1>4, <1>5, <1>6, <1>7, <1>8, <1>9, <1>10, <1>11, <1>12, <1>13
     DEF Next, handle_client, handle_hash

-----------------------------------------------------------------------------
(* PeerInv *)

(***************************************************************************)
(* The line of a client changes only while it waits or is new, or when it  *)
(* is the client at an open descriptor.                                    *)
(***************************************************************************)
LEMMA SendEffect ==
    ASSUME TypeOK, NEW f \in Fd, NEW msg, Send(f, msg)
    PROVE  /\ \A c \in Client : \/ client'[c] = client[c] /\ value'[c] = value[c]
                                \/ /\ c = conn[f] /\ client[c] = "waiting"
                                   /\ client'[c] = msg.line
                                   /\ value'[c] = msg.val
  BY DEF Send, TypeOK

(***************************************************************************)
(* A client keeps one connection until its answer.                         *)
(***************************************************************************)
LEMMA PeerStep ==
    ASSUME TypeOK, FdInv, BlockInv, PeerInv, Next
    PROVE  PeerInv'
<1>1. ASSUME UNCHANGED <<backlog, conn, client>>
      PROVE  PeerInv'
  BY <1>1 DEF PeerInv
<1>2. /\ backlog \in Seq(Client) /\ Len(backlog) \in Nat
      /\ \A i \in 1 .. Len(backlog) : backlog[i] \in Client
      /\ \A f \in Fd : conn[f] \in Client \cup {NoOne}
  <2>1. backlog \in Seq(Client) /\ Len(backlog) \in Nat
    BY DEF TypeOK
  <2>2. QED
    BY <2>1, ElementOfSeq DEF TypeOK
<1>3. ASSUME NEW c \in Client, Connect(c)
      PROVE  PeerInv'
  <2>1. /\ client[c] = "new" /\ backlog' = Append(backlog, c) /\ conn' = conn
        /\ client'[c] \in {"waiting", "gone"}
        /\ \A d \in Client \ {c} : client'[d] = client[d]
    BY <1>3 DEF Connect, TypeOK
  <2>2. /\ \A i \in 1 .. Len(backlog) : backlog'[i] = backlog[i]
        /\ backlog'[Len(backlog) + 1] = c
        /\ 1 .. Len(backlog') = (1 .. Len(backlog)) \cup {Len(backlog) + 1}
    BY <1>2, <2>1, AtEnd
  <2>3. /\ \A i \in 1 .. Len(backlog) : backlog[i] # c
        /\ \A f \in Fd : conn[f] # c
    BY <2>1, ValueAssumption DEF PeerInv
  <2>4. QED
    BY <1>2, <2>1, <2>2, <2>3 DEF PeerInv
<1>4. ASSUME NEW c \in Client, ConnectRefused(c) \/ ClientKilled(c)
      PROVE  PeerInv'
  <2>1. /\ backlog' = backlog /\ conn' = conn
        /\ client'[c] = "gone"
        /\ \A d \in Client \ {c} : client'[d] = client[d]
    BY <1>4 DEF ConnectRefused, ClientKilled, TypeOK
  <2>2. QED
    BY <1>2, <2>1 DEF PeerInv
<1>5. CASE Accept
  <2>1. PICK f \in Fd :
           /\ backlog # <<>>
           /\ conn[f] = NoOne
           /\ conn' = [conn EXCEPT ![f] = Head(backlog)]
           /\ backlog' = Tail(backlog)
           /\ client' = client
    BY <1>5 DEF Accept, ends
  <2>2. /\ Head(backlog) = backlog[1] /\ backlog[1] \in Client
        /\ 1 \in 1 .. Len(backlog)
        /\ \A i \in 1 .. Len(backlog') : backlog'[i] = backlog[i + 1]
        /\ \A i \in 1 .. Len(backlog') : i + 1 \in 1 .. Len(backlog)
        /\ \A i \in 1 .. Len(backlog') : i + 1 # 1
    BY <1>2, <2>1, AtFront
  <2>3. \A g \in Fd : conn'[g] = IF g = f THEN backlog[1] ELSE conn[g]
    BY <2>1, <2>2 DEF TypeOK
  <2>4. \A i, j \in 1 .. Len(backlog') : backlog'[i] = backlog'[j] => i = j
    <3>1. SUFFICES ASSUME NEW i \in 1 .. Len(backlog'), NEW j \in 1 .. Len(backlog'),
                          backlog'[i] = backlog'[j]
                   PROVE  i = j
      OBVIOUS
    <3>2. i + 1 = j + 1
      BY <2>2, <3>1 DEF PeerInv
    <3>3. QED
      BY <3>2
  <2>5. \A i \in 1 .. Len(backlog') : backlog'[i] # backlog[1]
    BY <2>2 DEF PeerInv
  <2>6. \A g \in Fd : conn'[g] # NoOne =>
           /\ client[conn'[g]] \in {"waiting", "gone", "Error"}
           /\ \A i \in 1 .. Len(backlog') : backlog'[i] # conn'[g]
    BY <2>2, <2>3, <2>5 DEF PeerInv
  <2>7. \A g, k \in Fd : conn'[g] # NoOne /\ conn'[g] = conn'[k] => g = k
    BY <2>2, <2>3 DEF PeerInv
  <2>8. \A i \in 1 .. Len(backlog') : client[backlog'[i]] \in {"waiting", "gone"}
    BY <2>2 DEF PeerInv
  <2>9. QED
    BY <2>1, <2>4, <2>6, <2>7, <2>8 DEF PeerInv
<1>6. ASSUME NEW t \in ConnThread, TakeConn(t) \/ NoOperation(t) \/ ReadGet(t) \/ ReadSet(t)
      PROVE  PeerInv'
  BY <1>1, <1>6 DEF TakeConn, NoOperation, ReadGet, ReadSet, Submit, ends
<1>7. ASSUME NEW t \in ConnThread, PartialReceive(t)
      PROVE  PeerInv'
  <2>1. /\ backlog' = backlog
        /\ conn' = [conn EXCEPT ![client_sock[t]] = NoOne]
        /\ client' = [client EXCEPT ![conn[client_sock[t]]] = "gone"]
    BY <1>7 DEF PartialReceive
  <2>2. \A c \in Client : client'[c] = client[c] \/ client'[c] = "gone"
    BY <2>1 DEF TypeOK
  <2>3. \A f \in Fd : conn'[f] # NoOne => conn'[f] = conn[f]
    BY <2>1 DEF TypeOK
  <2>4. QED
    BY <1>2, <2>1, <2>2, <2>3 DEF PeerInv
<1>8. ASSUME NEW t \in ConnThread, SendError(t)
      PROVE  PeerInv'
  <2>1. backlog' = backlog /\ conn' = conn /\ Send(client_sock[t], Say("Error", NoOne))
    BY <1>8 DEF SendError
  <2>2. client_sock[t] \in Fd
    BY <1>8 DEF SendError, ConnPool!Finish, TypeOK
  <2>3. \A c \in Client : \/ client'[c] = client[c]
                          \/ c = conn[client_sock[t]] /\ client'[c] = "Error"
    BY <2>1, <2>2, SendEffect DEF Say
  <2>4. \A i \in 1 .. Len(backlog) : client'[backlog[i]] = client[backlog[i]]
    <3>1. SUFFICES ASSUME NEW i \in 1 .. Len(backlog)
                   PROVE  client'[backlog[i]] = client[backlog[i]]
      OBVIOUS
    <3>2. backlog[i] # NoOne
      BY <1>2, ValueAssumption
    <3>3. backlog[i] # conn[client_sock[t]]
      BY <2>2, <3>2 DEF PeerInv
    <3>4. QED
      BY <1>2, <2>3, <3>3
  <2>5. QED
    BY <1>2, <2>1, <2>3, <2>4 DEF PeerInv
<1>9. ASSUME NEW h \in HashThread, TakeBlock(h) \/ LookUp(h) \/ LogSet(h) \/ Insert(h)
      PROVE  PeerInv'
  BY <1>1, <1>9 DEF TakeBlock, LookUp, LogSet, Insert, Works, ends
<1>10. ASSUME NEW h \in HashThread, Reply(h)
       PROVE  PeerInv'
  <2> DEFINE f == block[h].sock_fd
  <2>1. /\ backlog' = backlog /\ Send(f, outcome[h])
        /\ conn' = [conn EXCEPT ![f] = NoOne]
    BY <1>10 DEF Reply
  <2>2. f \in Fd /\ conn[f] \in Client /\ conn[f] # NoOne
    BY <1>10, BlockReply, BlockFacts
  <2> HIDE DEF f
  <2>3. \A c \in Client \ {conn[f]} : client'[c] = client[c]
    BY <2>1, <2>2, SendEffect
  <2>4. \A g \in Fd : conn'[g] # NoOne => conn'[g] = conn[g] /\ conn[g] # conn[f]
    BY <2>1, <2>2 DEF TypeOK, PeerInv
  <2>5. \A i \in 1 .. Len(backlog) : backlog[i] # conn[f]
    BY <2>2 DEF PeerInv
  <2>6. QED
    BY <1>2, <2>1, <2>3, <2>4, <2>5 DEF PeerInv
<1>11. CASE Crash
  <2>1. backlog' = <<>> /\ \A f \in Fd : conn'[f] = NoOne
    BY <1>11 DEF Crash
  <2>2. 1 .. Len(backlog') = {}
    BY <2>1
  <2>3. QED
    BY <2>1, <2>2 DEF PeerInv
<1>12. CASE Restart
  BY <1>1, <1>12 DEF Restart, ends
<1>13. QED
  BY <1>3, <1>4, <1>5, <1>6, <1>7, <1>8, <1>9, <1>10, <1>11, <1>12
     DEF Next, handle_client, handle_hash

-----------------------------------------------------------------------------
(* AnswerInv *)

(***************************************************************************)
(* An answer is decided for the request in hand, inside hashmap_mutex.     *)
(***************************************************************************)
LEMMA AnswerStep ==
    ASSUME TypeOK, AnswerInv, Next
    PROVE  AnswerInv'
<1>1. ASSUME UNCHANGED <<block, holder, outcome>>
      PROVE  AnswerInv'
  BY <1>1 DEF AnswerInv, Working
<1>2. ASSUME NEW c \in Client, Connect(c) \/ ConnectRefused(c) \/ ClientKilled(c)
      PROVE  AnswerInv'
  BY <1>1, <1>2 DEF Connect, ConnectRefused, ClientKilled, pools
<1>3. CASE Accept
  BY <1>1, <1>3 DEF Accept
<1>4. ASSUME NEW t \in ConnThread, TakeConn(t) \/ handle_client(t)
      PROVE  AnswerInv'
  BY <1>1, <1>4 DEF TakeConn, handle_client, NoOperation, ReadGet, ReadSet, Submit,
                    HashPool!Put, PartialReceive, SendError, pools
<1>5. ASSUME NEW h \in HashThread, TakeBlock(h)
      PROVE  AnswerInv'
  <2>1. /\ block[h] = NoBlock /\ hash_queue # <<>>
        /\ block' = [block EXCEPT ![h] = Head(hash_queue)]
        /\ UNCHANGED <<holder, outcome>>
    BY <1>5 DEF TakeBlock, HashPool!Take
  <2>2. /\ Working' = Working \cup {h} /\ h \notin Working
        /\ \A g \in Working : block'[g] = block[g]
    <3>1. Head(hash_queue) \in Block
      BY <2>1, BlockFacts, AtFront
    <3>2. QED
      BY <2>1, <3>1, NothingIsNothing DEF Working, TypeOK
  <2>3. QED
    BY <2>1, <2>2 DEF AnswerInv
<1>6. ASSUME NEW h \in HashThread, LookUp(h)
      PROVE  AnswerInv'
  <2>1. /\ block' = block /\ h \in Working /\ block[h].oper = "get"
        /\ holder = {} /\ holder' = {}
    BY <1>6 DEF LookUp, Works, Working, pools
  <2>2. /\ outcome'[h].line \in {"VALUE", "NOTFOUND"}
        /\ \A g \in HashThread \ {h} : outcome'[g] = outcome[g]
    BY <1>6 DEF LookUp, Say, TypeOK
  <2>3. Working' = Working
    BY <2>1 DEF Working
  <2>4. QED
    BY <2>1, <2>2, <2>3 DEF AnswerInv
<1>7. ASSUME NEW h \in HashThread, LogSet(h)
      PROVE  AnswerInv'
  <2>1. /\ block' = block /\ h \in Working /\ block[h].oper = "set"
        /\ outcome[h] = NoAnswer /\ outcome' = outcome
        /\ holder' = {h}
    BY <1>7 DEF LogSet, Works, Working, pools
  <2>2. Working' = Working
    BY <2>1 DEF Working
  <2>3. QED
    BY <2>1, <2>2 DEF AnswerInv
<1>8. ASSUME NEW h \in HashThread, Insert(h)
      PROVE  AnswerInv'
  <2>1. /\ block' = block /\ h \in Working /\ block[h].oper = "set"
        /\ holder' = {}
    BY <1>8 DEF Insert, Works, Working, pools
  <2>2. /\ outcome'[h] = Say("STORED", NoOne)
        /\ \A g \in HashThread \ {h} : outcome'[g] = outcome[g]
    BY <1>8 DEF Insert, TypeOK
  <2>3. Working' = Working
    BY <2>1 DEF Working
  <2>4. QED
    BY <2>1, <2>2, <2>3 DEF AnswerInv
<1>9. ASSUME NEW h \in HashThread, Reply(h)
      PROVE  AnswerInv'
  <2>1. /\ outcome[h] # NoAnswer
        /\ outcome' = [outcome EXCEPT ![h] = NoAnswer]
        /\ block' = [block EXCEPT ![h] = NoBlock] /\ holder' = holder
    BY <1>9 DEF Reply, HashPool!Finish
  <2>2. Working' = Working \ {h} /\ \A g \in Working' : block'[g] = block[g]
    BY <2>1 DEF Working, TypeOK
  <2>3. /\ outcome'[h] = NoAnswer
        /\ \A g \in HashThread \ {h} : outcome'[g] = outcome[g]
    BY <2>1 DEF TypeOK
  <2>4. h \notin holder
    BY <2>1 DEF AnswerInv
  <2>5. QED
    BY <2>1, <2>2, <2>3, <2>4 DEF AnswerInv, TypeOK
<1>10. CASE Crash
  BY <1>10 DEF Crash, AnswerInv
<1>11. CASE Restart
  BY <1>1, <1>11 DEF Restart, pools
<1>12. QED
  BY <1>2, <1>3, <1>4, <1>5, <1>6, <1>7, <1>8, <1>9, <1>10, <1>11 DEF Next, handle_hash

-----------------------------------------------------------------------------
(* LogInv *)

(***************************************************************************)
(* The clients that are not new stay so.                                   *)
(***************************************************************************)
LEMMA NotNewKept ==
    ASSUME TypeOK, AnswerInv, Next, NEW c \in Client, client[c] # "new"
    PROVE  client'[c] # "new"
<1>1. ASSUME NEW d \in Client, Connect(d) \/ ConnectRefused(d) \/ ClientKilled(d)
      PROVE  client'[c] # "new"
  BY <1>1 DEF Connect, ConnectRefused, ClientKilled, TypeOK
<1>2. ASSUME client' = client
      PROVE  client'[c] # "new"
  BY <1>2
<1>3. ASSUME NEW t \in ConnThread, PartialReceive(t)
      PROVE  client'[c] # "new"
  BY <1>3 DEF PartialReceive, TypeOK
<1>4. ASSUME NEW t \in ConnThread, SendError(t)
      PROVE  client'[c] # "new"
  <2>1. client_sock[t] \in Fd
    BY <1>4 DEF SendError, ConnPool!Finish, TypeOK
  <2>2. client'[c] = client[c] \/ client'[c] = "Error"
    BY <1>4, <2>1, SendEffect DEF SendError, Say
  <2>3. QED
    BY <2>2
<1>5. ASSUME NEW h \in HashThread, Reply(h)
      PROVE  client'[c] # "new"
  <2>1. block[h].sock_fd \in Fd /\ Send(block[h].sock_fd, outcome[h])
        /\ outcome[h].line \in {"VALUE", "NOTFOUND", "STORED", "Error", "none"}
    BY <1>5 DEF Reply, Block, TypeOK, Answer
  <2>2. client'[c] = client[c] \/ client'[c] = outcome[h].line
    BY <2>1, SendEffect
  <2>3. QED
    BY <2>1, <2>2
<1>6. CASE Crash
  BY <1>6 DEF Crash
<1>7. CASE Accept \/ Restart
  BY <1>2, <1>7 DEF Accept, Restart, ends
<1>8. ASSUME NEW t \in ConnThread, TakeConn(t) \/ NoOperation(t) \/ ReadGet(t) \/ ReadSet(t)
      PROVE  client'[c] # "new"
  BY <1>2, <1>8 DEF TakeConn, NoOperation, ReadGet, ReadSet, Submit, ends
<1>9. ASSUME NEW h \in HashThread, TakeBlock(h) \/ LookUp(h) \/ LogSet(h) \/ Insert(h)
      PROVE  client'[c] # "new"
  BY <1>2, <1>9 DEF TakeBlock, LookUp, LogSet, Insert, Works, ends
<1>10. QED
  BY <1>1, <1>3, <1>4, <1>5, <1>6, <1>7, <1>8, <1>9 DEF Next, handle_client, handle_hash

(***************************************************************************)
(* A set that is past LogSet never comes back to a queue.                  *)
(***************************************************************************)
LEMMA SettledKept ==
    ASSUME TypeOK, FdInv, BlockInv, AnswerInv, Next, NEW c \in Settled
    PROVE  c \in Settled'
<1> DEFINE Back == \A i \in 1 .. Len(backlog) : backlog[i] # c
           Conns == \A f \in Fd : Unread(f) => conn[f] # c
           Queue == \A i \in 1 .. Len(hash_queue) : hash_queue[i].who # c
           Work == \A h \in Working :
                      block[h].who = c => h \in holder \/ outcome[h] # NoAnswer
<1>1. c \in Client /\ client[c] # "new" /\ Back /\ Conns /\ Queue /\ Work
  BY DEF Settled
<1>2. client'[c] # "new"
  BY <1>1, NotNewKept
<1>3. SUFFICES Back' /\ Conns' /\ Queue' /\ Work'
  BY <1>1, <1>2, <1>3 DEF Settled
<1>4. backlog' = backlog => Back'
  BY <1>1
<1>5. UNCHANGED <<client_queue, client_sock, rejected, conn>> => Conns'
  BY <1>1, SameUnread
<1>6. hash_queue' = hash_queue => Queue'
  BY <1>1
<1>7. UNCHANGED <<block, holder, outcome>> => Work'
  BY <1>1 DEF Working
<1>8. ASSUME NEW d \in Client, Connect(d)
      PROVE  Back' /\ Conns' /\ Queue' /\ Work'
  <2>1. d # c /\ backlog' = Append(backlog, d)
    BY <1>1, <1>8 DEF Connect
  <2>2. backlog \in Seq(Client)
    BY DEF TypeOK
  <2>3. Back'
    <3>1. \A i \in 1 .. Len(backlog') : backlog'[i] = d \/
             (i \in 1 .. Len(backlog) /\ backlog'[i] = backlog[i])
      BY <2>1, <2>2, AtEnd
    <3>2. QED
      BY <1>1, <2>1, <3>1
  <2>4. QED
    BY <1>5, <1>6, <1>7, <1>8, <2>3 DEF Connect, pools
<1>9. ASSUME NEW d \in Client, ConnectRefused(d) \/ ClientKilled(d)
      PROVE  Back' /\ Conns' /\ Queue' /\ Work'
  BY <1>4, <1>5, <1>6, <1>7, <1>9 DEF ConnectRefused, ClientKilled, pools
<1>10. CASE Accept
  <2>1. PICK f \in Fd :
           /\ backlog # <<>>
           /\ conn' = [conn EXCEPT ![f] = Head(backlog)]
           /\ backlog' = Tail(backlog)
           /\ client_queue' = Append(client_queue, f)
           /\ UNCHANGED <<client_sock, rejected, hash_queue, block, holder, outcome>>
    BY <1>10 DEF Accept, ConnPool!Put
  <2>2. backlog \in Seq(Client)
    BY DEF TypeOK
  <2>3. /\ Head(backlog) # c
        /\ \A i \in 1 .. Len(backlog') : backlog'[i] # c
    BY <1>1, <2>1, <2>2, AtFront
  <2>4. \A g : Unread(g)' <=> Unread(g) \/ g = f
    BY <2>1, PutUnread
  <2>5. Conns'
    BY <1>1, <2>1, <2>3, <2>4 DEF TypeOK
  <2>6. QED
    BY <1>6, <1>7, <2>1, <2>3, <2>5
<1>11. ASSUME NEW t \in ConnThread, TakeConn(t)
       PROVE  Back' /\ Conns' /\ Queue' /\ Work'
  <2>1. Conns'
    BY <1>1, <1>11, TakeUnread DEF TakeConn
  <2>2. QED
    BY <1>4, <1>6, <1>7, <1>11, <2>1 DEF TakeConn
<1>12. ASSUME NEW t \in ConnThread, NoOperation(t)
       PROVE  Back' /\ Conns' /\ Queue' /\ Work'
  <2>1. /\ t \in Reading /\ client_queue' = client_queue /\ rejected' = rejected
        /\ client_sock' = [client_sock EXCEPT ![t] = NoFd]
        /\ UNCHANGED <<backlog, conn, hash_queue, block, holder, outcome>>
    BY <1>12 DEF NoOperation, Reads, Reading, ConnPool!Finish
  <2>2. \A g : Unread(g)' <=> Unread(g) /\ g # client_sock[t]
    BY <2>1, DropUnread
  <2>3. QED
    BY <1>1, <1>4, <1>6, <1>7, <2>1, <2>2
<1>13. ASSUME NEW t \in ConnThread, ReadGet(t) \/ ReadSet(t)
       PROVE  Back' /\ Conns' /\ Queue' /\ Work'
  <2>1. PICK b \in Block :
           /\ t \in Reading
           /\ b.who = conn[client_sock[t]]
           /\ hash_queue' = Append(hash_queue, b)
           /\ client_queue' = client_queue
           /\ client_sock' = [client_sock EXCEPT ![t] = NoFd]
           /\ UNCHANGED <<backlog, conn, rejected, block, holder, outcome>>
    BY <1>13, Submitted
  <2>2. /\ Unread(client_sock[t]) /\ client_sock[t] \in Fd
        /\ \A g : Unread(g)' <=> Unread(g) /\ g # client_sock[t]
    BY <2>1, DropUnread
  <2>3. b.who # c
    BY <1>1, <2>1, <2>2
  <2>4. Queue'
    <3>1. \A i \in 1 .. Len(hash_queue') : hash_queue'[i] = b \/
             (i \in 1 .. Len(hash_queue) /\ hash_queue'[i] = hash_queue[i])
      BY <2>1, BlockFacts, AtEnd
    <3>2. QED
      BY <1>1, <2>3, <3>1
  <2>5. QED
    BY <1>1, <1>4, <1>7, <2>1, <2>2, <2>4
<1>14. ASSUME NEW t \in ConnThread, PartialReceive(t)
       PROVE  Back' /\ Conns' /\ Queue' /\ Work'
  <2>1. /\ t \in Reading /\ client_queue' = client_queue
        /\ client_sock' = client_sock /\ rejected' = rejected \cup {t}
        /\ conn' = [conn EXCEPT ![client_sock[t]] = NoOne]
        /\ UNCHANGED <<backlog, hash_queue, block, holder, outcome>>
    BY <1>14 DEF PartialReceive, Reads, Reading, pools
  <2>2. \A g : Unread(g)' <=> Unread(g) /\ g # client_sock[t]
    BY <2>1, DropUnread
  <2>3. Conns'
    BY <1>1, <2>1, <2>2 DEF TypeOK
  <2>4. QED
    BY <1>4, <1>6, <1>7, <2>1, <2>3
<1>15. ASSUME NEW t \in ConnThread, SendError(t)
       PROVE  Back' /\ Conns' /\ Queue' /\ Work'
  <2>1. /\ t \in rejected /\ client_queue' = client_queue
        /\ rejected' = rejected \ {t}
        /\ client_sock' = [client_sock EXCEPT ![t] = NoFd]
        /\ UNCHANGED <<backlog, conn, hash_queue, block, holder, outcome>>
    BY <1>15 DEF SendError, ConnPool!Finish
  <2>2. \A g : Unread(g)' <=> Unread(g)
    BY <2>1, ErrorUnread
  <2>3. QED
    BY <1>1, <1>4, <1>6, <1>7, <2>1, <2>2
<1>16. ASSUME NEW h \in HashThread, TakeBlock(h)
       PROVE  Back' /\ Conns' /\ Queue' /\ Work'
  <2>1. /\ hash_queue # <<>> /\ hash_queue' = Tail(hash_queue)
        /\ block' = [block EXCEPT ![h] = Head(hash_queue)]
        /\ UNCHANGED <<backlog, conn, client_queue, client_sock, rejected, holder, outcome>>
    BY <1>16 DEF TakeBlock, HashPool!Take
  <2>2. Head(hash_queue).who # c /\ Queue'
    BY <1>1, <2>1, BlockFacts, AtFront
  <2>3. Work'
    BY <1>1, <2>1, <2>2 DEF Working, TypeOK
  <2>4. QED
    BY <1>4, <1>5, <2>1, <2>2, <2>3
<1>17. ASSUME NEW h \in HashThread, LookUp(h) \/ LogSet(h) \/ Insert(h)
       PROVE  Back' /\ Conns' /\ Queue' /\ Work'
  <2>1. UNCHANGED <<backlog, conn, client_queue, client_sock, rejected, hash_queue, block>>
    BY <1>17 DEF LookUp, LogSet, Insert, Works, pools
  <2>2. Working' = Working
    BY <2>1 DEF Working
  <2>3. ASSUME NEW g \in Working, g \in holder \/ outcome[g] # NoAnswer
        PROVE  g \in holder' \/ outcome'[g] # NoAnswer
    <3>1. CASE LookUp(h)
      BY <2>3, <3>1 DEF LookUp, Works, Say, NoAnswer, TypeOK, Working
    <3>2. CASE LogSet(h)
      BY <2>3, <3>2 DEF LogSet
    <3>3. CASE Insert(h)
      BY <2>3, <3>3 DEF Insert, Say, NoAnswer, TypeOK, Working
    <3>4. QED
      BY <1>17, <3>1, <3>2, <3>3
  <2>4. Work'
    BY <1>1, <2>1, <2>2, <2>3
  <2>5. QED
    BY <1>4, <1>5, <1>6, <2>1, <2>4
<1>18. ASSUME NEW h \in HashThread, Reply(h)
       PROVE  Back' /\ Conns' /\ Queue' /\ Work'
  <2>1. /\ Working' = Working \ {h}
        /\ \A g \in Working' : block'[g] = block[g]
    BY <1>18, BlockReply
  <2>2. /\ UNCHANGED <<backlog, client_queue, client_sock, rejected, hash_queue, holder>>
        /\ conn' = [conn EXCEPT ![block[h].sock_fd] = NoOne]
        /\ outcome' = [outcome EXCEPT ![h] = NoAnswer]
    BY <1>18 DEF Reply, HashPool!Finish
  <2>3. \A g \in Working' : outcome'[g] = outcome[g]
    BY <2>1, <2>2, BlockFacts DEF TypeOK
  <2>4. Conns'
    BY <1>1, <2>2, SameUnread, ValueAssumption DEF TypeOK
  <2>5. Work'
    BY <1>1, <2>1, <2>2, <2>3
  <2>6. QED
    BY <1>4, <1>6, <2>2, <2>4, <2>5
<1>19. CASE Crash
  <2>1. backlog' = <<>> /\ hash_queue' = <<>> /\ Working' = {}
    BY <1>19 DEF Crash, Working
  <2>2. 1 .. Len(backlog') = {} /\ 1 .. Len(hash_queue') = {}
    BY <2>1
  <2>3. QED
    BY <1>19, <2>1, <2>2, CrashUnread
<1>20. CASE Restart
  BY <1>4, <1>5, <1>6, <1>7, <1>20 DEF Restart, pools
<1>21. QED
  BY <1>8, <1>9, <1>10, <1>11, <1>12, <1>13, <1>14, <1>15, <1>16, <1>17, <1>18,
     <1>19, <1>20 DEF Next, handle_client, handle_hash

(***************************************************************************)
(* The entries of the log.                                                 *)
(***************************************************************************)
LEMMA LogFacts ==
    ASSUME TypeOK
    PROVE  \A i \in 1 .. Len(log) : /\ log[i] \in Nodes(Client)
                                    /\ log[i].val \in Client
                                    /\ log[i].key \in Keys
<1>1. log \in Seq(Nodes(Client))
  BY TypeOfStore
<1>2. \A i \in 1 .. Len(log) : log[i] \in Nodes(Client)
  BY <1>1, ElementOfSeq
<1>3. QED
  BY <1>2 DEF Nodes

(***************************************************************************)
(* A client whose set is being worked on, and has not been logged, is not  *)
(* in the log, and will not come back once it is logged.                   *)
(***************************************************************************)
LEMMA LogSetSettles ==
    ASSUME TypeOK, FdInv, BlockInv, PeerInv, LogInv, NEW h \in HashThread, LogSet(h)
    PROVE  /\ h \in Working
           /\ block[h].who \in Settled'
           /\ block[h].key = Req[block[h].who].key
           /\ \A i \in 1 .. Len(log) : log[i].val # block[h].who
<1> DEFINE c == block[h].who
           f == block[h].sock_fd
<1>1. /\ h \in Working /\ outcome[h] = NoAnswer /\ block[h].oper = "set"
      /\ holder = {} /\ holder' = {h} /\ outcome' = outcome
      /\ UNCHANGED <<backlog, conn, client_queue, client_sock, rejected,
                     hash_queue, block, client>>
  BY DEF LogSet, Works, Working, pools, ends
<1>2. /\ block[h] \in InOrder
      /\ f \in Fd /\ c \in Client /\ c # NoOne
  BY <1>1, BlockFacts DEF BlockInv
<1>3. /\ conn[f] = c /\ ~ Unread(f) /\ Req[c].op = "set" /\ block[h].key = KeyRead(c)
      /\ Len(Req[c].key) <= MaxSet
  BY <1>1, <1>2 DEF InOrder
<1>4. block[h].key = Req[c].key
  <2>1. Len(Req[c].key) \in Nat
    BY <1>2, ReqKey
  <2>2. QED
    BY <1>2, <1>3, <2>1, KeyReadType DEF MaxSet, MaxGet
<1> HIDE DEF c, f
<1>5. \A g \in Fd : conn[g] = c => g = f
  BY <1>2, <1>3 DEF PeerInv
<1>6. client[c] # "new" /\ \A i \in 1 .. Len(backlog) : backlog[i] # c
  BY <1>2, <1>3 DEF PeerInv
<1>7. \A g \in Fd : Unread(g) => conn[g] # c
  BY <1>3, <1>5
<1>8. \A a \in InOrder : a.who = c => a.sock_fd = f
  BY <1>5, BlockFacts DEF InOrder
<1>9. \A i \in 1 .. Len(hash_queue) : hash_queue[i].who # c
  BY <1>1, <1>8 DEF BlockInv, f
<1>10. \A g \in Working : block[g].who = c => g = h
  BY <1>1, <1>8 DEF BlockInv, f
<1>11. c \in Settled'
  <2>1. Working' = Working
    BY <1>1 DEF Working
  <2>2. /\ client'[c] # "new"
        /\ \A i \in 1 .. Len(backlog') : backlog'[i] # c
        /\ \A g \in Fd : Unread(g)' => conn'[g] # c
        /\ \A i \in 1 .. Len(hash_queue') : hash_queue'[i].who # c
    BY <1>1, <1>6, <1>7, <1>9, SameUnread
  <2>3. \A g \in Working' : block'[g].who = c => g \in holder'
    BY <1>1, <1>10, <2>1
  <2>4. QED
    BY <1>2, <1>3, <2>2, <2>3 DEF Settled
<1>12. \A i \in 1 .. Len(log) : log[i].val # c
  <2>1. c \notin Settled
    BY <1>1, <1>10 DEF Settled, c
  <2>2. QED
    BY <2>1 DEF LogInv
<1>13. QED
  BY <1>1, <1>4, <1>11, <1>12 DEF c

(***************************************************************************)
(* The log stays the record of the sets: it grows by LogSet only, by one   *)
(* entry that was not there.                                               *)
(***************************************************************************)
LEMMA LogStep ==
    ASSUME TypeOK, FdInv, BlockInv, PeerInv, AnswerInv, LogInv, DownInv, Next
    PROVE  LogInv'
<1> DEFINE Entries == \A i \in 1 .. Len(log) : /\ log[i].val \in Settled
                                               /\ log[i].key = Req[log[i].val].key
           Once == \A i, j \in 1 .. Len(log) : log[i].val = log[j].val => i = j
           Held == \A h \in holder : /\ replayed < Len(log)
                                     /\ log[Len(log)].val = block[h].who
           Decide == \A h \in HashThread : outcome[h].line = "STORED" =>
                        \E i \in 1 .. Len(log) : log[i].val = block[h].who
           Told == \A c \in Client : client[c] = "STORED" =>
                        \E i \in 1 .. Len(log) : log[i].val = c
<1>1. Entries /\ Once /\ Held /\ Decide /\ Told
  BY DEF LogInv
<1>2. SUFFICES Entries' /\ Once' /\ Held' /\ Decide' /\ Told'
  BY DEF LogInv
<1>3. log' = log => Entries' /\ Once'
  BY <1>1, SettledKept
<1>4. UNCHANGED <<log, holder, block, outcome, replayed>> => Held' /\ Decide'
  BY <1>1
<1>5. ASSUME log' = log, \A c \in Client : client'[c] = "STORED" => client[c] = "STORED"
      PROVE  Told'
  BY <1>1, <1>5
<1>6. ASSUME NEW c \in Client, Connect(c) \/ ConnectRefused(c) \/ ClientKilled(c)
      PROVE  Entries' /\ Once' /\ Held' /\ Decide' /\ Told'
  <2>1. UNCHANGED <<log, holder, block, outcome, replayed>>
    BY <1>6 DEF Connect, ConnectRefused, ClientKilled, pools, store
  <2>2. \A d \in Client : client'[d] = "STORED" => client[d] = "STORED"
    BY <1>6 DEF Connect, ConnectRefused, ClientKilled, TypeOK
  <2>3. QED
    BY <1>3, <1>4, <1>5, <2>1, <2>2
<1>7. CASE Accept
  BY <1>3, <1>4, <1>5, <1>7 DEF Accept, store, ends
<1>8. ASSUME NEW t \in ConnThread, TakeConn(t) \/ NoOperation(t) \/ ReadGet(t) \/ ReadSet(t)
      PROVE  Entries' /\ Once' /\ Held' /\ Decide' /\ Told'
  <2>1. UNCHANGED <<log, holder, block, outcome, replayed, client>>
    BY <1>8 DEF TakeConn, NoOperation, ReadGet, ReadSet, Submit, HashPool!Put, store, ends
  <2>2. QED
    BY <1>3, <1>4, <1>5, <2>1
<1>9. ASSUME NEW t \in ConnThread, PartialReceive(t) \/ SendError(t)
      PROVE  Entries' /\ Once' /\ Held' /\ Decide' /\ Told'
  <2>1. UNCHANGED <<log, holder, block, outcome, replayed>>
    BY <1>9 DEF PartialReceive, SendError, store, pools
  <2>2. \A d \in Client : client'[d] = "STORED" => client[d] = "STORED"
    <3>1. CASE PartialReceive(t)
      BY <3>1 DEF PartialReceive, TypeOK
    <3>2. CASE SendError(t)
      <4>1. client_sock[t] \in Fd
        BY <3>2 DEF SendError, ConnPool!Finish, TypeOK
      <4>2. \A d \in Client : client'[d] = client[d] \/ client'[d] = "Error"
        BY <3>2, <4>1, SendEffect DEF SendError, Say
      <4>3. QED
        BY <4>2
    <3>3. QED
      BY <1>9, <3>1, <3>2
  <2>3. QED
    BY <1>3, <1>4, <1>5, <2>1, <2>2
<1>10. ASSUME NEW h \in HashThread, TakeBlock(h)
       PROVE  Entries' /\ Once' /\ Held' /\ Decide' /\ Told'
  <2>1. /\ UNCHANGED <<log, holder, outcome, replayed, client>>
        /\ block[h] = NoBlock
        /\ block' = [block EXCEPT ![h] = Head(hash_queue)]
    BY <1>10 DEF TakeBlock, HashPool!Take, store, ends
  <2>2. h \notin Working
    BY <2>1 DEF Working
  <2>3. h \notin holder /\ outcome[h].line # "STORED"
    BY <2>2 DEF AnswerInv, NoAnswer, Say
  <2>4. \A g \in HashThread \ {h} : block'[g] = block[g]
    BY <2>1 DEF TypeOK
  <2>5. Held'
    BY <1>1, <2>1, <2>3, <2>4 DEF TypeOK
  <2>6. Decide'
    BY <1>1, <2>1, <2>3, <2>4
  <2>7. QED
    BY <1>3, <1>5, <2>1, <2>5, <2>6
<1>11. ASSUME NEW h \in HashThread, LookUp(h)
       PROVE  Entries' /\ Once' /\ Held' /\ Decide' /\ Told'
  <2>1. UNCHANGED <<log, holder, block, replayed, client>>
    BY <1>11 DEF LookUp, Works, pools, ends
  <2>2. \A g \in HashThread : outcome'[g].line = "STORED" => outcome[g].line = "STORED"
    <3>1. /\ outcome'[h].line \in {"VALUE", "NOTFOUND"}
          /\ \A g \in HashThread \ {h} : outcome'[g] = outcome[g]
      BY <1>11 DEF LookUp, Say, TypeOK
    <3>2. QED
      BY <3>1
  <2>3. Held' /\ Decide'
    BY <1>1, <2>1, <2>2
  <2>4. QED
    BY <1>3, <1>5, <2>1, <2>3
<1>12. ASSUME NEW h \in HashThread, LogSet(h)
       PROVE  Entries' /\ Once' /\ Held' /\ Decide' /\ Told'
  <2> DEFINE e == [key |-> block[h].key, val |-> block[h].who]
  <2>1. /\ h \in Working
        /\ block[h].who \in Settled'
        /\ block[h].key = Req[block[h].who].key
        /\ \A i \in 1 .. Len(log) : log[i].val # block[h].who
    BY <1>12, LogSetSettles
  <2>2. /\ log' = Append(log, e) /\ holder' = {h}
        /\ UNCHANGED <<outcome, block, replayed, client>>
    BY <1>12 DEF LogSet, Works, pools, ends
  <2>3. e \in Nodes(Client)
    BY <2>1, BlockFacts DEF Nodes
  <2>4. e.val = block[h].who /\ e.key = Req[e.val].key /\ e.val \in Settled'
        /\ \A i \in 1 .. Len(log) : log[i].val # e.val
    BY <2>1
  <2> HIDE DEF e
  <2>5. /\ \A i \in 1 .. Len(log) : log'[i] = log[i]
        /\ log'[Len(log) + 1] = e
        /\ Len(log') = Len(log) + 1
        /\ 1 .. Len(log') = (1 .. Len(log)) \cup {Len(log) + 1}
    BY <2>2, <2>3, TypeOfStore, AtEnd
  <2>6. \A i \in 1 .. Len(log) : log[i].val \in Settled'
    BY <1>1, SettledKept
  <2>7. Entries'
    BY <1>1, <2>4, <2>5, <2>6
  <2>8. Once'
    BY <1>1, <2>4, <2>5
  <2>9. Held'
    <3>1. replayed' < Len(log')
      BY <2>2, <2>5, TypeOfStore DEF TypeOK
    <3>2. log'[Len(log')].val = block'[h].who
      BY <2>2, <2>4, <2>5
    <3>3. QED
      BY <2>2, <3>1, <3>2
  <2>10. Decide' /\ Told'
    BY <1>1, <2>2, <2>5
  <2>11. QED
    BY <2>7, <2>8, <2>9, <2>10
<1>13. ASSUME NEW h \in HashThread, Insert(h)
       PROVE  Entries' /\ Once' /\ Held' /\ Decide' /\ Told'
  <2>1. /\ UNCHANGED <<log, block, replayed, client>>
        /\ holder = {h} /\ holder' = {}
        /\ outcome' = [outcome EXCEPT ![h] = Say("STORED", NoOne)]
    BY <1>13 DEF Insert, Works, pools, ends
  <2>2. Len(log) \in 1 .. Len(log) /\ log[Len(log)].val = block[h].who
    <3>1. replayed < Len(log) /\ log[Len(log)].val = block[h].who
      BY <1>1, <2>1
    <3>2. QED
      BY <3>1, TypeOfStore
  <2>3. Decide'
    BY <1>1, <2>1, <2>2 DEF TypeOK
  <2>4. QED
    BY <1>3, <1>5, <2>1, <2>3
<1>14. ASSUME NEW h \in HashThread, Reply(h)
       PROVE  Entries' /\ Once' /\ Held' /\ Decide' /\ Told'
  <2>1. /\ UNCHANGED <<log, holder, replayed>>
        /\ outcome[h] # NoAnswer
        /\ outcome' = [outcome EXCEPT ![h] = NoAnswer]
        /\ block' = [block EXCEPT ![h] = NoBlock]
        /\ Send(block[h].sock_fd, outcome[h])
    BY <1>14 DEF Reply, HashPool!Finish, store
  <2>2. /\ conn[block[h].sock_fd] = block[h].who
        /\ block[h].sock_fd \in Fd
    BY <1>14, BlockReply, BlockFacts
  <2>3. h \notin holder
    BY <2>1 DEF AnswerInv
  <2>4. \A g \in HashThread \ {h} : block'[g] = block[g] /\ outcome'[g] = outcome[g]
    BY <2>1 DEF TypeOK
  <2>5. outcome'[h].line # "STORED"
    BY <2>1 DEF TypeOK, NoAnswer, Say
  <2>6. Held'
    BY <1>1, <2>1, <2>3, <2>4 DEF TypeOK
  <2>7. Decide'
    BY <1>1, <2>1, <2>4, <2>5
  <2>8. \A c \in Client : \/ client'[c] = client[c]
                          \/ c = block[h].who /\ client'[c] = outcome[h].line
    BY <2>1, <2>2, SendEffect
  <2>9. Told'
    BY <1>1, <2>1, <2>8
  <2>10. QED
    BY <1>3, <2>1, <2>6, <2>7, <2>9
<1>15. CASE Crash
  <2>1. /\ log' = log /\ holder' = {} /\ outcome' = [h \in HashThread |-> NoAnswer]
        /\ client' = [c \in Client |-> IF client[c] = "waiting" THEN "gone" ELSE client[c]]
    BY <1>15 DEF Crash
  <2>2. \A c \in Client : client'[c] = "STORED" => client[c] = "STORED"
    BY <2>1
  <2>3. Held' /\ Decide'
    BY <2>1 DEF NoAnswer, Say
  <2>4. QED
    BY <1>3, <1>5, <2>1, <2>2, <2>3
<1>16. CASE Restart
  <2>1. UNCHANGED <<log, holder, block, outcome, client>> /\ ~ up
    BY <1>16 DEF Restart, pools, ends
  <2>2. holder = {}
    BY <2>1 DEF DownInv
  <2>3. Held' /\ Decide'
    BY <1>1, <2>1, <2>2
  <2>4. QED
    BY <1>3, <1>5, <2>1, <2>3
<1>17. QED
  BY <1>6, <1>7, <1>8, <1>9, <1>10, <1>11, <1>12, <1>13, <1>14, <1>15, <1>16
     DEF Next, handle_client, handle_hash

-----------------------------------------------------------------------------
(* MapInv and DownInv *)

(***************************************************************************)
(* MapInv without the operators that take the table from the state.        *)
(***************************************************************************)
MapIs(m, l, n, r) ==
    /\ \A j \in r + 1 .. n :
          (\A i \in j + 1 .. n : l[i].key # l[j].key) =>
             /\ Places(m, l[j].key) # {}
             /\ CurrentIn(m, l[j].key) = l[j].val
    /\ \A i \in 1 .. r : l[i].val \notin Large => Places(m, l[i].key) # {}
    /\ \A b \in Bucket : \A k \in 1 .. Len(m[b]) :
          \E j \in 1 .. n : l[j].key = m[b][k].key

(***************************************************************************)
(* MapInv, before and after a step, in terms of the table and the log      *)
(* alone.                                                                  *)
(***************************************************************************)
LEMMA MapInvIs ==
    /\ MapInv <=> (up => MapIs(hash_map, log, Inserted, replayed))
    /\ MapInv' <=> (up' => MapIs(hash_map', log', Inserted', replayed'))
<1>1. \A key : Current(key) = CurrentIn(hash_map, key)
  BY DEF Current, CurrentIn
<1>2. MapInv <=> (up => MapIs(hash_map, log, Inserted, replayed))
  BY <1>1 DEF MapInv, MapIs, IsLatest, Current, CurrentIn
<1>3. MapInv' <=> (up' => MapIs(hash_map', log', Inserted', replayed'))
  BY DEF MapInv, MapIs, IsLatest, Current, CurrentIn
<1>4. QED
  BY <1>2, <1>3

(***************************************************************************)
(* insert_node() of the entry at n + 1 brings the table up to date.        *)
(***************************************************************************)
LEMMA InsertUpdates ==
    ASSUME NEW V, NEW W, NEW m \in MapOf(V), NEW l \in Seq(Nodes(W)), NEW n \in Nat,
           n + 1 <= Len(l), NEW r \in 0 .. n, MapIs(m, l, n, r),
           l[n + 1] \in Nodes(V)
    PROVE  MapIs(insert_node(m, l[n + 1]), l, n + 1, r)
<1> DEFINE e == l[n + 1]
           M == insert_node(m, e)
<1>1. Len(l) \in Nat /\ e \in Nodes(V)
  OBVIOUS
<1>2. \A i \in 1 .. n + 1 : l[i] \in Nodes(W)
  BY <1>1, ElementOfSeq
<1>3. \A i \in 1 .. n + 1 : l[i].key \in Keys
  BY <1>2 DEF Nodes
<1> HIDE DEF e
<1>4. Places(M, e.key) # {} /\ CurrentIn(M, e.key) = e.val
  BY <1>1, InsertSame
<1>5. \A key \in Keys : key # e.key =>
         /\ Places(M, key) = {} <=> Places(m, key) = {}
         /\ Places(m, key) # {} => CurrentIn(M, key) = CurrentIn(m, key)
  BY <1>1, InsertOther
<1>6. \A b \in Bucket : \A k \in 1 .. Len(M[b]) :
         M[b][k] = e \/ \E j \in 1 .. Len(m[b]) : M[b][k] = m[b][j]
  BY <1>1, InsertNodes
<1> HIDE DEF M
<1>7. ASSUME NEW j \in r + 1 .. n + 1, \A i \in j + 1 .. n + 1 : l[i].key # l[j].key
      PROVE  Places(M, l[j].key) # {} /\ CurrentIn(M, l[j].key) = l[j].val
  <2>1. CASE j = n + 1
    BY <1>4, <2>1 DEF e
  <2>2. CASE j # n + 1
    <3>1. j \in r + 1 .. n /\ n + 1 \in j + 1 .. n + 1 /\ j \in 1 .. n + 1
      BY <2>2
    <3>2. e.key # l[j].key
      BY <1>7, <3>1 DEF e
    <3>3. \A i \in j + 1 .. n : i \in j + 1 .. n + 1
      BY <3>1
    <3>4. Places(m, l[j].key) # {} /\ CurrentIn(m, l[j].key) = l[j].val
      BY <1>7, <3>1, <3>3 DEF MapIs
    <3>5. QED
      BY <1>3, <1>5, <3>1, <3>2, <3>4
  <2>3. QED
    BY <2>1, <2>2
<1>8. ASSUME NEW i \in 1 .. r, l[i].val \notin Large
      PROVE  Places(M, l[i].key) # {}
  <2>1. Places(m, l[i].key) # {} /\ l[i].key \in Keys
    BY <1>3, <1>8 DEF MapIs
  <2>2. QED
    BY <1>4, <1>5, <2>1
<1>9. ASSUME NEW b \in Bucket, NEW k \in 1 .. Len(M[b])
      PROVE  \E j \in 1 .. n + 1 : l[j].key = M[b][k].key
  <2>1. CASE M[b][k] = e
    <3>1. n + 1 \in 1 .. n + 1
      OBVIOUS
    <3>2. QED
      BY <2>1, <3>1 DEF e
  <2>2. ASSUME NEW q \in 1 .. Len(m[b]), M[b][k] = m[b][q]
        PROVE  \E j \in 1 .. n + 1 : l[j].key = M[b][k].key
    <3>1. PICK j \in 1 .. n : l[j].key = m[b][q].key
      BY DEF MapIs
    <3>2. j \in 1 .. n + 1
      OBVIOUS
    <3>3. QED
      BY <2>2, <3>1, <3>2
  <2>3. QED
    BY <1>6, <2>1, <2>2
<1>10. QED
  BY <1>7, <1>8, <1>9 DEF MapIs, M, e

(***************************************************************************)
(* The table follows the log, whatever the threads do.                     *)
(***************************************************************************)
LEMMA MapStep ==
    ASSUME TypeOK, FdInv, BlockInv, PeerInv, AnswerInv, LogInv, MapInv, DownInv, Next
    PROVE  MapInv'
<1>1. ASSUME UNCHANGED <<up, log, holder, hash_map, replayed>>
      PROVE  MapInv'
  <2>1. Inserted' = Inserted
    BY <1>1 DEF Inserted
  <2>2. QED
    BY <1>1, <2>1, MapInvIs
<1>2. ASSUME NEW c \in Client, Connect(c) \/ ConnectRefused(c) \/ ClientKilled(c)
      PROVE  MapInv'
  BY <1>1, <1>2 DEF Connect, ConnectRefused, ClientKilled, store
<1>3. CASE Accept
  BY <1>1, <1>3 DEF Accept, store
<1>4. ASSUME NEW t \in ConnThread, TakeConn(t) \/ handle_client(t)
      PROVE  MapInv'
  BY <1>1, <1>4 DEF TakeConn, handle_client, NoOperation, ReadGet, ReadSet, Submit,
                    PartialReceive, SendError, store
<1>5. ASSUME NEW h \in HashThread, TakeBlock(h) \/ LookUp(h) \/ Reply(h)
      PROVE  MapInv'
  BY <1>1, <1>5 DEF TakeBlock, LookUp, Works, Reply, store
<1>6. ASSUME NEW h \in HashThread, LogSet(h)
      PROVE  MapInv'
  <2> DEFINE e == [key |-> block[h].key, val |-> block[h].who]
  <2>1. /\ UNCHANGED <<up, hash_map, replayed>> /\ up
        /\ holder = {} /\ holder' = {h} /\ log' = Append(log, e)
        /\ h \in Working
    BY <1>6 DEF LogSet, Works, Working
  <2>2. e \in Nodes(Client)
    BY <2>1, BlockFacts DEF Nodes
  <2>3. /\ Len(log') = Len(log) + 1
        /\ \A i \in 1 .. Len(log) : log'[i] = log[i]
        /\ Len(log) \in Nat /\ replayed \in 0 .. Len(log)
    <3> HIDE DEF e
    <3>1. QED
      BY <2>1, <2>2, TypeOfStore, AtEnd DEF TypeOK
  <2>4. Inserted = Len(log) /\ Inserted' = Len(log)
    BY <2>1, <2>3 DEF Inserted
  <2>5. MapIs(hash_map, log, Len(log), replayed)
    BY <2>1, <2>4, MapInvIs
  <2>6. MapIs(hash_map, log', Len(log), replayed)
    <3> HIDE DEF e
    <3> DEFINE n == Len(log)
    <3>1. \A i \in 1 .. n : log'[i] = log[i]
      BY <2>3
    <3>2. ASSUME NEW j \in replayed + 1 .. n,
                 \A i \in j + 1 .. n : log'[i].key # log'[j].key
          PROVE  Places(hash_map, log'[j].key) # {}
                 /\ CurrentIn(hash_map, log'[j].key) = log'[j].val
      <4>1. log'[j] = log[j]
        BY <2>3
      <4>2. \A i \in j + 1 .. n : log'[i] = log[i]
        BY <2>3
      <4>3. \A i \in j + 1 .. n : log[i].key # log[j].key
        BY <3>2, <4>1, <4>2
      <4>4. Places(hash_map, log[j].key) # {} /\ CurrentIn(hash_map, log[j].key) = log[j].val
        BY <2>5, <4>3 DEF MapIs
      <4>5. QED
        BY <4>1, <4>4
    <3>3. ASSUME NEW i \in 1 .. replayed, log'[i].val \notin Large
          PROVE  Places(hash_map, log'[i].key) # {}
      <4>1. log'[i] = log[i]
        BY <2>3
      <4>2. QED
        BY <2>5, <3>3, <4>1 DEF MapIs
    <3>4. \A b \in Bucket : \A k \in 1 .. Len(hash_map[b]) :
             \E j \in 1 .. n : log'[j].key = hash_map[b][k].key
      BY <2>5, <3>1 DEF MapIs
    <3>5. QED
      BY <3>2, <3>3, <3>4 DEF MapIs
  <2>7. QED
    BY <2>1, <2>4, <2>6, MapInvIs
<1>7. ASSUME NEW h \in HashThread, Insert(h)
      PROVE  MapInv'
  <2> DEFINE n == Len(log) - 1
             e == [key |-> block[h].key, val |-> block[h].who]
  <2>1. /\ UNCHANGED <<up, log, replayed>> /\ up
        /\ holder = {h} /\ holder' = {} /\ h \in Working
        /\ block[h].oper = "set"
        /\ hash_map' = insert_node(hash_map, e)
    BY <1>7 DEF Insert, Works, Working
  <2>2. replayed < Len(log) /\ log[Len(log)].val = block[h].who
    BY <2>1 DEF LogInv
  <2>3. /\ n \in Nat /\ n + 1 = Len(log) /\ replayed \in 0 .. n
        /\ Len(log) \in 1 .. Len(log)
    BY <2>2, TypeOfStore DEF TypeOK
  <2>4. Inserted = n /\ Inserted' = n + 1
    BY <2>1, <2>3 DEF Inserted
  <2>5. MapIs(hash_map, log, n, replayed)
    BY <2>1, <2>4, MapInvIs
  <2>6. log[Len(log)] = e
    <3>1. block[h] \in InOrder /\ block[h].who \in Client
      BY <2>1, BlockFacts DEF BlockInv
    <3>2. block[h].key = KeyRead(block[h].who) /\ Len(Req[block[h].who].key) <= MaxSet
      BY <2>1, <3>1 DEF InOrder
    <3>3. Len(Req[block[h].who].key) \in Nat
      BY <3>1, ReqKey
    <3>4. block[h].key = Req[block[h].who].key
      BY <3>1, <3>2, <3>3, KeyReadType DEF MaxSet, MaxGet
    <3>5. log[Len(log)].key = Req[log[Len(log)].val].key
      BY <2>3 DEF LogInv
    <3>6. log[Len(log)] \in Nodes(Client)
      BY <2>3, LogFacts
    <3>7. QED
      BY <2>2, <3>4, <3>5, <3>6 DEF Nodes
  <2>7. log[n + 1] \in Nodes(Value)
    BY <2>3, LogFacts DEF Nodes, Value
  <2>8. MapIs(insert_node(hash_map, log[n + 1]), log, n + 1, replayed)
    <3> HIDE DEF n
    <3>1. n + 1 <= Len(log)
      BY <2>3
    <3>2. hash_map \in MapOf(Value) /\ log \in Seq(Nodes(Client))
      BY TypeOfStore
    <3>3. QED
      BY <2>3, <2>5, <2>7, <3>1, <3>2, InsertUpdates
  <2>9. MapIs(hash_map', log', Inserted', replayed')
    BY <2>1, <2>3, <2>4, <2>6, <2>8
  <2>10. QED
    BY <2>9, MapInvIs
<1>8. CASE Crash
  BY <1>8, MapInvIs DEF Crash
<1>9. CASE Restart
  <2>1. /\ ~ up /\ log' = log /\ replayed' = Len(log) /\ holder' = holder
        /\ \E g \in Client \cup {Junk} : hash_map' = init_hash_from_log(log, Large, g)
    BY <1>9 DEF Restart
  <2>2. Inserted' = Len(log)
    BY <2>1 DEF Inserted, DownInv
  <2>3. PICK g : Rebuilt(hash_map', log, Large, g, Len(log))
    BY <2>1, TableFromLog, TypeOfStore
  <2>4. \A j \in Len(log) + 1 .. Len(log) : FALSE
    BY TypeOfStore
  <2>5. \A i \in 1 .. Len(log) : log[i].val \notin Large => Places(hash_map', log[i].key) # {}
    BY <2>3, LogFacts DEF Rebuilt
  <2>6. \A b \in Bucket : \A k \in 1 .. Len(hash_map'[b]) :
           \E j \in 1 .. Len(log) : log[j].key = hash_map'[b][k].key
    BY <2>3 DEF Rebuilt
  <2>7. MapIs(hash_map', log', Inserted', replayed')
    BY <2>1, <2>2, <2>4, <2>5, <2>6 DEF MapIs
  <2>8. QED
    BY <2>7, MapInvIs
<1>10. QED
  BY <1>2, <1>3, <1>4, <1>5, <1>6, <1>7, <1>8, <1>9 DEF Next, handle_hash

(***************************************************************************)
(* A server that does not run stays without threads and table until it is  *)
(* started, and only a kill stops it.                                      *)
(***************************************************************************)
LEMMA DownStep ==
    ASSUME TypeOK, DownInv, Next
    PROVE  DownInv'
<1>1. ASSUME UNCHANGED <<up, block, holder, hash_map, replayed, crashes>>
      PROVE  DownInv'
  BY <1>1 DEF DownInv, Working
<1>2. ASSUME up, up' = up, UNCHANGED <<replayed, crashes>>
      PROVE  DownInv'
  BY <1>2 DEF DownInv
<1>3. ASSUME NEW c \in Client, Connect(c) \/ ConnectRefused(c) \/ ClientKilled(c)
      PROVE  DownInv'
  BY <1>1, <1>3 DEF Connect, ConnectRefused, ClientKilled, pools, store
<1>4. CASE Accept
  BY <1>2, <1>4 DEF Accept, store
<1>5. ASSUME NEW t \in ConnThread, TakeConn(t) \/ handle_client(t)
      PROVE  DownInv'
  BY <1>2, <1>5 DEF TakeConn, handle_client, NoOperation, ReadGet, ReadSet, Submit,
                    Reads, PartialReceive, SendError, store
<1>6. ASSUME NEW h \in HashThread, TakeBlock(h) \/ handle_hash(h)
      PROVE  DownInv'
  BY <1>2, <1>6 DEF TakeBlock, handle_hash, LookUp, LogSet, Insert, Works, Reply, store
<1>7. CASE Crash
  <2>1. Working' = {} /\ holder' = {} /\ hash_map' = EmptyMap /\ crashes' # 0
    BY <1>7 DEF Crash, Working, TypeOK
  <2>2. QED
    BY <2>1 DEF DownInv
<1>8. CASE Restart
  <2>1. up' /\ crashes' = crashes /\ crashes # 0
    BY <1>8 DEF Restart, DownInv
  <2>2. QED
    BY <2>1 DEF DownInv
<1>9. QED
  BY <1>3, <1>4, <1>5, <1>6, <1>7, <1>8 DEF Next

-----------------------------------------------------------------------------
(* FreshInv *)

(***************************************************************************)
(* Fresh(c, v) of a log l and a set k of the clients that c knew of.       *)
(***************************************************************************)
FreshFor(l, k, c, v) ==
    \E i \in 1 .. Len(l) :
        /\ l[i].val = v
        /\ l[i].key = Req[c].key
        /\ \A d \in k : \A j \in 1 .. Len(l) :
              l[j].val = d /\ l[j].key = Req[c].key => j <= i

AbsentFor(k, c) == \A d \in k : Req[d].key # Req[c].key

(***************************************************************************)
(* FreshInv, of the answers decided and of the answers received.           *)
(***************************************************************************)
LEMMA FreshInvIs ==
    /\ FreshInv <=>
          /\ \A c \in Client : \A d \in known[c] : client[d] = "STORED"
          /\ PrefixFree /\ crashes = 0 =>
               /\ \A h \in HashThread :
                     /\ outcome[h].line = "VALUE" =>
                           FreshFor(log, known[block[h].who], block[h].who, outcome[h].val)
                     /\ outcome[h].line = "NOTFOUND" =>
                           AbsentFor(known[block[h].who], block[h].who)
               /\ \A c \in Client :
                     /\ client[c] = "VALUE" => FreshFor(log, known[c], c, value[c])
                     /\ client[c] = "NOTFOUND" => AbsentFor(known[c], c)
    /\ FreshInv' <=>
          /\ \A c \in Client : \A d \in known'[c] : client'[d] = "STORED"
          /\ PrefixFree /\ crashes' = 0 =>
               /\ \A h \in HashThread :
                     /\ outcome'[h].line = "VALUE" =>
                           FreshFor(log', known'[block'[h].who], block'[h].who, outcome'[h].val)
                     /\ outcome'[h].line = "NOTFOUND" =>
                           AbsentFor(known'[block'[h].who], block'[h].who)
               /\ \A c \in Client :
                     /\ client'[c] = "VALUE" => FreshFor(log', known'[c], c, value'[c])
                     /\ client'[c] = "NOTFOUND" => AbsentFor(known'[c], c)
<1>1. \A c, v : Fresh(c, v) <=> FreshFor(log, known[c], c, v)
  BY DEF Fresh, FreshFor, LogIndex
<1>2. \A c : Absent(c) <=> AbsentFor(known[c], c)
  BY DEF Absent, AbsentFor
<1>3. ASSUME NEW h \in HashThread
      PROVE  /\ Fresh(block[h].who, outcome[h].val)' <=>
                   FreshFor(log', known'[block'[h].who], block'[h].who, outcome'[h].val)
             /\ Absent(block[h].who)' <=> AbsentFor(known'[block'[h].who], block'[h].who)
  BY DEF Fresh, FreshFor, LogIndex, Absent, AbsentFor
<1>4. ASSUME NEW c \in Client
      PROVE  /\ Fresh(c, value[c])' <=> FreshFor(log', known'[c], c, value'[c])
             /\ Absent(c)' <=> AbsentFor(known'[c], c)
  BY DEF Fresh, FreshFor, LogIndex, Absent, AbsentFor
<1>5. PrefixFree' <=> PrefixFree
  BY DEF PrefixFree
<1>6. QED
  BY <1>1, <1>2, <1>3, <1>4, <1>5 DEF FreshInv

(***************************************************************************)
(* Of the entries of a key there is a last one.                            *)
(***************************************************************************)
LEMMA LastEntry ==
    ASSUME NEW W, NEW l \in Seq(W), NEW i \in 1 .. Len(l)
    PROVE  \E j \in i .. Len(l) : /\ l[j].key = l[i].key
                                  /\ \A k \in j + 1 .. Len(l) : l[k].key # l[j].key
<1> DEFINE n == Len(l)
           J == {j \in i .. n : l[j].key = l[i].key}
           T == {n - j : j \in J}
<1>0. n \in Nat /\ i \in 1 .. n
  OBVIOUS
<1> HIDE DEF n
<1>1. T \in SUBSET Nat
  <2>1. \A j \in J : n - j \in Nat
    BY <1>0
  <2>2. QED
    BY <2>1
<1>2. i \in J
  BY <1>0
<1>3. T # {}
  BY <1>2
<1>4. PICK x \in T : \A y \in T : x <= y
  <2> HIDE DEF T
  <2> QED
    BY <1>1, <1>3, LeastNumber
<1>5. PICK j \in J : x = n - j
  OBVIOUS
<1>6. ASSUME NEW k \in j + 1 .. n, l[k].key = l[j].key
      PROVE  FALSE
  <2>1. k \in J /\ k > j /\ k \in Nat /\ j \in Nat
    BY <1>0, <1>6
  <2>2. n - k \in T
    BY <2>1
  <2>3. n - j <= n - k
    BY <1>4, <1>5, <2>2
  <2>4. QED
    BY <1>0, <2>1, <2>3
<1>7. QED
  BY <1>5, <1>6 DEF n

(***************************************************************************)
(* A value stays fresh when a set that nobody knew of is logged.           *)
(***************************************************************************)
LEMMA FreshGrows ==
    ASSUME NEW l \in Seq(Nodes(Client)), NEW e \in Nodes(Client), NEW k, NEW c, NEW v,
           e.val \notin k, FreshFor(l, k, c, v)
    PROVE  FreshFor(Append(l, e), k, c, v)
<1> DEFINE L == Append(l, e)
<1>1. /\ Len(l) \in Nat
      /\ \A i \in 1 .. Len(l) : L[i] = l[i]
      /\ L[Len(l) + 1] = e
      /\ 1 .. Len(L) = (1 .. Len(l)) \cup {Len(l) + 1}
  BY AtEnd
<1>2. PICK i \in 1 .. Len(l) :
         /\ l[i].val = v
         /\ l[i].key = Req[c].key
         /\ \A d \in k : \A j \in 1 .. Len(l) :
               l[j].val = d /\ l[j].key = Req[c].key => j <= i
  BY DEF FreshFor
<1> HIDE DEF L
<1>3. \A d \in k : \A j \in 1 .. Len(L) :
         L[j].val = d /\ L[j].key = Req[c].key => j <= i
  BY <1>1, <1>2
<1>4. i \in 1 .. Len(L) /\ L[i] = l[i]
  BY <1>1
<1>5. FreshFor(L, k, c, v)
  BY <1>2, <1>3, <1>4 DEF FreshFor
<1>6. QED
  BY <1>5 DEF L

(***************************************************************************)
(* What the nodes of the table stand for: a set of at most six characters. *)
(***************************************************************************)
LEMMA NodeIsSet ==
    ASSUME TypeOK, LogInv, MapIs(hash_map, log, Len(log), 0), NEW b \in Bucket,
           NEW i \in 1 .. Len(hash_map[b])
    PROVE  \E j \in 1 .. Len(log) :
              LET d == log[j].val IN
              /\ log[j].key = hash_map[b][i].key
              /\ d \in Client /\ Req[d].op = "set" /\ Len(Req[d].key) <= MaxSet
              /\ hash_map[b][i].key = Req[d].key
<1>1. PICK j \in 1 .. Len(log) : log[j].key = hash_map[b][i].key
  BY DEF MapIs
<1>2. log[j].val \in Settled /\ log[j].key = Req[log[j].val].key
  BY DEF LogInv
<1>3. QED
  BY <1>1, <1>2 DEF Settled

(***************************************************************************)
(* get_node() of a get finds the latest set of its key, unless there is    *)
(* none that its client can know of.                                       *)
(***************************************************************************)
LEMMA LookUpFresh ==
    ASSUME TypeOK, BlockInv, LogInv, MapInv, DownInv, FreshInv, PrefixFree,
           crashes = 0, NEW h \in HashThread, LookUp(h)
    PROVE  LET c == block[h].who IN
           /\ outcome'[h].line = "VALUE" => FreshFor(log, known[c], c, outcome'[h].val)
           /\ outcome'[h].line = "NOTFOUND" => AbsentFor(known[c], c)
<1> DEFINE c == block[h].who
           k == block[h].key
           B == hash_string(k)
           s == hash_map[B]
<1>1. /\ h \in Working /\ block[h].oper = "get" /\ holder = {} /\ up
      /\ \/ \E n \in get_node(hash_map, k) : outcome'[h] = Say("VALUE", n.val)
         \/ get_node(hash_map, k) = {} /\ outcome'[h] = Say("NOTFOUND", NoOne)
  BY DEF LookUp, Works, Working, TypeOK
<1>2. MapIs(hash_map, log, Len(log), 0)
  <2>1. Inserted = Len(log) /\ replayed = 0
    BY <1>1 DEF Inserted, DownInv
  <2>2. QED
    BY <1>1, <2>1, MapInvIs
<1>3. c \in Client /\ k \in Keys /\ k = KeyRead(c) /\ Req[c].op = "get" /\ Req[c].key \in Keys
  <2>1. block[h] \in InOrder /\ c \in Client /\ k \in Keys
    BY <1>1, BlockFacts DEF BlockInv
  <2>2. QED
    BY <1>1, <2>1, ReqKey DEF InOrder
<1>4. B \in Bucket /\ s \in Seq(Nodes(Value)) /\ hash_map \in MapOf(Value)
  BY <1>3, HashInBucket, TypeOfStore DEF MapOf
<1>5. \A d \in known[c] : \E i \in 1 .. Len(log) : log[i].val = d /\ log[i].key = Req[d].key
                                                   /\ d \in Settled
  <2>1. SUFFICES ASSUME NEW d \in known[c]
                 PROVE  \E i \in 1 .. Len(log) : log[i].val = d /\ log[i].key = Req[d].key
                                                 /\ d \in Settled
    OBVIOUS
  <2>2. d \in Client /\ client[d] = "STORED"
    BY <1>3 DEF FreshInv, TypeOK
  <2>3. QED
    BY <2>2 DEF LogInv
<1>6. ASSUME NEW i \in 1 .. Len(s)
      PROVE  \E d \in Client : /\ Req[d].op = "set" /\ Len(Req[d].key) <= MaxSet
                               /\ s[i].key = Req[d].key
  BY <1>2, <1>4, NodeIsSet
<1> HIDE DEF c, k, B, s
<1>7. CASE Len(Req[c].key) > MaxGet
  <2>1. Len(k) = MaxGet
    BY <1>3, <1>7, KeyReadType
  <2>2. ASSUME NEW i \in 1 .. Len(s)
        PROVE  ~ StartsWith(s[i].key, k)
    <3>1. PICK d \in Client : Len(Req[d].key) <= MaxSet /\ s[i].key = Req[d].key
      BY <1>6
    <3>2. Len(s[i].key) \in Nat /\ Len(s[i].key) <= MaxSet
      BY <3>1, ReqKey
    <3>3. QED
      BY <2>1, <3>2 DEF StartsWith, MaxSet, MaxGet
  <2>3. get_node(hash_map, k) = {}
    BY <2>2, GetNothing DEF s, B
  <2>4. outcome'[h].line = "NOTFOUND"
    BY <1>1, <2>3 DEF Say
  <2>5. AbsentFor(known[c], c)
    <3>1. SUFFICES ASSUME NEW d \in known[c], Req[d].key = Req[c].key PROVE FALSE
      BY DEF AbsentFor
    <3>2. d \in Settled
      BY <1>5
    <3>3. Len(Req[d].key) <= MaxSet
      BY <3>2 DEF Settled
    <3>4. Len(Req[c].key) \in Nat
      BY <1>3, ReqKey
    <3>5. QED
      BY <1>7, <3>1, <3>3, <3>4 DEF MaxSet, MaxGet
  <2>6. QED
    BY <2>4, <2>5 DEF c
<1>8. CASE Len(Req[c].key) <= MaxGet
  <2>1. k = Req[c].key
    BY <1>3, <1>8, KeyReadType
  <2>2. \A i \in 1 .. Len(s) : StartsWith(s[i].key, k) => s[i].key = k
    BY <1>3, <1>6, <2>1 DEF PrefixFree
  <2>3. get_node(hash_map, k) =
           IF Places(hash_map, k) = {} THEN {}
           ELSE {s[FirstOf(Places(hash_map, k))]}
    BY <1>3, <1>4, <2>2, GetExact DEF s, B
  <2>4. ASSUME NEW i \in 1 .. Len(log), log[i].key = k
        PROVE  \E j \in i .. Len(log) :
                  /\ log[j].key = k
                  /\ \A q \in j + 1 .. Len(log) : log[q].key # k
                  /\ Places(hash_map, k) # {}
                  /\ CurrentIn(hash_map, k) = log[j].val
    <3>1. PICK j \in i .. Len(log) :
             /\ log[j].key = log[i].key
             /\ \A q \in j + 1 .. Len(log) : log[q].key # log[j].key
      BY TypeOfStore, LastEntry
    <3>2. j \in 0 + 1 .. Len(log)
      BY TypeOfStore
    <3>3. Places(hash_map, log[j].key) # {} /\ CurrentIn(hash_map, log[j].key) = log[j].val
      BY <1>2, <3>1, <3>2 DEF MapIs
    <3>4. QED
      BY <2>4, <3>1, <3>3
  <2>5. CASE Places(hash_map, k) = {}
    <3>1. outcome'[h].line = "NOTFOUND"
      BY <1>1, <2>3, <2>5 DEF Say
    <3>2. AbsentFor(known[c], c)
      <4>1. SUFFICES ASSUME NEW d \in known[c], Req[d].key = Req[c].key PROVE FALSE
        BY DEF AbsentFor
      <4>2. PICK i \in 1 .. Len(log) : log[i].key = Req[d].key
        BY <1>5
      <4>3. Places(hash_map, k) # {}
        BY <2>1, <2>4, <4>1, <4>2
      <4>4. QED
        BY <2>5, <4>3
    <3>3. QED
      BY <3>1, <3>2 DEF c
  <2>6. CASE Places(hash_map, k) # {}
    <3>1. outcome'[h].line = "VALUE" /\ outcome'[h].val = CurrentIn(hash_map, k)
      <4>1. get_node(hash_map, k) = {s[FirstOf(Places(hash_map, k))]}
        BY <2>3, <2>6
      <4>2. outcome'[h] = Say("VALUE", s[FirstOf(Places(hash_map, k))].val)
        BY <1>1, <4>1
      <4>3. QED
        BY <4>2 DEF Say, CurrentIn, s, B
    <3>2. PICK p \in 1 .. Len(s) : s[p].key = k
      BY <2>6 DEF Places, s, B
    <3>3. PICK i \in 1 .. Len(log) : log[i].key = k
      <4>1. PICK i \in 1 .. Len(log) : log[i].key = hash_map[B][p].key
        BY <1>2, <1>4 DEF MapIs, s
      <4>2. QED
        BY <3>2, <4>1 DEF s
    <3>4. PICK j \in i .. Len(log) :
             /\ log[j].key = k
             /\ \A q \in j + 1 .. Len(log) : log[q].key # k
             /\ CurrentIn(hash_map, k) = log[j].val
      BY <2>4, <3>3
    <3>5. j \in 1 .. Len(log)
      BY TypeOfStore
    <3>6. ASSUME NEW q \in 1 .. Len(log), log[q].key = k
          PROVE  q <= j
      <4>1. q \notin j + 1 .. Len(log)
        BY <3>4, <3>6
      <4>2. Len(log) \in Nat
        BY TypeOfStore
      <4>3. QED
        BY <3>5, <4>1, <4>2
    <3>7. FreshFor(log, known[c], c, outcome'[h].val)
      BY <2>1, <3>1, <3>4, <3>5, <3>6 DEF FreshFor
    <3>8. QED
      BY <3>1, <3>7 DEF c
  <2>7. QED
    BY <2>5, <2>6
<1>9. QED
  <2>1. Len(Req[c].key) \in Nat
    BY <1>3, ReqKey
  <2>2. QED
    BY <1>7, <1>8, <2>1 DEF MaxGet

(***************************************************************************)
(* The client of a request that has an answer is not new.                  *)
(***************************************************************************)
LEMMA AnsweredIsOld ==
    ASSUME TypeOK, BlockInv, PeerInv, AnswerInv, NEW h \in HashThread,
           outcome[h] # NoAnswer
    PROVE  block[h].who \in Client /\ client[block[h].who] # "new"
<1>1. h \in Working
  BY DEF AnswerInv
<1>2. /\ block[h] \in InOrder /\ block[h].sock_fd \in Fd
      /\ block[h].who \in Client /\ block[h].who # NoOne
  BY <1>1, BlockFacts DEF BlockInv
<1>3. conn[block[h].sock_fd] = block[h].who
  BY <1>2 DEF InOrder
<1>4. QED
  BY <1>2, <1>3 DEF PeerInv

(***************************************************************************)
(* A client that was told STORED stays so: nothing else is sent to it.     *)
(***************************************************************************)
LEMMA StoredKept ==
    ASSUME TypeOK, PeerInv, BlockInv, Next, NEW d \in Client, client[d] = "STORED"
    PROVE  client'[d] = "STORED"
<1>1. ASSUME client' = client
      PROVE  client'[d] = "STORED"
  BY <1>1
<1>2. ASSUME NEW c \in Client, Connect(c) \/ ConnectRefused(c) \/ ClientKilled(c)
      PROVE  client'[d] = "STORED"
  BY <1>2 DEF Connect, ConnectRefused, ClientKilled, TypeOK
<1>3. ASSUME NEW t \in ConnThread, PartialReceive(t)
      PROVE  client'[d] = "STORED"
  <2>1. /\ client_sock[t] \in Fd /\ conn[client_sock[t]] # NoOne
        /\ client' = [client EXCEPT ![conn[client_sock[t]]] = "gone"]
    BY <1>3 DEF PartialReceive, Reads, TypeOK
  <2>2. conn[client_sock[t]] # d
    BY <2>1 DEF PeerInv
  <2>3. QED
    BY <2>1, <2>2 DEF TypeOK
<1>4. ASSUME NEW t \in ConnThread, SendError(t)
      PROVE  client'[d] = "STORED"
  <2>1. client_sock[t] \in Fd /\ Send(client_sock[t], Say("Error", NoOne))
    BY <1>4 DEF SendError, ConnPool!Finish, TypeOK
  <2>2. QED
    BY <2>1, SendEffect
<1>5. ASSUME NEW h \in HashThread, Reply(h)
      PROVE  client'[d] = "STORED"
  <2>1. block[h].sock_fd \in Fd /\ Send(block[h].sock_fd, outcome[h])
    BY <1>5 DEF Reply, Block, TypeOK
  <2>2. QED
    BY <2>1, SendEffect
<1>6. CASE Crash
  BY <1>6 DEF Crash
<1>7. CASE Accept \/ Restart
  BY <1>1, <1>7 DEF Accept, Restart, ends
<1>8. ASSUME NEW t \in ConnThread, TakeConn(t) \/ NoOperation(t) \/ ReadGet(t) \/ ReadSet(t)
      PROVE  client'[d] = "STORED"
  BY <1>1, <1>8 DEF TakeConn, NoOperation, ReadGet, ReadSet, Submit, ends
<1>9. ASSUME NEW h \in HashThread, TakeBlock(h) \/ LookUp(h) \/ LogSet(h) \/ Insert(h)
      PROVE  client'[d] = "STORED"
  BY <1>1, <1>9 DEF TakeBlock, LookUp, LogSet, Insert, Works, ends
<1>10. QED
  BY <1>2, <1>3, <1>4, <1>5, <1>6, <1>7, <1>8, <1>9 DEF Next, handle_client, handle_hash

(***************************************************************************)
(* What a get is answered is fresh when get_node() finds it, and stays so  *)
(* however many sets come before the answer arrives.                       *)
(***************************************************************************)
LEMMA FreshStep ==
    ASSUME TypeOK, FdInv, BlockInv, PeerInv, AnswerInv, LogInv, MapInv, DownInv,
           FreshInv, Next
    PROVE  FreshInv'
<1> DEFINE Knows == \A c \in Client : \A d \in known[c] : client[d] = "STORED"
           Mine(h) == /\ outcome[h].line = "VALUE" =>
                            FreshFor(log, known[block[h].who], block[h].who, outcome[h].val)
                      /\ outcome[h].line = "NOTFOUND" =>
                            AbsentFor(known[block[h].who], block[h].who)
           Yours(c) == /\ client[c] = "VALUE" => FreshFor(log, known[c], c, value[c])
                       /\ client[c] = "NOTFOUND" => AbsentFor(known[c], c)
           Mines == \A h \in HashThread : Mine(h)
           Yourses == \A c \in Client : Yours(c)
<1>1. Knows /\ (PrefixFree /\ crashes = 0 => Mines /\ Yourses)
  BY FreshInvIs
<1>2. SUFFICES Knows' /\ (PrefixFree /\ crashes' = 0 => Mines' /\ Yourses')
  BY <1>2, FreshInvIs
<1>3. known' = known => Knows'
  BY <1>1, StoredKept DEF TypeOK
<1>4. ASSUME UNCHANGED <<log, known, block, outcome>>, Mines
      PROVE  Mines'
  BY <1>4
<1>5. ASSUME UNCHANGED <<log, known>>, Yourses,
             \A c \in Client : client'[c] \in {"VALUE", "NOTFOUND"} =>
                client'[c] = client[c] /\ value'[c] = value[c]
      PROVE  Yourses'
  BY <1>5
<1>6. ASSUME NEW c \in Client, Connect(c)
      PROVE  Knows' /\ (PrefixFree /\ crashes' = 0 => Mines' /\ Yourses')
  <2>1. /\ client[c] = "new"
        /\ UNCHANGED <<log, block, outcome, value, crashes>>
        /\ known' = [known EXCEPT ![c] = {d \in Client : client[d] = "STORED"}]
        /\ client'[c] \in {"gone", "waiting"}
        /\ \A d \in Client \ {c} : client'[d] = client[d]
    BY <1>6 DEF Connect, pools, store, TypeOK
  <2>2. /\ known'[c] = {d \in Client : client[d] = "STORED"}
        /\ \A d \in Client \ {c} : known'[d] = known[d]
    BY <2>1 DEF TypeOK
  <2>3. Knows'
    BY <1>1, <2>1, <2>2 DEF TypeOK
  <2>4. ASSUME NEW h \in HashThread, Mine(h)
        PROVE  Mine(h)'
    <3>1. CASE outcome[h] = NoAnswer
      BY <2>1, <3>1 DEF NoAnswer, Say
    <3>2. CASE outcome[h] # NoAnswer
      <4>1. block[h].who \in Client \ {c}
        BY <2>1, <3>2, AnsweredIsOld
      <4>2. known'[block[h].who] = known[block[h].who]
        BY <2>2, <4>1
      <4>3. QED
        BY <2>1, <2>4, <4>2
    <3>3. QED
      BY <3>1, <3>2
  <2>5. ASSUME NEW d \in Client, Yours(d)
        PROVE  Yours(d)'
    BY <2>1, <2>2, <2>5
  <2>6. QED
    BY <1>1, <2>1, <2>3, <2>4, <2>5
<1>7. ASSUME NEW c \in Client, ConnectRefused(c) \/ ClientKilled(c)
      PROVE  Knows' /\ (PrefixFree /\ crashes' = 0 => Mines' /\ Yourses')
  <2>1. UNCHANGED <<log, known, block, outcome, value, crashes>>
    BY <1>7 DEF ConnectRefused, ClientKilled, pools, store
  <2>2. \A d \in Client : client'[d] \in {"VALUE", "NOTFOUND"} => client'[d] = client[d]
    BY <1>7 DEF ConnectRefused, ClientKilled, TypeOK
  <2>3. QED
    BY <1>1, <1>3, <1>4, <1>5, <2>1, <2>2
<1>8. ASSUME UNCHANGED <<log, known, block, outcome, client, value, crashes>>
      PROVE  Knows' /\ (PrefixFree /\ crashes' = 0 => Mines' /\ Yourses')
  BY <1>1, <1>3, <1>4, <1>5, <1>8
<1>9. CASE Accept
  BY <1>8, <1>9 DEF Accept, store, ends
<1>10. ASSUME NEW t \in ConnThread, TakeConn(t) \/ NoOperation(t) \/ ReadGet(t) \/ ReadSet(t)
       PROVE  Knows' /\ (PrefixFree /\ crashes' = 0 => Mines' /\ Yourses')
  BY <1>8, <1>10 DEF TakeConn, NoOperation, ReadGet, ReadSet, Submit, HashPool!Put,
                     store, ends
<1>11. ASSUME NEW t \in ConnThread, PartialReceive(t) \/ SendError(t)
       PROVE  Knows' /\ (PrefixFree /\ crashes' = 0 => Mines' /\ Yourses')
  <2>1. UNCHANGED <<log, known, block, outcome, crashes>>
    BY <1>11 DEF PartialReceive, SendError, pools, store
  <2>2. \A d \in Client : client'[d] \in {"VALUE", "NOTFOUND"} =>
           client'[d] = client[d] /\ value'[d] = value[d]
    <3>1. CASE PartialReceive(t)
      BY <3>1 DEF PartialReceive, TypeOK
    <3>2. CASE SendError(t)
      <4>1. client_sock[t] \in Fd /\ Send(client_sock[t], Say("Error", NoOne))
        BY <3>2 DEF SendError, ConnPool!Finish, TypeOK
      <4>2. \A d \in Client : \/ client'[d] = client[d] /\ value'[d] = value[d]
                              \/ client'[d] = "Error"
        BY <4>1, SendEffect DEF Say
      <4>3. QED
        BY <4>2
    <3>3. QED
      BY <1>11, <3>1, <3>2
  <2>3. QED
    BY <1>1, <1>3, <1>4, <1>5, <2>1, <2>2
<1>12. ASSUME NEW h \in HashThread, TakeBlock(h)
       PROVE  Knows' /\ (PrefixFree /\ crashes' = 0 => Mines' /\ Yourses')
  <2>1. /\ UNCHANGED <<log, known, outcome, client, value, crashes>>
        /\ block[h] = NoBlock
        /\ block' = [block EXCEPT ![h] = Head(hash_queue)]
    BY <1>12 DEF TakeBlock, HashPool!Take, store, ends
  <2>2. outcome[h] = NoAnswer
    BY <2>1 DEF AnswerInv, Working
  <2>3. \A g \in HashThread \ {h} : block'[g] = block[g]
    BY <2>1 DEF TypeOK
  <2>4. Mine(h)'
    BY <2>1, <2>2 DEF NoAnswer, Say
  <2>5. ASSUME NEW g \in HashThread \ {h}, Mine(g)
        PROVE  Mine(g)'
    BY <2>1, <2>3, <2>5
  <2>6. QED
    BY <1>1, <1>3, <1>5, <2>1, <2>4, <2>5
<1>13. ASSUME NEW h \in HashThread, LookUp(h)
       PROVE  Knows' /\ (PrefixFree /\ crashes' = 0 => Mines' /\ Yourses')
  <2>1. /\ UNCHANGED <<log, known, block, client, value, crashes>>
        /\ \A g \in HashThread \ {h} : outcome'[g] = outcome[g]
    BY <1>13 DEF LookUp, Works, pools, ends, TypeOK
  <2>2. ASSUME PrefixFree, crashes = 0
        PROVE  Mine(h)'
    <3>1. LET c == block[h].who IN
          /\ outcome'[h].line = "VALUE" => FreshFor(log, known[c], c, outcome'[h].val)
          /\ outcome'[h].line = "NOTFOUND" => AbsentFor(known[c], c)
      BY <1>13, <2>2, LookUpFresh
    <3>2. QED
      BY <2>1, <3>1
  <2>3. ASSUME NEW g \in HashThread \ {h}, Mine(g)
        PROVE  Mine(g)'
    BY <2>1, <2>3
  <2>4. QED
    BY <1>1, <1>3, <1>5, <2>1, <2>2, <2>3
<1>14. ASSUME NEW h \in HashThread, LogSet(h)
       PROVE  Knows' /\ (PrefixFree /\ crashes' = 0 => Mines' /\ Yourses')
  <2> DEFINE e == [key |-> block[h].key, val |-> block[h].who]
  <2>1. /\ UNCHANGED <<known, block, outcome, client, value, crashes>>
        /\ log' = Append(log, e)
    BY <1>14 DEF LogSet, Works, pools, ends
  <2>2. /\ h \in Working
        /\ \A i \in 1 .. Len(log) : log[i].val # e.val
    BY <1>14, LogSetSettles
  <2>3. e \in Nodes(Client)
    BY <2>2, BlockFacts DEF Nodes
  <2> HIDE DEF e
  <2>4. \A c \in Client : e.val \notin known[c]
    BY <1>1, <2>2 DEF LogInv, TypeOK
  <2>5. \A c \in Client : \A v : FreshFor(log, known[c], c, v) => FreshFor(log', known[c], c, v)
    BY <2>1, <2>3, <2>4, TypeOfStore, FreshGrows
  <2>6. ASSUME NEW g \in HashThread, Mine(g)
        PROVE  Mine(g)'
    <3>1. CASE outcome[g] = NoAnswer
      BY <2>1, <3>1 DEF NoAnswer, Say
    <3>2. CASE outcome[g] # NoAnswer
      <4>1. block[g].who \in Client
        BY <3>2, AnsweredIsOld
      <4>2. QED
        BY <2>1, <2>5, <2>6, <4>1
    <3>3. QED
      BY <3>1, <3>2
  <2>7. ASSUME NEW c \in Client, Yours(c)
        PROVE  Yours(c)'
    BY <2>1, <2>5, <2>7
  <2>8. QED
    BY <1>1, <1>3, <2>1, <2>6, <2>7
<1>15. ASSUME NEW h \in HashThread, Insert(h)
       PROVE  Knows' /\ (PrefixFree /\ crashes' = 0 => Mines' /\ Yourses')
  <2>1. /\ UNCHANGED <<log, known, block, client, value, crashes>>
        /\ outcome' = [outcome EXCEPT ![h] = Say("STORED", NoOne)]
    BY <1>15 DEF Insert, Works, pools, ends
  <2>2. /\ outcome'[h].line = "STORED"
        /\ \A g \in HashThread \ {h} : outcome'[g] = outcome[g]
    BY <2>1 DEF TypeOK, Say
  <2>3. Mine(h)'
    BY <2>2
  <2>4. ASSUME NEW g \in HashThread \ {h}, Mine(g)
        PROVE  Mine(g)'
    BY <2>1, <2>2, <2>4
  <2>5. QED
    BY <1>1, <1>3, <1>5, <2>1, <2>3, <2>4
<1>16. ASSUME NEW h \in HashThread, Reply(h)
       PROVE  Knows' /\ (PrefixFree /\ crashes' = 0 => Mines' /\ Yourses')
  <2>1. /\ UNCHANGED <<log, known, crashes>>
        /\ outcome' = [outcome EXCEPT ![h] = NoAnswer]
        /\ block' = [block EXCEPT ![h] = NoBlock]
        /\ Send(block[h].sock_fd, outcome[h])
    BY <1>16 DEF Reply, HashPool!Finish, store
  <2>2. /\ conn[block[h].sock_fd] = block[h].who
        /\ block[h].sock_fd \in Fd
    BY <1>16, BlockReply, BlockFacts
  <2>3. /\ outcome'[h] = NoAnswer
        /\ \A g \in HashThread \ {h} : block'[g] = block[g] /\ outcome'[g] = outcome[g]
    BY <2>1 DEF TypeOK
  <2>4. Mine(h)'
    BY <2>3 DEF NoAnswer, Say
  <2>5. ASSUME NEW g \in HashThread \ {h}, Mine(g)
        PROVE  Mine(g)'
    BY <2>1, <2>3, <2>5
  <2>6. ASSUME NEW c \in Client, Yours(c), Mine(h)
        PROVE  Yours(c)'
    <3>1. \/ client'[c] = client[c] /\ value'[c] = value[c]
          \/ /\ c = block[h].who
             /\ client'[c] = outcome[h].line
             /\ value'[c] = outcome[h].val
      BY <2>1, <2>2, SendEffect
    <3>2. QED
      BY <2>1, <2>6, <3>1
  <2>7. QED
    BY <1>1, <1>3, <2>1, <2>4, <2>5, <2>6
<1>17. CASE Crash
  <2>1. known' = known /\ crashes' # 0
    BY <1>17 DEF Crash, TypeOK
  <2>2. QED
    BY <1>3, <2>1
<1>18. CASE Restart
  BY <1>8, <1>18 DEF Restart, pools, ends
<1>19. QED
  BY <1>6, <1>7, <1>9, <1>10, <1>11, <1>12, <1>13, <1>14, <1>15, <1>16, <1>17, <1>18
     DEF Next, handle_client, handle_hash

-----------------------------------------------------------------------------
(* The invariant *)

(***************************************************************************)
(* A started server has nobody to serve.                                   *)
(***************************************************************************)
LEMMA InitInv == Init => KInv
<1> SUFFICES ASSUME Init PROVE KInv
  OBVIOUS
<1> USE DEF Init, ConnPool!Init, HashPool!Init
<1>2. Reading = {} /\ Working = {} /\ 1 .. Len(client_queue) = {}
      /\ 1 .. Len(hash_queue) = {} /\ 1 .. Len(backlog) = {} /\ 1 .. Len(log) = {}
  BY DEF Reading, Working
<1>3. \A f : ~ Unread(f)
  BY <1>2 DEF Unread
<1>4. \A h \in HashThread : outcome[h].line = "none"
  BY DEF NoAnswer, Say
<1>5. TypeOK
  <2>1. outcome \in [HashThread -> Answer]
    BY DEF NoAnswer, Say, Answer, Value
  <2>2. hash_map \in [Bucket -> Seq([key : Seq(0 .. 127), val : Value])]
    BY DEF EmptyMap
  <2>3. value \in [Client -> Value] /\ crashes \in 0 .. MaxCrash
        /\ replayed \in 0 .. Len(log)
    BY BoundAssumption DEF Value
  <2>4. /\ backlog \in Seq(Client) /\ client_queue \in Seq(Fd) /\ hash_queue \in Seq(Block)
        /\ log \in Seq([key : Seq(0 .. 127), val : Client])
    OBVIOUS
  <2>5. QED
    BY <2>1, <2>2, <2>3, <2>4 DEF TypeOK
<1>6. FdInv
  BY <1>2, <1>3 DEF FdInv
<1>7. BlockInv
  BY <1>2 DEF BlockInv
<1>8. PeerInv
  BY <1>2 DEF PeerInv
<1>9. AnswerInv
  BY DEF AnswerInv
<1>10. LogInv
  BY <1>2, <1>4 DEF LogInv
<1>11. MapInv
  <2>1. Inserted = 0
    BY DEF Inserted
  <2>2. \A b \in Bucket : 1 .. Len(hash_map[b]) = {}
    BY DEF EmptyMap
  <2>3. replayed + 1 .. Inserted = {} /\ 1 .. replayed = {}
    BY <2>1
  <2>4. QED
    BY <2>2, <2>3 DEF MapInv
<1>12. DownInv
  BY DEF DownInv
<1>13. FreshInv
  BY <1>4 DEF FreshInv
<1>14. QED
  BY <1>5, <1>6, <1>7, <1>8, <1>9, <1>10, <1>11, <1>12, <1>13 DEF KInv

(***************************************************************************)
(* Every step keeps the types.                                             *)
(***************************************************************************)
LEMMA TypeStep ==
    ASSUME TypeOK, AnswerInv, Next
    PROVE  TypeOK'
  BY ClientTypes, AcceptTypes, ConnTypes, HashTypes, CrashTypes, RestartTypes DEF Next

(***************************************************************************)
(* KInv does not depend on anything but the state.                         *)
(***************************************************************************)
LEMMA StutterInv ==
    ASSUME KInv, UNCHANGED vars
    PROVE  KInv'
<1> USE DEF vars, pools, store, ends
<1>1. /\ Reading' = Reading /\ Working' = Working /\ Inserted' = Inserted
      /\ \A f : Unread(f)' <=> Unread(f)
  BY DEF Reading, Working, Unread, Inserted
<1>2. TypeOK'
  BY DEF KInv, TypeOK
<1>3. FdInv'
  BY <1>1 DEF KInv, FdInv
<1>4. BlockInv'
  BY <1>1 DEF KInv, BlockInv, InOrder
<1>5. PeerInv' /\ AnswerInv'
  BY <1>1 DEF KInv, PeerInv, AnswerInv
<1>6. LogInv'
  BY <1>1 DEF KInv, LogInv, Settled
<1>7. MapInv'
  BY <1>1, MapInvIs DEF KInv
<1>8. DownInv'
  BY <1>1 DEF KInv, DownInv
<1>9. FreshInv'
  BY FreshInvIs DEF KInv
<1>10. QED
  BY <1>2, <1>3, <1>4, <1>5, <1>6, <1>7, <1>8, <1>9 DEF KInv

(***************************************************************************)
(* KInv is an invariant: every request that main(), the client threads and *)
(* the hash threads hand to each other is in one place, and the log, the   *)
(* table and the answers follow each other, whenever the server is killed. *)
(***************************************************************************)
THEOREM Invariance == Spec => []KInv
<1>1. ASSUME KInv, [Next]_vars PROVE KInv'
  <2>1. CASE Next
    <3>1. TypeOK'
      BY <1>1, <2>1, TypeStep DEF KInv
    <3>2. FdInv' /\ BlockInv' /\ PeerInv' /\ AnswerInv'
      BY <1>1, <2>1, FdStep, BlockStep, PeerStep, AnswerStep DEF KInv
    <3>3. LogInv' /\ MapInv' /\ DownInv' /\ FreshInv'
      BY <1>1, <2>1, LogStep, MapStep, DownStep, FreshStep DEF KInv
    <3>4. QED
      BY <3>1, <3>2, <3>3 DEF KInv
  <2>2. CASE UNCHANGED vars
    BY <1>1, <2>2, StutterInv
  <2>3. QED
    BY <1>1, <2>1, <2>2
<1>2. QED
  BY <1>1, InitInv, PTL DEF Spec

-----------------------------------------------------------------------------
(* The properties *)

(***************************************************************************)
(* The types: every log entry that a kill leaves carries a key and the     *)
(* value of a client, and every answer is one that client.c can read.      *)
(***************************************************************************)
THEOREM TypeCorrect == Spec => []TypeOK
<1>1. KInv => TypeOK
  BY DEF KInv
<1>2. QED
  BY <1>1, Invariance, PTL

(***************************************************************************)
(* handle_hash() answers the client whose request it has, although accept()*)
(* hands closed descriptors out again.                                     *)
(***************************************************************************)
THEOREM OwnClient == Spec => []AnswersOwnClient
<1>1. KInv => AnswersOwnClient
  <2>1. SUFFICES ASSUME KInv, NEW b \in Pending
                 PROVE  conn[b.sock_fd] = b.who
    BY DEF AnswersOwnClient
  <2>2. b \in InOrder
    BY <2>1 DEF KInv, BlockInv, Pending, Working
  <2>3. QED
    BY <2>2 DEF InOrder
<1>2. QED
  BY <1>1, Invariance, PTL

(***************************************************************************)
(* What the table holds for a key is what the log says was set last, of    *)
(* the keys set since the server started.                                  *)
(***************************************************************************)
THEOREM MapFollowsLog == Spec => []MapMatchesLog
<1>1. KInv => MapMatchesLog
  <2>1. SUFFICES ASSUME KInv, up, holder = {}, NEW i \in replayed + 1 .. Len(log)
                 PROVE  /\ Places(hash_map, log[i].key) # {}
                        /\ Current(log[i].key) =
                              log[LastOf(SetSince(replayed, log[i].key))].val
    BY DEF MapMatchesLog
  <2>2. /\ Len(log) \in Nat /\ replayed \in Nat /\ log \in Seq(Nodes(Client))
        /\ i \in 1 .. Len(log)
    BY <2>1, TypeOfStore DEF KInv
  <2>3. PICK j \in i .. Len(log) :
           /\ log[j].key = log[i].key
           /\ \A k \in j + 1 .. Len(log) : log[k].key # log[j].key
    BY <2>2, LastEntry
  <2>4. j \in replayed + 1 .. Len(log)
    BY <2>1, <2>2, <2>3
  <2>5. MapIs(hash_map, log, Len(log), replayed)
    BY <2>1, MapInvIs DEF KInv, Inserted
  <2>6. Places(hash_map, log[j].key) # {} /\ CurrentIn(hash_map, log[j].key) = log[j].val
    BY <2>3, <2>4, <2>5 DEF MapIs
  <2>7. LastOf(SetSince(replayed, log[i].key)) = j
    <3> DEFINE I == SetSince(replayed, log[i].key)
    <3>1. j \in I
      BY <2>3, <2>4 DEF SetSince
    <3>2. \A k \in I : k \in Nat /\ j >= k
      <4>1. SUFFICES ASSUME NEW k \in I PROVE k \in Nat /\ j >= k
        OBVIOUS
      <4>2. k \in replayed + 1 .. Len(log) /\ log[k].key = log[j].key
        BY <2>3, <4>1 DEF SetSince
      <4>3. k \notin j + 1 .. Len(log)
        BY <2>3, <4>2
      <4>4. QED
        BY <2>2, <2>4, <4>2, <4>3
    <3> HIDE DEF I
    <3>3. LastOf(I) \in I /\ \A k \in I : LastOf(I) >= k
      BY <3>1, <3>2 DEF LastOf
    <3>4. LastOf(I) \in Nat /\ j \in Nat /\ j >= LastOf(I)
      BY <3>1, <3>2, <3>3
    <3>5. LastOf(I) >= j
      BY <3>1, <3>3
    <3>6. LastOf(I) = j
      BY <3>4, <3>5
    <3>7. QED
      BY <3>6 DEF I
  <2>8. QED
    BY <2>3, <2>6, <2>7 DEF Current, CurrentIn
<1>2. QED
  BY <1>1, Invariance, PTL

(***************************************************************************)
(* A set that was answered STORED is in the log and, unless its value is   *)
(* too long to be read back, in the table, whenever the server was killed. *)
(***************************************************************************)
THEOREM StoredIsKept == Spec => []StoredSurvives
<1>1. KInv => StoredSurvives
  <2>1. SUFFICES ASSUME KInv, NEW c \in Client, client[c] = "STORED"
                 PROVE  /\ \E i \in 1 .. Len(log) : log[i].val = c /\ log[i].key = Req[c].key
                        /\ up /\ c \notin Large => Places(hash_map, Req[c].key) # {}
    BY DEF StoredSurvives
  <2>2. PICK i \in 1 .. Len(log) : log[i].val = c /\ log[i].key = Req[c].key
    BY <2>1 DEF KInv, LogInv
  <2>3. ASSUME up, c \notin Large
        PROVE  Places(hash_map, Req[c].key) # {}
    <3>1. /\ Len(log) \in Nat /\ log \in Seq(Nodes(Client)) /\ replayed \in Nat
          /\ MapIs(hash_map, log, Inserted, replayed)
      BY <2>1, <2>3, TypeOfStore, MapInvIs DEF KInv
    <3>2. CASE i <= replayed
      <4>1. i \in 1 .. replayed
        BY <3>1, <3>2
      <4>2. QED
        BY <2>2, <2>3, <3>1, <4>1 DEF MapIs
    <3>3. CASE i > replayed
      <4>1. i \in 1 .. Inserted
        <5>1. CASE holder = {}
          BY <3>1, <5>1 DEF Inserted
        <5>2. CASE holder # {}
          <6>1. PICK h \in holder : log[Len(log)].val = block[h].who
            BY <2>1, <5>2 DEF KInv, LogInv
          <6>2. h \in Working /\ outcome[h] = NoAnswer
            BY <2>1 DEF KInv, AnswerInv
          <6>3. /\ block[h] \in InOrder /\ block[h].sock_fd \in Fd
                /\ block[h].who \in Client /\ block[h].who # NoOne
            BY <2>1, <6>2, BlockFacts DEF KInv, BlockInv
          <6>4. client[block[h].who] # "STORED"
            BY <2>1, <6>3 DEF KInv, PeerInv, InOrder
          <6>5. i # Len(log)
            BY <2>1, <2>2, <6>1, <6>4
          <6>6. QED
            BY <3>1, <5>2, <6>5 DEF Inserted
        <5>3. QED
          BY <5>1, <5>2
      <4>2. PICK l : l = SubSeq(log, 1, Inserted)
        OBVIOUS
      <4>3. /\ Inserted \in Nat /\ Inserted <= Len(log)
            /\ \A k \in 1 .. Inserted : log[k] \in Nodes(Client)
        <5>1. Inserted \in Nat /\ Inserted <= Len(log)
          BY <3>1, <4>1 DEF Inserted
        <5>2. QED
          BY <2>1, <5>1, LogFacts DEF KInv
      <4>4. /\ l \in Seq(Nodes(Client)) /\ Len(l) = Inserted
            /\ \A k \in 1 .. Inserted : l[k] = log[k]
        BY <4>2, <4>3, <3>1
      <4>5. i \in 1 .. Len(l)
        BY <4>1, <4>4
      <4>6. PICK j \in i .. Len(l) :
               /\ l[j].key = l[i].key
               /\ \A k \in j + 1 .. Len(l) : l[k].key # l[j].key
        BY <4>4, <4>5, LastEntry
      <4>7. j \in 1 .. Inserted /\ j \in replayed + 1 .. Inserted
        BY <3>1, <3>3, <4>3, <4>4, <4>5
      <4>8. log[j].key = log[i].key
        BY <4>1, <4>4, <4>6, <4>7
      <4>9. \A k \in j + 1 .. Inserted : log[k].key # log[j].key
        <5>1. \A k \in j + 1 .. Inserted : k \in 1 .. Inserted
          BY <4>3, <4>7
        <5>2. QED
          BY <4>4, <4>6, <4>7, <5>1
      <4>10. Places(hash_map, log[j].key) # {}
        BY <3>1, <4>7, <4>9 DEF MapIs
      <4>11. QED
        BY <2>2, <4>8, <4>10
    <3>4. QED
      BY <3>1, <3>2, <3>3
  <2>4. QED
    BY <2>2, <2>3
<1>2. QED
  BY <1>1, Invariance, PTL

(***************************************************************************)
(* A get finds the value set last of the sets its client knew of, or a     *)
(* later one, if the key asked for is a proper prefix of no key set: then  *)
(* the strncmp() of get_node() compares whole keys.                        *)
(***************************************************************************)
THEOREM ReadsAreFresh == ASSUME PrefixFree PROVE Spec => []FreshRead
<1>1. KInv => FreshRead
  BY DEF KInv, FreshInv, FreshRead, Fresh, Absent
<1>2. QED
  BY <1>1, Invariance, PTL
=============================================================================
