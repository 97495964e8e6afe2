------------------------------ MODULE KvServer ------------------------------
(***************************************************************************)
(* The key-value server of memcache_lite/server_mt.c with its clients      *)
(* (client.c): main() accepts connections and hands their descriptors to   *)
(* the pool of client_threads; handle_client() reads a request and hands   *)
(* it to the pool of hash_threads; handle_hash() works on the log and the  *)
(* hash map, answers and closes the connection.  The server may be killed  *)
(* and started again on the log it left.                                   *)
(*                                                                         *)
(* Both pools are the abstract WorkPool, which WorkQueue implements.  A    *)
(* request fits in one TCP segment and arrives whole.                      *)
(***************************************************************************)
EXTENDS HashMap, FiniteSets

CONSTANTS
    Client,     \* the client processes, each with one request
    Req,        \* Req[c]: the operation and the key client c was given
    Mortal,     \* the clients that may be killed while they wait
    Large,      \* the set clients whose value takes 700 bytes or more
    NumFd,      \* how many connections the server can have open
    ConnThread, \* the threads of conn_pool
    HashThread, \* the threads of hash_pool
    Junk,       \* a value that no client ever sent
    NoOne,      \* no client, and no value
    MaxCrash    \* bound: how often the server is killed

(***************************************************************************)
(* Of a set client the value is the client itself: no two values are equal.*)
(* A "none" client finds after it has connected that it was called with    *)
(* wrong arguments, such as a value longer than its size, and exits.       *)
(***************************************************************************)
ASSUME ReqAssumption ==
    \A c \in Client : /\ Req[c].op \in {"get", "set", "none"}
                      /\ Req[c].key \in Seq(0 .. 127) \ {<<>>}
ASSUME ValueAssumption == Junk \notin Client /\ NoOne \notin Client \cup {Junk}
ASSUME BoundAssumption == NumFd \in Nat /\ MaxCrash \in Nat

Fd == 1 .. NumFd

NoFd == 0

Value == Client \cup {Junk, NoOne}

(***************************************************************************)
(* The messages of the server: the status line and, with VALUE, a value.   *)
(***************************************************************************)
Answer == [line : {"VALUE", "NOTFOUND", "STORED", "Error", "none"}, val : Value]

Say(line, val) == [line |-> line, val |-> val]

NoAnswer == Say("none", NoOne)

VARIABLES
    up,           \* whether the server runs
    backlog,      \* clients whose connection main() has not accepted
    conn,         \* conn[f]: the client at the other end of descriptor f
    client_queue, \* descriptors waiting for a client thread
    client_sock,  \* client_sock[t]: the descriptor thread t serves
    rejected,     \* client threads that have closed their descriptor and
                  \*   not yet sent the error message
    hash_queue,   \* requests waiting for a hash thread
    block,        \* block[h]: the request thread h works on
    holder,       \* the threads inside hashmap_mutex between fflush() and
                  \*   insert_node(): none or one
    outcome,      \* outcome[h]: the answer thread h is about to send, or
                  \*   NoAnswer
    log,          \* the file server_run.log
    hash_map,     \* the table
    replayed,     \* how much of the log the running server read at its start
    client,       \* client[c]: "new", "waiting", "gone" or the line received
    value,        \* value[c]: the value that came with a VALUE
    crashes,      \* how often the server was killed
    known         \* history: whose STORED preceded the request of client c

pools == <<client_queue, client_sock, hash_queue, block>>
store == <<log, hash_map, replayed>>
ends == <<client, value, known>>
vars == <<up, backlog, conn, pools, rejected, holder, outcome, store, ends,
          crashes>>

Block == [sock_fd : Fd, oper : {"get", "set"}, key : Seq(0 .. 127),
          who : Client]

NoBlock == [sock_fd |-> NoFd, oper |-> "get", key |-> <<>>, who |-> NoOne]

ConnPool == INSTANCE WorkPool WITH Thread <- ConnThread, Item <- Fd,
                None <- NoFd, queue <- client_queue, item <- client_sock

HashPool == INSTANCE WorkPool WITH Thread <- HashThread, Item <- Block,
                None <- NoBlock, queue <- hash_queue, item <- block

Init ==
    /\ up = TRUE
    /\ backlog = <<>>
    /\ conn = [f \in Fd |-> NoOne]
    /\ ConnPool!Init
    /\ HashPool!Init
    /\ rejected = {}
    /\ holder = {}
    /\ outcome = [h \in HashThread |-> NoAnswer]
    /\ log = <<>>
    /\ hash_map = EmptyMap
    /\ replayed = 0
    /\ client = [c \in Client |-> "new"]
    /\ value = [c \in Client |-> NoOne]
    /\ crashes = 0
    /\ known = [c \in Client |-> {}]
-----------------------------------------------------------------------------
(* client.c *)

(***************************************************************************)
(* The client connects and sends its request, or exits at once.            *)
(***************************************************************************)
Connect(c) ==
    /\ client[c] = "new"
    /\ up
    /\ backlog' = Append(backlog, c)
    /\ client' = [client EXCEPT ![c] = IF Req[c].op = "none" THEN "gone"
                                       ELSE "waiting"]
    /\ known' = [known EXCEPT ![c] = {d \in Client : client[d] = "STORED"}]
    /\ UNCHANGED <<up, conn, pools, rejected, holder, outcome, store, value,
                   crashes>>

ConnectRefused(c) ==
    /\ client[c] = "new"
    /\ ~ up
    /\ client' = [client EXCEPT ![c] = "gone"]
    /\ UNCHANGED <<up, backlog, conn, pools, rejected, holder, outcome, store,
                   value, known, crashes>>

(***************************************************************************)
(* A client is killed; what it has sent can still be read.                 *)
(***************************************************************************)
ClientKilled(c) ==
    /\ c \in Mortal
    /\ client[c] = "waiting"
    /\ client' = [client EXCEPT ![c] = "gone"]
    /\ UNCHANGED <<up, backlog, conn, pools, rejected, holder, outcome, store,
                   value, known, crashes>>

(***************************************************************************)
(* send() on descriptor f.  A client reads one message and exits; on a     *)
(* closed descriptor, or to a client that has left, nothing arrives.       *)
(***************************************************************************)
Send(f, msg) ==
    IF conn[f] # NoOne /\ client[conn[f]] = "waiting"
    THEN /\ client' = [client EXCEPT ![conn[f]] = msg.line]
         /\ value' = [value EXCEPT ![conn[f]] = msg.val]
    ELSE UNCHANGED <<client, value>>

-----------------------------------------------------------------------------
(* main() *)

(***************************************************************************)
(* accept() gives the lowest free descriptor.                              *)
(***************************************************************************)
Accept ==
    \E f \in Fd :
        /\ up
        /\ backlog # <<>>
        /\ conn[f] = NoOne
        /\ \A g \in Fd : conn[g] = NoOne => f <= g
        /\ conn' = [conn EXCEPT ![f] = Head(backlog)]
        /\ backlog' = Tail(backlog)
        /\ ConnPool!Put(f)
        /\ UNCHANGED <<up, hash_queue, block, rejected, holder, outcome, store,
                       ends, crashes>>

-----------------------------------------------------------------------------
(* client_threads(), handle_client() *)

TakeConn(t) ==
    /\ up
    /\ ConnPool!Take(t)
    /\ UNCHANGED <<up, backlog, conn, rejected, hash_queue, block, holder,
                   outcome, store, ends, crashes>>

(***************************************************************************)
(* Thread t is about to read the request of a client of operation op.      *)
(***************************************************************************)
Reads(t, op) ==
    /\ up
    /\ client_sock[t] # NoFd
    /\ t \notin rejected
    /\ conn[client_sock[t]] # NoOne
    /\ Req[conn[client_sock[t]]].op = op

(***************************************************************************)
(* recv() returns 0: the error message goes to nobody, and the descriptor  *)
(* is not closed.                                                          *)
(***************************************************************************)
NoOperation(t) ==
    /\ Reads(t, "none")
    /\ ConnPool!Finish(t)
    /\ UNCHANGED <<up, backlog, conn, rejected, hash_queue, block, holder,
                   outcome, store, ends, crashes>>

(***************************************************************************)
(* The buffer of a get client has room for eight characters of the key.    *)
(***************************************************************************)
MaxGet == 8

KeyRead(c) == SubSeq(Req[c].key, 1, IF Len(Req[c].key) < MaxGet
                                    THEN Len(Req[c].key) ELSE MaxGet)

(***************************************************************************)
(* The request is read and queued for the hash threads.                    *)
(***************************************************************************)
Submit(t, op) ==
    LET f == client_sock[t] IN
    /\ HashPool!Put([sock_fd |-> f, oper |-> op, key |-> KeyRead(conn[f]),
                     who |-> conn[f]])
    /\ ConnPool!Finish(t)
    /\ UNCHANGED <<up, backlog, rejected, holder, outcome, store, ends, crashes>>

(***************************************************************************)
(* Faulty variant: the descriptor is closed with the request still queued. *)
(***************************************************************************)
ReadGet_Closes(t) ==
    /\ Reads(t, "get")
    /\ Submit(t, "get")
    /\ conn' = [conn EXCEPT ![client_sock[t]] = NoOne]

ReadGet(t) ==
    /\ Reads(t, "get")
    /\ Submit(t, "get")
    /\ conn' = conn

(***************************************************************************)
(* The message of a set client is 33 + L + 2 + value + 2 bytes for a key of*)
(* L characters, of which the client sends 41 + value.  parse_body() needs *)
(* value + 2 bytes behind the key: it has them up to L = 6, gets one or    *)
(* two too few for 7 and 8, and for a longer key not even value bytes, so  *)
(* that it waits in recv() while the client waits for the answer.          *)
(***************************************************************************)
MaxSet == 6

MaxPartial == 8

ReadSet(t) ==
    /\ Reads(t, "set")
    /\ Len(Req[conn[client_sock[t]]].key) <= MaxSet
    /\ Submit(t, "set")
    /\ conn' = conn

(***************************************************************************)
(* "Partial Recieve": parse_body() closes the descriptor, and handle_client*)
(* sends the error message on it afterwards.                               *)
(***************************************************************************)
PartialReceive(t) ==
    /\ Reads(t, "set")
    /\ Len(Req[conn[client_sock[t]]].key) \in MaxSet + 1 .. MaxPartial
    /\ conn' = [conn EXCEPT ![client_sock[t]] = NoOne]
    /\ rejected' = rejected \cup {t}
    /\ client' = [client EXCEPT ![conn[client_sock[t]]] = "gone"]
    /\ UNCHANGED <<up, backlog, pools, holder, outcome, store, value, known,
                   crashes>>

SendError(t) ==
    /\ up
    /\ t \in rejected
    /\ rejected' = rejected \ {t}
    /\ Send(client_sock[t], Say("Error", NoOne))
    /\ ConnPool!Finish(t)
    /\ UNCHANGED <<up, backlog, conn, hash_queue, block, holder, outcome,
                   store, known, crashes>>

-----------------------------------------------------------------------------
(* hash_threads(), handle_hash() *)

TakeBlock(h) ==
    /\ up
    /\ HashPool!Take(h)
    /\ UNCHANGED <<up, backlog, conn, client_queue, client_sock, rejected,
                   holder, outcome, store, ends, crashes>>

(***************************************************************************)
(* Thread h has a request of operation op and no answer to it yet.         *)
(***************************************************************************)
Works(h, op) ==
    /\ up
    /\ block[h] # NoBlock
    /\ block[h].oper = op
    /\ outcome[h] = NoAnswer
    /\ UNCHANGED <<up, backlog, conn, pools, rejected, replayed, ends, crashes>>

(***************************************************************************)
(* get_node() under hashmap_mutex.                                         *)
(***************************************************************************)
LookUp(h) ==
    /\ Works(h, "get")
    /\ holder = {}
    /\ \/ \E n \in get_node(hash_map, block[h].key) :
             outcome' = [outcome EXCEPT ![h] = Say("VALUE", n.val)]
       \/ /\ get_node(hash_map, block[h].key) = {}
          /\ outcome' = [outcome EXCEPT ![h] = Say("NOTFOUND", NoOne)]
    /\ UNCHANGED <<holder, log, hash_map>>

(***************************************************************************)
(* fprintf() and fflush() to the log, then insert_node(), in one critical  *)
(* section; a crash can come between them.  Faulty variant: the entry is   *)
(* written before its value is known.                                      *)
(***************************************************************************)
LogSet_NoValue(h) ==
    /\ Works(h, "set")
    /\ holder = {}
    /\ holder' = {h}
    /\ log' = Append(log, [key |-> block[h].key, val |-> NoOne])
    /\ UNCHANGED <<outcome, hash_map>>

LogSet(h) ==
    /\ Works(h, "set")
    /\ holder = {}
    /\ holder' = {h}
    /\ log' = Append(log, [key |-> block[h].key, val |-> block[h].who])
    /\ UNCHANGED <<outcome, hash_map>>

Insert(h) ==
    /\ Works(h, "set")
    /\ holder = {h}
    /\ holder' = {}
    /\ hash_map' = insert_node(hash_map, [key |-> block[h].key,
                                          val |-> block[h].who])
    /\ outcome' = [outcome EXCEPT ![h] = Say("STORED", NoOne)]
    /\ log' = log

(***************************************************************************)
(* The answer is sent and the connection closed.  Faulty variant: not if   *)
(* the client has left.                                                    *)
(***************************************************************************)
Reply_CloseIfSent(h) ==
    /\ up
    /\ block[h] # NoBlock
    /\ outcome[h] # NoAnswer
    /\ Send(block[h].sock_fd, outcome[h])
    /\ conn' = IF client' = client THEN conn
               ELSE [conn EXCEPT ![block[h].sock_fd] = NoOne]
    /\ outcome' = [outcome EXCEPT ![h] = NoAnswer]
    /\ HashPool!Finish(h)
    /\ UNCHANGED <<up, backlog, client_queue, client_sock, rejected, holder,
                   store, known, crashes>>

Reply(h) ==
    /\ up
    /\ block[h] # NoBlock
    /\ outcome[h] # NoAnswer
    /\ Send(block[h].sock_fd, outcome[h])
    /\ conn' = [conn EXCEPT ![block[h].sock_fd] = NoOne]
    /\ outcome' = [outcome EXCEPT ![h] = NoAnswer]
    /\ HashPool!Finish(h)
    /\ UNCHANGED <<up, backlog, client_queue, client_sock, rejected, holder,
                   store, known, crashes>>

-----------------------------------------------------------------------------
(***************************************************************************)
(* The server is killed.  What fflush() handed to the system stays in the  *)
(* log; everybody connected sees the connection closed.                    *)
(***************************************************************************)
Crash ==
    /\ up
    /\ crashes < MaxCrash
    /\ crashes' = crashes + 1
    /\ up' = FALSE
    /\ backlog' = <<>>
    /\ conn' = [f \in Fd |-> NoOne]
    /\ client_queue' = <<>>
    /\ client_sock' = [t \in ConnThread |-> NoFd]
    /\ rejected' = {}
    /\ hash_queue' = <<>>
    /\ block' = [h \in HashThread |-> NoBlock]
    /\ holder' = {}
    /\ outcome' = [h \in HashThread |-> NoAnswer]
    /\ hash_map' = EmptyMap
    /\ client' = [c \in Client |-> IF client[c] = "waiting" THEN "gone"
                                   ELSE client[c]]
    /\ UNCHANGED <<log, replayed, value, known>>

(***************************************************************************)
(* main() up to its accept loop: the table is rebuilt from the log, with   *)
(* whatever one uninitialised buffer holds in the place of the values.     *)
(***************************************************************************)
Restart ==
    /\ ~ up
    /\ up' = TRUE
    /\ \E g \in Client \cup {Junk} :
          hash_map' = init_hash_from_log(log, Large, g)
    /\ replayed' = Len(log)
    /\ UNCHANGED <<backlog, conn, pools, rejected, holder, outcome, log, ends,
                   crashes>>

-----------------------------------------------------------------------------
handle_client(t) ==
    \/ NoOperation(t)
    \/ ReadGet(t)
    \/ ReadSet(t)
    \/ PartialReceive(t)
    \/ SendError(t)

handle_hash(h) == LookUp(h) \/ LogSet(h) \/ Insert(h) \/ Reply(h)

Next ==
    \/ \E c \in Client : Connect(c) \/ ConnectRefused(c) \/ ClientKilled(c)
    \/ Accept
    \/ \E t \in ConnThread : TakeConn(t) \/ handle_client(t)
    \/ \E h \in HashThread : TakeBlock(h) \/ handle_hash(h)
    \/ Crash
    \/ Restart

Spec == Init /\ [][Next]_vars

(***************************************************************************)
(* Threads that can run do.  Of a pool, some thread that could take work   *)
(* does (WorkQueue); a thread that waits for hashmap_mutex can be passed   *)
(* over as long as others want it.  Clients need not start, nor the server *)
(* be restarted.                                                           *)
(***************************************************************************)
FairSpec ==
    /\ Spec
    /\ WF_vars(Accept)
    /\ WF_vars(\E t \in ConnThread : TakeConn(t))
    /\ WF_vars(\E h \in HashThread : TakeBlock(h))
    /\ \A t \in ConnThread : WF_vars(handle_client(t))
    /\ \A h \in HashThread : WF_vars(handle_hash(h))
-----------------------------------------------------------------------------
(* Properties *)

(***************************************************************************)
(* The types of the variables: in particular every log entry carries a key *)
(* and the value of a client.                                              *)
(***************************************************************************)
TypeOK ==
    /\ up \in BOOLEAN
    /\ backlog \in Seq(Client)
    /\ conn \in [Fd -> Client \cup {NoOne}]
    /\ client_queue \in Seq(Fd)
    /\ client_sock \in [ConnThread -> Fd \cup {NoFd}]
    /\ rejected \subseteq ConnThread
    /\ hash_queue \in Seq(Block)
    /\ block \in [HashThread -> Block \cup {NoBlock}]
    /\ holder \subseteq HashThread
    /\ outcome \in [HashThread -> Answer]
    /\ log \in Seq([key : Seq(0 .. 127), val : Client])
    /\ hash_map \in [Bucket -> Seq([key : Seq(0 .. 127), val : Value])]
    /\ replayed \in 0 .. Len(log)
    /\ client \in [Client -> {"new", "waiting", "gone", "VALUE", "NOTFOUND",
                              "STORED", "Error"}]
    /\ value \in [Client -> Value]
    /\ crashes \in 0 .. MaxCrash
    /\ known \in [Client -> SUBSET Client]

Pending == {hash_queue[i] : i \in 1 .. Len(hash_queue)}
           \cup {block[h] : h \in {g \in HashThread : block[g] # NoBlock}}

(***************************************************************************)
(* The descriptor of a request in the hands of the hash threads stays open *)
(* and stays that of the client who made the request, although accept()    *)
(* hands closed ones out again: handle_hash() answers the client it should.*)
(***************************************************************************)
AnswersOwnClient == \A b \in Pending : conn[b.sock_fd] = b.who

SetSince(i, key) == {j \in i + 1 .. Len(log) : log[j].key = key}

LastOf(I) == CHOOSE i \in I : \A j \in I : i >= j

Current(key) == hash_map[hash_string(key)][FirstOf(Places(hash_map, key))].val

(***************************************************************************)
(* What the table holds for a key is what the log says was set last, for   *)
(* every key set since the server started, whenever hashmap_mutex is free. *)
(***************************************************************************)
MapMatchesLog ==
    up /\ holder = {} =>
        \A i \in replayed + 1 .. Len(log) :
            /\ Places(hash_map, log[i].key) # {}
            /\ Current(log[i].key) =
                   log[LastOf(SetSince(replayed, log[i].key))].val

(***************************************************************************)
(* A client that was told STORED finds its key in the log and, unless its  *)
(* value is too long to be read back, in the table, whatever crashes       *)
(* came between.                                                           *)
(***************************************************************************)
StoredSurvives ==
    \A c \in Client : client[c] = "STORED" =>
        /\ \E i \in 1 .. Len(log) : log[i].val = c /\ log[i].key = Req[c].key
        /\ up /\ c \notin Large => Places(hash_map, Req[c].key) # {}

LogIndex(c) == {i \in 1 .. Len(log) : log[i].val = c}

(***************************************************************************)
(* A get that found a value found one that was set for its key, and none   *)
(* older than the last set acknowledged before the client connected; a get *)
(* that found nothing missed no such set.  (Of a server that has not been  *)
(* restarted: values do not survive; and of keys of which none asked for   *)
(* is a prefix of one that is set, as get_node() would take the value of   *)
(* the longer one.)                                                        *)
(***************************************************************************)
FreshRead ==
    crashes = 0 => \A c \in Client :
        /\ client[c] = "VALUE" =>
              \E i \in LogIndex(value[c]) :
                 /\ log[i].key = Req[c].key
                 /\ \A d \in known[c] : \A j \in LogIndex(d) :
                        log[j].key = Req[c].key => j <= i
        /\ client[c] = "NOTFOUND" =>
              \A d \in known[c] : Req[d].key # Req[c].key

(***************************************************************************)
(* The clients whose request handle_client() can read or turn down.        *)
(***************************************************************************)
Readable == {c \in Client : \/ Req[c].op = "get"
                            \/ Req[c].op = "set" /\ Len(Req[c].key) <= MaxPartial}

Open(c) == \E f \in Fd : conn[f] = c

(***************************************************************************)
(* Every client with a get, or with a set whose key is at most eight       *)
(* characters long, gets a message or finds the connection closed, and the *)
(* server closes its descriptor, whether it waits or is killed first, and  *)
(* even if some client thread is stuck with a longer key.  (The message    *)
(* may be the error of another client, sent on the descriptor number that  *)
(* parse_body() had closed.)                                               *)
(***************************************************************************)
AllServed ==
    \A c \in Readable :
        client[c] = "waiting" \/ Open(c) ~> client[c] # "waiting" /\ ~ Open(c)

(***************************************************************************)
(* The answer decided for client c: sent, or in the hands of a hash thread.*)
(***************************************************************************)
Decided(c) ==
    LET H == {h \in HashThread : block[h].who = c /\ outcome[h] # NoAnswer}
    IN  IF H # {} THEN outcome[CHOOSE h \in H : TRUE]
        ELSE IF client[c] \in {"new", "waiting", "gone"} THEN NoAnswer
        ELSE Say(client[c], value[c])

Called == {c \in Client : client[c] # "new"}

Table == [k \in {Req[c].key : c \in Client} |->
             IF Places(hash_map, k) = {} THEN NoOne ELSE Current(k)]

Applied == {c \in Client : LogIndex(c) # {}} \ {block[h].who : h \in holder}

Decisions == [c \in Client |-> Decided(c)]

Store == INSTANCE KvStore WITH running <- up, called <- Called, table <- Table,
             applied <- Applied, ans <- Decisions

(***************************************************************************)
(* The server with its two pools, its descriptors, its log and its chains  *)
(* is a store in which each request takes effect at one instant between    *)
(* its call and its answer, and it survives a kill as KvStore says (keys   *)
(* of up to six characters, none a prefix of another).                     *)
(***************************************************************************)
ImplementsStore == Store!Spec

(***************************************************************************)
(* "reconstruct status as of last session. last updated value retained for *)
(* multiple set for same key": after a restart too, a key has the value    *)
(* set last.                                                               *)
(***************************************************************************)
LastValueRetained ==
    up /\ holder = {} =>
        \A i \in 1 .. Len(log) :
            Places(hash_map, log[i].key) # {} =>
                Current(log[i].key) = log[LastOf(SetSince(0, log[i].key))].val
=============================================================================
