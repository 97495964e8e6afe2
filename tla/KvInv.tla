------------------------------- MODULE KvInv -------------------------------
(***************************************************************************)
(* The inductive invariant of KvServer.  A client's request is in one      *)
(* place at a time: the accept queue, a descriptor nobody has read yet, or *)
(* a block of the hash threads; its descriptor is open until the answer is *)
(* sent; and a set goes from there to the log, to the table and to the     *)
(* client.  TLC checks it as an invariant of the runs kv_safety and        *)
(* kv_live; KvInvProofs proves it.                                         *)
(***************************************************************************)
EXTENDS KvServer

(***************************************************************************)
(* The client threads that have still to read a request, and the hash      *)
(* threads that have one.                                                  *)
(***************************************************************************)
Reading == {t \in ConnThread : client_sock[t] # NoFd /\ t \notin rejected}

Working == {h \in HashThread : block[h] # NoBlock}

(***************************************************************************)
(* The descriptor f is accepted and its request not yet read.              *)
(***************************************************************************)
Unread(f) == \/ \E i \in 1 .. Len(client_queue) : client_queue[i] = f
             \/ \E t \in Reading : client_sock[t] = f

(***************************************************************************)
(* An unread descriptor is open, and waits in one place.                   *)
(***************************************************************************)
FdInv ==
    /\ \A f \in Fd : Unread(f) => conn[f] # NoOne
    /\ \A i, j \in 1 .. Len(client_queue) :
          client_queue[i] = client_queue[j] => i = j
    /\ \A t \in Reading : \A i \in 1 .. Len(client_queue) :
          client_queue[i] # client_sock[t]
    /\ \A t, u \in Reading : client_sock[t] = client_sock[u] => t = u
    /\ \A t \in rejected : client_sock[t] # NoFd

(***************************************************************************)
(* A request in the hands of the hash threads is what its client sent, and *)
(* its descriptor is open, that of its client, and in no other place.      *)
(***************************************************************************)
InOrder ==
    {b \in Block : /\ conn[b.sock_fd] = b.who
                   /\ ~ Unread(b.sock_fd)
                   /\ b.oper = Req[b.who].op
                   /\ b.key = KeyRead(b.who)
                   /\ b.oper = "set" => Len(Req[b.who].key) <= MaxSet}

BlockInv ==
    /\ \A i \in 1 .. Len(hash_queue) : hash_queue[i] \in InOrder
    /\ \A h \in Working : block[h] \in InOrder
    /\ \A i, j \in 1 .. Len(hash_queue) :
          hash_queue[i].sock_fd = hash_queue[j].sock_fd => i = j
    /\ \A h, g \in Working : block[h].sock_fd = block[g].sock_fd => h = g
    /\ \A h \in Working : \A i \in 1 .. Len(hash_queue) :
          hash_queue[i].sock_fd # block[h].sock_fd

(***************************************************************************)
(* A client has one connection, and keeps it until it has its answer.      *)
(***************************************************************************)
PeerInv ==
    /\ \A i \in 1 .. Len(backlog) : client[backlog[i]] \in {"waiting", "gone"}
    /\ \A i, j \in 1 .. Len(backlog) : backlog[i] = backlog[j] => i = j
    /\ \A f \in Fd : conn[f] # NoOne =>
          /\ client[conn[f]] \in {"waiting", "gone", "Error"}
          /\ \A i \in 1 .. Len(backlog) : backlog[i] # conn[f]
    /\ \A f, g \in Fd : conn[f] # NoOne /\ conn[f] = conn[g] => f = g

(***************************************************************************)
(* One thread at most is inside hashmap_mutex, with a set; an answer is    *)
(* of the kind that the request asks for.                                  *)
(***************************************************************************)
AnswerInv ==
    /\ \A h, g \in holder : h = g
    /\ \A h \in holder : /\ h \in Working
                         /\ block[h].oper = "set"
                         /\ outcome[h] = NoAnswer
    /\ \A h \in HashThread : outcome[h] # NoAnswer =>
          /\ h \in Working
          /\ \/ block[h].oper = "get" /\ outcome[h].line \in {"VALUE", "NOTFOUND"}
             \/ block[h].oper = "set" /\ outcome[h] = Say("STORED", NoOne)

(***************************************************************************)
(* The clients whose set will not be logged any more: it is past LogSet.   *)
(***************************************************************************)
Settled ==
    {c \in Client :
        /\ Req[c].op = "set"
        /\ Len(Req[c].key) <= MaxSet
        /\ client[c] # "new"
        /\ \A i \in 1 .. Len(backlog) : backlog[i] # c
        /\ \A f \in Fd : Unread(f) => conn[f] # c
        /\ \A i \in 1 .. Len(hash_queue) : hash_queue[i].who # c
        /\ \A h \in Working :
              block[h].who = c => h \in holder \/ outcome[h] # NoAnswer}

(***************************************************************************)
(* The log has one entry for each set, of the client's own key; a set that *)
(* is answered, or was, has its entry, and the thread inside hashmap_mutex *)
(* has written the last one.                                               *)
(***************************************************************************)
LogInv ==
    /\ \A i \in 1 .. Len(log) : /\ log[i].val \in Settled
                                /\ log[i].key = Req[log[i].val].key
    /\ \A i, j \in 1 .. Len(log) : log[i].val = log[j].val => i = j
    /\ \A h \in holder : /\ replayed < Len(log)
                         /\ log[Len(log)].val = block[h].who
    /\ \A h \in HashThread : outcome[h].line = "STORED" =>
          \E i \in 1 .. Len(log) : log[i].val = block[h].who
    /\ \A c \in Client : client[c] = "STORED" =>
          \E i \in 1 .. Len(log) : log[i].val = c

(***************************************************************************)
(* How much of the log is in the table.                                    *)
(***************************************************************************)
Inserted == IF holder = {} THEN Len(log) ELSE Len(log) - 1

(***************************************************************************)
(* The entry at j is the last of its key that is in the table.             *)
(***************************************************************************)
IsLatest(j) == \A l \in j + 1 .. Inserted : log[l].key # log[j].key

(***************************************************************************)
(* The table has the latest value of every key set since the start, a node *)
(* for every key that was read back, and no key that is not in the log.    *)
(***************************************************************************)
MapInv ==
    up => /\ \A j \in replayed + 1 .. Inserted : IsLatest(j) =>
                /\ Places(hash_map, log[j].key) # {}
                /\ Current(log[j].key) = log[j].val
          /\ \A i \in 1 .. replayed : log[i].val \notin Large =>
                Places(hash_map, log[i].key) # {}
          /\ \A b \in Bucket : \A k \in 1 .. Len(hash_map[b]) :
                \E j \in 1 .. Inserted : log[j].key = hash_map[b][k].key

(***************************************************************************)
(* A server that does not run has no threads and no table.                 *)
(***************************************************************************)
DownInv ==
    /\ ~ up => /\ Working = {}
               /\ holder = {}
               /\ hash_map = EmptyMap
    /\ crashes = 0 => up /\ replayed = 0

(***************************************************************************)
(* No key that is asked for is a proper prefix of a key that is set.       *)
(***************************************************************************)
PrefixFree ==
    \A c, d \in Client :
        /\ Req[c].op = "get" /\ Req[d].op = "set"
        /\ StartsWith(Req[d].key, Req[c].key)
        => Req[d].key = Req[c].key

(***************************************************************************)
(* No set is given up as a "Partial Recieve".                              *)
(***************************************************************************)
NoPartial ==
    \A c \in Client : Req[c].op = "set" =>
        Len(Req[c].key) \notin MaxSet + 1 .. MaxPartial

(***************************************************************************)
(* The value v of client c is no older than the sets c knew of.            *)
(***************************************************************************)
Fresh(c, v) ==
    \E i \in LogIndex(v) :
        /\ log[i].key = Req[c].key
        /\ \A d \in known[c] : \A j \in LogIndex(d) :
              log[j].key = Req[c].key => j <= i

Absent(c) == \A d \in known[c] : Req[d].key # Req[c].key

(***************************************************************************)
(* What a get was answered, or will be, is fresh.                          *)
(***************************************************************************)
FreshInv ==
    /\ \A c \in Client : \A d \in known[c] : client[d] = "STORED"
    /\ PrefixFree /\ crashes = 0 =>
          /\ \A h \in HashThread :
                /\ outcome[h].line = "VALUE" => Fresh(block[h].who, outcome[h].val)
                /\ outcome[h].line = "NOTFOUND" => Absent(block[h].who)
          /\ \A c \in Client :
                /\ client[c] = "VALUE" => Fresh(c, value[c])
                /\ client[c] = "NOTFOUND" => Absent(c)

(***************************************************************************)
(* The inductive invariant: every request handed from main() to the client *)
(* threads and on to the hash threads is in one place, and the log, the    *)
(* table and the answers follow each other, whenever the server is killed. *)
(***************************************************************************)
KInv == /\ TypeOK
        /\ FdInv
        /\ BlockInv
        /\ PeerInv
        /\ AnswerInv
        /\ LogInv
        /\ MapInv
        /\ DownInv
        /\ FreshInv

(***************************************************************************)
(* Of a server that gives no set up: it sends no error, and every node of  *)
(* its table has a value.  KvStoreProofs proves it next to KInv.           *)
(***************************************************************************)
Calm ==
    /\ rejected = {}
    /\ \A c \in Client : client[c] # "Error"
    /\ \A b \in Bucket : \A k \in 1 .. Len(hash_map[b]) :
          hash_map[b][k].val # NoOne
=============================================================================
