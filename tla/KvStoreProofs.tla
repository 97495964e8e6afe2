--------------------------- MODULE KvStoreProofs ---------------------------
(***************************************************************************)
(* The key-value server implements the store of KvStore, if no set is      *)
(* given up half read and no key asked for is a proper prefix of a key     *)
(* that is set.                                                            *)
(***************************************************************************)
EXTENDS KvInvProofs

-----------------------------------------------------------------------------
(* Calm *)

(***************************************************************************)
(* Without a set to give up no error is sent, and every node of the table  *)
(* has a value.                                                            *)
(***************************************************************************)
LEMMA CalmStep ==
    ASSUME KInv, Calm, NoPartial, Next
    PROVE  Calm'
<1> DEFINE Full == \A b \in Bucket : \A k \in 1 .. Len(hash_map[b]) :
                      hash_map[b][k].val # NoOne
           Quiet == \A c \in Client : client[c] # "Error"
<1>1. rejected = {} /\ Quiet /\ Full /\ TypeOK
  BY DEF Calm, KInv
<1>2. SUFFICES rejected' = {} /\ Quiet' /\ Full'
  BY DEF Calm
<1>3. ASSUME UNCHANGED <<rejected, client, hash_map>>
      PROVE  rejected' = {} /\ Quiet' /\ Full'
  BY <1>1, <1>3
<1>4. ASSUME NEW c \in Client, Connect(c) \/ ConnectRefused(c) \/ ClientKilled(c)
      PROVE  rejected' = {} /\ Quiet' /\ Full'
  <2>1. UNCHANGED <<rejected, hash_map>>
    BY <1>4 DEF Connect, ConnectRefused, ClientKilled, store
  <2>2. Quiet'
    BY <1>1, <1>4 DEF Connect, ConnectRefused, ClientKilled, TypeOK
  <2>3. QED
    BY <1>1, <2>1, <2>2
<1>5. CASE Accept
  BY <1>3, <1>5 DEF Accept, store, ends
<1>6. ASSUME NEW t \in ConnThread, TakeConn(t) \/ NoOperation(t) \/ ReadGet(t) \/ ReadSet(t)
      PROVE  rejected' = {} /\ Quiet' /\ Full'
  BY <1>3, <1>6 DEF TakeConn, NoOperation, ReadGet, ReadSet, Submit, store, ends
<1>7. ASSUME NEW t \in ConnThread
      PROVE  ~ PartialReceive(t) /\ ~ SendError(t)
  <2>1. ASSUME Reads(t, "set")
        PROVE  conn[client_sock[t]] \in Client /\ Req[conn[client_sock[t]]].op = "set"
    BY <1>1, <2>1 DEF Reads, TypeOK
  <2>2. QED
    BY <1>1, <2>1 DEF PartialReceive, SendError, NoPartial
<1>8. ASSUME NEW h \in HashThread, TakeBlock(h) \/ LookUp(h) \/ LogSet(h)
      PROVE  rejected' = {} /\ Quiet' /\ Full'
  BY <1>3, <1>8 DEF TakeBlock, LookUp, LogSet, Works, store, ends
<1>9. ASSUME NEW h \in HashThread, Insert(h)
      PROVE  rejected' = {} /\ Quiet' /\ Full'
  <2> DEFINE n == [key |-> block[h].key, val |-> block[h].who]
  <2>1. /\ UNCHANGED <<rejected, client>> /\ h \in Working
        /\ hash_map' = insert_node(hash_map, n)
    BY <1>9 DEF Insert, Works, Working, ends
  <2>2. n \in Nodes(Value) /\ n.val # NoOne
    BY <1>1, <2>1, BlockFacts DEF Nodes, Value
  <2>3. hash_map \in MapOf(Value)
    BY <1>1, TypeOfStore
  <2> HIDE DEF n
  <2>4. \A b \in Bucket : \A k \in 1 .. Len(hash_map'[b]) :
           hash_map'[b][k] = n \/ \E j \in 1 .. Len(hash_map[b]) : hash_map'[b][k] = hash_map[b][j]
    BY <2>1, <2>2, <2>3, InsertNodes
  <2>5. Full'
    BY <1>1, <2>2, <2>4
  <2>6. QED
    BY <1>1, <2>1, <2>5
<1>10. ASSUME NEW h \in HashThread, Reply(h)
       PROVE  rejected' = {} /\ Quiet' /\ Full'
  <2>1. /\ UNCHANGED <<rejected, hash_map>> /\ Send(block[h].sock_fd, outcome[h])
        /\ block[h].sock_fd \in Fd /\ outcome[h] # NoAnswer
    BY <1>1, <1>10 DEF Reply, store, TypeOK, Block
  <2>2. outcome[h].line # "Error"
    BY <2>1 DEF KInv, AnswerInv, Say
  <2>3. \A c \in Client : client'[c] = client[c] \/ client'[c] = outcome[h].line
    BY <1>1, <2>1, SendEffect
  <2>4. QED
    BY <1>1, <2>1, <2>2, <2>3
<1>11. CASE Crash
  <2>1. Full'
    BY <1>11 DEF Crash, EmptyMap
  <2>2. QED
    BY <1>1, <1>11, <2>1 DEF Crash
<1>12. CASE Restart
  <2>1. PICK g \in Client \cup {Junk} : hash_map' = init_hash_from_log(log, Large, g)
    BY <1>12 DEF Restart
  <2>2. hash_map' \in MapOf({g}) /\ g # NoOne
    BY <1>1, <2>1, TableFromLog, TypeOfStore, ValueAssumption DEF Rebuilt
  <2>3. Full'
    <3>1. SUFFICES ASSUME NEW b \in Bucket, NEW k \in 1 .. Len(hash_map'[b])
                   PROVE  hash_map'[b][k].val # NoOne
      OBVIOUS
    <3>2. hash_map'[b] \in Seq(Nodes({g}))
      BY <2>2 DEF MapOf
    <3>3. hash_map'[b][k] \in Nodes({g})
      BY <3>2, ElementOfSeq
    <3>4. QED
      BY <2>2, <3>3 DEF Nodes
  <2>4. QED
    BY <1>1, <1>12, <2>3 DEF Restart, ends
<1>13. QED
  BY <1>4, <1>5, <1>6, <1>7, <1>8, <1>9, <1>10, <1>11, <1>12 DEF Next, handle_client, handle_hash

(***************************************************************************)
(* The started server is calm.                                             *)
(***************************************************************************)
LEMMA CalmInit == Init => Calm
  BY DEF Init, Calm, EmptyMap

(***************************************************************************)
(* A server that gives no set up is always calm.                           *)
(***************************************************************************)
LEMMA AlwaysCalm == ASSUME NoPartial PROVE Spec => []Calm
<1>1. ASSUME KInv, Calm, [Next]_vars PROVE Calm'
  <2>1. CASE UNCHANGED vars
    BY <1>1, <2>1 DEF Calm, vars, store, ends
  <2>2. QED
    BY <1>1, <2>1, CalmStep
<1>2. QED
  BY <1>1, CalmInit, Invariance, PTL DEF Spec

-----------------------------------------------------------------------------
(* The answers decided *)

(***************************************************************************)
(* Decided(c) of given hash threads and clients.                           *)
(***************************************************************************)
Active(bl, out, c) == {h \in HashThread : bl[h].who = c /\ out[h] # NoAnswer}

One(H) == CHOOSE h \in H : TRUE

Unanswered == {"new", "waiting", "gone"}

DecidedOf(bl, out, cl, val, c) ==
    IF Active(bl, out, c) # {} THEN out[One(Active(bl, out, c))]
    ELSE IF cl[c] \in Unanswered THEN NoAnswer
    ELSE Say(cl[c], val[c])

(***************************************************************************)
(* The decided answers, before and after a step, in terms of the variables *)
(* of that state.                                                          *)
(***************************************************************************)
LEMMA DecisionsAre ==
    /\ Decisions = [c \in Client |-> DecidedOf(block, outcome, client, value, c)]
    /\ Decisions' = [c \in Client |-> DecidedOf(block', outcome', client', value', c)]
<1>1. ASSUME NEW c
      PROVE  /\ Decided(c) = DecidedOf(block, outcome, client, value, c)
             /\ Decided(c)' = DecidedOf(block', outcome', client', value', c)
  BY DEF Decided, DecidedOf, Active, One, Unanswered
<1>2. QED
  BY <1>1 DEF Decisions

(***************************************************************************)
(* At most one hash thread has an answer for a client, and its client has  *)
(* not been answered.                                                      *)
(***************************************************************************)
LEMMA ActiveOne ==
    ASSUME KInv, NEW c \in Client, NEW h \in Working, block[h].who = c
    PROVE  /\ \A g \in Working : block[g].who = c => g = h
           /\ \A g \in Active(block, outcome, c) : g = h
           /\ client[c] \in {"waiting", "gone", "Error"}
<1>1. TypeOK /\ BlockInv /\ PeerInv /\ AnswerInv
  BY DEF KInv
<1>2. \A g \in Working : /\ block[g].sock_fd \in Fd
                         /\ conn[block[g].sock_fd] = block[g].who
                         /\ block[g].who # NoOne
  <2>1. SUFFICES ASSUME NEW g \in Working
                 PROVE  /\ block[g].sock_fd \in Fd
                        /\ conn[block[g].sock_fd] = block[g].who
                        /\ block[g].who # NoOne
    OBVIOUS
  <2>2. block[g] \in InOrder
    BY <1>1 DEF BlockInv
  <2>3. QED
    BY <1>1, <2>2, BlockFacts DEF InOrder
<1>3. \A g \in Working : block[g].who = c => g = h
  BY <1>1, <1>2 DEF PeerInv, BlockInv
<1>4. \A g \in Active(block, outcome, c) : g \in Working /\ block[g].who = c
  BY <1>1 DEF Active, AnswerInv
<1>5. client[c] \in {"waiting", "gone", "Error"}
  BY <1>1, <1>2 DEF PeerInv
<1>6. QED
  BY <1>3, <1>4, <1>5

(***************************************************************************)
(* What changes no answer of a hash thread, and no line but for that of a  *)
(* client that has none, changes no decision.                              *)
(***************************************************************************)
LEMMA SameDecisions ==
    ASSUME \A c \in Client : Active(block', outcome', c) = Active(block, outcome, c),
           \A h \in HashThread : outcome[h] # NoAnswer => outcome'[h] = outcome[h],
           \A c \in Client : \/ client'[c] = client[c] /\ value'[c] = value[c]
                             \/ client[c] \in Unanswered /\ client'[c] \in Unanswered
    PROVE  Decisions' = Decisions
<1>1. ASSUME NEW c \in Client
      PROVE  DecidedOf(block', outcome', client', value', c)
                = DecidedOf(block, outcome, client, value, c)
  <2> DEFINE H == Active(block, outcome, c)
  <2>1. Active(block', outcome', c) = H
    OBVIOUS
  <2>2. H # {} => One(H) \in HashThread /\ outcome[One(H)] # NoAnswer
    BY DEF One, Active
  <2>3. CASE H # {}
    BY <2>1, <2>2, <2>3 DEF DecidedOf
  <2>4. CASE H = {}
    BY <2>1, <2>4 DEF DecidedOf
  <2>5. QED
    BY <2>3, <2>4
<1>2. QED
  BY <1>1, DecisionsAre

-----------------------------------------------------------------------------
(* The table and the durable sets *)

(***************************************************************************)
(* What does not change the table, the log or hashmap_mutex changes        *)
(* neither the abstract table nor the set of durable sets.                 *)
(***************************************************************************)
LEMMA SameStore ==
    /\ hash_map' = hash_map => Table' = Table
    /\ UNCHANGED <<log, holder, block>> => Applied' = Applied
    /\ client' = client => Called' = Called
<1>1. hash_map' = hash_map => Table' = Table
  BY DEF Table, Current
<1>2. UNCHANGED <<log, holder, block>> => Applied' = Applied
  BY DEF Applied, LogIndex
<1>3. client' = client => Called' = Called
  BY DEF Called
<1>4. QED
  BY <1>1, <1>2, <1>3

(***************************************************************************)
(* The durable sets: those in the log, but for the one that is about to be *)
(* inserted.                                                               *)
(***************************************************************************)
LEMMA AppliedAre ==
    /\ \A c \in Client : c \in Applied <=>
          /\ \E i \in 1 .. Len(log) : log[i].val = c
          /\ \A h \in holder : block[h].who # c
    /\ \A c \in Client : c \in Applied' <=>
          /\ \E i \in 1 .. Len(log') : log'[i].val = c
          /\ \A h \in holder' : block'[h].who # c
    /\ Applied \subseteq Client /\ Applied' \subseteq Client
  BY DEF Applied, LogIndex

(***************************************************************************)
(* The abstract table: a function from the keys that are asked for or set. *)
(***************************************************************************)
LEMMA TableIs ==
    /\ Table = [k \in Store!Key |-> IF Places(hash_map, k) = {} THEN NoOne
                                    ELSE CurrentIn(hash_map, k)]
    /\ Table' = [k \in Store!Key |-> IF Places(hash_map', k) = {} THEN NoOne
                                     ELSE CurrentIn(hash_map', k)]
    /\ \A k \in Store!Key : k \in Keys
    /\ \A c \in Client : Req[c].key \in Store!Key
<1>1. \A k \in Store!Key : k \in Keys
  BY ReqKey DEF Store!Key
<1>2. QED
  BY <1>1 DEF Table, Current, CurrentIn, Store!Key

-----------------------------------------------------------------------------
(* The steps *)

(***************************************************************************)
(* A client connects, or is refused: a call.                               *)
(***************************************************************************)
LEMMA CallStep ==
    ASSUME KInv, NEW c \in Client, Connect(c) \/ ConnectRefused(c)
    PROVE  Store!Call(c)
<1>1. /\ client[c] = "new" /\ client'[c] \in {"waiting", "gone"}
      /\ \A d \in Client \ {c} : client'[d] = client[d]
      /\ UNCHANGED <<up, log, holder, block, hash_map, outcome, value>>
  BY DEF Connect, ConnectRefused, KInv, TypeOK, pools, store
<1>2. c \notin Called /\ Called' = Called \cup {c}
  BY <1>1 DEF Called
<1>3. Decisions' = Decisions
  <2>1. \A d \in Client : Active(block', outcome', d) = Active(block, outcome, d)
    BY <1>1
  <2>2. \A d \in Client : \/ client'[d] = client[d] /\ value'[d] = value[d]
                          \/ client[d] \in Unanswered /\ client'[d] \in Unanswered
    BY <1>1 DEF Unanswered
  <2>3. QED
    BY <1>1, <2>1, <2>2, SameDecisions
<1>4. QED
  BY <1>1, <1>2, <1>3, SameStore DEF Store!Call

(***************************************************************************)
(* The steps that the clients do not see: a killed client, accept(), the   *)
(* client threads, the hash queue, and the log before the insertion.       *)
(***************************************************************************)
LEMMA QuietStep ==
    ASSUME KInv,
           \/ \E c \in Client : ClientKilled(c)
           \/ Accept
           \/ \E t \in ConnThread : TakeConn(t) \/ NoOperation(t) \/ ReadGet(t) \/ ReadSet(t)
           \/ \E h \in HashThread : TakeBlock(h) \/ LogSet(h)
    PROVE  UNCHANGED <<up, Called, Table, Applied, Decisions>>
<1>1. ASSUME UNCHANGED <<up, client, value, hash_map, log, holder, block, outcome>>
      PROVE  UNCHANGED <<up, Called, Table, Applied, Decisions>>
  <2>1. Decisions' = Decisions
    BY <1>1, DecisionsAre
  <2>2. QED
    BY <1>1, <2>1, SameStore
<1>2. ASSUME NEW c \in Client, ClientKilled(c)
      PROVE  UNCHANGED <<up, Called, Table, Applied, Decisions>>
  <2>1. /\ client[c] = "waiting" /\ client'[c] = "gone"
        /\ \A d \in Client \ {c} : client'[d] = client[d]
        /\ UNCHANGED <<up, log, holder, block, hash_map, outcome, value>>
    BY <1>2 DEF ClientKilled, KInv, TypeOK, pools, store
  <2>2. Called' = Called
    BY <2>1 DEF Called
  <2>3. Decisions' = Decisions
    <3>1. \A d \in Client : Active(block', outcome', d) = Active(block, outcome, d)
      BY <2>1
    <3>2. \A d \in Client : \/ client'[d] = client[d] /\ value'[d] = value[d]
                            \/ client[d] \in Unanswered /\ client'[d] \in Unanswered
      BY <2>1 DEF Unanswered
    <3>3. QED
      BY <2>1, <3>1, <3>2, SameDecisions
  <2>4. QED
    BY <2>1, <2>2, <2>3, SameStore
<1>3. CASE Accept
  BY <1>1, <1>3 DEF Accept, store, ends
<1>4. ASSUME NEW t \in ConnThread, TakeConn(t) \/ NoOperation(t) \/ ReadGet(t) \/ ReadSet(t)
      PROVE  UNCHANGED <<up, Called, Table, Applied, Decisions>>
  BY <1>1, <1>4 DEF TakeConn, NoOperation, ReadGet, ReadSet, Submit, HashPool!Put,
                    store, ends
<1>5. ASSUME NEW h \in HashThread, TakeBlock(h)
      PROVE  UNCHANGED <<up, Called, Table, Applied, Decisions>>
  <2>1. /\ UNCHANGED <<up, log, holder, hash_map, outcome, client, value>>
        /\ block[h] = NoBlock
        /\ \A g \in HashThread \ {h} : block'[g] = block[g]
    BY <1>5 DEF TakeBlock, HashPool!Take, store, ends, KInv, TypeOK
  <2>2. outcome[h] = NoAnswer /\ h \notin holder /\ holder \subseteq HashThread
    BY <2>1 DEF KInv, AnswerInv, Working, TypeOK
  <2>3. Applied' = Applied
    <3>1. \A g \in holder : block'[g] = block[g]
      BY <2>1, <2>2
    <3>2. \A c \in Client : c \in Applied' <=> c \in Applied
      BY <2>1, <3>1, AppliedAre
    <3>3. QED
      BY <3>2, AppliedAre
  <2>4. Decisions' = Decisions
    <3>1. \A d \in Client : Active(block', outcome', d) = Active(block, outcome, d)
      BY <2>1, <2>2 DEF Active
    <3>2. QED
      BY <2>1, <3>1, SameDecisions
  <2>5. QED
    BY <2>1, <2>3, <2>4, SameStore
<1>6. ASSUME NEW h \in HashThread, LogSet(h)
      PROVE  UNCHANGED <<up, Called, Table, Applied, Decisions>>
  <2> DEFINE e == [key |-> block[h].key, val |-> block[h].who]
  <2>1. /\ UNCHANGED <<up, block, hash_map, outcome, client, value>>
        /\ holder = {} /\ holder' = {h} /\ log' = Append(log, e)
    BY <1>6 DEF LogSet, Works, pools, ends
  <2>2. /\ h \in Working
        /\ \A i \in 1 .. Len(log) : log[i].val # e.val
    BY <1>6, LogSetSettles DEF KInv
  <2>3. e \in Nodes(Client) /\ log \in Seq(Nodes(Client)) /\ e.val = block[h].who
    BY <2>2, BlockFacts, TypeOfStore DEF Nodes, KInv
  <2> HIDE DEF e
  <2>4. /\ \A i \in 1 .. Len(log) : log'[i] = log[i]
        /\ log'[Len(log) + 1] = e
        /\ 1 .. Len(log') = (1 .. Len(log)) \cup {Len(log) + 1}
    BY <2>1, <2>3, AtEnd
  <2>5. \A c \in Client : c \in Applied' <=> c \in Applied
    BY <2>1, <2>2, <2>3, <2>4, AppliedAre
  <2>6. Applied' = Applied
    BY <2>5, AppliedAre
  <2>7. Decisions' = Decisions
    BY <2>1, DecisionsAre
  <2>8. QED
    BY <2>1, <2>6, <2>7, SameStore
<1>7. QED
  BY <1>2, <1>3, <1>4, <1>5, <1>6

(***************************************************************************)
(* The decision for a client whose request hash thread h has in hand.      *)
(***************************************************************************)
LEMMA InHand ==
    ASSUME KInv, Calm, NEW h \in Working
    PROVE  LET c == block[h].who IN
           /\ c \in Client
           /\ client[c] \in {"waiting", "gone"}
           /\ Decisions[c] = outcome[h]
<1> DEFINE c == block[h].who
           H == Active(block, outcome, c)
<1>1. c \in Client /\ h \in HashThread
  BY BlockFacts DEF KInv
<1>2. client[c] \in {"waiting", "gone"}
  BY <1>1, ActiveOne DEF Calm
<1>3. \A g \in H : g = h
  BY <1>1, ActiveOne
<1>4. CASE outcome[h] = NoAnswer
  <2>1. H = {}
    BY <1>3, <1>4 DEF Active
  <2>2. QED
    BY <1>1, <1>2, <1>4, <2>1, DecisionsAre DEF DecidedOf, Unanswered
<1>5. CASE outcome[h] # NoAnswer
  <2>1. h \in H
    BY <1>1, <1>5 DEF Active
  <2>2. One(H) \in H
    BY <2>1 DEF One
  <2>3. One(H) = h
    BY <1>3, <2>2
  <2> HIDE DEF H
  <2>4. DecidedOf(block, outcome, client, value, c) = outcome[h]
    BY <2>1, <2>3 DEF DecidedOf, H
  <2>5. QED
    BY <1>1, <1>2, <2>4, DecisionsAre
<1>6. QED
  BY <1>4, <1>5

(***************************************************************************)
(* get_node() finds what the abstract table holds, also when it is asked   *)
(* for the first eight characters of a longer key: no such key is set.     *)
(***************************************************************************)
LEMMA LookUpExact ==
    ASSUME KInv, PrefixFree, NEW h \in HashThread, LookUp(h)
    PROVE  LET key == Req[block[h].who].key IN
           outcome'[h] = IF Places(hash_map, key) = {} THEN Say("NOTFOUND", NoOne)
                         ELSE Say("VALUE", CurrentIn(hash_map, key))
<1> DEFINE c == block[h].who
           k == block[h].key
           key == Req[c].key
<1>1. /\ h \in Working /\ block[h].oper = "get" /\ holder = {} /\ up
      /\ \/ \E n \in get_node(hash_map, k) : outcome'[h] = Say("VALUE", n.val)
         \/ get_node(hash_map, k) = {} /\ outcome'[h] = Say("NOTFOUND", NoOne)
  BY DEF LookUp, Works, Working, KInv, TypeOK
<1>2. c \in Client /\ k \in Keys /\ k = KeyRead(c) /\ Req[c].op = "get" /\ key \in Keys
  <2>1. block[h] \in InOrder /\ c \in Client /\ k \in Keys
    BY <1>1, BlockFacts DEF KInv, BlockInv
  <2>2. QED
    BY <1>1, <2>1, ReqKey DEF InOrder
<1>3. hash_map \in MapOf(Value) /\ Len(log) \in Nat
  BY TypeOfStore DEF KInv
<1>4. ASSUME NEW b \in Bucket, NEW i \in 1 .. Len(hash_map[b])
      PROVE  \E d \in Client : /\ Req[d].op = "set" /\ Len(Req[d].key) <= MaxSet
                               /\ hash_map[b][i].key = Req[d].key
  <2>1. MapIs(hash_map, log, Len(log), replayed)
    BY <1>1, MapInvIs DEF KInv, Inserted
  <2>2. PICK j \in 1 .. Len(log) : log[j].key = hash_map[b][i].key
    BY <2>1 DEF MapIs
  <2>3. log[j].val \in Settled /\ log[j].key = Req[log[j].val].key
    BY DEF KInv, LogInv
  <2>4. QED
    BY <2>2, <2>3 DEF Settled
<1>5. hash_string(k) \in Bucket /\ hash_string(key) \in Bucket
  BY <1>2, HashInBucket
<1> HIDE DEF c, k, key
<1>6. CASE Len(key) > MaxGet
  <2>1. Len(k) = MaxGet
    BY <1>2, <1>6, KeyReadType DEF key
  <2>2. ASSUME NEW b \in Bucket, NEW i \in 1 .. Len(hash_map[b])
        PROVE  ~ StartsWith(hash_map[b][i].key, k) /\ hash_map[b][i].key # key
    <3>1. PICK d \in Client : Len(Req[d].key) <= MaxSet /\ hash_map[b][i].key = Req[d].key
      BY <1>4
    <3>2. Len(hash_map[b][i].key) \in Nat /\ Len(hash_map[b][i].key) <= MaxSet
      BY <3>1, ReqKey
    <3>3. QED
      BY <1>6, <2>1, <3>2 DEF StartsWith, MaxSet, MaxGet
  <2>3. get_node(hash_map, k) = {}
    BY <1>5, <2>2, GetNothing
  <2>4. Places(hash_map, key) = {}
    BY <1>5, <2>2 DEF Places
  <2>5. QED
    BY <1>1, <2>3, <2>4 DEF key, c
<1>7. CASE Len(key) <= MaxGet
  <2>1. k = key
    BY <1>2, <1>7, KeyReadType DEF key
  <2>2. ASSUME NEW i \in 1 .. Len(hash_map[hash_string(k)]),
               StartsWith(hash_map[hash_string(k)][i].key, k)
        PROVE  hash_map[hash_string(k)][i].key = k
    <3>1. PICK d \in Client : Req[d].op = "set" /\ hash_map[hash_string(k)][i].key = Req[d].key
      BY <1>4, <1>5
    <3>2. QED
      BY <1>2, <2>1, <2>2, <3>1 DEF PrefixFree, key
  <2>3. get_node(hash_map, k) =
           IF Places(hash_map, k) = {} THEN {}
           ELSE {hash_map[hash_string(k)][FirstOf(Places(hash_map, k))]}
    BY <1>2, <1>3, <2>2, GetExact
  <2>4. CASE Places(hash_map, k) = {}
    BY <1>1, <2>1, <2>3, <2>4 DEF key, c
  <2>5. CASE Places(hash_map, k) # {}
    <3>1. get_node(hash_map, k) = {hash_map[hash_string(k)][FirstOf(Places(hash_map, k))]}
      BY <2>3, <2>5
    <3>2. outcome'[h] = Say("VALUE", hash_map[hash_string(k)][FirstOf(Places(hash_map, k))].val)
      BY <1>1, <3>1
    <3>3. QED
      BY <2>1, <2>5, <3>2 DEF CurrentIn, key, c
  <2>6. QED
    BY <2>4, <2>5
<1>8. QED
  <2>1. Len(key) \in Nat
    BY <1>2, ReqKey DEF key
  <2>2. QED
    BY <1>6, <1>7, <2>1 DEF MaxGet

(***************************************************************************)
(* What a key has is a value.                                              *)
(***************************************************************************)
LEMMA CurrentIsValue ==
    ASSUME Calm, NEW key \in Keys, Places(hash_map, key) # {}
    PROVE  CurrentIn(hash_map, key) # NoOne
<1> DEFINE I == Places(hash_map, key)
<1>1. FirstOf(I) \in I
  <2>1. I \in SUBSET Nat /\ I # {}
    BY PlacesAreNat
  <2> HIDE DEF I
  <2>2. QED
    BY <2>1, FirstIsLeast
<1>2. FirstOf(I) \in 1 .. Len(hash_map[hash_string(key)])
  BY <1>1 DEF Places
<1>3. hash_string(key) \in Bucket
  BY HashInBucket
<1>4. QED
  BY <1>2, <1>3 DEF Calm, CurrentIn

(***************************************************************************)
(* A hash thread decides an answer: only the client of its request has a   *)
(* new decision.                                                           *)
(***************************************************************************)
LEMMA DecideStep ==
    ASSUME KInv, NEW h \in Working, outcome[h] = NoAnswer, NEW a, a # NoAnswer,
           outcome' = [outcome EXCEPT ![h] = a], UNCHANGED <<block, client, value>>
    PROVE  Decisions' = [Decisions EXCEPT ![block[h].who] = a]
<1> DEFINE c == block[h].who
<1>1. c \in Client /\ h \in HashThread
  BY BlockFacts DEF KInv
<1>2. outcome'[h] = a /\ \A g \in HashThread \ {h} : outcome'[g] = outcome[g]
  BY <1>1 DEF KInv, TypeOK
<1>3. DecidedOf(block', outcome', client', value', c) = a
  <2> DEFINE H == Active(block', outcome', c)
  <2>1. \A g \in H : g = h
    <3>1. \A g \in Active(block, outcome, c) : g = h
      BY <1>1, ActiveOne
    <3>2. QED
      BY <1>1, <1>2, <3>1 DEF Active
  <2>2. h \in H
    BY <1>1, <1>2 DEF Active
  <2>3. One(H) \in H
    BY <2>2 DEF One
  <2>4. One(H) = h /\ H # {}
    BY <2>1, <2>2, <2>3
  <2> HIDE DEF H
  <2>5. DecidedOf(block', outcome', client', value', c) = outcome'[h]
    BY <2>4 DEF DecidedOf, H
  <2>6. QED
    BY <1>2, <2>5
<1>4. ASSUME NEW d \in Client, d # c
      PROVE  DecidedOf(block', outcome', client', value', d)
                = DecidedOf(block, outcome, client, value, d)
  <2> DEFINE H == Active(block, outcome, d)
  <2>1. Active(block', outcome', d) = H
    BY <1>2, <1>4 DEF Active
  <2>2. H # {} => One(H) \in H
    BY DEF One
  <2>3. H # {} => One(H) \in HashThread /\ One(H) # h
    BY <1>4, <2>2 DEF Active
  <2> HIDE DEF H
  <2>4. DecidedOf(block, outcome, client, value, d) =
           IF H # {} THEN outcome[One(H)]
           ELSE IF client[d] \in Unanswered THEN NoAnswer ELSE Say(client[d], value[d])
    BY DEF DecidedOf, H
  <2>5. DecidedOf(block', outcome', client', value', d) =
           IF H # {} THEN outcome'[One(H)]
           ELSE IF client'[d] \in Unanswered THEN NoAnswer ELSE Say(client'[d], value'[d])
    <3> DEFINE G == Active(block', outcome', d)
    <3>1. DecidedOf(block', outcome', client', value', d) =
             IF G # {} THEN outcome'[One(G)]
             ELSE IF client'[d] \in Unanswered THEN NoAnswer ELSE Say(client'[d], value'[d])
      BY DEF DecidedOf
    <3>2. G = H
      BY <2>1
    <3> HIDE DEF G
    <3>3. QED
      BY <3>1, <3>2
  <2>6. QED
    BY <1>2, <2>3, <2>4, <2>5
<1> HIDE DEF c
<1>5. Decisions' = [Decisions EXCEPT ![c] = a]
  BY <1>1, <1>3, <1>4, DecisionsAre
<1>6. QED
  BY <1>5 DEF c

(***************************************************************************)
(* get_node() under hashmap_mutex is the get.                              *)
(***************************************************************************)
LEMMA GetStep ==
    ASSUME KInv, Calm, PrefixFree, NEW h \in HashThread, LookUp(h)
    PROVE  Store!Get(block[h].who)
<1> DEFINE c == block[h].who
           v == Table[Req[c].key]
           a == [line |-> IF v = NoOne THEN "NOTFOUND" ELSE "VALUE", val |-> v]
<1>1. /\ h \in Working /\ block[h].oper = "get" /\ outcome[h] = NoAnswer /\ up
      /\ \E b : outcome' = [outcome EXCEPT ![h] = b]
      /\ UNCHANGED <<up, block, client, value, holder, log, hash_map>>
  BY DEF LookUp, Works, Working, pools, ends
<1>2. c \in Client /\ client[c] \in {"waiting", "gone"} /\ Decisions[c] = NoAnswer
  BY <1>1, InHand
<1>3. Req[c].op = "get"
  <2>1. block[h] \in InOrder
    BY <1>1 DEF KInv, BlockInv
  <2>2. QED
    BY <1>1, <2>1 DEF InOrder
<1>4. outcome'[h] = a
  <2>1. Req[c].key \in Store!Key /\ Req[c].key \in Keys
    BY <1>2, TableIs
  <2>2. v = IF Places(hash_map, Req[c].key) = {} THEN NoOne
            ELSE CurrentIn(hash_map, Req[c].key)
    BY <2>1, TableIs
  <2>3. outcome'[h] = IF Places(hash_map, Req[c].key) = {} THEN Say("NOTFOUND", NoOne)
                      ELSE Say("VALUE", CurrentIn(hash_map, Req[c].key))
    BY LookUpExact
  <2>4. QED
    BY <2>1, <2>2, <2>3, CurrentIsValue DEF Say
<1>5. outcome' = [outcome EXCEPT ![h] = a]
  BY <1>1, <1>4 DEF KInv, TypeOK
<1>6. a # NoAnswer
  BY DEF NoAnswer, Say
<1> HIDE DEF a
<1>7. Decisions' = [Decisions EXCEPT ![c] = a]
  BY <1>1, <1>5, <1>6, DecideStep
<1>8. Store!Asks(c, "get")
  BY <1>1, <1>2, <1>3 DEF Store!Asks, Store!NoAnswer, NoAnswer, Say, Called
<1>9. UNCHANGED <<up, Called, Table, Applied>>
  BY <1>1, SameStore
<1>10. QED
  BY <1>7, <1>8, <1>9 DEF Store!Get, a

(***************************************************************************)
(* insert_node() under hashmap_mutex, with the entry in the log, is the    *)
(* set.                                                                    *)
(***************************************************************************)
LEMMA SetStep ==
    ASSUME KInv, Calm, NEW h \in HashThread, Insert(h)
    PROVE  Store!Set(block[h].who)
<1> DEFINE c == block[h].who
           n == [key |-> block[h].key, val |-> c]
           a == Say("STORED", NoOne)
<1>1. /\ h \in Working /\ block[h].oper = "set" /\ outcome[h] = NoAnswer /\ up
      /\ holder = {h} /\ holder' = {} /\ log' = log
      /\ hash_map' = insert_node(hash_map, n)
      /\ outcome' = [outcome EXCEPT ![h] = a]
      /\ UNCHANGED <<up, block, client, value>>
  BY DEF Insert, Works, Working, pools, ends
<1>2. c \in Client /\ client[c] \in {"waiting", "gone"} /\ Decisions[c] = NoAnswer
  BY <1>1, InHand
<1>3. Req[c].op = "set" /\ block[h].key = Req[c].key /\ Req[c].key \in Keys
  <2>1. block[h] \in InOrder
    BY <1>1 DEF KInv, BlockInv
  <2>2. Req[c].op = "set" /\ block[h].key = KeyRead(c) /\ Len(Req[c].key) <= MaxSet
    BY <1>1, <2>1 DEF InOrder
  <2>3. Len(Req[c].key) \in Nat /\ Req[c].key \in Keys
    BY <1>2, ReqKey
  <2>4. QED
    BY <1>2, <2>2, <2>3, KeyReadType DEF MaxSet, MaxGet
<1>4. Decisions' = [Decisions EXCEPT ![c] = a]
  <2>1. a # NoAnswer
    BY DEF NoAnswer, Say
  <2>2. QED
    BY <1>1, <2>1, DecideStep
<1>5. Store!Asks(c, "set")
  BY <1>1, <1>2, <1>3 DEF Store!Asks, Store!NoAnswer, NoAnswer, Say, Called
<1>6. \E i \in 1 .. Len(log) : log[i].val = c
  <2>1. replayed < Len(log) /\ log[Len(log)].val = c
    BY <1>1 DEF KInv, LogInv
  <2>2. Len(log) \in Nat /\ replayed \in Nat
    BY TypeOfStore DEF KInv
  <2>3. QED
    BY <2>1, <2>2
<1>7. c \notin Applied /\ Applied' = Applied \cup {c}
  <2>1. c \notin Applied /\ \A d \in Client : d \in Applied' <=> d \in Applied \/ d = c
    BY <1>1, <1>2, <1>6, AppliedAre
  <2>2. QED
    BY <1>2, <2>1, AppliedAre
<1>8. Table' = [Table EXCEPT ![Req[c].key] = c]
  <2>1. n \in Nodes(Value) /\ n.key = Req[c].key /\ n.val = c /\ hash_map \in MapOf(Value)
    BY <1>2, <1>3, TypeOfStore DEF KInv, Nodes, Value
  <2> HIDE DEF n
  <2>2. Places(hash_map', Req[c].key) # {} /\ CurrentIn(hash_map', Req[c].key) = c
    BY <1>1, <2>1, InsertSame
  <2>3. \A k \in Keys : k # Req[c].key =>
           /\ Places(hash_map', k) = {} <=> Places(hash_map, k) = {}
           /\ Places(hash_map, k) # {} => CurrentIn(hash_map', k) = CurrentIn(hash_map, k)
    BY <1>1, <2>1, InsertOther
  <2>4. QED
    BY <1>2, <2>2, <2>3, TableIs
<1>9. Called' = Called
  BY <1>1, SameStore
<1>10. QED
  BY <1>1, <1>4, <1>5, <1>7, <1>8, <1>9 DEF Store!Set, Say

(***************************************************************************)
(* The answer reaches its client, or is lost with it.                      *)
(***************************************************************************)
LEMMA ReplyStep ==
    ASSUME KInv, Calm, NEW h \in HashThread, Reply(h)
    PROVE  \/ UNCHANGED <<up, Called, Table, Applied, Decisions>>
           \/ Store!Lose(block[h].who)
<1> DEFINE c == block[h].who
<1>1. TypeOK /\ BlockInv /\ AnswerInv
  BY DEF KInv
<1>2. /\ outcome[h] # NoAnswer
      /\ UNCHANGED <<up, holder, log, hash_map>>
      /\ outcome' = [outcome EXCEPT ![h] = NoAnswer]
      /\ block' = [block EXCEPT ![h] = NoBlock]
      /\ Send(block[h].sock_fd, outcome[h])
  BY DEF Reply, HashPool!Finish, store
<1>3. /\ h \in Working /\ block[h].sock_fd \in Fd
      /\ conn[block[h].sock_fd] = c
  BY <1>1, BlockReply, BlockFacts
<1>4. c \in Client /\ c # NoOne /\ client[c] \in {"waiting", "gone"}
      /\ Decisions[c] = outcome[h]
  BY <1>1, <1>3, InHand, BlockFacts
<1>5. h \notin holder /\ outcome[h].line \in {"VALUE", "NOTFOUND", "STORED"}
      /\ outcome[h] \in Answer
  BY <1>1, <1>2 DEF AnswerInv, Say, TypeOK
<1>6. \A g \in HashThread \ {h} : block'[g] = block[g] /\ outcome'[g] = outcome[g]
  BY <1>1, <1>2 DEF TypeOK
<1>7. outcome'[h] = NoAnswer
  BY <1>1, <1>2 DEF TypeOK
<1>8. \A g \in Active(block, outcome, c) : g = h
  BY <1>3, <1>4, ActiveOne
<1> HIDE DEF c
<1>9. Active(block', outcome', c) = {}
  BY <1>6, <1>7, <1>8 DEF Active
<1>10. ASSUME NEW d \in Client, d # c
       PROVE  DecidedOf(block', outcome', client', value', d)
                 = DecidedOf(block, outcome, client, value, d)
  <2> DEFINE H == Active(block, outcome, d)
             G == Active(block', outcome', d)
  <2>1. G = H
    BY <1>6, <1>7, <1>10 DEF Active, c
  <2>2. H # {} => One(H) \in H
    BY DEF One
  <2>3. H # {} => One(H) \in HashThread /\ One(H) # h
    BY <1>10, <2>2 DEF Active, c
  <2>4. client'[d] = client[d] /\ value'[d] = value[d]
    BY <1>1, <1>2, <1>3, <1>10, SendEffect
  <2>5. DecidedOf(block, outcome, client, value, d) =
           IF H # {} THEN outcome[One(H)]
           ELSE IF client[d] \in Unanswered THEN NoAnswer ELSE Say(client[d], value[d])
    BY DEF DecidedOf
  <2>6. DecidedOf(block', outcome', client', value', d) =
           IF G # {} THEN outcome'[One(G)]
           ELSE IF client'[d] \in Unanswered THEN NoAnswer ELSE Say(client'[d], value'[d])
    BY DEF DecidedOf
  <2> HIDE DEF H, G
  <2>7. QED
    BY <1>6, <2>1, <2>3, <2>4, <2>5, <2>6
<1>11. DecidedOf(block', outcome', client', value', c) =
          IF client'[c] \in Unanswered THEN NoAnswer ELSE Say(client'[c], value'[c])
  BY <1>9 DEF DecidedOf
<1>12. Table' = Table /\ up' = up
  BY <1>2, SameStore
<1>13. Applied' = Applied
  <2>1. holder \subseteq HashThread
    BY <1>1 DEF TypeOK
  <2>2. \A g \in holder : block'[g] = block[g]
    BY <1>5, <1>6, <2>1
  <2>3. \A d \in Client : d \in Applied' <=> d \in Applied
    BY <1>2, <2>2, AppliedAre
  <2>4. QED
    BY <2>3, AppliedAre
<1>14. CASE client[c] = "waiting"
  <2>1. client'[c] = outcome[h].line /\ value'[c] = outcome[h].val
    BY <1>1, <1>2, <1>3, <1>4, <1>14 DEF Send, TypeOK
  <2>2. Say(client'[c], value'[c]) = outcome[h]
    BY <1>5, <2>1 DEF Say, Answer
  <2>3. DecidedOf(block', outcome', client', value', c) = Decisions[c]
    BY <1>4, <1>5, <1>11, <2>1, <2>2 DEF Unanswered
  <2>4. Decisions' = Decisions
    BY <1>4, <1>10, <2>3, DecisionsAre
  <2>5. Called' = Called
    <3>1. \A d \in Client : client'[d] # "new" <=> client[d] # "new"
      <4>1. \A d \in Client \ {c} : client'[d] = client[d]
        BY <1>1, <1>2, <1>3, SendEffect
      <4>2. QED
        BY <1>5, <1>14, <2>1, <4>1
    <3>2. QED
      BY <3>1 DEF Called
  <2>6. QED
    BY <1>12, <1>13, <2>4, <2>5
<1>15. CASE client[c] = "gone"
  <2>1. client' = client /\ value' = value
    BY <1>2, <1>3, <1>15 DEF Send
  <2>2. DecidedOf(block', outcome', client', value', c) = NoAnswer
    BY <1>11, <1>15, <2>1 DEF Unanswered
  <2>3. Decisions' = [Decisions EXCEPT ![c] = NoAnswer]
    BY <1>4, <1>10, <2>2, DecisionsAre
  <2>4. Called' = Called
    BY <2>1, SameStore
  <2>5. Store!Lose(c)
    BY <1>12, <1>13, <2>3, <2>4 DEF Store!Lose, Store!NoAnswer, NoAnswer, Say
  <2>6. QED
    BY <2>5 DEF c
<1>16. QED
  BY <1>4, <1>14, <1>15

(***************************************************************************)
(* A kill of the server is a kill of the store: it loses answers that have *)
(* not been sent, and the set between the log and the table is made        *)
(* durable without an answer.                                              *)
(***************************************************************************)
LEMMA KillStep ==
    ASSUME KInv, Calm, Crash
    PROVE  Store!Crash
<1>1. /\ up /\ up' = FALSE /\ log' = log /\ holder' = {} /\ hash_map' = EmptyMap
      /\ value' = value
      /\ outcome' = [h \in HashThread |-> NoAnswer]
      /\ client' = [c \in Client |-> IF client[c] = "waiting" THEN "gone" ELSE client[c]]
  BY DEF Crash
<1>2. up = TRUE
  BY <1>1 DEF KInv, TypeOK
<1>3. Called' = Called
  BY <1>1 DEF Called
<1>4. Table' = [k \in Store!Key |-> NoOne]
  <2>1. \A k \in Keys : Places(EmptyMap, k) = {}
    <3>1. SUFFICES ASSUME NEW k \in Keys PROVE Places(EmptyMap, k) = {}
      OBVIOUS
    <3>2. EmptyMap[hash_string(k)] = <<>>
      BY HashInBucket DEF EmptyMap
    <3>3. QED
      BY <3>2 DEF Places
  <2>2. QED
    BY <1>1, <2>1, TableIs
<1>5. \A c \in Client : c \in Applied' <=> \E i \in 1 .. Len(log) : log[i].val = c
  BY <1>1, AppliedAre
<1>6. Applied \subseteq Applied'
  BY <1>5, AppliedAre
<1>7. Applied' \subseteq Called
  <2>1. ASSUME NEW c \in Applied' PROVE c \in Called
    <3>1. PICK i \in 1 .. Len(log) : log[i].val = c
      BY <1>5, AppliedAre
    <3>2. c \in Settled
      BY <3>1 DEF KInv, LogInv
    <3>3. QED
      BY <3>2 DEF Settled, Called
  <2>2. QED
    BY <2>1
<1>8. ASSUME NEW c \in Client
      PROVE  Decisions'[c] \in {Decisions[c], NoAnswer}
  <2>1. Active(block', outcome', c) = {}
    BY <1>1 DEF Active
  <2>2. Decisions'[c] = IF client'[c] \in Unanswered THEN NoAnswer
                        ELSE Say(client'[c], value'[c])
    BY <2>1, DecisionsAre DEF DecidedOf
  <2>3. CASE client[c] \in Unanswered
    BY <1>1, <2>2, <2>3 DEF Unanswered
  <2>4. CASE client[c] \notin Unanswered
    <3>1. Active(block, outcome, c) = {}
      <4>1. SUFFICES ASSUME NEW g \in Active(block, outcome, c) PROVE FALSE
        OBVIOUS
      <4>2. g \in Working /\ block[g].who = c
        BY DEF Active, KInv, AnswerInv
      <4>3. client[c] \in {"waiting", "gone"}
        BY <4>2, InHand
      <4>4. QED
        BY <2>4, <4>3 DEF Unanswered
    <3>2. Decisions[c] = Say(client[c], value[c])
      BY <2>4, <3>1, DecisionsAre DEF DecidedOf
    <3>3. client'[c] = client[c]
      BY <1>1, <2>4 DEF Unanswered
    <3>4. QED
      BY <1>1, <2>2, <2>4, <3>2, <3>3
  <2>5. QED
    BY <2>3, <2>4
<1>9. \A c \in Client : Decisions'[c] \in {Decisions[c], Store!NoAnswer}
  BY <1>8 DEF Store!NoAnswer, NoAnswer, Say
<1>10. QED
  BY <1>1, <1>2, <1>3, <1>4, <1>6, <1>7, <1>9 DEF Store!Crash

(***************************************************************************)
(* A started server has the keys of the durable sets that can be read      *)
(* back, all with the content of one uninitialised buffer.                 *)
(***************************************************************************)
LEMMA RecoverStep ==
    ASSUME KInv, Restart
    PROVE  Store!Recover
<1>1. /\ ~ up /\ up' = TRUE
      /\ UNCHANGED <<log, holder, block, outcome, client, value>>
  BY DEF Restart, pools, ends
<1>2. up = FALSE /\ holder = {} /\ TypeOK
  BY <1>1 DEF KInv, TypeOK, DownInv
<1>3. UNCHANGED <<Called, Applied, Decisions>>
  BY <1>1, SameStore, DecisionsAre
<1>4. PICK g \in Client \cup {Junk} : hash_map' = init_hash_from_log(log, Large, g)
  BY DEF Restart
<1>5. Rebuilt(hash_map', log, Large, g, Len(log))
  BY <1>2, <1>4, TableFromLog, TypeOfStore
<1>6. ASSUME NEW k \in Store!Key
      PROVE  /\ Places(hash_map', k) # {} <=> \E c \in Applied \ Large : Req[c].key = k
             /\ Places(hash_map', k) # {} => CurrentIn(hash_map', k) = g
  <2>1. k \in Keys
    BY TableIs
  <2>2. Places(hash_map', k) # {} <=>
           \E j \in 1 .. Len(log) : log[j].key = k /\ log[j].val \notin Large
    BY <1>5, <2>1 DEF Rebuilt
  <2>3. \A j \in 1 .. Len(log) : log[j].val \in Client /\ log[j].key = Req[log[j].val].key
    BY <1>2, LogFacts DEF KInv, LogInv
  <2>4. \A c \in Client : c \in Applied <=> \E i \in 1 .. Len(log) : log[i].val = c
    BY <1>2, AppliedAre
  <2>5. Places(hash_map', k) # {} <=> \E c \in Applied \ Large : Req[c].key = k
    BY <2>2, <2>3, <2>4, AppliedAre
  <2>6. ASSUME Places(hash_map', k) # {}
        PROVE  CurrentIn(hash_map', k) = g
    <3> DEFINE I == Places(hash_map', k)
               s == hash_map'[hash_string(k)]
    <3>1. s \in Seq(Nodes({g}))
      BY <1>5, <2>1, HashInBucket DEF Rebuilt, MapOf
    <3>2. FirstOf(I) \in I
      <4>1. I \in SUBSET Nat /\ I # {}
        BY <2>6, PlacesAreNat
      <4> HIDE DEF I
      <4>2. QED
        BY <4>1, FirstIsLeast
    <3>3. FirstOf(I) \in 1 .. Len(s)
      BY <3>2 DEF Places
    <3>4. s[FirstOf(I)] \in Nodes({g})
      BY <3>1, <3>3, ElementOfSeq
    <3>5. s[FirstOf(I)].val = g
      BY <3>4 DEF Nodes
    <3>6. QED
      BY <3>5 DEF CurrentIn
  <2>7. QED
    BY <2>5, <2>6
<1>7. Table' = [k \in Store!Key |->
                   IF \E c \in Applied \ Large : Req[c].key = k THEN g ELSE NoOne]
  BY <1>6, TableIs
<1>8. QED
  BY <1>1, <1>2, <1>3, <1>7 DEF Store!Recover

-----------------------------------------------------------------------------
(* The refinement *)

(***************************************************************************)
(* A started server is an empty store.                                     *)
(***************************************************************************)
LEMMA StoreInit == Init => Store!Init
<1> SUFFICES ASSUME Init PROVE Store!Init
  OBVIOUS
<1> USE DEF Init, ConnPool!Init, HashPool!Init
<1>1. Called = {}
  BY DEF Called
<1>2. Applied = {}
  BY AppliedAre
<1>3. Table = [k \in Store!Key |-> NoOne]
  <2>1. \A k \in Keys : Places(EmptyMap, k) = {}
    <3>1. SUFFICES ASSUME NEW k \in Keys PROVE Places(EmptyMap, k) = {}
      OBVIOUS
    <3>2. EmptyMap[hash_string(k)] = <<>>
      BY HashInBucket DEF EmptyMap
    <3>3. QED
      BY <3>2 DEF Places
  <2>2. QED
    BY <2>1, TableIs
<1>4. Decisions = [c \in Client |-> Store!NoAnswer]
  <2>1. \A c \in Client : Active(block, outcome, c) = {}
    BY DEF Active
  <2>2. QED
    BY <2>1, DecisionsAre DEF DecidedOf, Unanswered, Store!NoAnswer, NoAnswer, Say
<1>5. QED
  BY <1>1, <1>2, <1>3, <1>4 DEF Store!Init

(***************************************************************************)
(* The server with its pools, descriptors, log and chains is the store of  *)
(* KvStore: every request takes effect at one instant between its call and *)
(* its answer.  It needs that no get asks for a proper prefix of a key     *)
(* that is set, which strncmp() would find, and that no set key has seven  *)
(* or eight characters, whose error message may reach another client.      *)
(***************************************************************************)
THEOREM StoreRefinement ==
    ASSUME PrefixFree, NoPartial
    PROVE  Spec => ImplementsStore
<1>1. ASSUME KInv, Calm, [Next]_vars
      PROVE  [Store!Next]_Store!vars
  <2> SUFFICES Store!Next \/ UNCHANGED <<up, Called, Table, Applied, Decisions>>
    BY DEF Store!vars
  <2>1. ASSUME NEW c \in Client, Connect(c) \/ ConnectRefused(c)
        PROVE  Store!Next
    BY <1>1, <2>1, CallStep DEF Store!Next
  <2>2. ASSUME \/ \E c \in Client : ClientKilled(c)
               \/ Accept
               \/ \E t \in ConnThread : TakeConn(t) \/ NoOperation(t) \/ ReadGet(t) \/ ReadSet(t)
               \/ \E h \in HashThread : TakeBlock(h) \/ LogSet(h)
        PROVE  UNCHANGED <<up, Called, Table, Applied, Decisions>>
    BY <1>1, <2>2, QuietStep
  <2>3. ASSUME NEW t \in ConnThread
        PROVE  ~ PartialReceive(t) /\ ~ SendError(t)
    <3>1. ASSUME Reads(t, "set")
          PROVE  conn[client_sock[t]] \in Client /\ Req[conn[client_sock[t]]].op = "set"
      BY <1>1, <3>1 DEF Reads, KInv, TypeOK
    <3>2. QED
      BY <1>1, <3>1 DEF PartialReceive, SendError, NoPartial, Calm
  <2>4. ASSUME NEW h \in HashThread, LookUp(h) \/ Insert(h) \/ Reply(h)
        PROVE  Store!Next \/ UNCHANGED <<up, Called, Table, Applied, Decisions>>
    <3>1. h \in Working
      BY <2>4 DEF LookUp, Insert, Works, Reply, Working
    <3>2. block[h].who \in Client
      BY <1>1, <3>1, BlockFacts DEF KInv
    <3>3. \/ Store!Get(block[h].who) \/ Store!Set(block[h].who) \/ Store!Lose(block[h].who)
          \/ UNCHANGED <<up, Called, Table, Applied, Decisions>>
      BY <1>1, <2>4, GetStep, SetStep, ReplyStep
    <3>4. QED
      BY <3>2, <3>3 DEF Store!Next
  <2>5. CASE Crash
    BY <1>1, <2>5, KillStep DEF Store!Next
  <2>6. CASE Restart
    BY <1>1, <2>6, RecoverStep DEF Store!Next
  <2>7. CASE UNCHANGED vars
    <3>1. UNCHANGED <<up, hash_map, log, holder, block, outcome, client, value>>
      BY <2>7 DEF vars, pools, store, ends
    <3>2. QED
      BY <3>1, SameStore, DecisionsAre
  <2>8. QED
    BY <1>1, <2>1, <2>2, <2>3, <2>4, <2>5, <2>6, <2>7 DEF Next, handle_client, handle_hash
<1>2. QED
  BY <1>1, StoreInit, Invariance, AlwaysCalm, PTL DEF Spec, ImplementsStore, Store!Spec
=============================================================================
