# Formal model of dist-kv-store

TLA+ modules, TLC configurations and TLAPS proofs for the two programs of this
repository:

* `TOB/`: a totally ordered broadcast middleware. `main()` forks `NUMPROC`
  single threaded processes that serve one TCP connection at a time and exchange
  BROAD, ACK00 and READY messages; one-shot clients issue messages to them.
* `memcache_lite/`: a key-value server with two thread pools, an in-memory hash
  map and a log from which the map is rebuilt.

The two programs share no code and do not talk to each other.

## 1. Inventory

### TOB

| part | state | operations | interacts with |
|---|---|---|---|
| accept loop (`server.c`) | listening socket and its accept queue, Lamport clock `lc` | `sock_serve`: accept, call `handle_client`, again | everything reaches a process through its accept queue |
| protocol (`client_handle.c`) | the handler in progress | `handle_issue`, `handle_broadcast`, `handle_ack`, `handle_ready`, and inside them `total_broadcast`, `send_p2p_ack`, `broadcast_ready_message`, `check_and_ack_head`, `write_shared` | connects to all processes, itself included; appends to the shared file |
| message queue (`queue.c`) | list from `head`, `tail` | `create_node`, `enqueue`, `order_queue`, `find_node`, `dequeue` | used by the protocol |
| wire format (`client_handle.c`) | - | `generate_uid`, `encode_broadcast_buffer`, `recv_buffer`, the parsing in `handle_broadcast` | carries the protocol's messages |
| client (`client_app.c`) | - | pick a port, connect, send one message, wait for ACK | |
| `ack_handle.c` | - | an unused second `send_p2p_ack` | nothing |

What is hard: a process that is inside a handler accepts nothing, so every
message waits in accept queues while other processes run on; handlers call
`connect()`, which can block or fail, in the middle of a loop; a message travels
on three kinds of connections whose relative order is decided by who accepts
what first; a process can be killed between any two calls; and it may be connected
to before it listens, as the processes are forked one after the other.

What makes it correct: every received message is queued; a message is delivered
once, and only when no earlier one can appear; all processes deliver in one
order; everything issued is delivered in the end; handlers return.

### memcache_lite

| part | state | operations | interacts with |
|---|---|---|---|
| accept loop (`main`) | descriptors | accept, enqueue, signal | connection pool |
| thread pools (`client_threads`, `hash_threads`, `threadqueue.c`, the queue of `hashmap.c`) | two FIFO queues, each with a mutex and a condition variable | put and signal; dequeue or wait | |
| `handle_client`, `parse_body` | a descriptor | read a request, queue it for the hash threads | hash pool; client |
| `handle_hash` | `hashmap_mutex` | get, or log and insert; answer and close | map, log, client |
| hash map (`hashmap.c`) | chains of `TABLESIZE` buckets | `hash_string`, `insert_node`, `get_node` | |
| log and recovery | `server_run.log` | append and flush; `init_hash_from_log` | map |
| client (`client.c`) | - | connect, send, read one message | |

What is hard: a descriptor is a number that travels through two queues and may
be closed and handed out again; waits guarded by `if`; a crash between the log,
the map and the answer; a request the server cannot read to its end.

What makes it correct: no work is lost or done twice; the table agrees with the
log; a get sees every set acknowledged before it; what was acknowledged survives
a crash; every client gets its own answer, and gets one.

## 2. Modules

| module | models | kind |
|---|---|---|
| `Tob` | the middleware processes and their clients | specification, properties |
| `NodeQueue` | the message queue as the handlers use it | operators, used by `Tob` and `MsgQueue` |
| `MsgQueue` | what a process promises about its message queue | abstract specification |
| `MsgList` | the list of `queue.c` in memory | operators |
| `TobFrame` | uid, BROAD frame, `recv_buffer` | operators |
| `TobNode` | one process on `MsgList` and `TobFrame` | specification, implements `MsgQueue` |
| `TobInv` | inductive invariant of `Tob` | definitions |
| `TobInvProofs` | types; the invariant and its consequences; every queue of `Tob` is a `MsgQueue` | proofs |
| `TobOrder` | inductive invariant of `Tob` about order | definitions |
| `TobOrderProofs` | that invariant, issue order, acknowledgements find their node | proofs |
| `TobNodeInv` | inductive invariant of `TobNode` | definitions |
| `TobNodeProofs` | what the operators of `MsgList` and `TobFrame` do, that invariant, `TobNode` implements `MsgQueue` | proofs |
| `SegmentInduction` | induction and recursion over 0 .. n | lemmas, used by `HashMapProofs` and `TobNodeProofs` |
| `MCTob`, `MCTobNode` | pids, messages and symmetry for TLC | |
| `WorkPool` | what a thread pool promises | abstract specification |
| `WorkQueue` | how the pools do it: mutex, condition variable, `if` | specification, implements `WorkPool` |
| `WorkQueueProofs` | no lost wakeup, FIFO, exclusive work, refinement | proofs |
| `MCWorkQueue` | the module of the `pool` run | |
| `HashMap` | the map and its reconstruction | operators |
| `KvStore` | what the server promises its clients | abstract specification |
| `KvServer` | the server: `HashMap`, two `WorkPool`s, descriptors, clients, crashes | specification, implements `KvStore` |
| `HashMapProofs` | what `hash_string`, `insert_node`, `get_node` and the reconstruction return | proofs |
| `KvInv` | inductive invariant of `KvServer` | definitions |
| `KvInvProofs` | that invariant and the properties of `KvServer` | proofs |
| `KvStoreProofs` | `KvServer` implements `KvStore` | proofs |
| `MCKvServer` | the requests of each run | |

Definitions keep the names of the functions they model. Definitions with a suffix
(`Put_NoSignal`, `insert_node_Last`) are faulty variants of the definition that
follows them; no specification uses them. They show that a property would notice
the fault.

### Tob

A handler is cut into steps where another process could tell: each `connect()`
and each `send()` of a loop, and the write to the shared file. What lies between
is local and belongs to the step before.

* `backlog[p]` is the accept queue, `cur[p]` the connection being served, `pc[p]`
  the call the thread is in. A connection is a record with the one message its
  opener sends on it; `sent` says whether it has been sent, `closed` whether its
  opener closed it without sending. `handle_client` blocks in `recv()` until one
  of these holds or the opener is dead (`Receives`, `RecvEof`).
* `queue[p]` is the set of nodes linked from `head`. `check_and_ack_head` sorts
  after every `enqueue`, so the first node is the least (`IsHead`, by `Before`).
  `tail[p]` is `"off"` once `dequeue` freed the only node and left `tail`
  pointing at it: `enqueue` then links behind the freed node, and whatever the
  allocator does with that memory, `head` stays NULL.
* `Connect`, `Send` and `EndLoop` are the loops of `total_broadcast`,
  `send_p2p_ack` and `broadcast_ready_message`, which differ in where they
  continue: after a READY broadcast, complete or not, `write_shared` follows.
  `ConnectFail` leaves the open connections unused and unclosed, as the code
  does; `SendFail` closes them.
* `short` has the uids of the messages of at most four characters (those of the
  clients in `Short`; `NoteLength`). `total_broadcast` sends 40 bytes and the
  message of a frame that has 47 and the message, so of such a message nothing is
  left behind the metadata, and its BROAD is never complete (`Complete`): the
  receiver is in `recv()` until the issuer closes the connection or is gone.
* A process of `Late` starts before its `listen()` (`Listen`): `main()` writes the
  ports file, then forks the processes, so a client or a process that is up already
  may be refused (`Reachable`). With a full accept queue `connect()` waits and then
  fails, also when it is the process's own (`ConnectFail`).
* `Crash` kills a process. Nothing restarts it.
* `opened` and `handled` are history.

Message texts, prompts and printing are left out. `LCBound` and `MaxPid` keep
clocks and pids below the width of their fields.

### TobNode, MsgList, TobFrame and MsgQueue

`Tob` has a set of nodes where the code has a linked list, and a record where the
code has a frame. `TobNode` is one process with both as they are.

* A list value of `MsgList` is the heap, `head`, `tail` and the addresses that are
  allocated. `free()` leaves the content; `enqueue` writes through `tail` whatever
  it points to, and `malloc()` may return the freed address, even for the very node
  that is then linked behind itself. The loops along `next` are one function, `Walk`,
  and what they look for is the first address of a set on the way (`FirstIn`): a uid in
  `find_node`, a successor that does not stay in the inner loop of `order_queue`
  (`Position`). `order_queue` is the insertion sort of the code, one `Pass` for each
  node, `Stays` its comparison (a new node goes behind those with the same clock and a
  pid that is not lower), and it sets `tail` to the last node.
* `generate_uid` is 32 bits wide: the upper 20 as the set of the bits that are one,
  in which the pid and a clock of more than 12 bits are or-ed, the lower 12 as a number.
  `ClockField` is `%04u` in a field of five bytes. `recv_buffer` copies each piece
  to the offset the previous `recv()` returned, which is right for one and two pieces
  and wrong from the third on. A byte of the buffer is known by its position in the
  frame, so that what `handle_broadcast` reads can be said without digits: a field whose
  bytes are all in place, or else any value of `Junk` (`Decoded`). `Splits` has the ways
  in which TCP may cut the 38 bytes, by the ends of the pieces, any number of them.
* `origin` is history: the frame a node was made from, and the fields that were not
  garbled, which `Kept` computes from the ends of the pieces without the loop. So is
  `garbled`, the frames of which some field was not kept; until there is one the state
  is `Whole`. What is said of the list and of `Kept` holds always, what is said of
  messages and their acknowledgements, the refinement included, while it is `Whole`.
* A handler is one step, since the process is single threaded. What the others do is
  what `Tob` shows of them: each acknowledges a message at most once
  (`IInv`), and READY follows the process's own acknowledgement (`ReadyInv`). An
  acknowledgement is for a message (`heard`), but has only its uid on the wire.

`MsgQueue` is what lies between: receive a node that was broadcast and acknowledge
the first one of the queue if that is due, count an acknowledgement, remove an
acknowledged node. `TobNode` implements it, and every queue of `Tob` does; both are
checked by TLC and proved.

### WorkQueue and WorkPool

What a thread does between locking and unlocking is one step. `Put` is the
producer's critical section (`enqueue` and `pthread_cond_signal`, which wakes at
least one sleeper), `Fetch` the first look at the queue, `Resume` the second
`dequeue()` after the wait, `SpuriousWakeup` what POSIX allows. Items are known
by their number of arrival. `WorkPool` has only the queue and what each thread
has in hand; `ImplementsPool` is the refinement, fairness included.

### KvServer

`conn[f]` is the client at the other end of descriptor `f`; `accept()` gives the
lowest free one. Both pools are instances of `WorkPool`. A `set` is two steps,
`LogSet` and `Insert`, inside `hashmap_mutex` (`holder`), because a crash may
separate them; `LookUp` needs the mutex to be free; `Reply` sends and closes.

What happens to a request depends on the length L of its key, because the client
sends a fixed number of bytes. For a set the server has 8 - L + value bytes left
behind the key and wants 2 + value: `ReadSet` for L <= 6; `PartialReceive`, which
closes the descriptor, and `SendError`, which sends on it afterwards, for 7 and 8;
for more no action at all, as the thread blocks in `recv()` (and spins, should the
client leave). A get is cut to eight characters. A `"none"` client exits after it
has connected, as `client.c` does when the value is longer than its stated size;
the server keeps that descriptor.

`Restart` rebuilds the table. The stored value begins with the `\r\n` behind the
key, so an entry takes two lines of the log and `sscanf` never reaches the value:
all keys get the content of one uninitialised buffer, any value `g`. Values of
700 bytes or more (`Large`) are skipped.

`ClientKilled` takes a client of `Mortal` away while it waits; what it has sent can
still be read.

`KvStore` is the store as a client sees it: a request takes effect in one step
between its call and its answer, a set at most once; a crash may lose answers and
values and may have made unanswered sets durable. Under `ImplementsStore` the
abstract table and the decided answers are functions of the state of the server
(`Decided`: the answer a hash thread has in hand, or the client's); a set takes
effect at `Insert`, a get at `LookUp`.

Assumed: a request arrives whole, keys are not empty, values are not empty and do
not look like log entries.

## 3. Runs

| run | instance | shows |
|---|---|---|
| `tob_safety` | 2 processes of which one listens late, 3 clients | `TypeOK`, `StableOnWrite`, `WrittenOnce`, `ReadyFindsNode`, `WrittenInIssueOrder`, `OInv`, `ImplementsMsgQueue` |
| `tob_faults` | 3 processes with decreasing pids, one of them late, 2 clients, one of them with a short message, one crash, accept queues of two | `IInv`, `OInv`, `AckFindsNode` with failing `connect` and `send`, receivers stuck in a short message, and acknowledgements of third parties |
| `tob_live` | 2 processes that listen late, accept queues that one connection fills, 3 clients, one with a short message, one crash, fair | `OnlySilenceBlocks`, `LeastIsDelivered` |
| `tob_node` | the middle one of 3 processes, 4 messages, 3 addresses, frames in two to four pieces | `TypeOK`, `ListIntact`, `NodesAsIssued`, `AcksCountOwn`, `AckedIsFound`, `NInv`, `ImplementsMsgQueue` |
| `tob_received`, `tob_total_order`, `tob_crash_live`, `tob_short` | 2 processes | what the protocol comments and the README promise and the code does not do |
| `pool` | 3 threads, 5 items, fair | `TypeOK`, `NoLostWakeup`, `StartedInOrder`, `ExclusiveItem`, `AllStarted`, `ImplementsPool` |
| `kv_safety` | 3 sets and a get, 3 descriptors, 2 + 2 threads, one crash, one large value | `TypeOK`, `AnswersOwnClient`, `MapMatchesLog`, `StoredSurvives`, `FreshRead`, `KInv`, `ImplementsStore` |
| `kv_live` | a thread stuck on a 9-character key, a 7-character key, a client that leaves, a set, and a get whose client may be killed; fair | `AnswersOwnClient`, `KInv`, `AllServed` |
| `kv_restored` | 2 clients | what a comment promises and the code does not do |

`IInv`, `OInv`, `NInv` and `KInv` are the inductive invariants of the proofs. TLC checks
them where the cases they are about happen: `OInv` in `tob_safety` with two messages of one
issuer and in `tob_faults` with abandoned broadcasts, `KInv` in `kv_safety` with
crashes and in `kv_live` with rejected requests and killed clients.

### Bounds

Two processes are the smallest number with a remote acknowledgement, three the
smallest with one from a third party. Three clients are needed in `tob_safety`:
the shortest behaviour in which two messages of one issuer are both written takes
a third message, because a queue that runs empty is broken afterwards. `BACKLOG`
is 8 in the code, more than the connections of `tob_safety`. In `tob_faults` it is 1
(two connections, as Linux admits one more than the backlog) and in `tob_live` 0, which
makes `connect()` fail with two or three clients as about ten at one process do with 8:
nothing in `Reachable` depends on the number but the place where it becomes false.
Three threads allow one to be busy, one woken and one overtaking it; five items
exceed the pool. In the `kv_` runs there are more clients than descriptors, so that
numbers are reused; "A" and "F" share a bucket.

The messages of `tob_node` have two clocks that tie, one that follows and one that
leaves the four digits of the frame (9999, broadcast as 10000); with four messages and
three addresses up to three are linked at once, and freed addresses are handed out
again. Its frames come in two pieces that meet within a field, and in three and four of
which the later ones fall on all fields, on some, or on the length alone; a garbled
field reads as a number nobody issued or, the uid, as that of another message.

In `tob_live` all faults are there at once, and `LeastIsDelivered` names its
exceptions; behaviours without any of them, in which two messages are
acknowledged to their clients and delivered, are among those of the run.

`MaxCrash` (in both), `MaxItem` and `NumFd` bound what would otherwise be
unbounded. Clients each issue one request, as the programs do.

`CHECK_DEADLOCK FALSE` in the `tob_` and `kv_` runs: once every client has been
served, the processes wait in `accept()` and the threads for work; that is where
these programs stop. The pools never deadlock, spurious wakeups being possible,
and are checked for it.

Symmetry of the clients (`tob_safety`), of the threads (`kv_safety`) and of the
addresses (`tob_node`) is sound because the definitions treat the clients, the threads
of one pool, or the addresses alike; no run with a liveness property uses symmetry.

### Fairness

* `Tob!FairSpec`: each process that can take a step does (the operating system
  schedules it; nothing else can disable its step for ever except what the code
  waits for). A `connect()` that cannot succeed fails in the end (ETIMEDOUT,
  ECONNREFUSED). Clients need not start and nobody need be killed.
* `WorkQueue!FairSpec`: some thread that wants the mutex gets it, which allows a
  mutex that is unfair to any one thread; handlers return. The second part is not
  true of every request of the server, and `KvServer` does not assume it.
* `KvServer!FairSpec`: `main()` and threads inside a handler run; of a pool, some
  thread that could take work does, which is what `ImplementsPool` gives.

## 4. Proofs

For every value of the constants that satisfies the named assumptions
(`NumProc` positive; pids distinct, positive and below 2^20; `BACKLOG` and
`MaxCrash` natural; clients are not processes; finitely many threads; keys not empty and
of seven-bit characters; any number of descriptors, threads and crashes of the server;
finitely many addresses for nodes, clocks below 2^32):

* `TobInvProofs`: `TypeCorrect`, `Invariance`, and from it `StableOnWriteAlways`,
  `WrittenOnceAlways`, `ReadyFindsNodeAlways`; `QueueRefinement`, every process's queue
  implements `MsgQueue`.
* `TobNodeProofs`: `NodeInvariance`, and from it `NodeTypeCorrect`, `ListStaysIntact`,
  `NodesAreAsIssued`, `AckedIsAlwaysFound`, `AcksAreCounted`; `NodeRefinement`, the list of `queue.c` and
  the handlers on it implement `MsgQueue`; `EarlyMessages`.
* `WorkQueueProofs`: `PoolTypeCorrect`, `FifoStart`, `ExclusiveWork`,
  `NoWakeupLost`, `PoolRefinement`.
* `TobOrderProofs`: `OrderInvariance`, and from it `WrittenInIssueOrderAlways` and
  `AckFindsNodeAlways`.
* `HashMapProofs`: lemmas on the operators of `HashMap`, and `TableFromLog`.
* `KvInvProofs`: `Invariance`, and from it `TypeCorrect`, `OwnClient`,
  `MapFollowsLog`, `StoredIsKept`, `ReadsAreFresh`.
* `KvStoreProofs`: `StoreRefinement`, the server implements `KvStore`.

**The invariant of Tob.** `StableOnWrite` speaks of clocks and a file and is far
from inductive. That a written message has been seen by every process goes back
from the write to a counter, from the counter to acknowledgements, and from those
to handled BROADs. `IInv` states each link: a node comes from a handled BROAD
(`NodeInv`); the counter of a node is at most the number of processes whose
acknowledgement was handled (`Ackers`), so that it can only reach `NumProc` when
all have acknowledged; an acknowledgement means that its sender handled the BROAD
and flagged the node, and that the node is still there until its READY is handled
(`AckInv`); a READY, or a write, means that everybody acknowledged and that the
counter has passed the value that starts a broadcast (`ReadyInv`, `WriteInv`); and
handling a BROAD raises the clock (`ClockInv`). Counting works only because no
connection is opened, queued or handled twice (`InboxInv`, `OutInv`), for which a
uid must determine issuer and timestamp (`UidUnique`, arithmetic on
`pid * 2^12 + lc`). The invariant is not disturbed by abandoned broadcasts, lost
acknowledgements or crashes: these only remove steps that would have followed.

**The refinement of the queue.** Three steps of `Tob` touch a queue, and two of them
need the invariant. A BROAD that is handled must be of a message that was broadcast,
which is `InboxInv` (what is served was opened). A READY that is handled removes its
node wherever it stands; that the node was acknowledged before, as `Remove` demands,
is not checked by the code and follows from `ReadyFindsNode` (through `ReadyInv` and
`AckInv`), and from `NodeInv`, as no two nodes of a queue have one uid. All other
actions leave the queues alone or only add broadcasts.

**The list in memory.** What `Linked`, `find_node` and `order_queue` return is the end of
a walk, so nothing about them follows from the links alone. `NInv` says that there is a
sequence of different addresses along which `head` leads (`IsPath`), in order, all
allocated, with `tail` at its end (`IsList`), and the operators of `MsgList` are proved to
act on that sequence: `Walk` comes to its members one by one (`WalkPath`), `find_node`
returns its first member with the uid (`FindNode`), `enqueue` appends, or changes nothing
that `head` leads to when `tail` is stale, whatever it overwrites (`EnqueueList`),
`dequeue` takes one member out and moves `tail` when it was the last and not the first
(`DequeueList`). For `order_queue` the loop invariant is `PartSorted`: after i passes the
first i nodes are a sorted list of their own, the others still follow each other, and no
field but `next` has changed; `InsertStep` shows that a pass keeps it, as nodes already
sorted are the only ones written to, and that the comparison is total and transitive
(`StaysOrder`) puts the node in its place. The induction is again over sets
(`Segment`). The rest of `NInv` follows the messages: each node comes from a frame that
was handled and agrees with it in the fields that were kept (`FrameInv`), one for each
message, flagged when it was acknowledged, with its acknowledgements counted, and there
until its READY is handled (`AckInv`).

**Frames in pieces.** `NodesAreAsIssued` holds for any number of pieces. That
`recv_buffer` leaves the bytes of `Kept` in place is an induction over the pieces
(`ByteInPlace`): a byte of the first two pieces is copied to its own offset, since the
second goes to offset `brecv`, the length of the first, and stays there as long as
no later piece is written over it (`Overwritten`).

**Its hypotheses.** `ListStaysIntact`, `NodesAreAsIssued` and `NodeTypeCorrect` hold of any
messages and any pieces. `AckedIsFound`, `AcksCountOwn` and the steps of `ImplementsMsgQueue`
are about states that are `Whole`: a frame in three pieces may make a node of no message.
`AckedIsAlwaysFound`, `AcksAreCounted` and `NodeRefinement` assume `DistinctUids`: were two
messages to share a uid, the acknowledgement of one would be counted on the other and its
READY dequeue it. `NodeRefinement` also
assumes `Untied`: two messages of one process whose clocks are cut to the same four digits
(9999 and 10000, both broadcast as 1000) stand side by side in the list, of which the
first is acknowledged once and the second has to wait, where `MsgQueue` takes both for
first; with these two messages the refinement is violated. `EarlyMessages` shows
that these hypotheses hold while clocks are below 4096 and pids different and below 2^20,
which makes the bits of a uid's two parts disjoint; the messages of `tob_node` satisfy
them at clock 9999 too.

**The invariant of WorkQueue.** While a thread sleeps, the queue is no longer than
the number of threads that are awake and free. A put adds an item and wakes
somebody; a dequeue takes an item and a free thread; nobody falls asleep over a
non-empty queue. This is why the `if` around `pthread_cond_wait` does no harm.

**The order of a process's own messages.** `IInv` counts; `OInv` adds what comes before
what. A process serves its accept queue first come, first served, and both properties
follow one message from its issuer back to its issuer. `total_broadcast` opens all its
connections before it sends on any (`ReachInv`), so the issuer's own copy is in its
accept queue before anybody can have received, let alone acknowledged, the message;
the copy therefore stands ahead of every acknowledgement, and behind the copies of
older messages, as uids grow with the clock (`FifoOK`, `LatestOK`). Where the copy is
at any time, and what becomes of the node, is `PlaceInv` and `KeptInv`: these give
`AckFindsNode`, with the exceptions it names. For `WrittenInIssueOrder`: a process
acknowledges its own message only as the head of its queue, when it has passed
all of its older ones (`AheadOK`, `SelfAckOK`); READY is sent when every
acknowledgement, its own among them, was handled (`CountOK`); so no later message
can have been written before (`WriteOK`).

**The map and the log.** `hash_string` and `init_hash_from_log` loop over data. They are
recursive functions here, and the facts about them are proved without the library's
induction theorems: that every non-empty set of naturals has a least element, applied
to the set of counterexamples (`LeastNumber`, `Segment`), and that a recursive function
on a segment of the naturals exists (`Recursion`). These lemmas are in `SegmentInduction`. `Rebuilt` says what the table is
after n entries of the log.

**The invariant of KvServer.** `AnswersOwnClient` fails as soon as a descriptor that is
still needed is closed, so `KInv` says where every request is: in the accept queue, on
a descriptor nobody has read (`FdInv`), or in one block of the hash threads
(`BlockInv`), and nowhere else; and that a client has one connection (`PeerInv`). The
early close of `parse_body` is harmless because the thread still owns the descriptor
at that moment; what it sends afterwards only makes clients leave. For the map,
`LogInv` has each set logged at most once, with the request's own key, and no thread but
the one in `hashmap_mutex` between its entry and its insertion; `Settled` is the set of
clients whose set will not be logged any more, without which the uniqueness of log
entries would not be preserved by `LogSet`. `MapInv` says how much of the log is in the
table, entries replayed after a crash (whose values are lost) apart from entries
inserted since. `FreshInv` carries freshness from `LookUp`, where it becomes true, to
the answer. A crash empties the threads and the table, which is why each part
distinguishes them from log and clients (`DownInv`).

**Two hypotheses.** `ReadsAreFresh` and `StoreRefinement` assume `PrefixFree`: no key
asked for is a proper prefix of a key that is set. Without it they are false, as
`get_node` compares only as many characters as the key asked for has (section 5).
`StoreRefinement` also assumes `NoPartial`: no set has a key of seven or eight
characters. The error message for such a key is sent on a descriptor that may be
somebody else's by then, who takes it for an answer. Both hold of the requests in
`kv_safety`. All other theorems need neither.

**The refinement of the store.** Only five kinds of steps are visible: a client's
connect is `Call`, `LookUp` is `Get`, `Insert` is `Set`, `Crash` and `Restart` are
`Crash` and `Recover`. In `Reply` an answer moves from the thread to the client, and the
decided answers do not change. Accepting, reading and queueing requests are stutters,
because `KInv` keeps each request in one place. `Calm` (no errors are sent, and
every node has a value) is the part that `NoPartial` adds.

Only model-checked: all liveness properties (`OnlySilenceBlocks`, `LeastIsDelivered`,
`AllStarted`, `AllServed`) and the fairness part of `ImplementsPool`, as liveness under
fairness is out of the prover's reach. Every invariant and every other action property of a
passing run is stated by a theorem.

## 5. What the checks say about the code

* The acknowledgement round does what it is for: when a message is written no
  earlier one can still be issued, it is written once, and messages of one issuer are
  written in the order in which they were issued. This is proved.
* After its queue has run empty once, a process queues nothing any more
  (`queue.c:113`, run `tob_received`).
* READY is sent without regard to the head of the queue and handled wherever its
  node stands, so processes dequeue in different orders (`tob_total_order`); a node
  that becomes the head through a dequeue is acknowledged only if another BROAD
  arrives, and may stay for ever. What remains true is that the least message of all
  gets through once a client has its ACK, and the exceptions of `LeastIsDelivered` are
  the only ones: a process was killed, a message is short, or a `connect()` failed.
* A `connect()` fails without anybody being killed: to a process that does not listen
  yet, or that has its accept queue full, the caller itself included. A message is
  then sent to nobody and its client told ACK (`SentToAll` is false), a node is marked as
  acknowledged and no acknowledgement sent (`MarkedIsSent`), or a message is written
  whose READY nobody gets (`WrittenIsReadied`). A failed broadcast also leaves silent
  connections behind, whose receivers wait for ever. Nothing else blocks a handler for
  ever (`OnlySilenceBlocks`): the processes do not deadlock in `connect()`.
* An acknowledgement always finds its node at the issuer, with two exceptions:
  the list was lost (`tail` is `"off"`), or with three processes or more
  `total_broadcast` gave up at a failed send after it had reached some processes
  and before it sent to itself. This is proved.
* One killed process leaves the others waiting for ever (`tob_crash_live`).
* A message of up to four characters blocks every process, its issuer included, in
  the last `recv()` of `handle_broadcast` (`tob_short`). A longer one loses its last
  five bytes, of which one is the null byte and the rest text.
* Apart from its stale `tail` the list of `queue.c` is sound: it stays sorted, links no
  freed node and loses no acknowledged one. This is proved, the last for uids that differ.
* The limits of the identifiers are real but far away: two processes with pids 2k and
  2k+1 make the same uid from clock 4096 on, as does one process of odd pid with
  two clocks 4096 apart; a clock of 10000 arrives as 1000 and is sorted there.
  A frame that arrives in three pieces or more may be assembled wrongly; the
  list stays intact with the wrong fields (proved), and which fields are right is known
  (`NodesAsIssued`, proved).
* `total_broadcast` allocates 40 bytes and the message for its frame, and
  `encode_broadcast_buffer` writes 48 and the message: the last five bytes of the message,
  `\r\n` and a null byte lie behind the block. What they overwrite is up to the allocator,
  and not modelled.
* The pools are sound. Answers of the hash threads go to the right client, even
  next to the premature close of `parse_body` (proved); the "Error" that follows
  that close may go to another client (`SendError`), and with the client gone by then a second one could raise
  SIGPIPE, which the server does not ignore.
* The server is an atomic store that loses values in a crash (proved), for keys of which none
  is a prefix of another: `get_node` compares as many characters as the key asked for
  has, so a get of "A" may return the value of "AD", which shares its bucket.
* Acknowledged keys survive a crash, their values do not (`kv_restored`).

## 6. Not modelled, and the plan

In this order:

1. Descriptors of the middleware, which neither `sock_serve` nor a broadcast closes:
   they would have to be counted against a limit, and all that could be said is that
   the limit is reached.
2. SIGPIPE in the server, which depends on when the reset of a closed connection
   arrives.

Left out for good: `ack_handle.c` (unused), printing, argument parsing, the ports
file, the text of messages and their length field (a garbled length among them), the
memory behind a block of `malloc`, `delete_node` and
`print_table` (never called by the server), failures of
`malloc`, the test scripts, and the compiled programs and documents.
