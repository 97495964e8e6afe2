------------------------------ MODULE MsgList ------------------------------
(***************************************************************************)
(* The list of queue.c as it lies in memory.  A list value has the heap    *)
(* (what each address holds), the addresses head and tail, and the         *)
(* addresses malloc() has handed out.  free() takes an address back and    *)
(* leaves its content; nothing keeps the program from writing to it.       *)
(***************************************************************************)
EXTENDS Naturals, FiniteSetsExt

CONSTANTS
    Addr,    \* the addresses malloc() may return for a node
    NULL

ASSUME AddrAssumption == IsFiniteSet(Addr) /\ NULL \notin Addr

Blank == [uid |-> <<{}, 0>>, pid |-> 0, port |-> 0, lc |-> 0, ack_flg |-> 0,
          ack_count |-> 0, next |-> NULL]

EmptyList == [heap |-> [a \in Addr |-> Blank], head |-> NULL, tail |-> NULL,
              live |-> {}]

(***************************************************************************)
(* No list has more nodes than there are addresses.                        *)
(***************************************************************************)
Size == Cardinality(Addr)

(***************************************************************************)
(* The address a walk along next has come to after i steps from a.         *)
(***************************************************************************)
Walk(heap, a) ==
    LET at[i \in 0 .. Size] ==
            IF i = 0 THEN a
            ELSE LET b == at[i - 1] IN IF b = NULL THEN NULL ELSE heap[b].next
    IN  at

Chain(heap, a) ==
    {Walk(heap, a)[i] : i \in 0 .. Size} \ {NULL}

Linked(L) == Chain(L.heap, L.head)

(***************************************************************************)
(* The first address of S that a walk from a comes to.                     *)
(***************************************************************************)
FirstIn(heap, a, S) ==
    LET at == Walk(heap, a)
    IN  at[Min({i \in 0 .. Size : at[i] \in S})]

create_node(fields) ==
    [uid |-> fields.uid, pid |-> fields.pid, port |-> fields.port,
     lc |-> fields.lc, ack_flg |-> 0, ack_count |-> 0, next |-> NULL]

(***************************************************************************)
(* malloc() has put the new node n at a.                                   *)
(***************************************************************************)
Allocate(L, a, n) == [L EXCEPT !.heap[a] = n, !.live = @ \cup {a}]

(***************************************************************************)
(* The address in tail is written through, whatever it points to by now.   *)
(***************************************************************************)
enqueue(L, a) ==
    IF L.tail = NULL THEN [L EXCEPT !.head = a, !.tail = a]
    ELSE [L EXCEPT !.heap[L.tail].next = a, !.tail = a]

(***************************************************************************)
(* Whether s stays in front of c: a lower clock, or the same clock and a   *)
(* pid that is not lower.  Faulty variant: the clocks alone.               *)
(***************************************************************************)
Stays_ClockOnly(s, c) == s.lc <= c.lc

Stays(s, c) == \/ s.lc < c.lc
               \/ s.lc = c.lc /\ s.pid >= c.pid

(***************************************************************************)
(* The node behind which c goes: the first whose successor does not stay.  *)
(***************************************************************************)
Position(heap, sorted, c) ==
    FirstIn(heap, sorted, {b \in Addr : LET s == heap[b].next
                                        IN  s = NULL \/ ~ Stays(heap[s], heap[c])})

(***************************************************************************)
(* The node c goes into the sorted list that starts at sorted.  Faulty     *)
(* variant: what follows the place of c is not linked again.               *)
(***************************************************************************)
Insert_Cut(heap, sorted, c) ==
    IF sorted = NULL \/ ~ Stays(heap[sorted], heap[c])
    THEN [heap |-> [heap EXCEPT ![c].next = sorted], head |-> c]
    ELSE [heap |-> [heap EXCEPT ![c].next = NULL,
                                ![Position(heap, sorted, c)].next = c],
          head |-> sorted]

Insert(heap, sorted, c) ==
    IF sorted = NULL \/ ~ Stays(heap[sorted], heap[c])
    THEN [heap |-> [heap EXCEPT ![c].next = sorted], head |-> c]
    ELSE LET temp == Position(heap, sorted, c)
         IN  [heap |-> [heap EXCEPT ![c].next = heap[temp].next,
                                    ![temp].next = c],
              head |-> sorted]

(***************************************************************************)
(* One pass of the outer loop: the node at head goes into the sorted list. *)
(***************************************************************************)
Pass(q) ==
    LET s == Insert(q.heap, q.sorted, q.head)
    IN  [heap |-> s.heap, head |-> q.heap[q.head].next, sorted |-> s.head]

Sort(heap, head) ==
    LET n == Cardinality(Chain(heap, head))
        after[i \in 0 .. n] ==
            IF i = 0 THEN [heap |-> heap, head |-> head, sorted |-> NULL]
            ELSE Pass(after[i - 1])
    IN  after[n]

LastOf(heap, head) ==
    CHOOSE a \in Chain(heap, head) : heap[a].next = NULL

order_queue(L) ==
    IF L.head = NULL \/ L.heap[L.head].next = NULL THEN L
    ELSE LET s == Sort(L.heap, L.head)
         IN  [L EXCEPT !.heap = s.heap, !.head = s.sorted,
                       !.tail = LastOf(s.heap, s.sorted)]

find_node(L, uid) ==
    FirstIn(L.heap, L.head, {a \in Addr : L.heap[a].uid = uid} \cup {NULL})

(***************************************************************************)
(* Only when the node is not the first does tail follow.  Faulty variant:  *)
(* it never does.                                                          *)
(***************************************************************************)
Unlink_TailKept(L, a) ==
    LET prev == CHOOSE b \in Linked(L) : L.heap[b].next = a
    IN  [L EXCEPT !.heap[prev].next = L.heap[a].next, !.live = @ \ {a}]

Unlink(L, a) ==
    LET prev == CHOOSE b \in Linked(L) : L.heap[b].next = a
    IN  [L EXCEPT !.heap[prev].next = L.heap[a].next,
                  !.tail = IF @ = a THEN prev ELSE @,
                  !.live = @ \ {a}]

dequeue(L, uid) ==
    LET a == find_node(L, uid)
    IN  IF a = NULL THEN L
        ELSE IF a = L.head
        THEN [L EXCEPT !.head = L.heap[a].next, !.live = @ \ {a}]
        ELSE Unlink(L, a)
=============================================================================
