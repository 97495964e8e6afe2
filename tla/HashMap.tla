------------------------------ MODULE HashMap ------------------------------
(***************************************************************************)
(* The chained hash map of memcache_lite/hashmap.c and its reconstruction  *)
(* from the log (init_hash_from_log of server_mt.c), as operators.  A key  *)
(* is the sequence of its character codes; a chain is a sequence of nodes, *)
(* the bucket's head first.                                                *)
(***************************************************************************)
EXTENDS Naturals, Sequences

TABLESIZE == 5

Bucket == 0 .. TABLESIZE - 1

EmptyMap == [b \in Bucket |-> <<>>]

(***************************************************************************)
(* hash = (hash << 5) + c in 32 bits, kept as two halves of 16 bits.       *)
(***************************************************************************)
Half == 65536

hash_string(key) ==
    LET hash[i \in 0 .. Len(key)] ==
            IF i = 0 THEN [hi |-> 0, lo |-> 5381]
            ELSE LET lo == hash[i-1].lo * 32 + key[i]
                 IN  [hi |-> (hash[i-1].hi * 32 + lo \div Half) % Half,
                      lo |-> lo % Half]
        h == hash[Len(key)]
    IN  ((h.hi % TABLESIZE) * (Half % TABLESIZE) + h.lo) % TABLESIZE

(***************************************************************************)
(* strncmp(s, key, strlen(key)) = 0.                                       *)
(***************************************************************************)
StartsWith(s, key) == Len(key) <= Len(s) /\ SubSeq(s, 1, Len(key)) = key

FirstOf(I) == CHOOSE i \in I : \A j \in I : i <= j

(***************************************************************************)
(* insert_node() links the node at the head of its chain, where it hides   *)
(* an older node of the same key.  Faulty variant: at the end.             *)
(***************************************************************************)
insert_node_Last(m, n) == [m EXCEPT ![hash_string(n.key)] = Append(@, n)]

insert_node(m, n) == [m EXCEPT ![hash_string(n.key)] = <<n>> \o @]

(***************************************************************************)
(* get_node(): the set of the node found, empty for NULL.                  *)
(***************************************************************************)
get_node(m, key) ==
    LET chain == m[hash_string(key)]
        I == {i \in 1 .. Len(chain) : StartsWith(chain[i].key, key)}
    IN  IF I = {} THEN {} ELSE {chain[FirstOf(I)]}

(***************************************************************************)
(* The places of the nodes whose key is exactly key, in their chain.       *)
(***************************************************************************)
Places(m, key) ==
    LET chain == m[hash_string(key)]
    IN  {i \in 1 .. Len(chain) : chain[i].key = key}

(***************************************************************************)
(* One log entry read back: an existing node is overwritten in place, a    *)
(* new one is inserted, and one of at least 700 bytes (skip) is passed     *)
(* over.  The value is on the line after the one that sscanf() looks at,   *)
(* so what is stored is the uninitialised buffer g instead.  Faulty        *)
(* variant: only existing nodes are updated.                               *)
(***************************************************************************)
replay_UpdateOnly(m, e, skip, g) ==
    IF e.val \in skip \/ Places(m, e.key) = {} THEN m
    ELSE [m EXCEPT ![hash_string(e.key)][FirstOf(Places(m, e.key))].val = g]

replay(m, e, skip, g) ==
    IF e.val \in skip THEN m
    ELSE IF Places(m, e.key) = {} THEN insert_node(m, [key |-> e.key, val |-> g])
    ELSE [m EXCEPT ![hash_string(e.key)][FirstOf(Places(m, e.key))].val = g]

init_hash_from_log(log, skip, g) ==
    LET m[i \in 0 .. Len(log)] ==
            IF i = 0 THEN EmptyMap ELSE replay(m[i-1], log[i], skip, g)
    IN  m[Len(log)]
=============================================================================
