--------------------------- MODULE HashMapProofs ---------------------------
(***************************************************************************)
(* What the operators of HashMap compute, for every table, key and log:    *)
(* the bucket of a key, what insert_node() adds and leaves alone, which    *)
(* node get_node() finds, and the table init_hash_from_log() rebuilds.     *)
(* The recursive functions of HashMap are shown to satisfy their equations *)
(* (Recursion), and facts about them follow by induction (Segment).        *)
(***************************************************************************)
EXTENDS HashMap, SegmentInduction, SequenceTheorems

Keys == Seq(0 .. 127)

Nodes(V) == [key : Keys, val : V]

MapOf(V) == [Bucket -> Seq(Nodes(V))]

-----------------------------------------------------------------------------
(* The bucket of a key *)

(***************************************************************************)
(* hash_string() of a key is the number of a bucket, overflow of its 32    *)
(* bits included.                                                          *)
(***************************************************************************)
LEMMA HashInBucket ==
    ASSUME NEW key \in Keys
    PROVE  hash_string(key) \in Bucket
<1> DEFINE n == Len(key)
           S == [hi : Nat, lo : Nat]
           Body(h, i) == LET lo == h.lo * 32 + key[i]
                         IN  [hi |-> (h.hi * 32 + lo \div Half) % Half,
                              lo |-> lo % Half]
           step == [i \in 1 .. n |-> [h \in S |-> Body(h, i)]]
           s == [hi |-> 0, lo |-> 5381]
<1>0. n \in Nat
  BY DEF Keys
<1>1. s \in S
  OBVIOUS
<1>2. \A i \in 1 .. n : key[i] \in Nat
  <2>1. \A i \in 1 .. n : key[i] \in 0 .. 127
    BY ElementOfSeq DEF Keys
  <2> HIDE DEF n
  <2>2. QED
    BY <2>1
<1>3. ASSUME NEW h \in S, NEW i \in 1 .. n PROVE Body(h, i) \in S
  <2> DEFINE lo == h.lo * 32 + key[i]
  <2>1. lo \in Nat
    BY <1>2, <1>3
  <2>2. lo % Half \in Nat /\ lo \div Half \in Nat
    <3> HIDE DEF lo
    <3> QED
      BY <2>1 DEF Half
  <2>3. h.hi * 32 + lo \div Half \in Nat
    <3> HIDE DEF lo
    <3> QED
      BY <2>2, <1>3
  <2>4. (h.hi * 32 + lo \div Half) % Half \in Nat
    <3> DEFINE x == h.hi * 32 + lo \div Half
    <3> HIDE DEF x
    <3> QED
      BY <2>3 DEF Half
  <2>5. QED
    BY <2>2, <2>4
<1>4. step \in [1 .. n -> [S -> S]]
  <2> HIDE DEF Body
  <2> QED
    BY <1>3
<1>5. PICK f \in [0 .. n -> S] : Follows(f, n, s, step)
  <2> HIDE DEF step, S, s, n, Body
  <2> QED
    BY <1>0, <1>1, <1>4, Recursion
<1>6. f = [i \in 0 .. n |-> IF i = 0 THEN s ELSE Body(f[i - 1], i)]
  <2>1. \A i \in 1 .. n : f[i - 1] \in S
    <3> HIDE DEF S, n
    <3> QED
      BY <1>0, <1>1, <1>5
  <2>2. \A i \in 1 .. n : f[i] = Body(f[i - 1], i)
    <3> HIDE DEF Body, s, n, S
    <3> QED
      BY <1>5, <2>1 DEF Follows
  <2> HIDE DEF Body, s, n, S
  <2>3. QED
    BY <1>0, <1>1, <1>5, <2>2 DEF Follows
<1> DEFINE hash == CHOOSE h : h = [i \in 0 .. n |-> IF i = 0 THEN s
                                                   ELSE Body(h[i - 1], i)]
<1>7. hash = [i \in 0 .. n |-> IF i = 0 THEN s ELSE Body(hash[i - 1], i)]
  <2> HIDE DEF Body, s, n
  <2> QED
    BY <1>6
<1>8. hash[n] \in S
  <2> DEFINE G == {i \in 0 .. n : hash[i] \in S}
  <2>1. 0 \in G
    <3> HIDE DEF Body, n, hash, S
    <3> QED
      BY <1>0, <1>1, <1>7
  <2>2. \A i \in 1 .. n : i - 1 \in G => i \in G
    <3> HIDE DEF Body, n, hash, S, s
    <3> QED
      BY <1>0, <1>1, <1>3, <1>7
  <2>3. QED
    <3> HIDE DEF G, hash, S, n
    <3>1. \A i \in 0 .. n : i \in G
      BY <1>0, <2>1, <2>2, Segment
    <3>2. QED
      BY <1>0, <3>1 DEF G
<1>9. hash_string(key) =
         ((hash[n].hi % TABLESIZE) * (Half % TABLESIZE) + hash[n].lo) % TABLESIZE
  BY DEF hash_string
<1>10. QED
  <2> DEFINE h == hash[n]
             x == (h.hi % TABLESIZE) * (Half % TABLESIZE) + h.lo
  <2>1. h \in S
    BY <1>8
  <2>2. hash_string(key) = x % TABLESIZE
    BY <1>9
  <2> HIDE DEF h
  <2>3. h.hi % TABLESIZE \in Nat /\ Half % TABLESIZE \in Nat
    BY <2>1 DEF TABLESIZE, Half
  <2>4. \A a, b, c \in Nat : a * b + c \in Nat
    OBVIOUS
  <2>5. x \in Nat
    BY <2>1, <2>3, <2>4
  <2> HIDE DEF x
  <2>6. x % TABLESIZE \in Bucket
    BY <2>5 DEF TABLESIZE, Bucket
  <2>7. QED
    BY <2>2, <2>6

-----------------------------------------------------------------------------
(* Places, and the node that hides the others of its key *)

(***************************************************************************)
(* FirstOf() of places is one of them, and the least.                      *)
(***************************************************************************)
LEMMA FirstIsLeast ==
    ASSUME NEW I \in SUBSET Nat, I # {}
    PROVE  FirstOf(I) \in I /\ \A j \in I : FirstOf(I) <= j
  BY LeastNumber DEF FirstOf

(***************************************************************************)
(* A least place is the one FirstOf() gives.                               *)
(***************************************************************************)
LEMMA FirstIs ==
    ASSUME NEW I \in SUBSET Nat, NEW i \in I, \A j \in I : i <= j
    PROVE  FirstOf(I) = i
<1>1. FirstOf(I) \in I /\ FirstOf(I) <= i
  BY FirstIsLeast
<1>2. FirstOf(I) \in Nat /\ i \in Nat /\ i <= FirstOf(I)
  BY <1>1
<1>3. QED
  BY <1>1, <1>2

(***************************************************************************)
(* The places of a key are natural numbers.                                *)
(***************************************************************************)
LEMMA PlacesAreNat ==
    ASSUME NEW m, NEW key
    PROVE  Places(m, key) \in SUBSET Nat
  BY DEF Places

(***************************************************************************)
(* What a table holds for a key that has a node.                           *)
(***************************************************************************)
CurrentIn(m, key) == m[hash_string(key)][FirstOf(Places(m, key))].val

(***************************************************************************)
(* A chain after a node has been linked in front of it.                    *)
(***************************************************************************)
LEMMA InFront ==
    ASSUME NEW T, NEW s \in Seq(T), NEW x \in T, NEW t, t = <<x>> \o s
    PROVE  /\ t \in Seq(T)
           /\ Len(t) = Len(s) + 1
           /\ t[1] = x
           /\ \A i \in 1 .. Len(s) : t[i + 1] = s[i]
           /\ \A i \in 1 .. Len(t) : i = 1 \/ t[i] = s[i - 1]
  OBVIOUS

(***************************************************************************)
(* insert_node() on the chain of n.key.                                    *)
(***************************************************************************)
LEMMA InsertChain ==
    ASSUME NEW V, NEW m \in MapOf(V), NEW n \in Nodes(V)
    PROVE  /\ insert_node(m, n) \in MapOf(V)
           /\ insert_node(m, n)[hash_string(n.key)] = <<n>> \o m[hash_string(n.key)]
           /\ \A b \in Bucket \ {hash_string(n.key)} : insert_node(m, n)[b] = m[b]
<1>1. hash_string(n.key) \in Bucket
  BY HashInBucket DEF Nodes
<1>2. <<n>> \o m[hash_string(n.key)] \in Seq(Nodes(V))
  BY <1>1, InFront DEF MapOf
<1>3. QED
  BY <1>1, <1>2 DEF insert_node, MapOf

(***************************************************************************)
(* After insert_node() the table has the new value for the key.            *)
(***************************************************************************)
LEMMA InsertSame ==
    ASSUME NEW V, NEW m \in MapOf(V), NEW n \in Nodes(V)
    PROVE  /\ Places(insert_node(m, n), n.key) # {}
           /\ CurrentIn(insert_node(m, n), n.key) = n.val
<1> DEFINE b == hash_string(n.key)
           t == insert_node(m, n)[b]
           I == Places(insert_node(m, n), n.key)
<1>0. b \in Bucket
  BY HashInBucket DEF Nodes
<1>1. t = <<n>> \o m[b] /\ m[b] \in Seq(Nodes(V))
  BY <1>0, InsertChain DEF MapOf
<1>2. t[1] = n /\ 1 \in 1 .. Len(t)
  BY <1>1, InFront
<1>3. 1 \in I /\ \A j \in I : 1 <= j
  BY <1>2 DEF Places
<1>4. FirstOf(I) = 1
  BY <1>3, FirstIs, PlacesAreNat
<1>5. QED
  BY <1>2, <1>3, <1>4 DEF CurrentIn

(***************************************************************************)
(* For every other key it has what it had.                                 *)
(***************************************************************************)
LEMMA InsertOther ==
    ASSUME NEW V, NEW m \in MapOf(V), NEW n \in Nodes(V), NEW key \in Keys,
           key # n.key
    PROVE  /\ Places(insert_node(m, n), key) = {} <=> Places(m, key) = {}
           /\ Places(m, key) # {} =>
                 CurrentIn(insert_node(m, n), key) = CurrentIn(m, key)
<1> DEFINE b == hash_string(key)
           s == m[b]
           t == insert_node(m, n)[b]
           I == Places(m, key)
           J == Places(insert_node(m, n), key)
<1>1. b \in Bucket /\ s \in Seq(Nodes(V))
  BY HashInBucket DEF MapOf
<1>2. CASE b # hash_string(n.key)
  <2>0. b \in Bucket \ {hash_string(n.key)}
    BY <1>1, <1>2
  <2>1. t = s
    <3> HIDE DEF b
    <3> QED
      BY <2>0, InsertChain
  <2>2. QED
    BY <2>1 DEF Places, CurrentIn
<1>3. CASE b = hash_string(n.key)
  <2>1. t = <<n>> \o s
    BY <1>3, InsertChain
  <2>2. /\ Len(s) \in Nat /\ Len(t) = Len(s) + 1
        /\ t[1] = n
        /\ \A i \in 1 .. Len(s) : t[i + 1] = s[i]
        /\ \A i \in 1 .. Len(t) : i = 1 \/ t[i] = s[i - 1]
    BY <1>1, <2>1, InFront
  <2>3. I = {i \in 1 .. Len(s) : s[i].key = key}
    BY DEF Places
  <2>4. J = {i \in 1 .. Len(t) : t[i].key = key}
    BY DEF Places
  <2> HIDE DEF s, t, I, J
  <2>5. \A i \in I : i + 1 \in J /\ t[i + 1] = s[i]
    BY <2>2, <2>3, <2>4
  <2>6. \A j \in J : j - 1 \in I
    BY <2>2, <2>3, <2>4
  <2>7. ASSUME I # {} PROVE FirstOf(J) = FirstOf(I) + 1
    <3>0. I \in SUBSET Nat /\ J \in SUBSET Nat
      BY <2>2, <2>3, <2>4
    <3>1. FirstOf(I) \in I /\ \A i \in I : FirstOf(I) <= i
      BY <2>7, <3>0, FirstIsLeast
    <3>2. \A j \in J : FirstOf(I) <= j - 1
      BY <2>6, <3>1
    <3>3. FirstOf(I) + 1 \in J
      BY <2>5, <3>1
    <3>4. \A j \in J : FirstOf(I) + 1 <= j
      <4>1. FirstOf(I) \in Nat /\ \A j \in J : j \in Nat
        BY <3>0, <3>1
      <4>2. QED
        BY <4>1, <3>2
    <3>5. QED
      BY <3>0, <3>3, <3>4, FirstIs
  <2>8. ASSUME I # {} PROVE t[FirstOf(J)] = s[FirstOf(I)]
    <3>1. I \in SUBSET Nat
      BY <2>2, <2>3
    <3>2. FirstOf(I) \in I
      BY <2>8, <3>1, FirstIsLeast
    <3>3. QED
      BY <2>5, <2>7, <2>8, <3>2
  <2>9. J = {} <=> I = {}
    BY <2>5, <2>6
  <2>10. QED
    BY <2>8, <2>9 DEF CurrentIn, s, t, I, J
<1>4. QED
  BY <1>2, <1>3

(***************************************************************************)
(* The nodes of the table after insert_node() are the new one and those it *)
(* had.                                                                    *)
(***************************************************************************)
LEMMA InsertNodes ==
    ASSUME NEW V, NEW m \in MapOf(V), NEW n \in Nodes(V), NEW b \in Bucket,
           NEW i \in 1 .. Len(insert_node(m, n)[b])
    PROVE  \/ insert_node(m, n)[b][i] = n
           \/ \E j \in 1 .. Len(m[b]) : insert_node(m, n)[b][i] = m[b][j]
<1> DEFINE s == m[b]
           t == insert_node(m, n)[b]
<1>1. s \in Seq(Nodes(V))
  BY DEF MapOf
<1>2. CASE b # hash_string(n.key)
  <2>1. b \in Bucket \ {hash_string(n.key)}
    BY <1>2
  <2>2. t = s
    BY <2>1, InsertChain
  <2>3. QED
    BY <2>2
<1>3. CASE b = hash_string(n.key)
  <2>1. t = <<n>> \o s
    BY <1>3, InsertChain
  <2>2. /\ Len(s) \in Nat /\ Len(t) = Len(s) + 1
        /\ t[1] = n
        /\ \A k \in 1 .. Len(t) : k = 1 \/ t[k] = s[k - 1]
    BY <1>1, <2>1, InFront
  <2>3. i \in 1 .. Len(t)
    OBVIOUS
  <2> HIDE DEF s, t
  <2>4. t[i] = n \/ \E j \in 1 .. Len(s) : t[i] = s[j]
    BY <2>2, <2>3
  <2>5. QED
    BY <2>4 DEF s, t
<1>4. QED
  BY <1>2, <1>3

-----------------------------------------------------------------------------
(* get_node() *)

(***************************************************************************)
(* strncmp() over the whole length of a key compares all of it.            *)
(***************************************************************************)
LEMMA WholeKey ==
    ASSUME NEW key \in Keys
    PROVE  SubSeq(key, 1, Len(key)) = key
  BY SubSeqFull DEF Keys

(***************************************************************************)
(* When the key is a proper prefix of no key in its chain, get_node()      *)
(* finds the node that hides the others of that key, or nothing.           *)
(***************************************************************************)
LEMMA GetExact ==
    ASSUME NEW V, NEW m \in MapOf(V), NEW key \in Keys,
           \A i \in 1 .. Len(m[hash_string(key)]) :
              StartsWith(m[hash_string(key)][i].key, key)
                 => m[hash_string(key)][i].key = key
    PROVE  get_node(m, key) =
              IF Places(m, key) = {} THEN {}
              ELSE {m[hash_string(key)][FirstOf(Places(m, key))]}
<1> DEFINE s == m[hash_string(key)]
           I == {i \in 1 .. Len(s) : StartsWith(s[i].key, key)}
<1>1. StartsWith(key, key)
  <2>1. Len(key) \in Nat
    BY DEF Keys
  <2>2. QED
    BY <2>1, WholeKey DEF StartsWith
<1>2. I = Places(m, key)
  BY <1>1 DEF Places
<1>3. QED
  BY <1>2 DEF get_node

(***************************************************************************)
(* get_node() returns NULL when no key of the chain starts with the one    *)
(* asked for.                                                              *)
(***************************************************************************)
LEMMA GetNothing ==
    ASSUME NEW m, NEW key,
           \A i \in 1 .. Len(m[hash_string(key)]) :
              ~ StartsWith(m[hash_string(key)][i].key, key)
    PROVE  get_node(m, key) = {}
  BY DEF get_node

-----------------------------------------------------------------------------
(* init_hash_from_log() *)

(***************************************************************************)
(* As every node of a rebuilt table has the content g of the uninitialised *)
(* buffer, overwriting a node changes nothing.                             *)
(***************************************************************************)
LEMMA ReplayStep ==
    ASSUME NEW g, NEW m \in MapOf({g}), NEW e, e.key \in Keys, NEW skip
    PROVE  replay(m, e, skip, g) =
              IF e.val \in skip \/ Places(m, e.key) # {} THEN m
              ELSE insert_node(m, [key |-> e.key, val |-> g])
<1> DEFINE b == hash_string(e.key)
           s == m[b]
           i == FirstOf(Places(m, e.key))
<1>1. SUFFICES ASSUME e.val \notin skip, Places(m, e.key) # {}
               PROVE  [m EXCEPT ![b][i].val = g] = m
  BY DEF replay
<1>2. b \in Bucket /\ s \in Seq(Nodes({g}))
  BY HashInBucket DEF MapOf
<1>3. i \in 1 .. Len(s)
  BY <1>1, FirstIsLeast, PlacesAreNat DEF Places
<1>4. s[i] \in Nodes({g})
  BY <1>2, <1>3, ElementOfSeq
<1>5. [s[i] EXCEPT !.val = g] = s[i]
  BY <1>4 DEF Nodes
<1>6. [s EXCEPT ![i] = s[i]] = s
  BY <1>2, <1>3
<1>7. [m EXCEPT ![b] = s] = m
  BY <1>2 DEF MapOf
<1>8. QED
  BY <1>5, <1>6, <1>7

(***************************************************************************)
(* The table after the first i entries of the log.                         *)
(***************************************************************************)
Rebuilt(m, log, skip, g, i) ==
    /\ m \in MapOf({g})
    /\ \A key \in Keys :
          Places(m, key) # {} <=>
              \E j \in 1 .. i : log[j].key = key /\ log[j].val \notin skip
    /\ \A b \in Bucket : \A k \in 1 .. Len(m[b]) :
          \E j \in 1 .. i : log[j].key = m[b][k].key /\ log[j].val \notin skip

(***************************************************************************)
(* One more entry read by init_hash_from_log() keeps what Rebuilt says of  *)
(* the entries before it.                                                  *)
(***************************************************************************)
LEMMA ReplayRebuilds ==
    ASSUME NEW g, NEW skip, NEW W, NEW log \in Seq(Nodes(W)),
           NEW i \in 1 .. Len(log), NEW m, Rebuilt(m, log, skip, g, i - 1)
    PROVE  Rebuilt(replay(m, log[i], skip, g), log, skip, g, i)
<1> DEFINE e == log[i]
           n == [key |-> e.key, val |-> g]
           r == replay(m, e, skip, g)
<1>1. m \in MapOf({g}) /\ e \in Nodes(W) /\ i \in Nat /\ i >= 1
  BY ElementOfSeq DEF Rebuilt
<1>2. e.key \in Keys /\ n \in Nodes({g}) /\ n.key = e.key
  BY <1>1 DEF Nodes
<1>3. 1 .. i = (1 .. i - 1) \cup {i}
  BY <1>1
<1>4. r = IF e.val \in skip \/ Places(m, e.key) # {} THEN m ELSE insert_node(m, n)
  BY <1>1, <1>2, ReplayStep
<1>5. CASE e.val \in skip \/ Places(m, e.key) # {}
  <2>1. r = m
    BY <1>4, <1>5
  <2>2. ASSUME NEW key \in Keys
        PROVE  Places(m, key) # {} <=>
                  \E j \in 1 .. i : log[j].key = key /\ log[j].val \notin skip
    BY <1>3, <1>5 DEF Rebuilt
  <2>3. QED
    <3> HIDE DEF r, e
    <3> QED
      BY <1>1, <1>3, <2>1, <2>2 DEF Rebuilt, r, e
<1>6. CASE ~ (e.val \in skip \/ Places(m, e.key) # {})
  <2>1. r = insert_node(m, n)
    BY <1>4, <1>6
  <2>2. r \in MapOf({g})
    BY <1>1, <1>2, <2>1, InsertChain
  <2>3. ASSUME NEW key \in Keys
        PROVE  Places(r, key) # {} <=>
                  \E j \in 1 .. i : log[j].key = key /\ log[j].val \notin skip
    <3>1. CASE key = e.key
      BY <1>1, <1>2, <1>6, <2>1, <3>1, InsertSame
    <3>2. CASE key # e.key
      <4>1. Places(r, key) # {} <=> Places(m, key) # {}
        BY <1>1, <1>2, <2>1, <3>2, InsertOther
      <4>2. QED
        BY <1>3, <3>2, <4>1 DEF Rebuilt
    <3>3. QED
      BY <3>1, <3>2
  <2>4. ASSUME NEW b \in Bucket, NEW k \in 1 .. Len(r[b])
        PROVE  \E j \in 1 .. i : /\ log[j].key = r[b][k].key
                                 /\ log[j].val \notin skip
    <3>1. r[b][k] = n \/ \E j \in 1 .. Len(m[b]) : r[b][k] = m[b][j]
      BY <1>1, <1>2, <2>1, InsertNodes
    <3>2. CASE r[b][k] = n
      BY <1>1, <1>2, <1>6, <3>2
    <3>3. ASSUME NEW l \in 1 .. Len(m[b]), r[b][k] = m[b][l]
          PROVE  \E j \in 1 .. i : /\ log[j].key = r[b][k].key
                                   /\ log[j].val \notin skip
      BY <1>3, <3>3 DEF Rebuilt
    <3>4. QED
      BY <3>1, <3>2, <3>3
  <2>5. QED
    BY <2>2, <2>3, <2>4 DEF Rebuilt
<1>7. QED
  BY <1>5, <1>6

(***************************************************************************)
(* For every log, init_hash_from_log() rebuilds a table that has a node    *)
(* for exactly the keys of the entries that are not too long, and in each  *)
(* node the content of the uninitialised buffer.                           *)
(***************************************************************************)
THEOREM TableFromLog ==
    ASSUME NEW g, NEW skip, NEW W, NEW log \in Seq(Nodes(W))
    PROVE  Rebuilt(init_hash_from_log(log, skip, g), log, skip, g, Len(log))
<1> DEFINE n == Len(log)
           S == MapOf({g})
           step == [i \in 1 .. n |-> [m \in S |-> replay(m, log[i], skip, g)]]
           IsTable(f) == f = [i \in 0 .. n |->
                                IF i = 0 THEN EmptyMap
                                ELSE replay(f[i - 1], log[i], skip, g)]
<1>1. n \in Nat
  OBVIOUS
<1>2. EmptyMap \in S /\ Rebuilt(EmptyMap, log, skip, g, 0)
  <2>1. EmptyMap \in S /\ \A b \in Bucket : EmptyMap[b] = <<>>
    BY DEF EmptyMap, MapOf
  <2>2. \A key \in Keys : Places(EmptyMap, key) = {}
    BY <2>1, HashInBucket DEF Places
  <2>3. QED
    BY <2>1, <2>2 DEF Rebuilt
<1>3. ASSUME NEW i \in 1 .. n, NEW m \in S PROVE replay(m, log[i], skip, g) \in S
  <2>0. log[i] \in Nodes(W)
    BY ElementOfSeq
  <2>1. log[i].key \in Keys
    BY <2>0 DEF Nodes
  <2>2. [key |-> log[i].key, val |-> g] \in Nodes({g})
    BY <2>1 DEF Nodes
  <2>3. insert_node(m, [key |-> log[i].key, val |-> g]) \in S
    BY <2>2, InsertChain
  <2>4. replay(m, log[i], skip, g) \in {m, insert_node(m, [key |-> log[i].key,
                                                         val |-> g])}
    BY <2>1, ReplayStep
  <2>5. QED
    BY <2>3, <2>4
<1>4. \E f : IsTable(f)
  <2>1. step \in [1 .. n -> [S -> S]]
    BY <1>3
  <2>2. PICK f \in [0 .. n -> S] : Follows(f, n, EmptyMap, step)
    <3> HIDE DEF step, S, n
    <3> QED
      BY <1>1, <1>2, <2>1, Recursion
  <2>3. \A i \in 1 .. n : f[i - 1] \in S
    <3> HIDE DEF S, n
    <3> QED
      BY <1>1, <2>2
  <2>4. \A i \in 1 .. n : f[i] = replay(f[i - 1], log[i], skip, g)
    <3> HIDE DEF S, n
    <3> QED
      BY <2>2, <2>3 DEF Follows
  <2> HIDE DEF S, n
  <2>5. IsTable(f)
    BY <1>1, <2>2, <2>4 DEF Follows
  <2> QED
    BY <2>5
<1> DEFINE m == CHOOSE f : IsTable(f)
<1>5. IsTable(m)
  <2> HIDE DEF IsTable
  <2> QED
    BY <1>4
<1>6. init_hash_from_log(log, skip, g) = m[n]
  BY DEF init_hash_from_log
<1>7. m[0] = EmptyMap /\ \A i \in 1 .. n : m[i] = replay(m[i - 1], log[i], skip, g)
  <2> HIDE DEF m, n
  <2> QED
    BY <1>1, <1>5
<1> DEFINE G == {i \in 0 .. n : Rebuilt(m[i], log, skip, g, i)}
<1>8. 0 \in G
  <2> HIDE DEF m, n
  <2> QED
    BY <1>1, <1>2, <1>7
<1>9. ASSUME NEW i \in 1 .. n, i - 1 \in G PROVE i \in G
  <2> HIDE DEF m
  <2>1. Rebuilt(m[i], log, skip, g, i)
    BY <1>7, <1>9, ReplayRebuilds
  <2>2. QED
    BY <2>1
<1>10. \A i \in 0 .. n : i \in G
  <2> HIDE DEF G, n
  <2> QED
    BY <1>1, <1>8, <1>9, Segment
<1>11. Rebuilt(m[n], log, skip, g, n)
  <2> HIDE DEF m, n
  <2> QED
    BY <1>1, <1>10
<1>12. QED
  BY <1>6, <1>11
=============================================================================
