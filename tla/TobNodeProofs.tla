--------------------------- MODULE TobNodeProofs ---------------------------
(***************************************************************************)
(* Proofs about TobNode, for any number of processes, any messages and any *)
(* memory: what the operators of MsgList do to a list that is given as the *)
(* sequence of its addresses, what TobFrame makes of a frame, that NInv is *)
(* inductive, and that the process implements MsgQueue.                    *)
(***************************************************************************)
EXTENDS TobNodeInv, SegmentInduction, FiniteSetTheorems, SequenceTheorems

-----------------------------------------------------------------------------
(* Sequences of addresses *)

(***************************************************************************)
(* The number of addresses is a natural number.                            *)
(***************************************************************************)
LEMMA SizeType == Size \in Nat
BY AddrAssumption, FS_CardinalityType DEF Size

(***************************************************************************)
(* A function on 1 .. n is a sequence of length n.                         *)
(***************************************************************************)
LEMMA FunctionIsSeq ==
    ASSUME NEW n \in Nat, NEW s \in [1 .. n -> Addr]
    PROVE  s \in Seq(Addr) /\ Len(s) = n
OBVIOUS

(***************************************************************************)
(* What it means to be in Lists.                                           *)
(***************************************************************************)
LEMMA ListType ==
    ASSUME NEW s \in Lists
    PROVE  /\ s \in Seq(Addr)
           /\ Len(s) \in 0 .. Size
           /\ s \in [1 .. Len(s) -> Addr]
           /\ \A i \in 1 .. Len(s) : s[i] \in Addr /\ s[i] # NULL
           /\ \A i, j \in 1 .. Len(s) : s[i] = s[j] => i = j
<1>1. PICK n \in 0 .. Size : s \in [1 .. n -> Addr]
  BY DEF Lists
<1>2. n \in Nat
  BY SizeType
<1>3. s \in Seq(Addr) /\ Len(s) = n
  BY <1>1, <1>2, FunctionIsSeq
<1>4. \A i, j \in 1 .. Len(s) : s[i] = s[j] => i = j
  BY <1>1, <1>3 DEF Lists
<1>5. QED
  BY <1>1, <1>3, <1>4, AddrAssumption

(***************************************************************************)
(* A sequence of different addresses is in Lists, however long: there are  *)
(* no more of them than addresses.                                         *)
(***************************************************************************)
LEMMA InLists ==
    ASSUME NEW n \in Nat, NEW s \in [1 .. n -> Addr],
           \A i, j \in 1 .. n : s[i] = s[j] => i = j
    PROVE  s \in Lists /\ Len(s) = n
<1>1. s \in Injection(1 .. n, Addr)
  BY DEF Injection, IsInjective
<1>2. Cardinality(1 .. n) <= Size
  BY <1>1, AddrAssumption, FS_Injection DEF Size
<1>3. Cardinality(1 .. n) = n
  BY FS_Interval
<1>4. n \in 0 .. Size
  BY <1>2, <1>3, SizeType
<1>5. QED
  BY <1>4, FunctionIsSeq DEF Lists

Elems(s) == {s[i] : i \in 1 .. Len(s)}

(***************************************************************************)
(* The number of addresses in a list is its length.                        *)
(***************************************************************************)
LEMMA ListCardinality ==
    ASSUME NEW s \in Lists
    PROVE  Cardinality(Elems(s)) = Len(s)
<1> DEFINE T == {s[i] : i \in 1 .. Len(s)}
           n == Len(s)
<1>1. n \in Nat /\ s \in [1 .. n -> T] /\ \A i, j \in 1 .. n : s[i] = s[j] => i = j
  BY ListType, SizeType
<1>2. s \in Bijection(1 .. n, T)
  BY <1>1 DEF Bijection, Injection, Surjection, IsInjective
<1>3. IsFiniteSet(1 .. n) /\ Cardinality(1 .. n) = n
  <2> HIDE DEF n
  <2>1. QED
    BY <1>1, FS_Interval
<1>4. ExistsBijection(1 .. n, T)
  BY <1>2 DEF ExistsBijection
<1>5. Cardinality(T) = Cardinality(1 .. n)
  BY <1>3, <1>4, FS_Bijection
<1>6. QED
  BY <1>3, <1>5 DEF Elems

-----------------------------------------------------------------------------
(* Walking along a list *)

(***************************************************************************)
(* The walk from a comes to the addresses of its path, one by one, and     *)
(* then stays at NULL.                                                     *)
(***************************************************************************)
LEMMA WalkPath ==
    ASSUME NEW heap, NEW a, NEW s \in Lists, IsPath(heap, a, s)
    PROVE  \A i \in 0 .. Size : Walk(heap, a)[i] = At(s, i + 1)
<1> DEFINE IsWalk(f) ==
               f = [i \in 0 .. Size |->
                       IF i = 0 THEN a
                       ELSE LET b == f[i - 1]
                            IN  IF b = NULL THEN NULL ELSE heap[b].next]
           w == [i \in 0 .. Size |-> At(s, i + 1)]
           f == Walk(heap, a)
<1>1. Size \in Nat /\ Len(s) \in Nat /\ \A i \in 1 .. Len(s) : s[i] # NULL
  BY SizeType, ListType
<1>2. ASSUME NEW i \in 0 .. Size
      PROVE  At(s, i + 1) = IF i = 0 THEN a
                            ELSE IF At(s, i) = NULL THEN NULL ELSE heap[At(s, i)].next
  <2>1. CASE i = 0
    BY <2>1 DEF IsPath
  <2>2. CASE i \in 1 .. Len(s)
    BY <1>1, <2>2 DEF IsPath, At
  <2>3. CASE i > Len(s)
    BY <1>1, <2>3 DEF At
  <2>4. QED
    BY <1>1, <2>1, <2>2, <2>3
<1>3. IsWalk(w)
  <2>1. \A i \in 1 .. Size : w[i - 1] = At(s, i)
    BY <1>1
  <2>2. QED
    BY <1>1, <1>2, <2>1
<1>4. f = CHOOSE g : IsWalk(g)
  BY DEF Walk
<1>5. IsWalk(f)
  <2> HIDE DEF IsWalk, w, f
  <2>1. QED
    BY <1>3, <1>4
<1> HIDE DEF f
<1>6. f[0] = At(s, 1)
  BY <1>1, <1>2, <1>5
<1>7. ASSUME NEW i \in 1 .. Size, f[i - 1] = At(s, i)
      PROVE  f[i] = At(s, i + 1)
  BY <1>1, <1>2, <1>5, <1>7
<1> DEFINE G == {i \in 0 .. Size : f[i] = At(s, i + 1)}
<1>8. 0 \in G
  BY <1>1, <1>6
<1>9. \A i \in 1 .. Size : i - 1 \in G => i \in G
  <2>1. SUFFICES ASSUME NEW i \in 1 .. Size, i - 1 \in G PROVE i \in G
    OBVIOUS
  <2>2. (i - 1) + 1 = i
    BY <1>1
  <2>3. QED
    BY <1>1, <1>7, <2>1, <2>2
<1>10. \A i \in 0 .. Size : i \in G
  <2> HIDE DEF G
  <2>1. QED
    BY <1>1, <1>8, <1>9, Segment
<1>11. QED
  BY <1>10 DEF f

(***************************************************************************)
(* Chain has exactly the addresses of the path.                            *)
(***************************************************************************)
LEMMA ChainPath ==
    ASSUME NEW heap, NEW a, NEW s \in Lists, IsPath(heap, a, s)
    PROVE  Chain(heap, a) = Elems(s)
<1>1. Size \in Nat /\ Len(s) \in 0 .. Size /\ \A i \in 1 .. Len(s) : s[i] # NULL
  BY SizeType, ListType
<1>2. \A i \in 0 .. Size : Walk(heap, a)[i] = At(s, i + 1)
  BY WalkPath
<1>3. ASSUME NEW b \in Chain(heap, a) PROVE \E i \in 1 .. Len(s) : b = s[i]
  <2>1. PICK i \in 0 .. Size : b = Walk(heap, a)[i] /\ b # NULL
    BY <1>3 DEF Chain
  <2>2. b = At(s, i + 1)
    BY <1>2, <2>1
  <2>3. QED
    BY <2>1, <2>2 DEF At
<1>4. ASSUME NEW i \in 1 .. Len(s) PROVE s[i] \in Chain(heap, a)
  <2>1. i - 1 \in 0 .. Size /\ (i - 1) + 1 = i
    BY <1>1
  <2>2. Walk(heap, a)[i - 1] = s[i]
    BY <1>2, <2>1 DEF At
  <2>3. QED
    BY <1>1, <2>1, <2>2 DEF Chain
<1>5. QED
  BY <1>3, <1>4 DEF Elems

(***************************************************************************)
(* FirstIn finds the first place of the path that is in S; the place       *)
(* behind the last is NULL.                                                *)
(***************************************************************************)
LEMMA FirstOnPath ==
    ASSUME NEW heap, NEW a, NEW s \in Lists, IsPath(heap, a, s),
           NEW S, NEW k \in 1 .. Len(s) + 1, k <= Size + 1, At(s, k) \in S,
           \A i \in 1 .. k - 1 : At(s, i) \notin S
    PROVE  FirstIn(heap, a, S) = At(s, k)
<1> DEFINE at == Walk(heap, a)
           I == {i \in 0 .. Size : at[i] \in S}
<1>1. Size \in Nat /\ Len(s) \in 0 .. Size
  BY SizeType, ListType
<1>2. \A i \in 0 .. Size : at[i] = At(s, i + 1)
  BY WalkPath
<1>3. k - 1 \in 0 .. Size /\ at[k - 1] = At(s, k)
  <2>1. k - 1 \in 0 .. Size /\ (k - 1) + 1 = k
    BY <1>1
  <2>2. QED
    BY <1>2, <2>1
<1>4. k - 1 \in I
  BY <1>3
<1>5. ASSUME NEW i \in I PROVE k - 1 <= i
  <2>1. SUFFICES ASSUME i < k - 1 PROVE FALSE
    BY <1>1
  <2>2. i + 1 \in 1 .. k - 1
    BY <1>1, <2>1
  <2>3. QED
    BY <1>2, <2>2
<1>6. Min(I) = k - 1
  <2> HIDE DEF I, at
  <2>1. I \subseteq 0 .. Size
    BY DEF I
  <2>2. \A x \in I : (\A y \in I : x <= y) => x = k - 1
    BY <1>1, <1>4, <1>5, <2>1
  <2>3. \E x \in I : \A y \in I : x <= y
    BY <1>4, <1>5
  <2>4. QED
    BY <2>2, <2>3 DEF Min
<1>7. FirstIn(heap, a, S) = at[Min(I)]
  BY DEF FirstIn
<1>8. QED
  BY <1>3, <1>6, <1>7

-----------------------------------------------------------------------------
(* Changing a list *)

Heaps == [Addr -> Cell]

(***************************************************************************)
(* The heap g differs from h in the links alone.                           *)
(***************************************************************************)
SameData(h, g) ==
    \A b \in Addr :
        /\ g[b].uid = h[b].uid /\ g[b].pid = h[b].pid /\ g[b].port = h[b].port
        /\ g[b].lc = h[b].lc /\ g[b].ack_flg = h[b].ack_flg
        /\ g[b].ack_count = h[b].ack_count

(***************************************************************************)
(* The sequence s with c at place k, and without what it has at place k.   *)
(***************************************************************************)
Inserted(s, k, c) ==
    [i \in 1 .. Len(s) + 1 |->
        IF i < k THEN s[i] ELSE IF i = k THEN c ELSE s[i - 1]]

Removed(s, k) ==
    [i \in 1 .. Len(s) - 1 |-> IF i < k THEN s[i] ELSE s[i + 1]]

(***************************************************************************)
(* Inserting an address that is not there gives a list.                    *)
(***************************************************************************)
LEMMA InsertedType ==
    ASSUME NEW s \in Lists, NEW c \in Addr, \A i \in 1 .. Len(s) : s[i] # c,
           NEW k \in 1 .. Len(s) + 1
    PROVE  /\ Inserted(s, k, c) \in Lists
           /\ Len(Inserted(s, k, c)) = Len(s) + 1
           /\ \A i \in 1 .. Len(s) + 1 : Inserted(s, k, c)[i] =
                 IF i < k THEN s[i] ELSE IF i = k THEN c ELSE s[i - 1]
           /\ Elems(Inserted(s, k, c)) = Elems(s) \cup {c}
<1> DEFINE n == Len(s)
           t == Inserted(s, k, c)
<1>1. n \in Nat /\ (\A i \in 1 .. n : s[i] \in Addr)
               /\ (\A i, j \in 1 .. n : s[i] = s[j] => i = j)
  BY ListType, SizeType
<1>2. \A i \in 1 .. n + 1 : t[i] =
         IF i < k THEN s[i] ELSE IF i = k THEN c ELSE s[i - 1]
  BY DEF Inserted
<1>3. t \in [1 .. n + 1 -> Addr]
  BY <1>1 DEF Inserted
<1> HIDE DEF t, n
<1> USE DEF n
<1>4. \A i, j \in 1 .. n + 1 : t[i] = t[j] => i = j
  <2>1. ASSUME NEW i \in 1 .. n + 1, i < k
        PROVE  i \in 1 .. n /\ t[i] = s[i] /\ t[i] # c
    BY <1>1, <1>2, <2>1
  <2>2. ASSUME NEW i \in 1 .. n + 1, i > k
        PROVE  i - 1 \in 1 .. n /\ t[i] = s[i - 1] /\ t[i] # c
    BY <1>1, <1>2, <2>2
  <2>3. k \in 1 .. n + 1 /\ t[k] = c
    BY <1>1, <1>2
  <2> SUFFICES ASSUME NEW i \in 1 .. n + 1, NEW j \in 1 .. n + 1, t[i] = t[j]
               PROVE  i = j
    OBVIOUS
  <2>4. CASE i < k
    <3>1. CASE j < k
      BY <1>1, <2>1, <2>4, <3>1
    <3>2. CASE j = k
      BY <2>1, <2>3, <2>4, <3>2
    <3>3. CASE j > k
      <4>1. i = j - 1
        BY <1>1, <2>1, <2>2, <2>4, <3>3
      <4>2. QED
        BY <1>1, <2>4, <3>3, <4>1
    <3>4. QED
      BY <1>1, <2>3, <3>1, <3>2, <3>3
  <2>5. CASE i = k
    <3>1. ~ (j < k) /\ ~ (j > k)
      BY <2>1, <2>2, <2>3, <2>5
    <3>2. QED
      BY <1>1, <2>3, <2>5, <3>1
  <2>6. CASE i > k
    <3>1. CASE j < k
      <4>1. j = i - 1
        BY <1>1, <2>1, <2>2, <2>6, <3>1
      <4>2. QED
        BY <1>1, <2>6, <3>1, <4>1
    <3>2. CASE j = k
      BY <2>2, <2>3, <2>6, <3>2
    <3>3. CASE j > k
      <4>1. i - 1 = j - 1
        BY <1>1, <2>2, <2>6, <3>3
      <4>2. QED
        BY <1>1, <4>1
    <3>4. QED
      BY <1>1, <2>3, <3>1, <3>2, <3>3
  <2>7. QED
    BY <1>1, <2>3, <2>4, <2>5, <2>6
<1>5. t \in Lists /\ Len(t) = n + 1
  BY <1>1, <1>3, <1>4, InLists
<1>6. ASSUME NEW b \in {t[i] : i \in 1 .. n + 1}
      PROVE  b \in {s[i] : i \in 1 .. n} \cup {c}
  BY <1>1, <1>2, <1>6
<1>7. c \in {t[i] : i \in 1 .. n + 1}
  BY <1>1, <1>2
<1>8. ASSUME NEW i \in 1 .. n PROVE s[i] \in {t[j] : j \in 1 .. n + 1}
  <2>1. CASE i < k
    BY <1>1, <1>2, <2>1
  <2>2. CASE i >= k
    <3>1. i + 1 \in 1 .. n + 1 /\ t[i + 1] = s[(i + 1) - 1] /\ (i + 1) - 1 = i
      BY <1>1, <1>2, <2>2
    <3>2. QED
      BY <3>1
  <2>3. QED
    BY <1>1, <2>1, <2>2
<1>9. Elems(t) = Elems(s) \cup {c}
  BY <1>5, <1>6, <1>7, <1>8 DEF Elems
<1>10. QED
  BY <1>2, <1>5, <1>9 DEF t

(***************************************************************************)
(* Linking c between the places k - 1 and k inserts it into the path.      *)
(***************************************************************************)
LEMMA PathInsert ==
    ASSUME NEW heap, NEW g, NEW a, NEW s \in Lists, IsPath(heap, a, s),
           NEW c \in Addr, \A i \in 1 .. Len(s) : s[i] # c,
           NEW k \in 1 .. Len(s) + 1,
           g[c].next = At(s, k),
           k > 1 => g[s[k - 1]].next = c,
           \A i \in 1 .. Len(s) : i # k - 1 => g[s[i]].next = heap[s[i]].next
    PROVE  IsPath(g, IF k = 1 THEN c ELSE a, Inserted(s, k, c))
<1> DEFINE n == Len(s)
           t == Inserted(s, k, c)
<1>1. n \in Nat
  BY ListType, SizeType
<1>2. /\ t \in Lists /\ Len(t) = n + 1
      /\ \A i \in 1 .. n + 1 : t[i] =
            IF i < k THEN s[i] ELSE IF i = k THEN c ELSE s[i - 1]
  BY InsertedType
<1> HIDE DEF t
<1>3. (IF k = 1 THEN c ELSE a) = At(t, 1)
  BY <1>1, <1>2 DEF At, IsPath
<1>4. ASSUME NEW i \in 1 .. n + 1 PROVE g[t[i]].next = At(t, i + 1)
  <2>1. CASE i < k - 1
    <3>1. i \in 1 .. n /\ i + 1 \in 1 .. n /\ i + 1 < k
      BY <1>1, <2>1
    <3>2. t[i] = s[i] /\ At(t, i + 1) = s[i + 1]
      BY <1>1, <1>2, <3>1, <2>1 DEF At
    <3>3. g[s[i]].next = s[i + 1]
      BY <2>1, <3>1 DEF IsPath, At
    <3>4. QED
      BY <3>2, <3>3
  <2>2. CASE i = k - 1
    BY <1>1, <1>2, <2>2 DEF At
  <2>3. CASE i = k
    <3>1. At(t, i + 1) = At(s, k)
      BY <1>1, <1>2, <2>3 DEF At
    <3>2. QED
      BY <1>2, <2>3, <3>1
  <2>4. CASE i > k
    <3>1. i - 1 \in 1 .. n /\ i - 1 # k - 1 /\ t[i] = s[i - 1] /\ (i - 1) + 1 = i
      BY <1>1, <1>2, <2>4
    <3>2. At(t, i + 1) = At(s, i)
      BY <1>1, <1>2, <2>4 DEF At
    <3>3. g[s[i - 1]].next = At(s, i)
      BY <3>1 DEF IsPath
    <3>4. QED
      BY <3>1, <3>2, <3>3
  <2>5. QED
    BY <1>1, <2>1, <2>2, <2>3, <2>4
<1>5. QED
  BY <1>2, <1>3, <1>4 DEF IsPath, t

(***************************************************************************)
(* The fields of a node.                                                   *)
(***************************************************************************)
LEMMA CellFields ==
    ASSUME NEW x \in Cell
    PROVE  /\ x.uid \in Uid /\ x.pid \in Int /\ x.port \in Int
           /\ x.lc \in Nat /\ x.ack_flg \in {0, 1}
           /\ x.ack_count \in Nat /\ x.next \in Addr \cup {NULL}
BY DEF Cell

(***************************************************************************)
(* A node with another link.                                               *)
(***************************************************************************)
LEMMA CellWithNext ==
    ASSUME NEW x \in Cell, NEW e
    PROVE  LET y == [x EXCEPT !.next = e]
           IN  /\ y.uid = x.uid /\ y.pid = x.pid /\ y.port = x.port
               /\ y.lc = x.lc /\ y.ack_flg = x.ack_flg
               /\ y.ack_count = x.ack_count /\ y.next = e
               /\ e \in Addr \cup {NULL} => y \in Cell
BY DEF Cell

(***************************************************************************)
(* The order of order_queue() is total and transitive.                     *)
(***************************************************************************)
LEMMA StaysOrder ==
    ASSUME NEW x \in Cell, NEW y \in Cell, NEW z \in Cell
    PROVE  /\ Stays(x, y) \/ Stays(y, x)
           /\ Stays(x, y) /\ Stays(y, z) => Stays(x, z)
<1>1. \A u \in Cell : u.lc \in Nat /\ u.pid \in Int
  BY CellFields
<1>2. x.lc \in Nat /\ x.pid \in Int /\ y.lc \in Nat /\ y.pid \in Int
  BY <1>1
<1>3. z.lc \in Nat /\ z.pid \in Int
  BY <1>1
<1>4. Stays(x, y) \/ Stays(y, x)
  BY <1>2 DEF Stays
<1>5. ASSUME Stays(x, y), Stays(y, z) PROVE Stays(x, z)
  BY <1>2, <1>3, <1>5 DEF Stays
<1>6. QED
  BY <1>4, <1>5

(***************************************************************************)
(* Links do not matter to the order.                                       *)
(***************************************************************************)
LEMMA SameOrder ==
    ASSUME NEW h, NEW g, SameData(h, g), NEW s \in Lists, InOrder(h, s)
    PROVE  InOrder(g, s)
<1>1. \A i \in 1 .. Len(s) : s[i] \in Addr
  BY ListType
<1>2. \A b \in Addr : g[b].lc = h[b].lc /\ g[b].pid = h[b].pid
  BY DEF SameData
<1>3. QED
  BY <1>1, <1>2 DEF InOrder, Stays

(***************************************************************************)
(* A sorted sequence with c at its place is sorted.                        *)
(***************************************************************************)
LEMMA OrderInsert ==
    ASSUME NEW h, NEW s \in Lists, InOrder(h, s), NEW c \in Addr,
           \A i \in 1 .. Len(s) : s[i] # c, NEW k \in 1 .. Len(s) + 1,
           \A i \in 1 .. k - 1 : Stays(h[s[i]], h[c]),
           \A i \in k .. Len(s) : Stays(h[c], h[s[i]])
    PROVE  InOrder(h, Inserted(s, k, c))
<1> DEFINE n == Len(s)
           t == Inserted(s, k, c)
<1>1. n \in Nat
  BY ListType, SizeType
<1>2. /\ Len(t) = n + 1
      /\ \A i \in 1 .. n + 1 : t[i] =
            IF i < k THEN s[i] ELSE IF i = k THEN c ELSE s[i - 1]
  BY InsertedType
<1> HIDE DEF t
<1>3. ASSUME NEW i \in 1 .. n + 1, NEW j \in 1 .. n + 1, i < j
      PROVE  Stays(h[t[i]], h[t[j]])
  <2>1. CASE j < k
    BY <1>1, <1>2, <1>3, <2>1 DEF InOrder
  <2>2. CASE j = k
    BY <1>1, <1>2, <1>3, <2>2
  <2>3. CASE i < k /\ j > k
    <3>1. i \in 1 .. n /\ j - 1 \in 1 .. n /\ i < j - 1
      BY <1>1, <2>3
    <3>2. QED
      BY <1>2, <2>3, <3>1 DEF InOrder
  <2>4. CASE i = k
    <3>1. j - 1 \in k .. n
      BY <1>1, <1>3, <2>4
    <3>2. QED
      BY <1>2, <1>3, <2>4, <3>1
  <2>5. CASE i > k
    <3>1. i - 1 \in 1 .. n /\ j - 1 \in 1 .. n /\ i - 1 < j - 1
      BY <1>1, <1>3, <2>5
    <3>2. t[i] = s[i - 1] /\ t[j] = s[j - 1]
      BY <1>1, <1>2, <1>3, <2>5
    <3>3. QED
      BY <3>1, <3>2 DEF InOrder
  <2>6. QED
    BY <1>1, <2>1, <2>2, <2>3, <2>4, <2>5
<1>4. QED
  BY <1>2, <1>3 DEF InOrder, t

(***************************************************************************)
(* Writing one link.                                                       *)
(***************************************************************************)
LEMMA HeapLink ==
    ASSUME NEW h \in Heaps, NEW c \in Addr, NEW e \in Addr \cup {NULL}
    PROVE  LET g == [h EXCEPT ![c].next = e]
           IN  /\ g \in Heaps
               /\ SameData(h, g)
               /\ g[c].next = e
               /\ \A b \in Addr : b # c => g[b] = h[b]
<1> DEFINE y == [h[c] EXCEPT !.next = e]
           g == [h EXCEPT ![c].next = e]
<1>1. h[c] \in Cell
  BY DEF Heaps
<1>2. /\ y.uid = h[c].uid /\ y.pid = h[c].pid /\ y.port = h[c].port
      /\ y.lc = h[c].lc /\ y.ack_flg = h[c].ack_flg
      /\ y.ack_count = h[c].ack_count /\ y.next = e /\ y \in Cell
  BY <1>1, CellWithNext
<1>3. g = [h EXCEPT ![c] = y]
  BY DEF Heaps
<1> HIDE DEF y, g
<1>4. g \in Heaps /\ g[c] = y /\ \A b \in Addr : b # c => g[b] = h[b]
  BY <1>2, <1>3 DEF Heaps
<1>5. SameData(h, g)
  <2>1. SUFFICES ASSUME NEW b \in Addr
                 PROVE  /\ g[b].uid = h[b].uid /\ g[b].pid = h[b].pid
                        /\ g[b].port = h[b].port /\ g[b].lc = h[b].lc
                        /\ g[b].ack_flg = h[b].ack_flg
                        /\ g[b].ack_count = h[b].ack_count
    BY DEF SameData
  <2>2. CASE b = c
    BY <1>2, <1>4, <2>2
  <2>3. CASE b # c
    BY <1>4, <2>3
  <2>4. QED
    BY <2>2, <2>3
<1>6. QED
  BY <1>2, <1>4, <1>5 DEF g

(***************************************************************************)
(* SameData is an equivalence.                                             *)
(***************************************************************************)
LEMMA SameDataTrans ==
    ASSUME NEW f, NEW g, NEW h, SameData(f, g), SameData(g, h)
    PROVE  SameData(f, h) /\ SameData(g, f) /\ SameData(f, f)
BY DEF SameData

(***************************************************************************)
(* The inner loop of order_queue() stops at the last node that stays in    *)
(* front of c.                                                             *)
(***************************************************************************)
LEMMA PositionFound ==
    ASSUME NEW heap, NEW sorted, NEW s \in Lists, IsPath(heap, sorted, s), s # <<>>,
           NEW c, Stays(heap[s[1]], heap[c])
    PROVE  \E k \in 1 .. Len(s) :
              /\ Position(heap, sorted, c) = s[k]
              /\ \A i \in 1 .. k : Stays(heap[s[i]], heap[c])
              /\ k < Len(s) => ~ Stays(heap[s[k + 1]], heap[c])
<1> DEFINE n == Len(s)
           S == {b \in Addr : LET e == heap[b].next
                              IN  e = NULL \/ ~ Stays(heap[e], heap[c])}
           I == {i \in 1 .. n : s[i] \in S}
<1>1. /\ n \in Nat \ {0} /\ n <= Size /\ Size \in Nat
      /\ \A i \in 1 .. n : s[i] \in Addr /\ s[i] # NULL
  BY ListType, SizeType, EmptySeq
<1>2. \A i \in 1 .. n : heap[s[i]].next = At(s, i + 1)
  BY DEF IsPath
<1>3. n \in I
  <2>1. At(s, n + 1) = NULL
    BY <1>1 DEF At
  <2>2. n \in 1 .. n
    BY <1>1
  <2>3. QED
    BY <1>1, <1>2, <2>1, <2>2
<1>4. PICK k \in I : \A i \in I : k <= i
  <2>1. I \in SUBSET Nat
    BY <1>1
  <2> HIDE DEF I
  <2>2. QED
    BY <1>3, <2>1, LeastNumber
<1>5. k \in 1 .. n /\ s[k] \in S
  BY <1>4
<1>6. ASSUME NEW i \in 1 .. k - 1 PROVE s[i] \notin S /\ i \in 1 .. n
  BY <1>1, <1>4, <1>6
<1>7. FirstIn(heap, sorted, S) = At(s, k)
  <2>1. k \in 1 .. n + 1 /\ k <= Size + 1 /\ At(s, k) \in S
    BY <1>1, <1>5 DEF At
  <2>2. \A i \in 1 .. k - 1 : At(s, i) \notin S
    BY <1>1, <1>5, <1>6 DEF At
  <2> HIDE DEF S
  <2>3. QED
    BY <2>1, <2>2, FirstOnPath
<1>8. Position(heap, sorted, c) = s[k]
  BY <1>5, <1>7 DEF Position, At
<1>9. ASSUME NEW i \in 1 .. k PROVE Stays(heap[s[i]], heap[c])
  <2>1. CASE i = 1
    BY <2>1
  <2>2. CASE i # 1
    <3>1. i - 1 \in 1 .. k - 1 /\ (i - 1) + 1 = i /\ i \in 1 .. n /\ i - 1 \in 1 .. n
      BY <1>1, <1>5, <2>2
    <3>2. s[i - 1] \notin S /\ heap[s[i - 1]].next = s[i] /\ s[i - 1] \in Addr
      BY <1>1, <1>2, <1>6, <3>1 DEF At
    <3>3. QED
      BY <3>2
  <2>3. QED
    BY <2>1, <2>2
<1>10. ASSUME k < n PROVE ~ Stays(heap[s[k + 1]], heap[c])
  <2>1. k + 1 \in 1 .. n
    BY <1>1, <1>5, <1>10
  <2>2. heap[s[k]].next = s[k + 1] /\ s[k + 1] # NULL
    BY <1>1, <1>2, <1>5, <2>1 DEF At
  <2>3. QED
    BY <1>5, <2>2
<1>11. QED
  BY <1>5, <1>8, <1>9, <1>10

(***************************************************************************)
(* The list r is the list s of heap with c inserted in its place.          *)
(***************************************************************************)
InsertedInOrder(heap, r, s, c) ==
    /\ r.heap \in Heaps
    /\ SameData(heap, r.heap)
    /\ \A b \in Addr : b # c /\ (\A i \in 1 .. Len(s) : s[i] # b) =>
                           r.heap[b] = heap[b]
    /\ \E k \in 1 .. Len(s) + 1 :
          /\ IsPath(r.heap, r.head, Inserted(s, k, c))
          /\ InOrder(r.heap, Inserted(s, k, c))

(***************************************************************************)
(* The insertion step of order_queue(): in front of all, or behind the     *)
(* last that stays.                                                        *)
(***************************************************************************)
LEMMA InsertStep ==
    ASSUME NEW heap \in Heaps, NEW sorted, NEW s \in Lists,
           IsPath(heap, sorted, s), InOrder(heap, s),
           NEW c \in Addr, \A i \in 1 .. Len(s) : s[i] # c
    PROVE  InsertedInOrder(heap, Insert(heap, sorted, c), s, c)
<1> DEFINE n == Len(s)
           r == Insert(heap, sorted, c)
<1>1. /\ n \in Nat
      /\ \A i \in 1 .. n : s[i] \in Addr /\ s[i] # NULL
  BY ListType, SizeType
<1>2. s # <<>> <=> n > 0
  BY <1>1, ListType, EmptySeq
<1>3. \A i \in 1 .. n : heap[s[i]] \in Cell
  BY <1>1 DEF Heaps
<1>4. heap[c] \in Cell
  BY DEF Heaps
<1>5. sorted = IF n > 0 THEN s[1] ELSE NULL
  BY <1>1 DEF IsPath, At
<1>6. sorted \in Addr \cup {NULL}
  BY <1>1, <1>5
<1>7. CASE sorted = NULL \/ ~ Stays(heap[sorted], heap[c])
  <2> DEFINE g == [heap EXCEPT ![c].next = sorted]
  <2>1. r.heap = g /\ r.head = c
    BY <1>7 DEF Insert
  <2>2. /\ g \in Heaps /\ SameData(heap, g) /\ g[c].next = sorted
        /\ \A b \in Addr : b # c => g[b] = heap[b]
    BY <1>6, HeapLink
  <2> HIDE DEF g
  <2>3. IsPath(g, c, Inserted(s, 1, c))
    <3>1. 1 \in 1 .. n + 1 /\ g[c].next = At(s, 1)
      BY <1>1, <2>2 DEF IsPath
    <3>2. \A i \in 1 .. n : g[s[i]].next = heap[s[i]].next
      BY <1>1, <2>2
    <3>3. IsPath(g, IF 1 = 1 THEN c ELSE sorted, Inserted(s, 1, c))
      BY <3>1, <3>2, PathInsert
    <3>4. QED
      BY <3>3
  <2>4. ASSUME NEW i \in 1 .. n PROVE Stays(heap[c], heap[s[i]])
    <3>1. 1 \in 1 .. n /\ sorted = s[1] /\ sorted # NULL
      BY <1>1, <1>5, <2>4
    <3>2. ~ Stays(heap[s[1]], heap[c])
      BY <1>7, <3>1
    <3>3. Stays(heap[c], heap[s[1]])
      BY <1>3, <1>4, <3>1, <3>2, StaysOrder
    <3>4. i = 1 \/ Stays(heap[s[1]], heap[s[i]])
      BY <3>1 DEF InOrder
    <3>5. QED
      BY <1>3, <1>4, <3>1, <3>3, <3>4, StaysOrder
  <2>5. InOrder(heap, Inserted(s, 1, c))
    <3>1. 1 \in 1 .. n + 1 /\ 1 .. 1 - 1 = {}
      BY <1>1
    <3>2. QED
      BY <2>4, <3>1, OrderInsert
  <2>6. Inserted(s, 1, c) \in Lists
    <3>1. 1 \in 1 .. n + 1
      BY <1>1
    <3>2. QED
      BY <3>1, InsertedType
  <2>7. InOrder(g, Inserted(s, 1, c))
    BY <2>2, <2>5, <2>6, SameOrder
  <2>8. 1 \in 1 .. n + 1
    BY <1>1
  <2>9. QED
    BY <2>1, <2>2, <2>3, <2>7, <2>8 DEF InsertedInOrder
<1>8. CASE sorted # NULL /\ Stays(heap[sorted], heap[c])
  <2>1. n > 0 /\ s # <<>> /\ sorted = s[1]
    BY <1>2, <1>5, <1>8
  <2>2. PICK k \in 1 .. n :
           /\ Position(heap, sorted, c) = s[k]
           /\ \A i \in 1 .. k : Stays(heap[s[i]], heap[c])
           /\ k < n => ~ Stays(heap[s[k + 1]], heap[c])
    BY <1>8, <2>1, PositionFound
  <2> DEFINE e == heap[s[k]].next
             f == [heap EXCEPT ![c].next = e]
             g == [f EXCEPT ![s[k]].next = c]
             t == Inserted(s, k + 1, c)
  <2>3. r.heap = g /\ r.head = sorted
    BY <1>8, <2>2 DEF Insert
  <2>4. s[k] \in Addr /\ s[k] # c /\ k + 1 \in 1 .. n + 1 /\ k + 1 > 1 /\ (k + 1) - 1 = k
    BY <1>1
  <2>5. e = At(s, k + 1) /\ e \in Addr \cup {NULL}
    BY <1>1, <2>4 DEF IsPath, At
  <2>6. /\ f \in Heaps /\ SameData(heap, f) /\ f[c].next = e
        /\ \A b \in Addr : b # c => f[b] = heap[b]
    <3> HIDE DEF e
    <3>1. QED
      BY <2>5, HeapLink
  <2> HIDE DEF f, e
  <2>7. /\ g \in Heaps /\ SameData(f, g) /\ g[s[k]].next = c
        /\ \A b \in Addr : b # s[k] => g[b] = f[b]
    BY <2>4, <2>6, HeapLink
  <2> HIDE DEF g
  <2>8. SameData(heap, g)
    BY <2>6, <2>7, SameDataTrans
  <2>9. IsPath(g, sorted, t)
    <3>1. g[c].next = At(s, k + 1)
      BY <2>4, <2>5, <2>6, <2>7
    <3>2. \A i \in 1 .. n : i # k => s[i] # s[k]
      BY ListType
    <3>3. \A i \in 1 .. n : i # k => g[s[i]].next = heap[s[i]].next
      BY <1>1, <2>6, <2>7, <3>2
    <3>4. k + 1 > 1 => g[s[(k + 1) - 1]].next = c
      BY <2>4, <2>7
    <3>5. IsPath(g, IF k + 1 = 1 THEN c ELSE sorted, t)
      BY <2>4, <3>1, <3>3, <3>4, PathInsert
    <3>6. QED
      BY <2>4, <3>5
  <2>10. InOrder(heap, t)
    <3>1. \A i \in 1 .. (k + 1) - 1 : Stays(heap[s[i]], heap[c])
      BY <2>2, <2>4
    <3>2. ASSUME NEW i \in k + 1 .. n PROVE Stays(heap[c], heap[s[i]])
      <4>1. k < n /\ k + 1 \in 1 .. n /\ i \in 1 .. n
        BY <1>1
      <4>2. Stays(heap[c], heap[s[k + 1]])
        BY <1>3, <1>4, <2>2, <4>1, StaysOrder
      <4>3. i = k + 1 \/ Stays(heap[s[k + 1]], heap[s[i]])
        BY <1>1, <4>1 DEF InOrder
      <4>4. QED
        BY <1>3, <1>4, <4>1, <4>2, <4>3, StaysOrder
    <3>3. QED
      BY <2>4, <3>1, <3>2, OrderInsert
  <2>11. t \in Lists
    BY <2>4, InsertedType
  <2>12. InOrder(g, t)
    BY <2>8, <2>10, <2>11, SameOrder
  <2>13. \A b \in Addr : b # c /\ (\A i \in 1 .. n : s[i] # b) => g[b] = heap[b]
    BY <2>2, <2>6, <2>7
  <2>14. QED
    BY <2>3, <2>4, <2>7, <2>8, <2>9, <2>12, <2>13 DEF InsertedInOrder
<1>9. QED
  BY <1>7, <1>8

(***************************************************************************)
(* The passes of order_queue()'s outer loop, one after the other.          *)
(***************************************************************************)
LEMMA SortRun ==
    ASSUME NEW heap, NEW head, NEW n \in Nat, n = Cardinality(Chain(heap, head))
    PROVE  \E f : /\ f[0] = [heap |-> heap, head |-> head, sorted |-> NULL]
                  /\ \A i \in 1 .. n : f[i] = Pass(f[i - 1])
                  /\ Sort(heap, head) = f[n]
<1> DEFINE q0 == [heap |-> heap, head |-> head, sorted |-> NULL]
           Run(f, k) == f = [i \in 0 .. k |-> IF i = 0 THEN q0 ELSE Pass(f[i - 1])]
           G == {k \in 0 .. n : \E f : Run(f, k)}
           r == CHOOSE f : Run(f, n)
<1>1. Sort(heap, head) = r[n]
  BY DEF Sort
<1> HIDE DEF q0
<1>2. 0 \in G
  <2> DEFINE g == [i \in 0 .. 0 |-> q0]
  <2>1. Run(g, 0)
    OBVIOUS
  <2> HIDE DEF g, Run
  <2>2. QED
    BY <2>1
<1>3. ASSUME NEW k \in 1 .. n, k - 1 \in G PROVE k \in G
  <2>1. PICK f : Run(f, k - 1)
    BY <1>3
  <2> DEFINE g == [i \in 0 .. k |-> IF i = 0 THEN q0 ELSE Pass(f[i - 1])]
  <2>2. \A i \in 0 .. k - 1 : g[i] = f[i]
    BY <2>1
  <2>3. \A i \in 1 .. k : i - 1 \in 0 .. k - 1
    OBVIOUS
  <2>4. Run(g, k)
    <3>1. ASSUME NEW i \in 0 .. k
          PROVE  (IF i = 0 THEN q0 ELSE Pass(f[i - 1])) =
                 (IF i = 0 THEN q0 ELSE Pass(g[i - 1]))
      <4> HIDE DEF g, Run
      <4>1. CASE i # 0
        <5>1. i - 1 \in 0 .. k - 1
          BY <2>3, <4>1
        <5>2. f[i - 1] = g[i - 1]
          BY <2>2, <5>1
        <5>3. QED
          BY <4>1, <5>2
      <4>2. QED
        BY <4>1
    <3>2. g = [i \in 0 .. k |-> IF i = 0 THEN q0 ELSE Pass(g[i - 1])]
      BY <3>1, Zenon
    <3> HIDE DEF g
    <3>3. QED
      BY <3>2
  <2> HIDE DEF g, Run
  <2>5. QED
    BY <2>4
<1>4. Run(r, n)
  <2>1. \A i \in 0 .. n : i \in G
    <3> HIDE DEF G
    <3>1. QED
      BY <1>2, <1>3, Segment
  <2>2. \E f : Run(f, n)
    BY <2>1
  <2> HIDE DEF Run
  <2>3. QED
    BY <2>2
<1> HIDE DEF r
<1>5. r[0] = q0 /\ \A i \in 1 .. n : r[i] = Pass(r[i - 1])
  BY <1>4
<1>6. QED
  BY <1>1, <1>5 DEF q0

(***************************************************************************)
(* The loop invariant of order_queue(): i nodes of s are in the sorted     *)
(* list, the others still follow each other.                               *)
(***************************************************************************)
PartSorted(heap, s, q, i) ==
    /\ q.heap \in Heaps
    /\ SameData(heap, q.heap)
    /\ q.head = At(s, i + 1)
    /\ \A j \in i + 1 .. Len(s) : q.heap[s[j]].next = At(s, j + 1)
    /\ \E t \in Lists : /\ Len(t) = i
                        /\ Elems(t) = {s[j] : j \in 1 .. i}
                        /\ IsPath(q.heap, q.sorted, t)
                        /\ InOrder(q.heap, t)

(***************************************************************************)
(* A pass keeps the loop invariant.                                        *)
(***************************************************************************)
LEMMA PassStep ==
    ASSUME NEW heap, NEW s \in Lists, NEW i \in 1 .. Len(s), NEW q,
           PartSorted(heap, s, q, i - 1)
    PROVE  PartSorted(heap, s, Pass(q), i)
<1> DEFINE n == Len(s)
           c == s[i]
           r == Insert(q.heap, q.sorted, c)
           p == Pass(q)
<1>1. /\ n \in Nat
      /\ \A j \in 1 .. n : s[j] \in Addr /\ s[j] # NULL
      /\ \A j, k \in 1 .. n : s[j] = s[k] => j = k
  BY ListType, SizeType
<1>2. (i - 1) + 1 = i /\ i - 1 \in Nat /\ c \in Addr
  BY <1>1
<1>3. q.heap \in Heaps /\ SameData(heap, q.heap) /\ q.head = c
  BY <1>2 DEF PartSorted, At
<1>4. \A j \in i .. n : q.heap[s[j]].next = At(s, j + 1)
  BY <1>2 DEF PartSorted
<1>5. PICK t \in Lists : /\ Len(t) = i - 1
                         /\ Elems(t) = {s[j] : j \in 1 .. i - 1}
                         /\ IsPath(q.heap, q.sorted, t)
                         /\ InOrder(q.heap, t)
  BY DEF PartSorted
<1>6. \A k \in i .. n : \A j \in 1 .. i - 1 : t[j] # s[k]
  <2>1. SUFFICES ASSUME NEW k \in i .. n, NEW j \in 1 .. i - 1, t[j] = s[k]
                 PROVE  FALSE
    OBVIOUS
  <2>2. PICK m \in 1 .. i - 1 : t[j] = s[m]
    BY <1>5 DEF Elems
  <2>3. m \in 1 .. n /\ k \in 1 .. n /\ m # k
    BY <1>1
  <2>4. QED
    BY <1>1, <2>1, <2>2, <2>3
<1>7. p.heap = r.heap /\ p.head = q.heap[c].next /\ p.sorted = r.head
  BY <1>3 DEF Pass
<1>8. InsertedInOrder(q.heap, r, t, c)
  <2>1. \A j \in 1 .. Len(t) : t[j] # c
    BY <1>1, <1>5, <1>6
  <2> HIDE DEF c
  <2>2. QED
    BY <1>2, <1>3, <1>5, <2>1, InsertStep
<1> HIDE DEF r, p
<1>9. p.heap \in Heaps /\ SameData(heap, p.heap)
  BY <1>3, <1>7, <1>8, SameDataTrans DEF InsertedInOrder
<1>10. p.head = At(s, i + 1)
  <2>1. i \in i .. n
    BY <1>1
  <2>2. QED
    BY <1>4, <1>7, <2>1
<1>11. ASSUME NEW j \in i + 1 .. n PROVE p.heap[s[j]].next = At(s, j + 1)
  <2>1. j \in i .. n /\ j \in 1 .. n /\ j # i
    BY <1>1
  <2>2. s[j] # c /\ s[j] \in Addr /\ \A m \in 1 .. Len(t) : t[m] # s[j]
    BY <1>1, <1>5, <1>6, <2>1
  <2>3. p.heap[s[j]] = q.heap[s[j]]
    BY <1>7, <1>8, <2>2 DEF InsertedInOrder
  <2>4. QED
    BY <1>4, <2>1, <2>3
<1>12. PICK k \in 1 .. Len(t) + 1 : /\ IsPath(p.heap, p.sorted, Inserted(t, k, c))
                                    /\ InOrder(p.heap, Inserted(t, k, c))
  BY <1>7, <1>8 DEF InsertedInOrder
<1> DEFINE u == Inserted(t, k, c)
<1>13. /\ u \in Lists /\ Len(u) = i
       /\ Elems(u) = {s[j] : j \in 1 .. i - 1} \cup {c}
  <2>1. \A j \in 1 .. Len(t) : t[j] # c
    BY <1>1, <1>5, <1>6
  <2>2. Len(t) + 1 = i
    BY <1>2, <1>5
  <2> HIDE DEF c, u
  <2>3. /\ Inserted(t, k, c) \in Lists
        /\ Len(Inserted(t, k, c)) = Len(t) + 1
        /\ Elems(Inserted(t, k, c)) = Elems(t) \cup {c}
    BY <1>2, <2>1, InsertedType
  <2>4. QED
    BY <1>5, <2>2, <2>3 DEF u
<1>14. {s[j] : j \in 1 .. i - 1} \cup {c} = {s[j] : j \in 1 .. i}
  <2>1. \A j : j \in 1 .. i <=> j \in 1 .. i - 1 \/ j = i
    BY <1>2
  <2>2. QED
    BY <2>1
<1>15. IsPath(p.heap, p.sorted, u) /\ InOrder(p.heap, u)
  BY <1>12
<1> HIDE DEF u
<1>16. PartSorted(heap, s, p, i)
  BY <1>9, <1>10, <1>11, <1>13, <1>14, <1>15 DEF PartSorted
<1>17. QED
  BY <1>16 DEF p

(***************************************************************************)
(* The list t of g has the nodes of the list s of heap, in order.          *)
(***************************************************************************)
SortedFrom(heap, g, a, s, t) ==
    /\ g \in Heaps /\ SameData(heap, g)
    /\ t \in Lists /\ Len(t) = Len(s)
    /\ Elems(t) = Elems(s)
    /\ IsPath(g, a, t)
    /\ InOrder(g, t)

(***************************************************************************)
(* order_queue()'s loop sorts the whole list and loses no node.            *)
(***************************************************************************)
LEMMA SortSorts ==
    ASSUME NEW heap \in Heaps, NEW head, NEW s \in Lists, IsPath(heap, head, s)
    PROVE  \E t : SortedFrom(heap, Sort(heap, head).heap, Sort(heap, head).sorted, s, t)
<1> DEFINE n == Len(s)
<1>1. n \in Nat /\ n = Cardinality(Chain(heap, head))
  BY ListType, SizeType, ChainPath, ListCardinality
<1>2. PICK f : /\ f[0] = [heap |-> heap, head |-> head, sorted |-> NULL]
               /\ \A i \in 1 .. n : f[i] = Pass(f[i - 1])
               /\ Sort(heap, head) = f[n]
  <2> HIDE DEF n
  <2>1. QED
    BY <1>1, SortRun
<1>3. PartSorted(heap, s, f[0], 0)
  <2>1. f[0].heap = heap /\ f[0].head = head /\ f[0].sorted = NULL
    BY <1>2
  <2>2. SameData(heap, heap)
    BY DEF SameData
  <2>3. head = At(s, 0 + 1) /\ \A j \in 0 + 1 .. n : heap[s[j]].next = At(s, j + 1)
    BY DEF IsPath
  <2>4. <<>> \in Lists /\ Len(<<>>) = 0
    <3>1. <<>> \in [1 .. 0 -> Addr]
      OBVIOUS
    <3>2. \A i, j \in 1 .. 0 : <<>>[i] = <<>>[j] => i = j
      OBVIOUS
    <3>3. QED
      BY <3>1, <3>2, InLists
  <2>5. IsPath(heap, NULL, <<>>) /\ InOrder(heap, <<>>)
    BY <2>4 DEF IsPath, InOrder, At
  <2>6. Elems(<<>>) = {s[j] : j \in 1 .. 0}
    BY <2>4 DEF Elems
  <2>7. QED
    BY <2>1, <2>2, <2>3, <2>4, <2>5, <2>6 DEF PartSorted
<1> DEFINE G == {i \in 0 .. n : PartSorted(heap, s, f[i], i)}
<1>4. 0 \in G
  BY <1>1, <1>3
<1>5. ASSUME NEW i \in 1 .. n, i - 1 \in G PROVE i \in G
  <2>1. PartSorted(heap, s, f[i - 1], i - 1)
    BY <1>5
  <2>2. PartSorted(heap, s, Pass(f[i - 1]), i)
    BY <2>1, PassStep
  <2>3. f[i] = Pass(f[i - 1]) /\ i \in 0 .. n
    BY <1>1, <1>2
  <2>4. QED
    BY <2>2, <2>3
<1>6. \A i \in 0 .. n : i \in G
  <2> HIDE DEF G, n
  <2>1. QED
    BY <1>1, <1>4, <1>5, Segment
<1>7. PartSorted(heap, s, f[n], n)
  BY <1>1, <1>6
<1>8. QED
  BY <1>2, <1>7 DEF PartSorted, SortedFrom, Elems

-----------------------------------------------------------------------------
(* The operations of queue.c *)

Memory == [heap : [Addr -> Cell], head : Addr \cup {NULL},
           tail : Addr \cup {NULL}, live : SUBSET Addr]

(***************************************************************************)
(* The list has the nodes s, in any order.                                 *)
(***************************************************************************)
Laid(L, s) ==
    /\ IsPath(L.heap, L.head, s)
    /\ \A i \in 1 .. Len(s) : s[i] \in L.live
    /\ s # <<>> => L.tail = s[Len(s)]

(***************************************************************************)
(* The parts of a list in memory.                                          *)
(***************************************************************************)
LEMMA MemoryParts ==
    ASSUME NEW L \in Memory
    PROVE  /\ L.heap \in Heaps /\ L.head \in Addr \cup {NULL}
           /\ L.tail \in Addr \cup {NULL} /\ L.live \in SUBSET Addr
           /\ \A b \in Addr : L.heap[b] \in Cell
BY DEF Memory, Heaps

(***************************************************************************)
(* A list is empty when it has no head.                                    *)
(***************************************************************************)
LEMMA EmptyPath ==
    ASSUME NEW heap, NEW a, NEW s \in Lists, IsPath(heap, a, s)
    PROVE  /\ a = NULL <=> s = <<>>
           /\ s = <<>> <=> Len(s) = 0
           /\ s = <<>> <=> Elems(s) = {}
           /\ s # <<>> => 1 \in 1 .. Len(s) /\ Len(s) \in 1 .. Len(s) /\ a = s[1]
<1>1. /\ Len(s) \in Nat /\ s \in Seq(Addr)
      /\ \A i \in 1 .. Len(s) : s[i] # NULL
  BY ListType, SizeType
<1>2. s = <<>> <=> Len(s) = 0
  BY <1>1, EmptySeq
<1>3. s = <<>> <=> Elems(s) = {}
  <2>1. Len(s) # 0 => 1 \in 1 .. Len(s)
    BY <1>1
  <2>2. Len(s) = 0 => 1 .. Len(s) = {}
    OBVIOUS
  <2>3. QED
    BY <1>2, <2>1, <2>2 DEF Elems
<1>4. QED
  BY <1>1, <1>2, <1>3 DEF IsPath, At

(***************************************************************************)
(* The last node of a list is the only one without a successor.            *)
(***************************************************************************)
LEMMA LastFound ==
    ASSUME NEW heap, NEW a, NEW s \in Lists, IsPath(heap, a, s), s # <<>>
    PROVE  /\ heap[s[Len(s)]].next = NULL
           /\ \A i \in 1 .. Len(s) : heap[s[i]].next = NULL => i = Len(s)
           /\ LastOf(heap, a) = s[Len(s)]
<1> DEFINE n == Len(s)
<1>1. n \in Nat /\ n \in 1 .. n /\ \A i \in 1 .. n : s[i] # NULL
  BY ListType, SizeType, EmptyPath
<1>2. \A i \in 1 .. n : heap[s[i]].next = At(s, i + 1)
  BY DEF IsPath
<1>3. heap[s[n]].next = NULL
  BY <1>1, <1>2 DEF At
<1>4. ASSUME NEW i \in 1 .. n, heap[s[i]].next = NULL PROVE i = n
  <2>1. SUFFICES ASSUME i # n PROVE FALSE
    OBVIOUS
  <2>2. i + 1 \in 1 .. n
    BY <1>1, <2>1
  <2>3. QED
    BY <1>1, <1>2, <1>4, <2>2 DEF At
<1>5. Chain(heap, a) = Elems(s)
  BY ChainPath
<1>6. s[n] \in Elems(s)
  BY <1>1 DEF Elems
<1>7. ASSUME NEW b \in Elems(s), heap[b].next = NULL PROVE b = s[n]
  BY <1>4, <1>7 DEF Elems
<1> HIDE DEF n
<1>8. LastOf(heap, a) = s[n]
  BY <1>3, <1>5, <1>6, <1>7 DEF LastOf
<1>9. QED
  BY <1>3, <1>4, <1>8 DEF n

(***************************************************************************)
(* order_queue() sorts the list, keeps its nodes and sets tail to the last.*)
(***************************************************************************)
LEMMA OrderQueue ==
    ASSUME NEW L \in Memory, NEW s \in Lists, Laid(L, s)
    PROVE  LET M == order_queue(L)
           IN  /\ M \in Memory
               /\ SameData(L.heap, M.heap)
               /\ M.live = L.live
               /\ s = <<>> => M = L
               /\ \E t \in Lists : IsList(M, t) /\ Elems(t) = Elems(s)
<1> DEFINE n == Len(s)
           M == order_queue(L)
<1>1. /\ n \in Nat
      /\ \A i \in 1 .. n : s[i] \in Addr /\ s[i] # NULL
  BY ListType, SizeType
<1>2. IsPath(L.heap, L.head, s)
  BY DEF Laid
<1>3. SameData(L.heap, L.heap)
  BY DEF SameData
<1>4. CASE L.head = NULL \/ L.heap[L.head].next = NULL
  <2>1. M = L
    BY <1>4 DEF order_queue
  <2>2. n <= 1
    <3>1. CASE s = <<>>
      BY <1>2, <3>1, EmptyPath
    <3>2. CASE s # <<>>
      <4>1. 1 \in 1 .. n /\ L.head = s[1] /\ L.heap[s[1]].next = NULL
        BY <1>1, <1>2, <1>4, <3>2, EmptyPath
      <4>2. 1 = n
        BY <1>2, <3>2, <4>1, LastFound
      <4>3. QED
        BY <4>2
    <3>3. QED
      BY <3>1, <3>2
  <2>3. InOrder(L.heap, s)
    BY <1>1, <2>2 DEF InOrder
  <2>4. IsList(L, s)
    BY <2>3 DEF IsList, Laid
  <2>5. QED
    BY <1>3, <2>1, <2>4
<1>5. CASE ~ (L.head = NULL \/ L.heap[L.head].next = NULL)
  <2> DEFINE q == Sort(L.heap, L.head)
  <2>1. L.heap \in Heaps
    BY MemoryParts
  <2>2. PICK t : SortedFrom(L.heap, q.heap, q.sorted, s, t)
    BY <1>2, <2>1, SortSorts
  <2>3. /\ q.heap \in Heaps /\ SameData(L.heap, q.heap)
        /\ t \in Lists /\ Len(t) = n /\ Elems(t) = Elems(s)
        /\ IsPath(q.heap, q.sorted, t)
        /\ InOrder(q.heap, t)
    BY <2>2 DEF SortedFrom
  <2>4. M = [L EXCEPT !.heap = q.heap, !.head = q.sorted,
                      !.tail = LastOf(q.heap, q.sorted)]
    BY <1>5 DEF order_queue
  <2> HIDE DEF q, M
  <2>5. s # <<>> /\ t # <<>>
    BY <1>2, <1>5, <2>3, EmptyPath
  <2>6. LastOf(q.heap, q.sorted) = t[Len(t)]
    BY <2>3, <2>5, LastFound
  <2>7. t[Len(t)] \in Addr /\ q.sorted \in Addr
    BY <2>3, <2>5, ListType, EmptyPath
  <2>8. /\ M \in Memory /\ M.heap = q.heap /\ M.head = q.sorted
        /\ M.tail = t[Len(t)] /\ M.live = L.live
    BY <2>3, <2>4, <2>6, <2>7 DEF Memory, Heaps
  <2>9. ASSUME NEW i \in 1 .. Len(t) PROVE t[i] \in M.live
    <3>1. t[i] \in Elems(s)
      BY <2>3 DEF Elems
    <3>2. QED
      BY <2>8, <3>1 DEF Laid, Elems
  <2>10. IsList(M, t)
    BY <2>3, <2>8, <2>9 DEF IsList
  <2>11. QED
    BY <2>3, <2>5, <2>8, <2>10 DEF M
<1>6. QED
  BY <1>4, <1>5

(***************************************************************************)
(* malloc() of a node, and enqueue() of it: behind the last node, or as    *)
(* the only one, or, when tail is stale, where head does not lead.         *)
(***************************************************************************)
LEMMA EnqueueList ==
    ASSUME NEW L \in Memory, NEW s \in Lists, IsList(L, s),
           NEW a \in Addr, a \notin L.live, NEW n \in Cell, n.next = NULL
    PROVE  LET M == enqueue(Allocate(L, a, n), a)
           IN  /\ M \in Memory
               /\ SameData([L.heap EXCEPT ![a] = n], M.heap)
               /\ M.live = L.live \cup {a}
               /\ M.tail = a
               /\ \E t \in Lists :
                     /\ Laid(M, t)
                     /\ Elems(t) = IF L.tail = NULL \/ s # <<>>
                                   THEN Elems(s) \cup {a} ELSE {}
<1> DEFINE h == [L.heap EXCEPT ![a] = n]
           A == Allocate(L, a, n)
           M == enqueue(A, a)
           m == Len(s)
<1>1. /\ m \in Nat
      /\ \A i \in 1 .. m : s[i] \in Addr /\ s[i] # NULL /\ s[i] # a
      /\ s \in Seq(Addr)
  BY ListType, SizeType DEF IsList
<1>2. /\ L.heap \in Heaps /\ L.head \in Addr \cup {NULL}
      /\ L.tail \in Addr \cup {NULL} /\ L.live \in SUBSET Addr
  BY MemoryParts
<1>3. /\ h \in Heaps /\ h[a] = n /\ \A b \in Addr : b # a => h[b] = L.heap[b]
  BY <1>2 DEF Heaps
<1>4. A = [L EXCEPT !.heap = h, !.live = L.live \cup {a}]
  BY DEF Allocate, Memory
<1> HIDE DEF h, A
<1>5. /\ A \in Memory /\ A.heap = h /\ A.head = L.head /\ A.tail = L.tail
      /\ A.live = L.live \cup {a}
  BY <1>2, <1>3, <1>4 DEF Memory, Heaps
<1>6. SameData(h, h)
  BY DEF SameData
<1>7. IsPath(L.heap, L.head, s)
  BY DEF IsList
<1>8. IsPath(h, L.head, s)
  BY <1>1, <1>3, <1>7 DEF IsPath
<1>9. CASE L.tail = NULL
  <2>1. s = <<>>
    <3>1. SUFFICES ASSUME s # <<>> PROVE FALSE
      OBVIOUS
    <3>2. m \in 1 .. m /\ L.tail = s[m]
      BY <1>7, <3>1, EmptyPath DEF IsList
    <3>3. QED
      BY <1>1, <1>9, <3>2
  <2>2. M = [A EXCEPT !.head = a, !.tail = a]
    BY <1>5, <1>9 DEF enqueue
  <2> HIDE DEF M
  <2>3. /\ M \in Memory /\ M.heap = h /\ M.head = a /\ M.tail = a
        /\ M.live = L.live \cup {a}
    BY <1>5, <2>2 DEF Memory
  <2> DEFINE t == <<a>>
  <2>4. t \in Lists /\ Len(t) = 1 /\ t[1] = a
    <3>1. t \in [1 .. 1 -> Addr] /\ \A i, j \in 1 .. 1 : t[i] = t[j] => i = j
      OBVIOUS
    <3> HIDE DEF t
    <3>2. t \in Lists /\ Len(t) = 1
      BY <3>1, InLists
    <3>3. t[1] = a
      BY DEF t
    <3>4. QED
      BY <3>2, <3>3
  <2> HIDE DEF t
  <2>5. Elems(t) = {a} /\ Elems(s) = {}
    BY <1>7, <2>1, <2>4, EmptyPath DEF Elems
  <2>6. Laid(M, t)
    BY <1>3, <2>3, <2>4 DEF Laid, IsPath, At
  <2>7. Elems(t) = IF L.tail = NULL \/ s # <<>> THEN Elems(s) \cup {a} ELSE {}
    BY <1>9, <2>5
  <2>8. QED
    BY <1>6, <2>3, <2>4, <2>6, <2>7 DEF M, A, h
<1>10. ASSUME L.tail # NULL
       PROVE  LET g == [h EXCEPT ![L.tail].next = a]
              IN  /\ M \in Memory /\ M.heap = g /\ M.head = L.head /\ M.tail = a
                  /\ M.live = L.live \cup {a}
                  /\ SameData(h, g) /\ g[L.tail].next = a
                  /\ \A b \in Addr : b # L.tail => g[b] = h[b]
  <2> DEFINE g == [h EXCEPT ![L.tail].next = a]
  <2>1. L.tail \in Addr
    BY <1>2, <1>10
  <2>2. /\ g \in Heaps /\ SameData(h, g) /\ g[L.tail].next = a
        /\ \A b \in Addr : b # L.tail => g[b] = h[b]
    BY <1>3, <2>1, HeapLink
  <2>3. M = [A EXCEPT !.heap = g, !.tail = a]
    BY <1>5, <1>10 DEF enqueue, Memory
  <2> HIDE DEF g, M
  <2>4. /\ M \in Memory /\ M.heap = g /\ M.head = L.head /\ M.tail = a
        /\ M.live = L.live \cup {a}
    BY <1>5, <2>2, <2>3 DEF Memory, Heaps
  <2>5. QED
    BY <2>2, <2>4 DEF g
<1>11. CASE L.tail # NULL /\ s # <<>>
  <2> DEFINE g == [h EXCEPT ![L.tail].next = a]
             t == Inserted(s, m + 1, a)
  <2>1. /\ M \in Memory /\ M.heap = g /\ M.head = L.head /\ M.tail = a
        /\ M.live = L.live \cup {a}
        /\ SameData(h, g) /\ g[L.tail].next = a
        /\ \A b \in Addr : b # L.tail => g[b] = h[b]
    BY <1>10, <1>11
  <2> HIDE DEF g, M
  <2>2. m \in 1 .. m /\ L.tail = s[m] /\ m + 1 \in 1 .. m + 1 /\ m + 1 # 1 /\ (m + 1) - 1 = m
    BY <1>1, <1>7, <1>11, EmptyPath DEF IsList
  <2>3. /\ t \in Lists /\ Len(t) = m + 1 /\ t[m + 1] = a
        /\ Elems(t) = Elems(s) \cup {a}
        /\ \A i \in 1 .. m : t[i] = s[i]
    BY <1>1, <2>2, InsertedType
  <2>4. IsPath(g, L.head, t)
    <3>1. g[a].next = At(s, m + 1)
      <4>1. L.tail # a
        BY <1>1, <2>2
      <4>2. At(s, m + 1) = NULL
        BY <1>1 DEF At
      <4>3. QED
        BY <1>3, <2>1, <4>1, <4>2
    <3>2. \A i \in 1 .. m : i # m => s[i] # s[m]
      BY <2>2, ListType
    <3>3. \A i \in 1 .. m : i # (m + 1) - 1 => g[s[i]].next = h[s[i]].next
      BY <1>1, <2>1, <2>2, <3>2
    <3>4. m + 1 > 1 => g[s[(m + 1) - 1]].next = a
      BY <2>1, <2>2
    <3> HIDE DEF t
    <3>5. IsPath(g, IF m + 1 = 1 THEN a ELSE L.head, Inserted(s, m + 1, a))
      BY <1>1, <1>8, <2>2, <3>1, <3>3, <3>4, PathInsert
    <3>6. QED
      BY <2>2, <3>5 DEF t
  <2> HIDE DEF t
  <2>5. ASSUME NEW i \in 1 .. m + 1 PROVE t[i] \in M.live
    <3>1. i \in 1 .. m \/ i = m + 1
      BY <1>1
    <3>2. QED
      BY <2>1, <2>3, <3>1 DEF IsList
  <2>6. Laid(M, t)
    BY <2>1, <2>3, <2>4, <2>5 DEF Laid
  <2>7. Elems(t) = IF L.tail = NULL \/ s # <<>> THEN Elems(s) \cup {a} ELSE {}
    BY <1>11, <2>3
  <2>8. QED
    BY <2>1, <2>3, <2>6, <2>7 DEF M, A, h
<1>12. CASE L.tail # NULL /\ s = <<>>
  <2> DEFINE g == [h EXCEPT ![L.tail].next = a]
  <2>1. /\ M \in Memory /\ M.heap = g /\ M.head = L.head /\ M.tail = a
        /\ M.live = L.live \cup {a} /\ SameData(h, g)
    BY <1>10, <1>12
  <2> HIDE DEF g, M
  <2>2. Len(s) = 0 /\ Elems(s) = {}
    BY <1>7, <1>12, EmptyPath
  <2>3. Laid(M, s)
    BY <1>7, <1>12, <2>1, <2>2 DEF Laid, IsPath
  <2>4. Elems(s) = IF L.tail = NULL \/ s # <<>> THEN Elems(s) \cup {a} ELSE {}
    BY <1>12, <2>2
  <2>5. QED
    BY <2>1, <2>3, <2>4 DEF M, A, h
<1>13. QED
  BY <1>9, <1>11, <1>12

(***************************************************************************)
(* find_node() finds the first node with the uid, if there is one.         *)
(***************************************************************************)
LEMMA FindNode ==
    ASSUME NEW L \in Memory, NEW s \in Lists, IsPath(L.heap, L.head, s), NEW uid
    PROVE  \/ /\ find_node(L, uid) = NULL
              /\ \A i \in 1 .. Len(s) : L.heap[s[i]].uid # uid
           \/ \E k \in 1 .. Len(s) : find_node(L, uid) = s[k]
                                     /\ L.heap[s[k]].uid = uid
<1> DEFINE n == Len(s)
           S == {a \in Addr : L.heap[a].uid = uid} \cup {NULL}
           I == {i \in 1 .. n + 1 : At(s, i) \in S}
<1>1. /\ n \in Nat /\ n <= Size /\ Size \in Nat
      /\ \A i \in 1 .. n : s[i] \in Addr /\ s[i] # NULL
  BY ListType, SizeType
<1>2. n + 1 \in I
  BY <1>1 DEF At
<1>3. PICK k \in I : \A i \in I : k <= i
  <2>1. I \in SUBSET Nat
    BY <1>1
  <2> HIDE DEF I
  <2>2. QED
    BY <1>2, <2>1, LeastNumber
<1>4. k \in 1 .. n + 1 /\ k <= Size + 1 /\ At(s, k) \in S
  BY <1>1, <1>3
<1>5. \A i \in 1 .. k - 1 : At(s, i) \notin S
  <2>1. SUFFICES ASSUME NEW i \in 1 .. k - 1, At(s, i) \in S PROVE FALSE
    OBVIOUS
  <2>2. i \in 1 .. n + 1 /\ i < k
    BY <1>1, <1>4
  <2>3. i \in I
    BY <2>1, <2>2
  <2>4. QED
    BY <1>1, <1>3, <2>2, <2>3
<1>6. find_node(L, uid) = At(s, k)
  <2>1. find_node(L, uid) = FirstIn(L.heap, L.head, S)
    BY DEF find_node
  <2> HIDE DEF S
  <2>2. QED
    BY <1>4, <1>5, <2>1, FirstOnPath
<1>7. CASE k = n + 1
  <2>1. At(s, k) = NULL
    BY <1>1, <1>7 DEF At
  <2>2. ASSUME NEW i \in 1 .. n PROVE L.heap[s[i]].uid # uid
    <3>1. i \in 1 .. k - 1 /\ At(s, i) = s[i]
      BY <1>1, <1>7 DEF At
    <3>2. QED
      BY <1>1, <1>5, <3>1
  <2>3. QED
    BY <1>6, <2>1, <2>2
<1>8. CASE k \in 1 .. n
  <2>1. At(s, k) = s[k] /\ s[k] # NULL
    BY <1>1, <1>8 DEF At
  <2>2. L.heap[s[k]].uid = uid
    BY <1>4, <2>1
  <2>3. QED
    BY <1>6, <1>8, <2>1, <2>2
<1>9. QED
  BY <1>1, <1>4, <1>7, <1>8

(***************************************************************************)
(* Taking out one address leaves a list of the others.                     *)
(***************************************************************************)
LEMMA RemovedType ==
    ASSUME NEW s \in Lists, NEW k \in 1 .. Len(s)
    PROVE  /\ Removed(s, k) \in Lists
           /\ Len(Removed(s, k)) = Len(s) - 1
           /\ \A i \in 1 .. Len(s) - 1 : Removed(s, k)[i] =
                 IF i < k THEN s[i] ELSE s[i + 1]
           /\ Elems(Removed(s, k)) = Elems(s) \ {s[k]}
<1> DEFINE n == Len(s)
           t == Removed(s, k)
<1>1. n \in Nat /\ (\A i \in 1 .. n : s[i] \in Addr)
               /\ (\A i, j \in 1 .. n : s[i] = s[j] => i = j)
               /\ n - 1 \in Nat
  BY ListType, SizeType
<1>2. \A i \in 1 .. n - 1 : t[i] = IF i < k THEN s[i] ELSE s[i + 1]
  BY DEF Removed
<1>3. t \in [1 .. n - 1 -> Addr]
  BY <1>1 DEF Removed
<1> HIDE DEF t, n
<1> USE DEF n
<1>4. \A i, j \in 1 .. n - 1 : t[i] = t[j] => i = j
  BY <1>1, <1>2
<1>5. t \in Lists /\ Len(t) = n - 1
  BY <1>1, <1>3, <1>4, InLists
<1>6. ASSUME NEW i \in 1 .. n - 1
      PROVE  t[i] # s[k] /\ \E j \in 1 .. n : t[i] = s[j]
  <2>1. i \in 1 .. n /\ i + 1 \in 1 .. n
    BY <1>1
  <2>2. QED
    BY <1>1, <1>2, <2>1
<1>7. ASSUME NEW i \in 1 .. n, s[i] # s[k] PROVE \E j \in 1 .. n - 1 : t[j] = s[i]
  <2>1. CASE i < k
    BY <1>1, <1>2, <2>1
  <2>2. CASE i > k
    <3>1. i - 1 \in 1 .. n - 1 /\ ~ (i - 1 < k) /\ (i - 1) + 1 = i
      BY <1>1, <2>2
    <3>2. QED
      BY <1>2, <3>1
  <2>3. QED
    BY <1>1, <1>7, <2>1, <2>2
<1>8. Elems(t) = Elems(s) \ {s[k]}
  BY <1>5, <1>6, <1>7 DEF Elems
<1>9. QED
  BY <1>2, <1>5, <1>8 DEF t

(***************************************************************************)
(* Linking the place before k to the one behind it takes k out of the path.*)
(***************************************************************************)
LEMMA PathRemove ==
    ASSUME NEW heap, NEW g, NEW a, NEW s \in Lists, IsPath(heap, a, s),
           NEW k \in 1 .. Len(s),
           k > 1 => g[s[k - 1]].next = heap[s[k]].next,
           \A i \in 1 .. Len(s) : i # k - 1 => g[s[i]].next = heap[s[i]].next
    PROVE  IsPath(g, IF k = 1 THEN heap[s[1]].next ELSE a, Removed(s, k))
<1> DEFINE n == Len(s)
           t == Removed(s, k)
<1>1. n \in Nat
  BY ListType, SizeType
<1>2. /\ Len(t) = n - 1
      /\ \A i \in 1 .. n - 1 : t[i] = IF i < k THEN s[i] ELSE s[i + 1]
  BY RemovedType
<1> HIDE DEF t
<1>3. \A i \in 1 .. n : heap[s[i]].next = At(s, i + 1)
  BY DEF IsPath
<1>4. (IF k = 1 THEN heap[s[1]].next ELSE a) = At(t, 1)
  <2>1. CASE k = 1
    <3>1. 1 \in 1 .. n
      BY <1>1
    <3>2. heap[s[1]].next = At(s, 2)
      BY <1>3, <3>1
    <3>3. At(s, 2) = At(t, 1)
      BY <1>1, <1>2, <2>1 DEF At
    <3>4. QED
      BY <2>1, <3>2, <3>3
  <2>2. CASE k # 1
    <3>1. a = s[1] /\ 1 \in 1 .. n - 1 /\ 1 < k
      BY <1>1, <2>2 DEF IsPath, At
    <3>2. QED
      BY <1>2, <2>2, <3>1 DEF At
  <2>3. QED
    BY <2>1, <2>2
<1>5. ASSUME NEW i \in 1 .. n - 1 PROVE g[t[i]].next = At(t, i + 1)
  <2>1. CASE i < k - 1
    <3>1. i \in 1 .. n /\ i + 1 \in 1 .. n - 1 /\ i + 1 < k /\ i # k - 1 /\ i < k
          /\ i + 1 \in 1 .. n
      BY <1>1, <2>1
    <3>2. t[i] = s[i] /\ At(t, i + 1) = s[i + 1]
      BY <1>2, <3>1 DEF At
    <3>3. g[s[i]].next = s[i + 1]
      BY <1>3, <3>1 DEF At
    <3>4. QED
      BY <3>2, <3>3
  <2>2. CASE i = k - 1
    <3>1. k > 1 /\ i < k /\ t[i] = s[k - 1]
      BY <1>1, <1>2, <2>2
    <3>2. g[t[i]].next = At(s, k + 1)
      BY <1>3, <3>1
    <3>3. At(s, k + 1) = At(t, i + 1)
      BY <1>1, <1>2, <2>2 DEF At
    <3>4. QED
      BY <3>2, <3>3
  <2>3. CASE i >= k
    <3>1. i + 1 \in 1 .. n /\ i + 1 # k - 1 /\ t[i] = s[i + 1]
      BY <1>1, <1>2, <2>3
    <3>2. g[t[i]].next = At(s, (i + 1) + 1)
      BY <1>3, <3>1
    <3>3. At(s, (i + 1) + 1) = At(t, i + 1)
      BY <1>1, <1>2, <2>3 DEF At
    <3>4. QED
      BY <3>2, <3>3
  <2>4. QED
    BY <1>1, <2>1, <2>2, <2>3
<1>6. QED
  BY <1>2, <1>4, <1>5 DEF IsPath, t

(***************************************************************************)
(* What is left of a list in order is in order.                            *)
(***************************************************************************)
LEMMA OrderRemove ==
    ASSUME NEW h, NEW s \in Lists, InOrder(h, s), NEW k \in 1 .. Len(s)
    PROVE  InOrder(h, Removed(s, k))
<1> DEFINE n == Len(s)
           t == Removed(s, k)
<1>1. n \in Nat
  BY ListType, SizeType
<1>2. /\ Len(t) = n - 1
      /\ \A i \in 1 .. n - 1 : t[i] = IF i < k THEN s[i] ELSE s[i + 1]
  BY RemovedType
<1> HIDE DEF t
<1>3. ASSUME NEW i \in 1 .. n - 1, NEW j \in 1 .. n - 1, i < j
      PROVE  Stays(h[t[i]], h[t[j]])
  <2> DEFINE x == IF i < k THEN i ELSE i + 1
             y == IF j < k THEN j ELSE j + 1
  <2>1. x \in 1 .. n /\ y \in 1 .. n /\ x < y
    BY <1>1, <1>3
  <2>2. t[i] = s[x] /\ t[j] = s[y]
    BY <1>2
  <2> HIDE DEF x, y
  <2>3. QED
    BY <2>1, <2>2 DEF InOrder
<1>4. QED
  BY <1>2, <1>3 DEF InOrder, t

(***************************************************************************)
(* dequeue() takes the node out that find_node() found, the first one or   *)
(* another one, and leaves tail stale only when it was the only one.       *)
(***************************************************************************)
LEMMA DequeueList ==
    ASSUME NEW L \in Memory, NEW s \in Lists, IsList(L, s), NEW uid,
           NEW k \in 1 .. Len(s), find_node(L, uid) = s[k]
    PROVE  LET M == dequeue(L, uid)
           IN  /\ M \in Memory
               /\ SameData(L.heap, M.heap)
               /\ IsList(M, Removed(s, k))
               /\ Len(s) = 1 => M.tail = L.tail
<1> DEFINE n == Len(s)
           t == Removed(s, k)
           c == s[k]
           M == dequeue(L, uid)
           e == L.heap[c].next
<1>1. /\ n \in Nat /\ n \in 1 .. n
      /\ \A i \in 1 .. n : s[i] \in Addr /\ s[i] # NULL
      /\ \A i, j \in 1 .. n : s[i] = s[j] => i = j
      /\ s # <<>>
  BY ListType, SizeType, EmptySeq
<1>2. /\ L.heap \in Heaps /\ L.head \in Addr \cup {NULL}
      /\ L.tail \in Addr \cup {NULL} /\ L.live \in SUBSET Addr
      /\ \A b \in Addr : L.heap[b] \in Cell
  BY MemoryParts
<1>3. /\ IsPath(L.heap, L.head, s) /\ InOrder(L.heap, s)
      /\ \A i \in 1 .. n : s[i] \in L.live
      /\ L.tail = s[n]
  BY <1>1 DEF IsList
<1>4. L.head = s[1] /\ 1 \in 1 .. n
  BY <1>1, <1>3, EmptyPath
<1>5. c \in Addr /\ c # NULL /\ e \in Addr \cup {NULL}
  BY <1>1, <1>2, CellFields
<1>6. /\ t \in Lists /\ Len(t) = n - 1
      /\ \A i \in 1 .. n - 1 : t[i] = IF i < k THEN s[i] ELSE s[i + 1]
      /\ Elems(t) = Elems(s) \ {c}
  BY RemovedType
<1>7. InOrder(L.heap, t)
  BY <1>3, OrderRemove
<1>8. \A i \in 1 .. n - 1 : t[i] \in L.live \ {c}
  <2>1. SUFFICES ASSUME NEW i \in 1 .. n - 1 PROVE t[i] \in L.live \ {c}
    OBVIOUS
  <2>2. t[i] \in Elems(s) \ {c}
    BY <1>6 DEF Elems
  <2>3. QED
    BY <1>3, <2>2 DEF Elems
<1>9. t # <<>> => n - 1 \in 1 .. n - 1
  BY <1>1, <1>6, EmptySeq, ListType
<1>10. SameData(L.heap, L.heap)
  BY DEF SameData
<1>11. CASE k = 1
  <2>1. M = [L EXCEPT !.head = e, !.live = L.live \ {c}]
    BY <1>4, <1>5, <1>11 DEF dequeue, Memory
  <2> HIDE DEF M, e, t
  <2>2. /\ M \in Memory /\ M.heap = L.heap /\ M.head = e /\ M.tail = L.tail
        /\ M.live = L.live \ {c}
    BY <1>2, <1>5, <2>1 DEF Memory
  <2>3. IsPath(L.heap, IF k = 1 THEN L.heap[s[1]].next ELSE L.head, Removed(s, k))
    <3>1. ~ (k > 1)
      BY <1>11
    <3>2. QED
      BY <1>3, <3>1, PathRemove
  <2>4. IsPath(M.heap, M.head, t)
    BY <1>11, <2>2, <2>3 DEF e, t
  <2>5. t # <<>> => M.tail = t[Len(t)]
    <3>1. SUFFICES ASSUME t # <<>> PROVE L.tail = t[n - 1]
      BY <1>6, <2>2
    <3>2. n - 1 \in 1 .. n - 1 /\ ~ (n - 1 < k) /\ (n - 1) + 1 = n
      BY <1>1, <1>9, <1>11, <3>1
    <3>3. QED
      BY <1>3, <1>6, <3>2
  <2>6. IsList(M, t)
    BY <1>6, <1>7, <1>8, <2>2, <2>4, <2>5 DEF IsList
  <2>7. QED
    BY <1>10, <2>2, <2>6 DEF M, t
<1>12. CASE k # 1
  <2> DEFINE prev == s[k - 1]
             g == [L.heap EXCEPT ![prev].next = e]
             tl == IF L.tail = c THEN prev ELSE L.tail
  <2>1. k - 1 \in 1 .. n /\ (k - 1) + 1 = k /\ k - 1 # k /\ n # 1 /\ k > 1
    BY <1>1, <1>12
  <2>2. prev \in Addr /\ prev \in Elems(s)
    BY <1>1, <2>1 DEF Elems
  <2>3. L.heap[prev].next = c
    BY <1>3, <2>1 DEF IsPath, At
  <2>4. ASSUME NEW b \in Elems(s), L.heap[b].next = c PROVE b = prev
    <3>1. PICK i \in 1 .. n : b = s[i]
      BY DEF Elems
    <3>2. At(s, i + 1) = c
      BY <1>3, <2>4, <3>1 DEF IsPath
    <3>3. i + 1 \in 1 .. n /\ s[i + 1] = s[k]
      BY <1>5, <3>2 DEF At
    <3>4. i + 1 = k
      BY <1>1, <3>3
    <3>5. i = k - 1
      BY <1>1, <3>4
    <3>6. QED
      BY <3>1, <3>5
  <2>5. Linked(L) = Elems(s)
    BY <1>3, ChainPath DEF Linked
  <2>6. (CHOOSE b \in Linked(L) : L.heap[b].next = c) = prev
    <3> HIDE DEF prev, c
    <3>1. QED
      BY <2>2, <2>3, <2>4, <2>5
  <2>7. M = Unlink(L, c)
    <3>1. s[k] # s[1]
      BY <1>1, <1>4, <1>12
    <3>2. QED
      BY <1>4, <1>5, <3>1 DEF dequeue
  <2>8. Unlink(L, c) = [L EXCEPT !.heap = g, !.tail = tl, !.live = L.live \ {c}]
    <3> DEFINE p == CHOOSE b \in Linked(L) : L.heap[b].next = c
    <3>1. Unlink(L, c) = [L EXCEPT !.heap = [L.heap EXCEPT ![p].next = e],
                                   !.tail = IF L.tail = c THEN p ELSE L.tail,
                                   !.live = L.live \ {c}]
      BY DEF Unlink, Memory
    <3> HIDE DEF p
    <3>2. p = prev
      BY <2>6 DEF p
    <3>3. QED
      BY <3>1, <3>2
  <2>9. /\ g \in Heaps /\ SameData(L.heap, g) /\ g[prev].next = e
        /\ \A b \in Addr : b # prev => g[b] = L.heap[b]
    <3>1. L.heap \in Heaps /\ prev \in Addr /\ e \in Addr \cup {NULL}
      BY <1>2, <1>5, <2>2
    <3> HIDE DEF prev, e, c, tl, t, M
    <3>2. QED
      BY <3>1, HeapLink
  <2>10. tl \in Addr
    BY <1>1, <1>3, <2>2
  <2> HIDE DEF M, e, t, g, tl
  <2>11. /\ M \in Memory /\ M.heap = g /\ M.head = L.head /\ M.tail = tl
         /\ M.live = L.live \ {c}
    BY <1>2, <2>7, <2>8, <2>9, <2>10 DEF Memory, Heaps
  <2>12. IsPath(g, L.head, t)
    <3>1. \A i \in 1 .. n : i # k - 1 => g[s[i]].next = L.heap[s[i]].next
      BY <1>1, <2>1, <2>9
    <3>2. g[s[k - 1]].next = L.heap[s[k]].next
      BY <2>9 DEF e
    <3>3. IsPath(g, IF k = 1 THEN L.heap[s[1]].next ELSE L.head, Removed(s, k))
      BY <1>3, <3>1, <3>2, PathRemove
    <3>4. QED
      BY <1>12, <3>3 DEF t
  <2>13. t # <<>> => M.tail = t[Len(t)]
    <3>1. SUFFICES ASSUME t # <<>> PROVE tl = t[n - 1]
      BY <1>6, <2>11
    <3>2. n - 1 \in 1 .. n - 1 /\ (n - 1) + 1 = n
      BY <1>1, <1>9, <3>1
    <3>3. CASE k = n
      <4>1. n - 1 < k
        BY <1>1, <3>3
      <4>2. t[n - 1] = s[n - 1]
        BY <1>6, <3>2, <4>1
      <4>3. QED
        BY <1>3, <3>3, <4>2 DEF tl
    <3>4. CASE k # n
      <4>1. ~ (n - 1 < k) /\ s[n] # s[k]
        BY <1>1, <3>4
      <4>2. t[n - 1] = s[n]
        BY <1>6, <3>2, <4>1
      <4>3. QED
        BY <1>3, <4>1, <4>2 DEF tl
    <3>5. QED
      BY <3>3, <3>4
  <2>14. InOrder(g, t)
    BY <1>6, <1>7, <2>9, SameOrder
  <2>15. IsList(M, t)
    BY <1>6, <1>8, <2>11, <2>12, <2>13, <2>14 DEF IsList
  <2>16. QED
    BY <2>1, <2>9, <2>11, <2>15 DEF M, t
<1>13. QED
  BY <1>11, <1>12

-----------------------------------------------------------------------------
(* The frames *)

(***************************************************************************)
(* The calls of recv() in recv_buffer(), one after the other.              *)
(***************************************************************************)
LEMMA RecvRun ==
    ASSUME NEW ends, NEW n \in Nat, n = Len(ends)
    PROVE  \E f : /\ f[0] = [buf |-> [b \in 0 .. MetaLen - 1 |-> -1],
                             total |-> 0, brecv |-> 0]
                  /\ \A i \in 1 .. n : f[i] = Copy(f[i - 1], ends[i])
                  /\ recv_buffer(ends) = f[n].buf
<1> DEFINE r0 == [buf |-> [b \in 0 .. MetaLen - 1 |-> -1], total |-> 0, brecv |-> 0]
           Run(f, k) == f = [i \in 0 .. k |->
                                IF i = 0 THEN r0 ELSE Copy(f[i - 1], ends[i])]
           G == {k \in 0 .. n : \E f : Run(f, k)}
           r == CHOOSE f : Run(f, n)
<1>1. recv_buffer(ends) = r[n].buf
  BY DEF recv_buffer
<1> HIDE DEF r0
<1>2. 0 \in G
  <2> DEFINE g == [i \in 0 .. 0 |-> r0]
  <2>1. Run(g, 0)
    OBVIOUS
  <2> HIDE DEF g, Run
  <2>2. QED
    BY <2>1
<1>3. ASSUME NEW k \in 1 .. n, k - 1 \in G PROVE k \in G
  <2>1. PICK f : Run(f, k - 1)
    BY <1>3
  <2> DEFINE g == [i \in 0 .. k |-> IF i = 0 THEN r0 ELSE Copy(f[i - 1], ends[i])]
  <2>2. \A i \in 0 .. k - 1 : g[i] = f[i]
    BY <2>1
  <2>3. \A i \in 1 .. k : i - 1 \in 0 .. k - 1
    OBVIOUS
  <2>4. Run(g, k)
    BY <2>2, <2>3
  <2> HIDE DEF g, Run
  <2>5. QED
    BY <2>4
<1>4. Run(r, n)
  <2>1. \A i \in 0 .. n : i \in G
    <3> HIDE DEF G
    <3>1. QED
      BY <1>2, <1>3, Segment
  <2>2. \E f : Run(f, n)
    BY <2>1
  <2> HIDE DEF Run
  <2>3. QED
    BY <2>2
<1> HIDE DEF r
<1>5. r[0] = r0 /\ \A i \in 1 .. n : r[i] = Copy(r[i - 1], ends[i])
  BY <1>4
<1>6. QED
  BY <1>1, <1>5 DEF r0

(***************************************************************************)
(* What a split of a frame is.                                             *)
(***************************************************************************)
LEMMA SplitParts ==
    ASSUME NEW e \in Splits
    PROVE  /\ Len(e) \in Nat /\ Len(e) >= 1 /\ e[Len(e)] = MetaLen
           /\ \A i \in 1 .. Len(e) : e[i] \in Nat
           /\ \A i \in 2 .. Len(e) : e[i - 1] < e[i]
<1>1. e \in Seq(1 .. MetaLen) /\ Len(e) >= 1 /\ e[Len(e)] = MetaLen
      /\ \A i \in 2 .. Len(e) : e[i - 1] < e[i]
  BY SplitAssumption
<1> DEFINE S == 1 .. MetaLen
<1>2. \A x \in S : x \in Nat
  OBVIOUS
<1> HIDE DEF S
<1>3. e \in Seq(S)
  BY <1>1 DEF S
<1>4. Len(e) \in Nat /\ \A i \in 1 .. Len(e) : e[i] \in S
  BY <1>3, LenProperties, ElementOfSeq
<1>5. QED
  BY <1>1, <1>2, <1>4

(***************************************************************************)
(* A byte of the first two ends gets to its place, and stays there       *)
(* unless a later piece is written over it.                                *)
(***************************************************************************)
LEMMA ByteInPlace ==
    ASSUME NEW e \in Splits, NEW b \in 0 .. MetaLen - 1,
           Len(e) > 2 => b < e[2],
           \A i \in 3 .. Len(e) : b \notin Overwritten(e, i)
    PROVE  recv_buffer(e)[b] = b
<1> DEFINE n == Len(e)
           B == 0 .. MetaLen - 1
<1>1. /\ n \in Nat /\ n >= 1 /\ e[n] = MetaLen
      /\ \A i \in 1 .. n : e[i] \in Nat
      /\ \A i \in 2 .. n : e[i - 1] < e[i]
  BY SplitParts
<1>2. PICK f : /\ f[0] = [buf |-> [c \in B |-> -1], total |-> 0, brecv |-> 0]
               /\ \A i \in 1 .. n : f[i] = Copy(f[i - 1], e[i])
               /\ recv_buffer(e) = f[n].buf
  BY <1>1, RecvRun
<1> HIDE DEF n
<1>3. f[0].total = 0 /\ f[0].brecv = 0 /\ DOMAIN f[0].buf = B
      /\ f[0].buf[b] = -1
  BY <1>2
<1>4. ASSUME NEW i \in 1 .. n
      PROVE  /\ f[i].total = e[i] /\ f[i].brecv = e[i] - f[i - 1].total
             /\ DOMAIN f[i].buf = DOMAIN f[i - 1].buf
             /\ b \in DOMAIN f[i - 1].buf =>
                   f[i].buf[b] = IF b \in f[i - 1].brecv ..
                                          f[i - 1].brecv + (e[i] - f[i - 1].total) - 1
                                 THEN f[i - 1].total + b - f[i - 1].brecv
                                 ELSE f[i - 1].buf[b]
  <2> DEFINE r == f[i - 1]
  <2>1. f[i] = Copy(r, e[i])
    BY <1>2
  <2> HIDE DEF r
  <2>2. /\ f[i].total = e[i] /\ f[i].brecv = e[i] - r.total
        /\ f[i].buf = [c \in DOMAIN r.buf |->
                          IF c \in r.brecv .. r.brecv + (e[i] - r.total) - 1
                          THEN r.total + c - r.brecv ELSE r.buf[c]]
    BY <2>1 DEF Copy
  <2>3. QED
    BY <2>2 DEF r
<1>5. \A i \in 0 .. n : DOMAIN f[i].buf = B
  <2> DEFINE G == {i \in 0 .. n : DOMAIN f[i].buf = B}
  <2>1. 0 \in G
    BY <1>1, <1>3
  <2>2. \A i \in 1 .. n : i - 1 \in G => i \in G
    BY <1>4
  <2> HIDE DEF G
  <2>3. \A i \in 0 .. n : i \in G
    BY <1>1, <2>1, <2>2, Segment
  <2>4. QED
    BY <2>3 DEF G
<1>6. ASSUME NEW i \in 1 .. n
      PROVE  f[i].brecv = PieceLen(e, i) /\ PieceLen(e, i) \in Int
  <2>1. CASE i = 1
    <3>1. f[i - 1].total = 0
      BY <1>3, <2>1
    <3>2. QED
      BY <1>1, <1>4, <2>1, <3>1 DEF PieceLen
  <2>2. CASE i # 1
    <3>1. i - 1 \in 1 .. n
      BY <1>1, <2>2
    <3>2. f[i - 1].total = e[i - 1]
      BY <1>4, <3>1
    <3>3. e[i] \in Int /\ e[i - 1] \in Int
      BY <1>1, <3>1
    <3>4. QED
      BY <1>4, <2>2, <3>2, <3>3 DEF PieceLen
  <2>3. QED
    BY <2>1, <2>2
<1>7. /\ e[1] \in Nat /\ f[1].total = e[1] /\ f[1].brecv = e[1]
      /\ f[1].buf[b] = IF b < e[1] THEN b ELSE -1
  <2>1. 1 \in 1 .. n /\ 1 - 1 = 0
    BY <1>1
  <2>2. e[1] \in Nat
    BY <1>1, <2>1
  <2>3. /\ f[1].total = e[1] /\ f[1].brecv = e[1] - 0
        /\ f[1].buf[b] = IF b \in 0 .. 0 + (e[1] - 0) - 1
                         THEN 0 + b - 0 ELSE -1
    BY <1>3, <1>4, <2>1
  <2>4. b \in Nat
    BY DEF MetaLen
  <2>5. QED
    BY <2>2, <2>3, <2>4
<1>8. ASSUME n >= 2, b < e[2] PROVE f[2].buf[b] = b
  <2>1. 2 \in 1 .. n /\ 2 \in 2 .. n /\ 2 - 1 = 1 /\ 1 \in 0 .. n
    BY <1>1, <1>8
  <2>2. e[2] \in Nat /\ e[1] < e[2]
    BY <1>1, <2>1
  <2>3. b \in Nat
    BY DEF MetaLen
  <2>4. f[2].buf[b] = IF b \in e[1] .. e[1] + (e[2] - e[1]) - 1
                      THEN e[1] + b - e[1] ELSE f[1].buf[b]
    <3>1. b \in DOMAIN f[1].buf
      BY <1>5, <2>1
    <3>2. QED
      BY <1>4, <1>7, <2>1, <3>1
  <2>5. QED
    BY <1>7, <1>8, <2>2, <2>3, <2>4
<1>9. ASSUME NEW i \in 3 .. n PROVE f[i].buf[b] = f[i - 1].buf[b]
  <2>1. i \in 1 .. n /\ i - 1 \in 1 .. n /\ i - 1 \in 0 .. n /\ i # 1
    BY <1>1
  <2>2. /\ f[i - 1].brecv = PieceLen(e, i - 1) /\ f[i - 1].total = e[i - 1]
        /\ PieceLen(e, i) = e[i] - e[i - 1]
    BY <1>4, <1>6, <2>1 DEF PieceLen
  <2>3. b \notin PieceLen(e, i - 1) .. PieceLen(e, i - 1) + PieceLen(e, i) - 1
    BY <1>9 DEF Overwritten, n
  <2>4. b \in DOMAIN f[i - 1].buf
    BY <1>5, <2>1
  <2>5. QED
    BY <1>4, <2>1, <2>2, <2>3, <2>4
<1>10. CASE n = 1
  <2>1. e[1] = MetaLen /\ recv_buffer(e) = f[1].buf
    BY <1>1, <1>2, <1>10
  <2>2. b < MetaLen
    BY DEF MetaLen
  <2>3. QED
    BY <1>7, <2>1, <2>2
<1>11. CASE n >= 2
  <2>1. b < e[2]
    <3>1. CASE n > 2
      BY <3>1 DEF n
    <3>2. CASE n = 2
      BY <1>1, <3>2 DEF MetaLen
    <3>3. QED
      BY <1>1, <1>11, <3>1, <3>2
  <2> DEFINE G == {i \in 0 .. n : i >= 2 => f[i].buf[b] = b}
  <2>2. 0 \in G
    BY <1>1
  <2>3. ASSUME NEW i \in 1 .. n, i - 1 \in G PROVE i \in G
    <3>1. CASE i = 1
      BY <3>1
    <3>2. CASE i = 2
      BY <1>8, <1>11, <2>1, <3>2
    <3>3. CASE i \in 3 .. n
      BY <1>9, <2>3, <3>3
    <3>4. QED
      BY <1>1, <3>1, <3>2, <3>3
  <2> HIDE DEF G
  <2>4. \A i \in 0 .. n : i \in G
    BY <1>1, <2>2, <2>3, Segment
  <2>5. n \in G
    BY <1>1, <2>4
  <2>6. QED
    BY <1>2, <1>11, <2>5 DEF G
<1>12. QED
  BY <1>1, <1>10, <1>11

(***************************************************************************)
(* handle_broadcast() reads what the issuer wrote in the fields that are   *)
(* kept, and in every field of a frame of one piece or two.                *)
(***************************************************************************)
LEMMA DecodedFields ==
    ASSUME NEW frame, NEW e \in Splits, NEW j \in Junk,
           frame.uid \in Uid, frame.pid \in Int, frame.port \in Int, frame.lc \in Nat
    PROVE  LET d == Decoded(frame, recv_buffer(e), j)
           IN  /\ d.uid \in Uid /\ d.pid \in Int /\ d.port \in Int /\ d.lc \in Nat
               /\ Matches(d, frame, Kept(e))
               /\ Kept(e) \subseteq DOMAIN FieldAt
               /\ Len(e) <= 2 => Kept(e) = DOMAIN FieldAt
<1> DEFINE buf == recv_buffer(e)
           d == Decoded(frame, buf, j)
           F == {"uid", "pid", "port", "lc"}
<1>1. DOMAIN FieldAt = F
  BY DEF FieldAt
<1>2. ASSUME NEW f \in F PROVE FieldAt[f] \subseteq 0 .. MetaLen - 1
  BY DEF FieldAt, MetaLen
<1> HIDE DEF buf
<1>3. \A f \in F : d[f] = IF \A i \in FieldAt[f] : buf[i] = i THEN frame[f] ELSE j[f]
  BY <1>1 DEF Decoded
<1>4. Kept(e) \subseteq F
  BY <1>1 DEF Kept
<1>5. ASSUME NEW f \in Kept(e) PROVE d[f] = frame[f]
  <2>1. f \in F
    BY <1>4
  <2>2. \A b \in FieldAt[f] : /\ Len(e) > 2 => b < e[2]
                              /\ \A i \in 3 .. Len(e) : b \notin Overwritten(e, i)
    BY <1>5 DEF Kept
  <2>3. \A b \in FieldAt[f] : buf[b] = b
    BY <1>2, <2>1, <2>2, ByteInPlace DEF buf
  <2>4. QED
    BY <1>3, <2>1, <2>3
<1>6. /\ j.uid \in Uid /\ j.pid \in Int /\ j.port \in Int /\ j.lc \in Nat
  BY JunkAssumption
<1>7. d.uid \in Uid /\ d.pid \in Int /\ d.port \in Int /\ d.lc \in Nat
  <2> HIDE DEF d
  <2>1. d.uid = frame.uid \/ d.uid = j.uid
    BY <1>3
  <2>2. d.pid = frame.pid \/ d.pid = j.pid
    BY <1>3
  <2>3. d.port = frame.port \/ d.port = j.port
    BY <1>3
  <2>4. d.lc = frame.lc \/ d.lc = j.lc
    BY <1>3
  <2>5. QED
    BY <1>6, <2>1, <2>2, <2>3, <2>4
<1>8. Matches(d, frame, Kept(e))
  <2> HIDE DEF d
  <2>1. QED
    BY <1>5 DEF Matches
<1>9. ASSUME Len(e) <= 2 PROVE Kept(e) = DOMAIN FieldAt
  <2>1. Len(e) \in Nat
    BY SplitParts
  <2>2. 3 .. Len(e) = {} /\ ~ (Len(e) > 2)
    BY <1>9, <2>1
  <2>3. QED
    BY <2>2 DEF Kept
<1> HIDE DEF d
<1>10. QED
  BY <1>1, <1>4, <1>7, <1>8, <1>9 DEF d, buf

(***************************************************************************)
(* A number below ten thousand has four digits at most.                    *)
(***************************************************************************)
LEMMA FourDigits ==
    ASSUME NEW x \in Nat, x < 10^4
    PROVE  x \in Digits
  BY DEF Digits

(***************************************************************************)
(* The clock of a message stays in four digits, unchanged while it fits.   *)
(***************************************************************************)
LEMMA ClockFits ==
    ASSUME NEW x \in Nat, x \div 2^12 < 2^20
    PROVE  ClockField(x) \in Digits /\ (x < 10^4 => ClockField(x) = x)
<1> DEFINE D == {d \in {1, 10, 100, 1000, 10000, 100000, 1000000} : x \div d \in Digits}
           cut == Min(D)
<1>1. ClockField(x) = x \div cut
  BY DEF ClockField
<1>2. x < 4294967296
  <2>1. x \div 4096 < 1048576
    OBVIOUS
  <2>2. QED
    BY <2>1
<1>3. 1000000 \in D
  <2>1. x \div 1000000 \in 0 .. 9999
    BY <1>2
  <2>2. QED
    BY <2>1 DEF Digits
<1>4. D \in SUBSET Nat
  OBVIOUS
<1>5. cut \in D /\ \A y \in D : cut <= y
  <2> HIDE DEF D
  <2>1. \E d \in D : \A y \in D : d <= y
    BY <1>3, <1>4, LeastNumber
  <2>2. QED
    BY <2>1 DEF Min
<1> HIDE DEF cut
<1>6. ClockField(x) \in Digits
  BY <1>1, <1>5
<1>7. ASSUME x < 10^4 PROVE ClockField(x) = x
  <2>1. x \div 1 = x
    OBVIOUS
  <2>2. x \in Digits
    <3> HIDE DEF D
    <3>1. QED
      BY <1>7, FourDigits
  <2>3. 1 \in D
    <3>1. x \div 1 \in Digits
      BY <2>1, <2>2
    <3>2. QED
      BY <3>1
  <2>4. cut <= 1 /\ cut \in {1, 10, 100, 1000, 10000, 100000, 1000000}
    BY <1>5, <2>3
  <2>5. cut = 1
    BY <2>4
  <2>6. QED
    BY <1>1, <2>1, <2>5
<1>8. QED
  BY <1>6, <1>7

(***************************************************************************)
(* A frame, and the node made from it.                                     *)
(***************************************************************************)
LEMMA FrameFields ==
    ASSUME NEW m \in Issued
    PROVE  LET f == encode_broadcast_buffer(m)
           IN  /\ f.uid = generate_uid(m.pid, m.lc) /\ f.uid \in Uid
               /\ f.pid = m.pid /\ f.pid \in Nat /\ f.pid = Pid[f.port]
               /\ f.port = m.port /\ f.port \in 0 .. NumProc - 1
               /\ f.pid \in Int /\ f.port \in Int /\ f.lc \in Nat
               /\ f.lc = ClockField(m.lc + 1)
               /\ m.lc + 1 < 10^4 => f.lc = m.lc + 1
<1> DEFINE f == encode_broadcast_buffer(m)
<1>1. /\ m.pid \in Nat /\ m.port \in 0 .. NumProc - 1 /\ m.lc \in Nat
      /\ m.pid = Pid[m.port]
  BY NodeAssumption
<1>2. (m.lc + 1) \div 2^12 < 2^20 /\ m.lc + 1 \in Nat
  BY <1>1, NodeAssumption
<1>3. /\ f.uid = generate_uid(m.pid, m.lc) /\ f.pid = m.pid /\ f.port = m.port
      /\ f.lc = ClockField(m.lc + 1)
  BY DEF encode_broadcast_buffer
<1>4. generate_uid(m.pid, m.lc) \in Uid
  <2>1. m.lc % 2^12 \in 0 .. 2^12 - 1
    BY <1>1
  <2>2. Bits(m.pid) \cup Bits(m.lc \div 2^12) \in SUBSET (0 .. 19)
    BY DEF Bits
  <2>3. QED
    BY <2>1, <2>2 DEF generate_uid, Uid
<1> HIDE DEF f
<1>5. f.lc \in Digits /\ (m.lc + 1 < 10^4 => f.lc = m.lc + 1)
  BY <1>2, <1>3, ClockFits
<1>6. \A v \in Digits : v \in Nat
  BY DEF Digits
<1>7. f.pid \in Int /\ f.port \in Int /\ f.lc \in Nat
  BY <1>1, <1>3, <1>5, <1>6
<1>8. QED
  BY <1>1, <1>3, <1>4, <1>5, <1>7 DEF f

(***************************************************************************)
(* The node create_node() makes from fields of their types.                *)
(***************************************************************************)
LEMMA NewNode ==
    ASSUME NEW f, f.uid \in Uid, f.pid \in Int, f.port \in Int, f.lc \in Nat
    PROVE  LET n == create_node(f)
           IN  /\ n \in Cell
               /\ n.uid = f.uid /\ n.pid = f.pid /\ n.port = f.port /\ n.lc = f.lc
               /\ n.ack_flg = 0 /\ n.ack_count = 0 /\ n.next = NULL
BY DEF create_node, Cell

-----------------------------------------------------------------------------
(* The handlers *)

(***************************************************************************)
(* The heap g has the nodes of h, of which the one at b is acknowledged.   *)
(***************************************************************************)
Marked(h, g, b) ==
    \A c \in Addr :
        /\ g[c].uid = h[c].uid /\ g[c].pid = h[c].pid /\ g[c].port = h[c].port
        /\ g[c].lc = h[c].lc /\ g[c].ack_count = h[c].ack_count
        /\ g[c].ack_flg = IF c = b THEN 1 ELSE h[c].ack_flg

IsFirst(h, N, b) == \A c \in N : c = b \/ Stays(h[b], h[c])

(***************************************************************************)
(* check_and_ack_head() on the nodes N of h: the first one is              *)
(* acknowledged, if there is one and it is not acknowledged yet.           *)
(***************************************************************************)
FirstAcked(h, N, g, from, to) ==
    \/ /\ Marked(h, g, NULL)
       /\ to = from
       /\ N = {} \/ \E b \in N : IsFirst(h, N, b) /\ h[b].ack_flg = 1
    \/ \E b \in N : /\ Marked(h, g, b)
                    /\ IsFirst(h, N, b)
                    /\ h[b].ack_flg = 0
                    /\ to = from \cup {AckOf(h[b])}

(***************************************************************************)
(* Writing one node without its link.                                      *)
(***************************************************************************)
LEMMA HeapWrite ==
    ASSUME NEW h \in Heaps, NEW b \in Addr, NEW y \in Cell, y.next = h[b].next,
           y.lc = h[b].lc, y.pid = h[b].pid,
           NEW a, NEW s \in Lists
    PROVE  LET g == [h EXCEPT ![b] = y]
           IN  /\ g \in Heaps
               /\ IsPath(h, a, s) => IsPath(g, a, s)
               /\ InOrder(h, s) => InOrder(g, s)
               /\ g[b] = y
               /\ \A c \in Addr : c # b => g[c] = h[c]
<1> DEFINE g == [h EXCEPT ![b] = y]
<1>1. g \in Heaps /\ g[b] = y /\ \A c \in Addr : c # b => g[c] = h[c]
  BY DEF Heaps
<1> HIDE DEF g
<1>2. \A c \in Addr : g[c].next = h[c].next /\ g[c].lc = h[c].lc /\ g[c].pid = h[c].pid
  BY <1>1
<1>3. \A i \in 1 .. Len(s) : s[i] \in Addr
  BY ListType
<1>4. IsPath(h, a, s) => IsPath(g, a, s)
  BY <1>2, <1>3 DEF IsPath
<1>5. InOrder(h, s) => InOrder(g, s)
  BY <1>2, <1>3 DEF InOrder, Stays
<1>6. QED
  BY <1>1, <1>4, <1>5 DEF g

(***************************************************************************)
(* The first node of a list in order is the first of its nodes.            *)
(***************************************************************************)
LEMMA FirstOfList ==
    ASSUME NEW L, NEW s \in Lists, IsList(L, s), s # <<>>
    PROVE  /\ L.head = s[1] /\ L.head \in Elems(s) /\ L.head \in Addr
           /\ L.head # NULL
           /\ IsFirst(L.heap, Elems(s), L.head)
<1>1. IsPath(L.heap, L.head, s) /\ InOrder(L.heap, s)
  BY DEF IsList
<1>2. 1 \in 1 .. Len(s) /\ L.head = s[1] /\ L.head # NULL
  BY <1>1, EmptyPath
<1>3. L.head \in Elems(s) /\ L.head \in Addr
  BY <1>2, ListType DEF Elems
<1>4. ASSUME NEW c \in Elems(s) PROVE c = s[1] \/ Stays(L.heap[s[1]], L.heap[c])
  <2>1. PICK i \in 1 .. Len(s) : c = s[i]
    BY DEF Elems
  <2>2. i = 1 \/ 1 < i
    OBVIOUS
  <2>3. QED
    BY <1>1, <1>2, <2>1, <2>2 DEF InOrder
<1>5. QED
  BY <1>2, <1>3, <1>4 DEF IsFirst

(***************************************************************************)
(* FirstAcked depends on the data of the heap alone.                       *)
(***************************************************************************)
LEMMA SameFirst ==
    ASSUME NEW h, NEW f, SameData(h, f), NEW N \in SUBSET Addr, NEW g, NEW from, NEW to,
           FirstAcked(f, N, g, from, to)
    PROVE  FirstAcked(h, N, g, from, to)
<1>1. \A b : Marked(f, g, b) => Marked(h, g, b)
  BY DEF SameData, Marked
<1>2. \A c \in Addr : /\ f[c].ack_flg = h[c].ack_flg /\ f[c].uid = h[c].uid
                      /\ f[c].lc = h[c].lc /\ f[c].pid = h[c].pid
                      /\ AckOf(f[c]) = AckOf(h[c])
  BY DEF SameData, AckOf
<1>3. \A b \in N : IsFirst(f, N, b) => IsFirst(h, N, b)
  BY <1>2 DEF IsFirst, Stays
<1>4. CASE /\ Marked(f, g, NULL)
           /\ to = from
           /\ N = {} \/ \E b \in N : IsFirst(f, N, b) /\ f[b].ack_flg = 1
  BY <1>1, <1>2, <1>3, <1>4 DEF FirstAcked
<1>5. ASSUME NEW b \in N, Marked(f, g, b), IsFirst(f, N, b), f[b].ack_flg = 0,
             to = from \cup {AckOf(f[b])}
      PROVE  FirstAcked(h, N, g, from, to)
  BY <1>1, <1>2, <1>3, <1>5 DEF FirstAcked
<1>6. QED
  BY <1>4, <1>5 DEF FirstAcked

(***************************************************************************)
(* check_and_ack_head() sorts the list and acknowledges its first node.    *)
(***************************************************************************)
LEMMA CheckAndAck ==
    ASSUME NEW M \in Memory, NEW t \in Lists, Laid(M, t), check_and_ack_head(M)
    PROVE  /\ list' \in Memory
           /\ t = <<>> => list'.tail = M.tail
           /\ \E u \in Lists : IsList(list', u) /\ Elems(u) = Elems(t)
           /\ FirstAcked(M.heap, Elems(t), list'.heap, acked, acked')
<1> DEFINE L == order_queue(M)
           N == Elems(t)
<1>1. /\ L \in Memory /\ SameData(M.heap, L.heap) /\ L.live = M.live
      /\ t = <<>> => L = M
      /\ \E u \in Lists : IsList(L, u) /\ Elems(u) = N
  BY OrderQueue
<1>2. PICK u \in Lists : IsList(L, u) /\ Elems(u) = N
  BY <1>1
<1>3. IF L.head # NULL /\ L.heap[L.head].ack_flg = 0
      THEN /\ list' = [L EXCEPT !.heap[L.head].ack_flg = 1]
           /\ acked' = acked \cup {AckOf(L.heap[L.head])}
      ELSE list' = L /\ acked' = acked
  BY DEF check_and_ack_head
<1> HIDE DEF L
<1>4. N \in SUBSET Addr
  BY ListType DEF Elems
<1>5. IsPath(L.heap, L.head, u) /\ IsPath(M.heap, M.head, t)
  BY <1>2 DEF IsList, Laid
<1>6. /\ (u = <<>> <=> L.head = NULL) /\ (u = <<>> <=> N = {})
      /\ (t = <<>> <=> N = {})
  BY <1>2, <1>5, EmptyPath
<1>7. \A b \in Addr : L.heap[b] \in Cell
  BY <1>1, MemoryParts
<1>8. CASE ~ (L.head # NULL /\ L.heap[L.head].ack_flg = 0)
  <2>1. list' = L /\ acked' = acked
    BY <1>3, <1>8
  <2>2. Marked(L.heap, L.heap, NULL)
    BY AddrAssumption DEF Marked
  <2>3. N = {} \/ \E b \in N : IsFirst(L.heap, N, b) /\ L.heap[b].ack_flg = 1
    <3>1. SUFFICES ASSUME N # {} PROVE \E b \in N : IsFirst(L.heap, N, b)
                                                   /\ L.heap[b].ack_flg = 1
      OBVIOUS
    <3>2. L.head \in N /\ IsFirst(L.heap, N, L.head) /\ L.head \in Addr /\ L.head # NULL
      BY <1>2, <1>6, <3>1, FirstOfList
    <3>3. L.heap[L.head].ack_flg = 1
      BY <1>7, <1>8, <3>2, CellFields
    <3>4. QED
      BY <3>2, <3>3
  <2>4. FirstAcked(L.heap, N, list'.heap, acked, acked')
    BY <2>1, <2>2, <2>3 DEF FirstAcked
  <2>5. FirstAcked(M.heap, N, list'.heap, acked, acked')
    <3> HIDE DEF N
    <3>1. QED
      BY <1>1, <1>4, <2>4, SameFirst
  <2>6. QED
    BY <1>1, <1>2, <2>1, <2>5
<1>9. CASE L.head # NULL /\ L.heap[L.head].ack_flg = 0
  <2> DEFINE b == L.head
             y == [L.heap[b] EXCEPT !.ack_flg = 1]
             g == [L.heap EXCEPT ![b] = y]
  <2>1. u # <<>> /\ N # {} /\ t # <<>>
    BY <1>6, <1>9
  <2>2. b \in N /\ b \in Addr /\ IsFirst(L.heap, N, b)
    BY <1>2, <2>1, FirstOfList
  <2>3. /\ y \in Cell /\ y.uid = L.heap[b].uid /\ y.pid = L.heap[b].pid
        /\ y.port = L.heap[b].port /\ y.lc = L.heap[b].lc /\ y.ack_flg = 1
        /\ y.ack_count = L.heap[b].ack_count /\ y.next = L.heap[b].next
    <3>1. L.heap[b] \in Cell
      BY <1>7, <2>2
    <3>2. QED
      BY <3>1 DEF Cell
  <2>4. list' = [L EXCEPT !.heap = g] /\ acked' = acked \cup {AckOf(L.heap[b])}
    BY <1>1, <1>3, <1>9 DEF Memory
  <2>5. L.heap \in Heaps
    BY <1>1, MemoryParts
  <2> HIDE DEF y, b
  <2>6. /\ g \in Heaps
        /\ IsPath(L.heap, L.head, u) => IsPath(g, L.head, u)
        /\ InOrder(L.heap, u) => InOrder(g, u)
        /\ g[b] = y
        /\ \A c \in Addr : c # b => g[c] = L.heap[c]
    <3>1. /\ b \in Addr /\ y \in Cell /\ y.next = L.heap[b].next
          /\ y.lc = L.heap[b].lc /\ y.pid = L.heap[b].pid
      BY <2>2, <2>3
    <3> HIDE DEF N
    <3>2. QED
      BY <2>5, <3>1, HeapWrite
  <2> HIDE DEF g
  <2>7. /\ list' \in Memory /\ list'.heap = g /\ list'.head = L.head
        /\ list'.tail = L.tail /\ list'.live = L.live
    BY <1>1, <2>4, <2>6 DEF Memory, Heaps
  <2>8. IsList(list', u)
    BY <1>2, <2>6, <2>7 DEF IsList
  <2>9. Marked(L.heap, g, b)
    BY <2>3, <2>6 DEF Marked
  <2>10. L.heap[b].ack_flg = 0
    BY <1>9 DEF b
  <2>11. FirstAcked(L.heap, N, list'.heap, acked, acked')
    BY <2>2, <2>4, <2>7, <2>9, <2>10 DEF FirstAcked
  <2>12. FirstAcked(M.heap, N, list'.heap, acked, acked')
    <3> HIDE DEF N
    <3>1. QED
      BY <1>1, <1>4, <2>11, SameFirst
  <2>13. QED
    BY <1>2, <2>1, <2>7, <2>8, <2>12
<1>10. QED
  BY <1>8, <1>9

(***************************************************************************)
(* The nodes linked from head are those of the sequence.                   *)
(***************************************************************************)
LEMMA LinkedList ==
    ASSUME NEW L, NEW s \in Lists, IsList(L, s)
    PROVE  /\ Linked(L) = Elems(s)
           /\ Linked(L) \subseteq Addr
           /\ Linked(L) = {} <=> s = <<>>
<1>1. IsPath(L.heap, L.head, s)
  BY DEF IsList
<1>2. Linked(L) = Elems(s)
  BY <1>1, ChainPath DEF Linked
<1>3. Elems(s) \subseteq Addr
  BY ListType DEF Elems
<1>4. QED
  BY <1>1, <1>2, <1>3, EmptyPath

(***************************************************************************)
(* The node handle_broadcast() makes from the frame k in these pieces.     *)
(***************************************************************************)
Received(k, e, j) == create_node(Decoded(k.frame, recv_buffer(e), j))

NewHeap(n, a) == [list.heap EXCEPT ![a] = n]

NewLinked(a) == IF list.tail = NULL \/ Linked(list) # {} THEN Linked(list) \cup {a} ELSE {}

IsFrameOf(k, m) == k = [msg |-> m, frame |-> encode_broadcast_buffer(m)]

(***************************************************************************)
(* The parts of a frame.                                                   *)
(***************************************************************************)
LEMMA FrameOf ==
    ASSUME NEW k, NEW m \in Issued, IsFrameOf(k, m)
    PROVE  /\ k.msg = m
           /\ k.frame.uid = generate_uid(m.pid, m.lc) /\ k.frame.uid \in Uid
           /\ k.frame.pid = m.pid /\ k.frame.pid \in Nat
           /\ k.frame.pid = Pid[k.frame.port]
           /\ k.frame.port = m.port /\ k.frame.port \in 0 .. NumProc - 1
           /\ k.frame.lc = ClockField(m.lc + 1)
           /\ k.frame.pid \in Int /\ k.frame.port \in Int /\ k.frame.lc \in Nat
           /\ m.lc + 1 < 10^4 => k.frame.lc = m.lc + 1
           /\ create_node(k.frame) \in Cell
           /\ create_node(k.frame).uid = k.frame.uid
           /\ create_node(k.frame).pid = k.frame.pid
           /\ create_node(k.frame).port = k.frame.port
           /\ create_node(k.frame).lc = k.frame.lc
           /\ create_node(k.frame).ack_flg = 0
           /\ create_node(k.frame).ack_count = 0
           /\ create_node(k.frame).next = NULL
<1> DEFINE f == encode_broadcast_buffer(m)
<1>1. /\ f.uid = generate_uid(m.pid, m.lc) /\ f.uid \in Uid
      /\ f.pid = m.pid /\ f.pid \in Nat /\ f.pid = Pid[f.port]
      /\ f.port = m.port /\ f.port \in 0 .. NumProc - 1
      /\ f.pid \in Int /\ f.port \in Int /\ f.lc \in Nat
      /\ f.lc = ClockField(m.lc + 1)
      /\ m.lc + 1 < 10^4 => f.lc = m.lc + 1
  BY FrameFields
<1> HIDE DEF f
<1>2. k.msg = m /\ k.frame = f
  BY DEF IsFrameOf, f
<1>3. LET n == create_node(f)
      IN  /\ n \in Cell
          /\ n.uid = f.uid /\ n.pid = f.pid /\ n.port = f.port /\ n.lc = f.lc
          /\ n.ack_flg = 0 /\ n.ack_count = 0 /\ n.next = NULL
  BY <1>1, NewNode
<1>4. QED
  BY <1>1, <1>2, <1>3

(***************************************************************************)
(* That node has the fields of the frame that are kept.                    *)
(***************************************************************************)
LEMMA ReceivedNode ==
    ASSUME NEW k, NEW m \in Issued, IsFrameOf(k, m), NEW e \in Splits, NEW j \in Junk
    PROVE  LET n == Received(k, e, j)
           IN  /\ n \in Cell /\ n.ack_flg = 0 /\ n.ack_count = 0 /\ n.next = NULL
               /\ Matches(n, k.frame, Kept(e))
               /\ Kept(e) \subseteq DOMAIN FieldAt
               /\ Kept(e) = DOMAIN FieldAt => n = create_node(k.frame)
<1> DEFINE d == Decoded(k.frame, recv_buffer(e), j)
           n == create_node(d)
<1>1. /\ k.frame.uid \in Uid /\ k.frame.pid \in Int /\ k.frame.port \in Int
      /\ k.frame.lc \in Nat
  BY FrameOf
<1>2. /\ d.uid \in Uid /\ d.pid \in Int /\ d.port \in Int /\ d.lc \in Nat
      /\ Matches(d, k.frame, Kept(e))
      /\ Kept(e) \subseteq DOMAIN FieldAt
  BY <1>1, DecodedFields
<1>3. Received(k, e, j) = n
  BY DEF Received
<1> HIDE DEF d
<1>4. /\ n \in Cell
      /\ n.uid = d.uid /\ n.pid = d.pid /\ n.port = d.port /\ n.lc = d.lc
      /\ n.ack_flg = 0 /\ n.ack_count = 0 /\ n.next = NULL
  BY <1>2, NewNode
<1>5. Matches(n, k.frame, Kept(e))
  <2> HIDE DEF n
  <2>1. QED
    BY <1>2, <1>4 DEF Matches
<1>6. ASSUME Kept(e) = DOMAIN FieldAt PROVE n = create_node(k.frame)
  <2>1. DOMAIN FieldAt = {"uid", "pid", "port", "lc"}
    BY DEF FieldAt
  <2>2. /\ d.uid = k.frame.uid /\ d.pid = k.frame.pid /\ d.port = k.frame.port
        /\ d.lc = k.frame.lc
    BY <1>2, <1>6, <2>1 DEF Matches
  <2>3. QED
    BY <2>2 DEF create_node
<1> HIDE DEF n
<1>7. QED
  BY <1>2, <1>3, <1>4, <1>5, <1>6

(***************************************************************************)
(* handle_broadcast() adds the node of the frame, unless tail is stale,    *)
(* and acknowledges the first node.                                        *)
(***************************************************************************)
LEMMA BroadcastStep ==
    ASSUME list \in Memory, lc \in Nat, ListInv,
           NEW k, NEW m \in Issued, IsFrameOf(k, m),
           NEW e \in Splits, NEW j \in Junk, NEW a \in Addr,
           handle_broadcast(k, e, j, a)
    PROVE  /\ list' \in Memory /\ lc' \in Nat
           /\ \E u \in Lists : IsList(list', u)
           /\ Linked(list') = NewLinked(a)
           /\ NewLinked(a) = {} => list'.tail = a
           /\ a \notin Linked(list)
           /\ FirstAcked(NewHeap(Received(k, e, j), a), NewLinked(a), list'.heap,
                         acked, acked')
<1> DEFINE d == Decoded(k.frame, recv_buffer(e), j)
           n == Received(k, e, j)
           M == enqueue(Allocate(list, a, n), a)
<1>1. PICK s \in Lists : IsList(list, s)
  BY DEF ListInv
<1>2. Linked(list) = Elems(s) /\ (Linked(list) = {} <=> s = <<>>)
  BY <1>1, LinkedList
<1>3. n \in Cell /\ n.next = NULL
  BY ReceivedNode
<1>4. d.lc \in Nat
  <2>1. /\ k.frame.uid \in Uid /\ k.frame.pid \in Int /\ k.frame.port \in Int
        /\ k.frame.lc \in Nat
    BY FrameOf
  <2>2. QED
    BY <2>1, DecodedFields
<1>5. create_node(d) = n
  BY DEF Received
<1>6. /\ a \notin list.live
      /\ lc' = IF d.lc > lc + 1 THEN d.lc ELSE lc + 1
      /\ check_and_ack_head(enqueue(Allocate(list, a, create_node(d)), a))
  BY DEF handle_broadcast
<1>7. check_and_ack_head(M)
  BY <1>5, <1>6
<1> HIDE DEF n, d
<1>8. lc' \in Nat
  BY <1>4, <1>6
<1>9. /\ M \in Memory
      /\ SameData([list.heap EXCEPT ![a] = n], M.heap)
      /\ M.tail = a
      /\ \E t \in Lists : /\ Laid(M, t)
                          /\ Elems(t) = IF list.tail = NULL \/ s # <<>>
                                        THEN Elems(s) \cup {a} ELSE {}
  <2>1. n \in Cell /\ n.next = NULL /\ a \notin list.live
    BY <1>3, <1>6
  <2>2. QED
    BY <1>1, <2>1, EnqueueList
<1> HIDE DEF M
<1>10. PICK t \in Lists : Laid(M, t) /\ Elems(t) = NewLinked(a)
  BY <1>2, <1>9 DEF NewLinked
<1>11. /\ list' \in Memory
       /\ t = <<>> => list'.tail = M.tail
       /\ \E u \in Lists : IsList(list', u) /\ Elems(u) = Elems(t)
       /\ FirstAcked(M.heap, Elems(t), list'.heap, acked, acked')
  BY <1>7, <1>9, <1>10, CheckAndAck
<1>12. PICK u \in Lists : IsList(list', u) /\ Elems(u) = Elems(t)
  BY <1>11
<1>13. Linked(list') = NewLinked(a)
  BY <1>10, <1>12, LinkedList
<1>14. NewLinked(a) = {} => t = <<>>
  BY <1>10, EmptyPath DEF Laid
<1>15. a \notin Linked(list)
  <2>1. \A i \in 1 .. Len(s) : s[i] \in list.live
    BY <1>1 DEF IsList
  <2>2. QED
    BY <1>2, <1>6, <2>1 DEF Elems
<1>16. NewLinked(a) \in SUBSET Addr
  BY <1>1, LinkedList DEF NewLinked
<1>17. FirstAcked(NewHeap(n, a), NewLinked(a), list'.heap, acked, acked')
  <2>1. SameData(NewHeap(n, a), M.heap)
    BY <1>9 DEF NewHeap
  <2>2. FirstAcked(M.heap, NewLinked(a), list'.heap, acked, acked')
    BY <1>10, <1>11
  <2>3. QED
    BY <1>16, <2>1, <2>2, SameFirst
<1>18. QED
  BY <1>8, <1>9, <1>11, <1>12, <1>13, <1>14, <1>15, <1>17 DEF n

(***************************************************************************)
(* A node with another count of acknowledgements.                          *)
(***************************************************************************)
Counted(h, g, b) ==
    \A c \in Addr :
        /\ g[c].uid = h[c].uid /\ g[c].pid = h[c].pid /\ g[c].port = h[c].port
        /\ g[c].lc = h[c].lc /\ g[c].ack_flg = h[c].ack_flg
        /\ g[c].ack_count = IF c = b THEN h[c].ack_count + 1 ELSE h[c].ack_count

(***************************************************************************)
(* handle_ack() counts on a node of the list that has the uid, if there is *)
(* one; READY is broadcast when it has counted to the number of processes. *)
(***************************************************************************)
LEMMA AckStep ==
    ASSUME list \in Memory, lc \in Nat, ListInv, NEW k, handle_ack(k)
    PROVE  /\ list' \in Memory /\ lc' \in Nat
           /\ \E s \in Lists : IsList(list', s)
           /\ Linked(list') = Linked(list)
           /\ list'.tail = list.tail
           /\ \/ /\ list' = list /\ readied' = readied
                 /\ \A a \in Linked(list) : list.heap[a].uid # k.frame.uid
              \/ \E a \in Linked(list) :
                    /\ list.heap[a].uid = k.frame.uid
                    /\ Counted(list.heap, list'.heap, a)
                    /\ \/ readied' = readied
                       \/ /\ readied' = readied \cup {k}
                          /\ list.heap[a].ack_count + 1 = NumProc
<1> DEFINE uid == k.frame.uid
           a == find_node(list, uid)
           y == [list.heap[a] EXCEPT !.ack_count = @ + 1]
           g == [list.heap EXCEPT ![a] = y]
<1>1. PICK s \in Lists : IsList(list, s)
  BY DEF ListInv
<1>2. Linked(list) = Elems(s) /\ Linked(list) \subseteq Addr
  BY <1>1, LinkedList
<1>3. /\ IF a = NULL THEN list' = list
         ELSE list' = [list EXCEPT !.heap[a].ack_count = @ + 1]
      /\ IF a # NULL /\ list'.heap[a].ack_count = NumProc
         THEN readied' = readied \cup {k} /\ lc' = lc + 1
         ELSE UNCHANGED <<readied, lc>>
  BY DEF handle_ack
<1>4. \/ /\ a = NULL
         /\ \A c \in Linked(list) : list.heap[c].uid # uid
      \/ a \in Linked(list) /\ a \in Addr /\ a # NULL /\ list.heap[a].uid = uid
  <2>1. IsPath(list.heap, list.head, s)
    BY <1>1 DEF IsList
  <2> HIDE DEF uid
  <2>2. \/ /\ find_node(list, uid) = NULL
           /\ \A i \in 1 .. Len(s) : list.heap[s[i]].uid # uid
        \/ \E p \in 1 .. Len(s) : find_node(list, uid) = s[p]
                                  /\ list.heap[s[p]].uid = uid
    BY <2>1, FindNode
  <2> HIDE DEF a
  <2>3. QED
    BY <1>2, <2>2, AddrAssumption DEF Elems, a
<1> HIDE DEF a, uid
<1>5. lc' \in Nat
  BY <1>3
<1>6. CASE a = NULL /\ \A c \in Linked(list) : list.heap[c].uid # uid
  <2>1. list' = list /\ readied' = readied
    BY <1>3, <1>6
  <2>2. QED
    BY <1>1, <1>5, <1>6, <2>1 DEF uid
<1>7. CASE a \in Linked(list) /\ a \in Addr /\ a # NULL /\ list.heap[a].uid = uid
  <2>1. list.heap \in Heaps /\ list.heap[a] \in Cell
    BY <1>7, MemoryParts
  <2>2. list.heap[a].ack_count \in Nat
    BY <2>1, CellFields
  <2>3. /\ y \in Cell /\ y.uid = list.heap[a].uid /\ y.pid = list.heap[a].pid
        /\ y.port = list.heap[a].port /\ y.lc = list.heap[a].lc
        /\ y.ack_flg = list.heap[a].ack_flg
        /\ y.ack_count = list.heap[a].ack_count + 1 /\ y.next = list.heap[a].next
    BY <2>1, <2>2 DEF Cell
  <2>4. list' = [list EXCEPT !.heap = g]
    BY <1>3, <1>7 DEF Memory
  <2> HIDE DEF y
  <2>5. /\ g \in Heaps
        /\ IsPath(list.heap, list.head, s) => IsPath(g, list.head, s)
        /\ InOrder(list.heap, s) => InOrder(g, s)
        /\ g[a] = y
        /\ \A c \in Addr : c # a => g[c] = list.heap[c]
    <3>1. /\ a \in Addr /\ y \in Cell /\ y.next = list.heap[a].next
          /\ y.lc = list.heap[a].lc /\ y.pid = list.heap[a].pid
      BY <1>7, <2>3
    <3>2. QED
      BY <2>1, <3>1, HeapWrite
  <2> HIDE DEF g
  <2>6. /\ list' \in Memory /\ list'.heap = g /\ list'.head = list.head
        /\ list'.tail = list.tail /\ list'.live = list.live
    BY <2>4, <2>5 DEF Memory, Heaps
  <2>7. IsList(list', s)
    BY <1>1, <2>5, <2>6 DEF IsList
  <2>8. Linked(list') = Linked(list)
    BY <1>2, <2>7, LinkedList
  <2>9. Counted(list.heap, list'.heap, a)
    BY <2>3, <2>5, <2>6 DEF Counted
  <2>10. list'.heap[a].ack_count = list.heap[a].ack_count + 1
    BY <2>3, <2>5, <2>6
  <2>11. \/ readied' = readied
         \/ /\ readied' = readied \cup {k}
            /\ list.heap[a].ack_count + 1 = NumProc
    BY <1>3, <2>10
  <2>12. QED
    BY <1>5, <1>7, <2>6, <2>7, <2>8, <2>9, <2>11 DEF uid
<1>8. QED
  BY <1>4, <1>6, <1>7

(***************************************************************************)
(* handle_ready() takes a node with the uid out, if there is one.          *)
(***************************************************************************)
LEMMA ReadyStep ==
    ASSUME list \in Memory, ListInv, NEW k, handle_ready(k)
    PROVE  /\ list' \in Memory
           /\ \E s \in Lists : IsList(list', s)
           /\ SameData(list.heap, list'.heap)
           /\ \/ /\ list' = list
                 /\ \A a \in Linked(list) : list.heap[a].uid # k.frame.uid
              \/ \E a \in Linked(list) :
                    /\ list.heap[a].uid = k.frame.uid
                    /\ Linked(list') = Linked(list) \ {a}
                    /\ Linked(list) = {a} => list'.tail = list.tail
<1> DEFINE uid == k.frame.uid
<1>1. PICK s \in Lists : IsList(list, s)
  BY DEF ListInv
<1>2. Linked(list) = Elems(s) /\ Linked(list) \subseteq Addr
  BY <1>1, LinkedList
<1>3. list' = dequeue(list, uid)
  BY DEF handle_ready
<1> HIDE DEF uid
<1>4. IsPath(list.heap, list.head, s)
  BY <1>1 DEF IsList
<1>5. CASE /\ find_node(list, uid) = NULL
           /\ \A i \in 1 .. Len(s) : list.heap[s[i]].uid # uid
  <2>1. list' = list
    BY <1>3, <1>5 DEF dequeue
  <2>2. \A a \in Linked(list) : list.heap[a].uid # uid
    BY <1>2, <1>5 DEF Elems
  <2>3. SameData(list.heap, list.heap)
    BY DEF SameData
  <2>4. QED
    BY <1>1, <2>1, <2>2, <2>3 DEF uid
<1>6. ASSUME NEW p \in 1 .. Len(s), find_node(list, uid) = s[p],
             list.heap[s[p]].uid = uid
      PROVE  /\ list' \in Memory
             /\ \E t \in Lists : IsList(list', t)
             /\ SameData(list.heap, list'.heap)
             /\ \E a \in Linked(list) :
                   /\ list.heap[a].uid = uid
                   /\ Linked(list') = Linked(list) \ {a}
                   /\ Linked(list) = {a} => list'.tail = list.tail
  <2>1. /\ list' \in Memory /\ SameData(list.heap, list'.heap)
        /\ IsList(list', Removed(s, p))
        /\ Len(s) = 1 => list'.tail = list.tail
    BY <1>1, <1>3, <1>6, DequeueList
  <2>2. Removed(s, p) \in Lists /\ Elems(Removed(s, p)) = Elems(s) \ {s[p]}
    BY RemovedType
  <2>3. Linked(list') = Linked(list) \ {s[p]}
    BY <1>2, <2>1, <2>2, LinkedList
  <2>4. s[p] \in Linked(list)
    BY <1>2 DEF Elems
  <2>5. Linked(list) = {s[p]} => Len(s) = 1
    <3>1. SUFFICES ASSUME Elems(s) = {s[p]} PROVE Len(s) = 1
      BY <1>2
    <3>2. \A i \in 1 .. Len(s) : i = p
      <4>1. \A i \in 1 .. Len(s) : s[i] \in Elems(s)
        BY DEF Elems
      <4>2. QED
        BY <3>1, <4>1, ListType
    <3>3. Len(s) \in Nat
      BY ListType, SizeType
    <3>4. 1 \in 1 .. Len(s) /\ Len(s) \in 1 .. Len(s)
      BY <3>3
    <3>5. QED
      BY <3>2, <3>4
  <2>6. QED
    BY <1>6, <2>1, <2>2, <2>3, <2>4, <2>5
<1>7. QED
  <2>1. \/ /\ find_node(list, uid) = NULL
           /\ \A i \in 1 .. Len(s) : list.heap[s[i]].uid # uid
        \/ \E p \in 1 .. Len(s) : find_node(list, uid) = s[p]
                                  /\ list.heap[s[p]].uid = uid
    BY <1>4, FindNode
  <2>2. QED
    BY <1>5, <1>6, <2>1 DEF uid

-----------------------------------------------------------------------------
(* The inductive invariant *)

(***************************************************************************)
(* NInv holds before the first message: the list is empty.                 *)
(***************************************************************************)
LEMMA NodeInit == Init => NInv
<1> SUFFICES ASSUME Init PROVE NInv
  OBVIOUS
<1>1. /\ list = EmptyList /\ lc = 0 /\ arrived = {} /\ acked = {} /\ readied = {}
      /\ done = {} /\ heard = [m \in Issued |-> 0] /\ origin = [a \in Addr |-> NULL]
      /\ garbled = {}
      /\ wire = {[msg |-> m, frame |-> encode_broadcast_buffer(m)] : m \in Issued}
  BY DEF Init
<1>2. /\ list.heap = [a \in Addr |-> Blank] /\ list.head = NULL /\ list.tail = NULL
      /\ list.live = {}
  BY <1>1 DEF EmptyList
<1>3. Blank \in Cell
  <2>1. <<{}, 0>> \in Uid
    BY DEF Uid
  <2>2. QED
    BY <2>1 DEF Blank, Cell
<1>4. list \in Memory
  BY <1>1, <1>3 DEF Memory, EmptyList
<1>5. TypeOK
  <2>1. {k.msg : k \in wire \cup arrived} = Issued
    <3>1. \A k \in wire \cup arrived : \E m \in Issued : IsFrameOf(k, m)
      BY <1>1 DEF IsFrameOf
    <3>2. \A k \in wire \cup arrived : k.msg \in Issued
      BY <3>1, FrameOf
    <3>3. ASSUME NEW m \in Issued PROVE \E k \in wire \cup arrived : k.msg = m
      <4> DEFINE k == [msg |-> m, frame |-> encode_broadcast_buffer(m)]
      <4>1. k \in wire \cup arrived /\ k.msg = m
        BY <1>1
      <4>2. QED
        BY <4>1
    <3>4. QED
      BY <3>2, <3>3
  <2>2. heard \in [Issued -> 0 .. NumProc]
    BY <1>1, NodeAssumption
  <2>3. origin \in [Addr -> [of : arrived, kept : SUBSET DOMAIN FieldAt] \cup {NULL}]
    BY <1>1
  <2>4. QED
    BY <1>1, <1>4, <2>1, <2>2, <2>3 DEF TypeOK, Memory
<1>6. <<>> \in Lists /\ IsList(list, <<>>)
  <2>1. <<>> \in [1 .. 0 -> Addr] /\ \A i, j \in 1 .. 0 : <<>>[i] = <<>>[j] => i = j
    OBVIOUS
  <2>2. <<>> \in Lists /\ Len(<<>>) = 0
    BY <2>1, InLists
  <2>3. QED
    BY <1>2, <2>2 DEF IsList, IsPath, InOrder, At
<1>7. Linked(list) = {}
  BY <1>6, LinkedList
<1>8. ListInv
  BY <1>6 DEF ListInv
<1>9. FrameInv
  BY <1>1, <1>7 DEF FrameInv
<1>10. AckInv
  <2>1. \A k \in wire : heard[k.msg] = 0
    <3>1. \A k \in wire : \E m \in Issued : IsFrameOf(k, m)
      BY <1>1 DEF IsFrameOf
    <3>2. \A k \in wire : k.msg \in Issued
      BY <3>1, FrameOf
    <3>3. QED
      BY <1>1, <3>2
  <2>2. QED
    BY <1>1, <1>7, <2>1 DEF AckInv, AckedIsFound, AcksCountOwn
<1>11. QED
  BY <1>5, <1>8, <1>9, <1>10 DEF NInv

(***************************************************************************)
(* What NInv says of the list and the frames.                              *)
(***************************************************************************)
LEMMA NodeParts ==
    ASSUME NInv
    PROVE  /\ list \in Memory /\ lc \in Nat /\ Linked(list) \subseteq Addr
           /\ \A a \in Linked(list) : list.heap[a] \in Cell
           /\ \A k \in wire \cup arrived : \E m \in Issued : IsFrameOf(k, m)
           /\ \A k \in wire \cup arrived : k.msg \in Issued
           /\ acked \subseteq [uid : Uid, port : Int]
           /\ heard \in [Issued -> 0 .. NumProc]
           /\ readied \subseteq arrived /\ done \subseteq readied
           /\ DOMAIN origin = Addr
<1>1. list \in Memory /\ lc \in Nat
  BY DEF NInv, TypeOK, Memory
<1>2. /\ acked \subseteq [uid : Uid, port : Int]
      /\ heard \in [Issued -> 0 .. NumProc]
      /\ readied \subseteq arrived /\ done \subseteq readied
      /\ DOMAIN origin = Addr
  BY DEF NInv, TypeOK
<1>3. Linked(list) \subseteq Addr
  BY LinkedList DEF NInv, ListInv
<1>4. \A a \in Linked(list) : list.heap[a] \in Cell
  BY <1>1, <1>3, MemoryParts
<1>5. \A k \in wire \cup arrived : \E m \in Issued : IsFrameOf(k, m)
  BY DEF NInv, FrameInv, IsFrameOf
<1>6. \A k \in wire \cup arrived : k.msg \in Issued
  BY <1>5, FrameOf
<1>7. QED
  BY <1>1, <1>2, <1>3, <1>4, <1>5, <1>6

(***************************************************************************)
(* A frame is known by its message, and with different uids by its uid.    *)
(***************************************************************************)
LEMMA FrameKnown ==
    ASSUME NInv, NEW j \in wire \cup arrived, NEW k \in wire \cup arrived
    PROVE  /\ j.msg = k.msg => j = k
           /\ DistinctUids /\ j.frame.uid = k.frame.uid => j = k
<1>1. PICK m \in Issued : IsFrameOf(j, m)
  BY NodeParts
<1>2. PICK n \in Issued : IsFrameOf(k, n)
  BY NodeParts
<1>3. /\ j.msg = m /\ j.frame.uid = generate_uid(m.pid, m.lc)
      /\ k.msg = n /\ k.frame.uid = generate_uid(n.pid, n.lc)
  BY <1>1, <1>2, FrameOf
<1>4. m = n => j = k
  BY <1>1, <1>2 DEF IsFrameOf
<1>5. DistinctUids /\ j.frame.uid = k.frame.uid => m = n
  BY <1>3 DEF DistinctUids
<1>6. QED
  BY <1>3, <1>4, <1>5

(***************************************************************************)
(* When no frame has been garbled a node has all of its frame.             *)
(***************************************************************************)
LEMMA NodeWhole ==
    ASSUME NInv, Whole, NEW a \in Linked(list)
    PROVE  LET k == origin[a].of
               n == list.heap[a]
           IN  /\ k \in arrived /\ n.uid = k.frame.uid /\ n.pid = k.frame.pid
               /\ n.port = k.frame.port /\ n.lc = k.frame.lc
               /\ AckOf(n) = AckOf(k.frame)
<1> DEFINE k == origin[a].of
           n == list.heap[a]
<1>1. /\ k \in arrived /\ Matches(n, k.frame, origin[a].kept)
      /\ origin[a].kept = DOMAIN FieldAt
  BY DEF NInv, FrameInv
<1>2. DOMAIN FieldAt = {"uid", "pid", "port", "lc"}
  BY DEF FieldAt
<1> HIDE DEF k, n
<1>3. /\ n.uid = k.frame.uid /\ n.pid = k.frame.pid
      /\ n.port = k.frame.port /\ n.lc = k.frame.lc
  BY <1>1, <1>2 DEF Matches
<1>4. AckOf(n) = AckOf(k.frame)
  BY <1>3 DEF AckOf
<1>5. QED
  BY <1>1, <1>3, <1>4 DEF k, n

(***************************************************************************)
(* The uid and the port of an acknowledgement.                             *)
(***************************************************************************)
LEMMA AckFields ==
    ASSUME NEW x, NEW y
    PROVE  AckOf(x) = AckOf(y) => x.uid = y.uid /\ x.port = y.port
<1>1. AckOf(x).uid = x.uid /\ AckOf(x).port = x.port
  BY DEF AckOf
<1>2. AckOf(y).uid = y.uid /\ AckOf(y).port = y.port
  BY DEF AckOf
<1>3. QED
  BY <1>1, <1>2

(***************************************************************************)
(* The nodes of the heap with the new one.                                 *)
(***************************************************************************)
LEMMA NewHeapNodes ==
    ASSUME NInv, NEW n \in Cell, NEW a \in Addr, a \notin Linked(list)
    PROVE  /\ NewHeap(n, a) \in Heaps
           /\ NewHeap(n, a)[a] = n
           /\ \A c \in Linked(list) : NewHeap(n, a)[c] = list.heap[c] /\ c # a
           /\ \A c \in NewLinked(a) : c = a \/ c \in Linked(list)
           /\ NewLinked(a) \subseteq Addr
           /\ Linked(list) \subseteq NewLinked(a)
<1>1. list.heap \in Heaps /\ Linked(list) \subseteq Addr
  BY NodeParts, MemoryParts
<1>2. /\ NewHeap(n, a) \in Heaps
      /\ NewHeap(n, a)[a] = n
      /\ \A c \in Addr : c # a => NewHeap(n, a)[c] = list.heap[c]
  BY <1>1 DEF NewHeap, Heaps
<1>3. /\ \A c \in NewLinked(a) : c = a \/ c \in Linked(list)
      /\ Linked(list) \subseteq NewLinked(a)
  BY DEF NewLinked
<1>4. QED
  BY <1>1, <1>2, <1>3

(***************************************************************************)
(* If none has been garbled after a frame, none was before.                *)
(***************************************************************************)
LEMMA StillWhole ==
    ASSUME NEW k, NEW e, NEW j, NEW a, handle_broadcast(k, e, j, a), Whole'
    PROVE  Whole /\ Kept(e) = DOMAIN FieldAt
<1>1. garbled' = IF Kept(e) = DOMAIN FieldAt THEN garbled ELSE garbled \cup {k}
  BY DEF handle_broadcast
<1>2. garbled' = {}
  BY DEF Whole
<1>3. QED
  BY <1>1, <1>2 DEF Whole

(***************************************************************************)
(* handle_broadcast() keeps the types, the list and the frames.            *)
(***************************************************************************)
LEMMA BroadcastKeeps ==
    ASSUME NInv, NEW k \in wire, NEW e \in Splits, NEW j \in Junk, NEW a \in Addr,
           handle_broadcast(k, e, j, a)
    PROVE  TypeOK' /\ ListInv' /\ FrameInv'
<1> DEFINE n == Received(k, e, j)
           h == NewHeap(n, a)
           N == NewLinked(a)
           g == list'.heap
<1>1. /\ list \in Memory /\ lc \in Nat /\ ListInv /\ FrameInv /\ TypeOK
      /\ acked \subseteq [uid : Uid, port : Int]
      /\ heard \in [Issued -> 0 .. NumProc]
      /\ readied \subseteq arrived /\ done \subseteq readied
      /\ DOMAIN origin = Addr
  BY NodeParts DEF NInv
<1>2. PICK m \in Issued : IsFrameOf(k, m)
  BY NodeParts
<1>3. /\ list' \in Memory /\ lc' \in Nat
      /\ \E u \in Lists : IsList(list', u)
      /\ Linked(list') = N
      /\ a \notin Linked(list)
      /\ FirstAcked(h, N, g, acked, acked')
  BY <1>1, <1>2, BroadcastStep
<1>4. /\ n \in Cell /\ Matches(n, k.frame, Kept(e))
      /\ Kept(e) \subseteq DOMAIN FieldAt
  BY <1>2, ReceivedNode
<1> HIDE DEF n
<1>5. /\ h \in Heaps /\ h[a] = n
      /\ \A c \in Linked(list) : h[c] = list.heap[c] /\ c # a
      /\ \A c \in N : c = a \/ c \in Linked(list)
      /\ N \subseteq Addr
  BY <1>3, <1>4, NewHeapNodes
<1>6. /\ wire' = wire \ {k} /\ arrived' = arrived \cup {k}
      /\ readied' = readied /\ done' = done /\ heard' = heard
      /\ origin' = [origin EXCEPT ![a] = [of |-> k, kept |-> Kept(e)]]
      /\ garbled' \subseteq garbled \cup {k}
  BY DEF handle_broadcast
<1> HIDE DEF h, N, g
<1>7. wire' \cup arrived' = wire \cup arrived
  BY <1>6
<1>8. acked' \subseteq [uid : Uid, port : Int]
  <2>1. ASSUME NEW b \in N PROVE AckOf(h[b]) \in [uid : Uid, port : Int]
    <3>1. h[b].uid \in Uid /\ h[b].port \in Int
      BY <1>5, CellFields DEF Heaps
    <3>2. QED
      BY <3>1 DEF AckOf
  <2>2. acked' = acked \/ \E b \in N : acked' = acked \cup {AckOf(h[b])}
    BY <1>3 DEF FirstAcked
  <2>3. QED
    BY <1>1, <2>1, <2>2
<1>9. /\ origin'[a].of = k /\ origin'[a].kept = Kept(e)
      /\ \A c \in Addr : c # a => origin'[c] = origin[c]
  BY <1>1, <1>6
<1>10. TypeOK'
  <2>1. {i.msg : i \in wire' \cup arrived'} = Issued
    BY <1>1, <1>7 DEF TypeOK
  <2>2. origin' \in [Addr -> [of : arrived', kept : SUBSET DOMAIN FieldAt] \cup {NULL}]
    <3> DEFINE R(S) == [of : S, kept : SUBSET DOMAIN FieldAt] \cup {NULL}
    <3>1. origin \in [Addr -> R(arrived)]
      BY <1>1 DEF TypeOK
    <3>2. R(arrived) \subseteq R(arrived')
      BY <1>6
    <3>3. [of |-> k, kept |-> Kept(e)] \in R(arrived')
      BY <1>4, <1>6
    <3> HIDE DEF R
    <3>4. origin' \in [Addr -> R(arrived')]
      BY <1>6, <3>1, <3>2, <3>3
    <3>5. QED
      BY <3>4 DEF R
  <2>3. garbled' \subseteq arrived'
    BY <1>1, <1>6 DEF TypeOK
  <2>4. QED
    BY <1>1, <1>3, <1>6, <1>8, <2>1, <2>2, <2>3 DEF TypeOK, Memory
<1>11. ListInv'
  BY <1>3 DEF ListInv
<1>12. FrameInv'
  <2>1. /\ wire \cup arrived =
              {[msg |-> i, frame |-> encode_broadcast_buffer(i)] : i \in Issued}
        /\ wire \cap arrived = {}
        /\ \A c \in Linked(list) :
              /\ origin[c].of \in arrived
              /\ Matches(list.heap[c], origin[c].of.frame, origin[c].kept)
              /\ Whole => origin[c].kept = DOMAIN FieldAt
    BY <1>1 DEF FrameInv
  <2>2. wire' \cup arrived' =
              {[msg |-> i, frame |-> encode_broadcast_buffer(i)] : i \in Issued}
    BY <1>7, <2>1
  <2>3. wire' \cap arrived' = {}
    BY <1>6, <2>1
  <2>4. ASSUME NEW c \in N
        PROVE  /\ origin'[c].of \in arrived'
               /\ Matches(h[c], origin'[c].of.frame, origin'[c].kept)
               /\ Whole' => origin'[c].kept = DOMAIN FieldAt
    <3>1. CASE c = a
      BY <1>4, <1>5, <1>6, <1>9, <3>1, StillWhole
    <3>2. CASE c \in Linked(list)
      <4>1. c \in Addr /\ c # a /\ h[c] = list.heap[c] /\ origin'[c] = origin[c]
        BY <1>5, <1>9, <3>2
      <4>2. QED
        BY <1>6, <2>1, <3>2, <4>1, StillWhole
    <3>3. QED
      BY <1>5, <3>1, <3>2
  <2>5. \A c \in N : /\ g[c].uid = h[c].uid /\ g[c].pid = h[c].pid
                     /\ g[c].port = h[c].port /\ g[c].lc = h[c].lc
    BY <1>3, <1>5 DEF FirstAcked, Marked
  <2>6. \A c \in N : Matches(g[c], origin'[c].of.frame, origin'[c].kept)
    BY <2>4, <2>5 DEF Matches
  <2>7. \A c \in Linked(list') :
              /\ origin'[c].of \in arrived'
              /\ Matches(list'.heap[c], origin'[c].of.frame, origin'[c].kept)
              /\ Whole' => origin'[c].kept = DOMAIN FieldAt
    BY <1>3, <2>4, <2>6 DEF g
  <2>8. QED
    BY <2>2, <2>3, <2>7 DEF FrameInv
<1>13. QED
  BY <1>10, <1>11, <1>12

(***************************************************************************)
(* handle_broadcast() keeps the marks: the new message has no other node   *)
(* and is not acknowledged before its node is the first.                   *)
(***************************************************************************)
LEMMA BroadcastMarks ==
    ASSUME NInv, DistinctUids, Whole, NEW k \in wire, NEW e \in Splits,
           NEW j \in Junk, NEW a \in Addr, handle_broadcast(k, e, j, a),
           Kept(e) = DOMAIN FieldAt
    PROVE  AckInv'
<1> DEFINE n == Received(k, e, j)
           h == NewHeap(n, a)
           N == NewLinked(a)
           g == list'.heap
<1>1. /\ list \in Memory /\ lc \in Nat /\ ListInv /\ FrameInv /\ AckInv
      /\ readied \subseteq arrived /\ done \subseteq readied
      /\ DOMAIN origin = Addr
  BY NodeParts DEF NInv
<1>2. PICK m \in Issued : IsFrameOf(k, m)
  BY NodeParts
<1>3. /\ Linked(list') = N
      /\ a \notin Linked(list)
      /\ FirstAcked(h, N, g, acked, acked')
  BY <1>1, <1>2, BroadcastStep
<1>4. n \in Cell /\ n = create_node(k.frame)
  BY <1>2, ReceivedNode
<1> HIDE DEF n
<1>5. /\ h[a] = n
      /\ \A c \in Linked(list) : h[c] = list.heap[c] /\ c # a
      /\ \A c \in N : c = a \/ c \in Linked(list)
      /\ N \subseteq Addr /\ Linked(list) \subseteq N
  BY <1>3, <1>4, NewHeapNodes
<1>6. /\ wire' = wire \ {k} /\ arrived' = arrived \cup {k}
      /\ readied' = readied /\ done' = done /\ heard' = heard
      /\ origin' = [origin EXCEPT ![a] = [of |-> k, kept |-> Kept(e)]]
      /\ k \notin arrived
  BY <1>1 DEF handle_broadcast, FrameInv
<1> HIDE DEF h, N, g
<1>7. /\ origin'[a].of = k
      /\ \A c \in Linked(list) : origin'[c] = origin[c]
  BY <1>1, <1>5, <1>6
<1>8. /\ h[a].uid = k.frame.uid /\ h[a].ack_flg = 0 /\ h[a].ack_count = 0
      /\ AckOf(h[a]) = AckOf(k.frame)
  <2>1. /\ n.uid = k.frame.uid /\ n.port = k.frame.port /\ n.ack_flg = 0
        /\ n.ack_count = 0
    BY <1>2, <1>4, FrameOf
  <2>2. QED
    BY <1>5, <2>1 DEF AckOf
<1>9. ASSUME NEW i \in arrived PROVE i.frame.uid # k.frame.uid
  BY <1>6, FrameKnown
<1>10. \A c \in Linked(list) : /\ origin[c].of \in arrived
                               /\ list.heap[c].uid = origin[c].of.frame.uid
  BY NodeWhole
<1>11. \A c \in Linked(list) : list.heap[c].uid # h[a].uid
  BY <1>8, <1>9, <1>10
<1>12. AckOf(k.frame) \notin acked
  <2>1. SUFFICES ASSUME AckOf(k.frame) \in acked PROVE FALSE
    OBVIOUS
  <2>2. PICK i \in arrived : AckOf(k.frame) = AckOf(i.frame)
    BY <1>1, <2>1 DEF AckInv
  <2>3. QED
    BY <1>9, <2>2, AckFields
<1>13. \A c, d \in N : h[c].uid = h[d].uid => c = d
  BY <1>1, <1>5, <1>11 DEF AckInv
<1>14. \A c \in N : /\ h[c].ack_flg = 1 <=> AckOf(h[c]) \in acked
                    /\ origin'[c].of \notin done
                    /\ origin'[c].of \in arrived'
                    /\ AckOf(h[c]) = AckOf(origin'[c].of.frame)
                    /\ h[c].ack_count = heard[origin'[c].of.msg]
  <2>1. SUFFICES ASSUME NEW c \in N
                 PROVE  /\ h[c].ack_flg = 1 <=> AckOf(h[c]) \in acked
                        /\ origin'[c].of \notin done
                        /\ origin'[c].of \in arrived'
                        /\ AckOf(h[c]) = AckOf(origin'[c].of.frame)
                        /\ h[c].ack_count = heard[origin'[c].of.msg]
    OBVIOUS
  <2>2. CASE c = a
    <3>1. k \notin done /\ k \in arrived'
      BY <1>1, <1>6
    <3>2. heard[k.msg] = 0
      BY <1>1 DEF AckInv
    <3>3. QED
      BY <1>7, <1>8, <1>12, <2>2, <3>1, <3>2
  <2>3. CASE c \in Linked(list)
    <3>1. h[c] = list.heap[c] /\ origin'[c] = origin[c]
      BY <1>5, <1>7, <2>3
    <3>2. /\ origin[c].of \in arrived
          /\ AckOf(list.heap[c]) = AckOf(origin[c].of.frame)
      BY <2>3, NodeWhole
    <3>3. /\ list.heap[c].ack_flg = 1 <=> AckOf(list.heap[c]) \in acked
          /\ origin[c].of \notin done
          /\ list.heap[c].ack_count = heard[origin[c].of.msg]
      BY <1>1, <2>3 DEF AckInv, AcksCountOwn
    <3>4. QED
      BY <1>6, <3>1, <3>2, <3>3
  <2>4. QED
    BY <1>5, <2>2, <2>3
<1>15. \A i \in arrived \ done : AckOf(i.frame) \in acked =>
          \E c \in N : h[c].uid = i.frame.uid /\ h[c].ack_flg = 1
  <2>1. AckedIsFound
    BY <1>1 DEF AckInv
  <2>2. QED
    BY <1>5, <2>1 DEF AckedIsFound
<1>16. /\ acked \subseteq {AckOf(i.frame) : i \in arrived}
       /\ \A i \in readied : AckOf(i.frame) \in acked
       /\ \A i \in wire : heard[i.msg] = 0
  BY <1>1 DEF AckInv
<1>17. \A c \in N : /\ g[c].uid = h[c].uid /\ AckOf(g[c]) = AckOf(h[c])
                    /\ g[c].ack_count = h[c].ack_count
  <2>1. \A c \in N : /\ g[c].uid = h[c].uid /\ g[c].port = h[c].port
                     /\ g[c].ack_count = h[c].ack_count
    BY <1>3, <1>5 DEF FirstAcked, Marked
  <2>2. QED
    BY <2>1 DEF AckOf
<1>18. ASSUME /\ \A c \in N : g[c].ack_flg = 1 <=> AckOf(g[c]) \in acked'
              /\ \A x \in acked' : \E i \in arrived' : x = AckOf(i.frame)
              /\ acked \subseteq acked'
              /\ \A i \in arrived' \ done : AckOf(i.frame) \in acked' =>
                    \E c \in N : g[c].uid = i.frame.uid /\ g[c].ack_flg = 1
       PROVE  AckInv'
  <2>1. \A i \in readied' : AckOf(i.frame) \in acked'
    BY <1>6, <1>16, <1>18
  <2>2. acked' \subseteq {AckOf(i.frame) : i \in arrived'}
    BY <1>18
  <2>3. AckedIsFound'
    BY <1>3, <1>6, <1>18 DEF AckedIsFound, g
  <2>4. AcksCountOwn'
    BY <1>3, <1>6, <1>14, <1>17 DEF AcksCountOwn, g
  <2>5. \A i \in wire' : heard'[i.msg] = 0
    BY <1>6, <1>16
  <2>6. \A c, d \in Linked(list') : list'.heap[c].uid = list'.heap[d].uid => c = d
    BY <1>3, <1>13, <1>17 DEF g
  <2>7. \A c \in Linked(list') : /\ list'.heap[c].ack_flg = 1 <=>
                                       AckOf(list'.heap[c]) \in acked'
                                 /\ origin'[c].of \notin done'
    BY <1>3, <1>6, <1>14, <1>18 DEF g
  <2>8. QED
    BY <2>1, <2>2, <2>3, <2>4, <2>5, <2>6, <2>7 DEF AckInv, AckOf
<1>19. CASE Marked(h, g, NULL) /\ acked' = acked
  <2>1. \A c \in N : g[c].ack_flg = h[c].ack_flg
    BY <1>5, <1>19, AddrAssumption DEF Marked
  <2>2. \A x \in acked' : \E i \in arrived' : x = AckOf(i.frame)
    BY <1>6, <1>16, <1>19
  <2>3. \A c \in N : g[c].ack_flg = 1 <=> AckOf(g[c]) \in acked'
    BY <1>14, <1>17, <1>19, <2>1
  <2>4. ASSUME NEW i \in arrived' \ done, AckOf(i.frame) \in acked'
        PROVE  \E c \in N : g[c].uid = i.frame.uid /\ g[c].ack_flg = 1
    <3>1. i \in arrived \ done
      BY <1>6, <1>12, <1>19, <2>4
    <3>2. PICK c \in N : h[c].uid = i.frame.uid /\ h[c].ack_flg = 1
      BY <1>15, <1>19, <2>4, <3>1
    <3>3. QED
      BY <1>17, <2>1, <3>2
  <2>5. QED
    BY <1>18, <1>19, <2>2, <2>3, <2>4
<1>20. ASSUME NEW b \in N, Marked(h, g, b), acked' = acked \cup {AckOf(h[b])}
       PROVE  AckInv'
  <2>1. \A c \in N : g[c].ack_flg = IF c = b THEN 1 ELSE h[c].ack_flg
    BY <1>5, <1>20 DEF Marked
  <2>2. \A x \in acked' : \E i \in arrived' : x = AckOf(i.frame)
    BY <1>6, <1>14, <1>16, <1>20
  <2>3. ASSUME NEW c \in N PROVE g[c].ack_flg = 1 <=> AckOf(g[c]) \in acked'
    <3>1. CASE c = b
      BY <1>17, <1>20, <2>1, <3>1
    <3>2. CASE c # b
      <4>1. h[c].uid # h[b].uid
        BY <1>13, <3>2
      <4>2. AckOf(h[c]) # AckOf(h[b])
        BY <4>1, AckFields
      <4>3. g[c].ack_flg = h[c].ack_flg /\ AckOf(g[c]) = AckOf(h[c])
        BY <1>17, <2>1, <3>2
      <4>4. QED
        BY <1>14, <1>20, <4>2, <4>3
    <3>3. QED
      BY <3>1, <3>2
  <2>4. ASSUME NEW i \in arrived' \ done, AckOf(i.frame) \in acked'
        PROVE  \E c \in N : g[c].uid = i.frame.uid /\ g[c].ack_flg = 1
    <3>1. CASE AckOf(i.frame) = AckOf(h[b])
      <4>1. h[b].uid = i.frame.uid
        BY <3>1, AckFields
      <4>2. QED
        BY <1>17, <2>1, <4>1
    <3>2. CASE AckOf(i.frame) \in acked
      <4>1. i \in arrived \ done
        BY <1>6, <1>12, <2>4, <3>2
      <4>2. PICK c \in N : h[c].uid = i.frame.uid /\ h[c].ack_flg = 1
        BY <1>15, <3>2, <4>1
      <4>3. QED
        BY <1>17, <2>1, <4>2
    <3>3. QED
      BY <1>20, <2>4, <3>1, <3>2
  <2>5. QED
    BY <1>18, <1>20, <2>2, <2>3, <2>4
<1>21. QED
  BY <1>3, <1>19, <1>20 DEF FirstAcked

(***************************************************************************)
(* handle_ack() keeps NInv: it changes the count of the message that the   *)
(* acknowledgement is for.                                                 *)
(***************************************************************************)
LEMMA AckKeeps ==
    ASSUME NInv, NEW k \in arrived, handle_ack(k)
    PROVE  NInv'
<1> DEFINE g == list'.heap
           h == list.heap
           N == Linked(list)
<1>1. /\ list \in Memory /\ lc \in Nat /\ ListInv /\ FrameInv /\ TypeOK
      /\ heard \in [Issued -> 0 .. NumProc] /\ k.msg \in Issued
      /\ readied \subseteq arrived /\ done \subseteq readied
      /\ N \subseteq Addr
      /\ \A a \in N : h[a].ack_count \in Nat
  BY NodeParts, CellFields DEF NInv
<1>2. /\ list' \in Memory /\ lc' \in Nat
      /\ \E s \in Lists : IsList(list', s)
      /\ Linked(list') = N
      /\ \/ /\ list' = list /\ readied' = readied
            /\ \A a \in N : h[a].uid # k.frame.uid
         \/ \E a \in N :
               /\ h[a].uid = k.frame.uid
               /\ Counted(h, g, a)
               /\ \/ readied' = readied
                  \/ /\ readied' = readied \cup {k}
                     /\ h[a].ack_count + 1 = NumProc
  BY <1>1, AckStep
<1>3. /\ wire' = wire /\ arrived' = arrived /\ acked' = acked /\ done' = done
      /\ origin' = origin /\ garbled' = garbled
      /\ heard[k.msg] < IF AckOf(k.frame) \in acked THEN NumProc ELSE NumProc - 1
      /\ heard' = [heard EXCEPT ![k.msg] = @ + 1]
  BY DEF handle_ack
<1>4. \A c \in N :
         /\ g[c].uid = h[c].uid /\ g[c].pid = h[c].pid /\ g[c].port = h[c].port
         /\ g[c].lc = h[c].lc /\ g[c].ack_flg = h[c].ack_flg
  BY <1>1, <1>2 DEF Counted
<1> HIDE DEF g, h, N
<1>5. TypeOK'
  <2>1. {j.msg : j \in wire' \cup arrived'} = Issued
    BY <1>1, <1>3 DEF TypeOK
  <2>2. heard' \in [Issued -> 0 .. NumProc]
    <3>1. heard[k.msg] \in 0 .. NumProc /\ NumProc \in Nat
      BY <1>1, NodeAssumption
    <3>2. heard[k.msg] + 1 \in 0 .. NumProc
      BY <1>3, <3>1
    <3>3. QED
      BY <1>1, <1>3, <3>2
  <2>3. readied' \subseteq arrived' /\ done' \subseteq readied'
    BY <1>1, <1>2, <1>3
  <2>4. QED
    BY <1>1, <1>2, <1>3, <2>1, <2>2, <2>3 DEF TypeOK, Memory
<1>6. ListInv'
  BY <1>2 DEF ListInv
<1>7. FrameInv'
  <2>1. ASSUME NEW c \in N
        PROVE  /\ origin[c].of \in arrived
               /\ Matches(g[c], origin[c].of.frame, origin[c].kept)
               /\ Whole => origin[c].kept = DOMAIN FieldAt
    <3>1. /\ origin[c].of \in arrived
          /\ Matches(h[c], origin[c].of.frame, origin[c].kept)
          /\ Whole => origin[c].kept = DOMAIN FieldAt
      BY <1>1, <2>1 DEF FrameInv, N, h
    <3>2. QED
      BY <1>4, <3>1 DEF Matches
  <2>2. QED
    BY <1>1, <1>2, <1>3, <2>1 DEF FrameInv, Whole, g, N
<1>8. ASSUME DistinctUids, Whole PROVE AckInv'
  <2>1. AckInv /\ AckedIsFound /\ AcksCountOwn
    BY <1>8 DEF NInv, AckInv
  <2>2. \A c \in N : AckOf(g[c]) = AckOf(h[c])
    BY <1>4 DEF AckOf
  <2>3. AckedIsFound'
    <3>1. ASSUME NEW i \in arrived \ done, AckOf(i.frame) \in acked
          PROVE  \E a \in N : g[a].uid = i.frame.uid /\ g[a].ack_flg = 1
      <4>1. PICK a \in N : h[a].uid = i.frame.uid /\ h[a].ack_flg = 1
        BY <1>8, <2>1, <3>1 DEF AckedIsFound, N, h
      <4>2. QED
        BY <1>4, <4>1
    <3>2. QED
      BY <1>2, <1>3, <3>1 DEF AckedIsFound, AckOf, g
  <2>4. ASSUME NEW c \in N
        PROVE  /\ origin[c].of \in arrived
               /\ h[c].uid = k.frame.uid <=> origin[c].of = k
               /\ h[c].ack_count = heard[origin[c].of.msg]
               /\ heard'[origin[c].of.msg] =
                     IF origin[c].of = k THEN heard[origin[c].of.msg] + 1
                     ELSE heard[origin[c].of.msg]
    <3> DEFINE i == origin[c].of
    <3>1. i \in arrived /\ h[c].uid = i.frame.uid
      BY <1>8, NodeWhole DEF N, h
    <3>2. h[c].ack_count = heard[i.msg]
      BY <1>8, <2>1 DEF AcksCountOwn, N, h
    <3> HIDE DEF i
    <3>3. /\ h[c].uid = k.frame.uid <=> i = k
          /\ i.msg = k.msg <=> i = k
      BY <1>8, <3>1, FrameKnown
    <3>4. i.msg \in Issued
      BY <3>1, NodeParts
    <3>5. heard'[i.msg] = IF i = k THEN heard[i.msg] + 1 ELSE heard[i.msg]
      BY <1>1, <1>3, <3>3, <3>4
    <3>6. QED
      BY <3>1, <3>2, <3>3, <3>5 DEF i
  <2>5. ASSUME NEW c \in N PROVE g[c].ack_count = heard'[origin[c].of.msg]
    <3>1. CASE list' = list /\ \A a \in N : h[a].uid # k.frame.uid
      <4>1. g[c].ack_count = h[c].ack_count
        BY <3>1 DEF g, h
      <4>2. QED
        BY <2>4, <3>1, <4>1
    <3>2. ASSUME NEW a \in N, h[a].uid = k.frame.uid, Counted(h, g, a)
          PROVE  g[c].ack_count = heard'[origin[c].of.msg]
      <4>1. g[c].ack_count = IF c = a THEN h[c].ack_count + 1 ELSE h[c].ack_count
        BY <1>1, <3>2 DEF Counted
      <4>2. c = a <=> h[c].uid = k.frame.uid
        BY <2>1, <3>2 DEF AckInv, N, h
      <4>3. QED
        BY <2>4, <4>1, <4>2
    <3>3. QED
      BY <1>2, <3>1, <3>2
  <2>6. AcksCountOwn'
    BY <1>2, <1>3, <2>5 DEF AcksCountOwn, g
  <2>7. \A j \in readied' : AckOf(j.frame) \in acked
    <3>1. \A j \in readied : AckOf(j.frame) \in acked
      BY <2>1 DEF AckInv
    <3>2. ASSUME NEW a \in N, h[a].uid = k.frame.uid, h[a].ack_count + 1 = NumProc
          PROVE  AckOf(k.frame) \in acked
      <4>1. heard[k.msg] + 1 = NumProc /\ heard[k.msg] \in Nat
        BY <1>1, <2>4, <3>2
      <4>2. QED
        BY <1>3, <4>1
    <3>3. QED
      BY <1>2, <3>1, <3>2
  <2>8. \A j \in wire' : heard'[j.msg] = 0
    <3>1. SUFFICES ASSUME NEW j \in wire PROVE heard'[j.msg] = 0
      BY <1>3
    <3>2. j # k
      BY <1>1 DEF FrameInv
    <3>3. j.msg # k.msg /\ j.msg \in Issued
      BY <3>2, FrameKnown, NodeParts
    <3>4. heard[j.msg] = 0
      BY <2>1 DEF AckInv
    <3>5. QED
      BY <1>1, <1>3, <3>3, <3>4
  <2>9. /\ \A c, d \in Linked(list') : list'.heap[c].uid = list'.heap[d].uid => c = d
        /\ \A c \in Linked(list') : /\ list'.heap[c].ack_flg = 1 <=>
                                          AckOf(list'.heap[c]) \in acked'
                                    /\ origin'[c].of \notin done'
    BY <1>2, <1>3, <1>4, <2>1, <2>2 DEF AckInv, N, g, h
  <2>10. acked' \subseteq {AckOf(i.frame) : i \in arrived'}
    BY <1>3, <2>1 DEF AckInv
  <2>11. QED
    BY <1>3, <2>3, <2>6, <2>7, <2>8, <2>9, <2>10 DEF AckInv, AckOf
<1>9. Whole' => Whole
  BY <1>3 DEF Whole
<1>10. QED
  BY <1>5, <1>6, <1>7, <1>8, <1>9 DEF NInv, DistinctUids

(***************************************************************************)
(* The READY of another issuer keeps NInv.                                 *)
(***************************************************************************)
LEMMA PeerKeeps ==
    ASSUME NInv, NEW k \in arrived, PeerReadies(k)
    PROVE  NInv'
<1>1. /\ list' = list /\ lc' = lc /\ wire' = wire /\ arrived' = arrived
      /\ acked' = acked /\ done' = done /\ heard' = heard /\ origin' = origin
      /\ garbled' = garbled
      /\ readied' = readied \cup {k} /\ AckOf(k.frame) \in acked
  BY DEF PeerReadies
<1>2. TypeOK' /\ ListInv' /\ FrameInv'
  BY <1>1 DEF NInv, TypeOK, ListInv, FrameInv, Whole
<1>3. ASSUME DistinctUids, Whole PROVE AckInv'
  <2>1. AckInv
    BY <1>3 DEF NInv
  <2>2. QED
    BY <1>1, <2>1 DEF AckInv, AckedIsFound, AcksCountOwn, Whole
<1>4. Whole' => Whole
  BY <1>1 DEF Whole
<1>5. QED
  BY <1>2, <1>3, <1>4 DEF NInv, DistinctUids

(***************************************************************************)
(* handle_ready() keeps NInv: it takes out the node of the message and of  *)
(* no other.                                                               *)
(***************************************************************************)
LEMMA ReadyKeeps ==
    ASSUME NInv, NEW k \in readied, handle_ready(k)
    PROVE  NInv'
<1> DEFINE g == list'.heap
           h == list.heap
           N == Linked(list)
           M == Linked(list')
<1>1. /\ list \in Memory /\ ListInv /\ FrameInv /\ TypeOK /\ lc \in Nat
      /\ readied \subseteq arrived /\ done \subseteq readied
      /\ N \subseteq Addr
  BY NodeParts DEF NInv
<1>2. /\ list' \in Memory
      /\ \E s \in Lists : IsList(list', s)
      /\ SameData(h, g)
      /\ \/ /\ list' = list
            /\ \A a \in N : h[a].uid # k.frame.uid
         \/ \E a \in N :
               /\ h[a].uid = k.frame.uid
               /\ M = N \ {a}
  BY <1>1, ReadyStep
<1>3. /\ wire' = wire /\ arrived' = arrived /\ acked' = acked /\ lc' = lc
      /\ heard' = heard /\ origin' = origin /\ garbled' = garbled
      /\ readied' = readied /\ done' = done \cup {k}
  BY DEF handle_ready
<1>4. \A c \in N :
         /\ g[c].uid = h[c].uid /\ g[c].pid = h[c].pid /\ g[c].port = h[c].port
         /\ g[c].lc = h[c].lc /\ g[c].ack_flg = h[c].ack_flg
         /\ g[c].ack_count = h[c].ack_count
  BY <1>1, <1>2 DEF SameData
<1>5. /\ M \subseteq N
      /\ \A c \in N : h[c].uid # k.frame.uid => c \in M
  BY <1>2
<1> HIDE DEF g, h, N, M
<1>6. TypeOK'
  <2>1. {j.msg : j \in wire' \cup arrived'} = Issued
    BY <1>1, <1>3 DEF TypeOK
  <2>2. QED
    BY <1>1, <1>2, <1>3, <2>1 DEF TypeOK, Memory
<1>7. ListInv'
  BY <1>2 DEF ListInv
<1>8. FrameInv'
  <2>1. ASSUME NEW c \in M
        PROVE  /\ origin[c].of \in arrived
               /\ Matches(g[c], origin[c].of.frame, origin[c].kept)
               /\ Whole => origin[c].kept = DOMAIN FieldAt
    <3>1. /\ origin[c].of \in arrived
          /\ Matches(h[c], origin[c].of.frame, origin[c].kept)
          /\ Whole => origin[c].kept = DOMAIN FieldAt
      BY <1>1, <1>5, <2>1 DEF FrameInv, N, h
    <3>2. QED
      BY <1>4, <1>5, <2>1, <3>1 DEF Matches
  <2>2. QED
    BY <1>1, <1>3, <2>1 DEF FrameInv, Whole, g, M
<1>9. ASSUME DistinctUids, Whole PROVE AckInv'
  <2>1. AckInv /\ AckedIsFound /\ AcksCountOwn
    BY <1>9 DEF NInv, AckInv
  <2>2. \A c \in N : AckOf(g[c]) = AckOf(h[c])
    BY <1>4 DEF AckOf
  <2>3. \A c \in M : h[c].uid # k.frame.uid
    <3>1. \A c, d \in N : h[c].uid = h[d].uid => c = d
      BY <2>1 DEF AckInv, N, h
    <3>2. QED
      BY <1>2, <3>1 DEF M, N
  <2>4. \A c \in M : origin[c].of # k
    <3>1. \A c \in N : h[c].uid = origin[c].of.frame.uid
      BY <1>9, NodeWhole DEF N, h
    <3>2. QED
      BY <1>5, <2>3, <3>1
  <2>5. AckedIsFound'
    <3>1. ASSUME NEW i \in arrived \ (done \cup {k}), AckOf(i.frame) \in acked
          PROVE  \E a \in M : g[a].uid = i.frame.uid /\ g[a].ack_flg = 1
      <4>1. PICK a \in N : h[a].uid = i.frame.uid /\ h[a].ack_flg = 1
        BY <1>9, <2>1, <3>1 DEF AckedIsFound, N, h
      <4>2. i.frame.uid # k.frame.uid
        BY <1>1, <1>9, <3>1, FrameKnown
      <4>3. QED
        BY <1>4, <1>5, <4>1, <4>2
    <3>2. QED
      BY <1>3, <3>1 DEF AckedIsFound, AckOf, g, M
  <2>6. AcksCountOwn'
    <3>1. \A c \in N : h[c].ack_count = heard[origin[c].of.msg]
      BY <1>9, <2>1 DEF AcksCountOwn, N, h
    <3>2. \A c \in M : g[c].ack_count = heard[origin[c].of.msg]
      BY <1>4, <1>5, <3>1
    <3>3. QED
      BY <1>3, <3>2 DEF AcksCountOwn, g, M
  <2>7. /\ \A c, d \in M : g[c].uid = g[d].uid => c = d
        /\ \A c \in M : /\ g[c].ack_flg = 1 <=> AckOf(g[c]) \in acked
                        /\ origin[c].of \notin done \cup {k}
    <3>1. /\ \A c, d \in N : h[c].uid = h[d].uid => c = d
          /\ \A c \in N : /\ h[c].ack_flg = 1 <=> AckOf(h[c]) \in acked
                          /\ origin[c].of \notin done
      BY <2>1 DEF AckInv, N, h
    <3>2. QED
      BY <1>4, <1>5, <2>2, <2>4, <3>1
  <2>8. /\ acked' \subseteq {AckOf(i.frame) : i \in arrived'}
        /\ \A j \in readied' : AckOf(j.frame) \in acked'
        /\ \A j \in wire' : heard'[j.msg] = 0
    BY <1>3, <2>1 DEF AckInv
  <2>9. QED
    BY <1>3, <2>5, <2>6, <2>7, <2>8 DEF AckInv, AckOf, g, M
<1>10. Whole' => Whole
  BY <1>3 DEF Whole
<1>11. QED
  BY <1>6, <1>7, <1>8, <1>9, <1>10 DEF NInv, DistinctUids

(***************************************************************************)
(* Every step keeps NInv.                                                  *)
(***************************************************************************)
LEMMA NodeStep == NInv /\ [Next]_vars => NInv'
<1> SUFFICES ASSUME NInv, [Next]_vars PROVE NInv'
  OBVIOUS
<1>1. ASSUME NEW k \in wire, NEW e \in Splits, NEW j \in Junk, NEW a \in Addr,
             handle_broadcast(k, e, j, a)
      PROVE  NInv'
  <2>1. TypeOK' /\ ListInv' /\ FrameInv'
    BY <1>1, BroadcastKeeps
  <2>2. ASSUME DistinctUids, Whole' PROVE AckInv'
    <3>1. Whole /\ Kept(e) = DOMAIN FieldAt
      BY <1>1, <2>2, StillWhole
    <3>2. QED
      BY <1>1, <2>2, <3>1, BroadcastMarks
  <2>3. QED
    BY <2>1, <2>2 DEF NInv, DistinctUids
<1>2. CASE UNCHANGED vars
  BY <1>2 DEF vars, NInv, TypeOK, ListInv, FrameInv, AckInv, AckedIsFound,
              AcksCountOwn, Whole
<1>3. QED
  BY <1>1, <1>2, AckKeeps, PeerKeeps, ReadyKeeps DEF Next

(***************************************************************************)
(* NInv holds of every state: the list of queue.c has its nodes in a row,  *)
(* each made from a frame.                                                 *)
(***************************************************************************)
THEOREM NodeInvariance == Spec => []NInv
<1>1. QED
  BY NodeInit, NodeStep, PTL DEF Spec

(***************************************************************************)
(* The types of TobNode: what handle_broadcast() reads from a frame fits   *)
(* its fields, every pointer of queue.c is NULL or an address, and no      *)
(* acknowledgement is counted beyond the number of processes.              *)
(***************************************************************************)
THEOREM NodeTypeCorrect == Spec => []TypeOK
<1>1. NInv => TypeOK
  BY DEF NInv
<1>2. QED
  BY <1>1, NodeInvariance, PTL

(***************************************************************************)
(* enqueue(), order_queue() and dequeue() leave a list that links no freed *)
(* node, ends at tail and is in order, whatever frames arrive and however  *)
(* many addresses malloc() may reuse.                                      *)
(***************************************************************************)
THEOREM ListStaysIntact == Spec => []ListIntact
<1>1. ASSUME NInv PROVE ListIntact
  <2>1. PICK s \in Lists : IsList(list, s)
    BY <1>1 DEF NInv, ListInv
  <2>2. /\ IsPath(list.heap, list.head, s) /\ InOrder(list.heap, s)
        /\ \A i \in 1 .. Len(s) : s[i] \in list.live
        /\ s # <<>> => list.tail = s[Len(s)]
    BY <2>1 DEF IsList
  <2>3. Linked(list) = Elems(s)
    BY <2>1, LinkedList
  <2>4. Linked(list) \subseteq list.live
    BY <2>2, <2>3 DEF Elems
  <2>5. /\ Len(s) \in Nat
        /\ \A i \in 1 .. Len(s) : s[i] # NULL
    BY ListType, SizeType
  <2>6. ASSUME list.head # NULL
        PROVE  list.tail \in Linked(list) /\ list.heap[list.tail].next = NULL
    <3>1. s # <<>> /\ Len(s) \in 1 .. Len(s)
      BY <2>2, <2>6, EmptyPath
    <3>2. list.heap[s[Len(s)]].next = NULL
      BY <2>2, <3>1, LastFound
    <3>3. QED
      BY <2>2, <2>3, <3>1, <3>2 DEF Elems
  <2>7. ASSUME NEW a \in Linked(list)
        PROVE  LET b == list.heap[a].next
               IN  IF b = NULL THEN list.tail = a
                   ELSE Stays(list.heap[a], list.heap[b])
    <3>1. PICK i \in 1 .. Len(s) : a = s[i]
      BY <2>3 DEF Elems
    <3>2. s # <<>>
      BY <2>2, <3>1, EmptyPath
    <3>3. list.heap[a].next = At(s, i + 1)
      BY <2>2, <3>1 DEF IsPath
    <3>4. CASE i = Len(s)
      <4>1. At(s, i + 1) = NULL
        BY <2>5, <3>4 DEF At
      <4>2. QED
        BY <2>2, <3>1, <3>2, <3>3, <3>4, <4>1
    <3>5. CASE i # Len(s)
      <4>1. i + 1 \in 1 .. Len(s) /\ i < i + 1
        BY <2>5, <3>5
      <4>2. At(s, i + 1) = s[i + 1] /\ s[i + 1] # NULL
        BY <2>5, <4>1 DEF At
      <4>3. Stays(list.heap[s[i]], list.heap[s[i + 1]])
        BY <2>2, <4>1 DEF InOrder
      <4>4. QED
        BY <3>1, <3>3, <4>2, <4>3
    <3>6. QED
      BY <3>4, <3>5
  <2>8. QED
    BY <2>4, <2>6, <2>7 DEF ListIntact
<1>2. QED
  BY <1>1, NodeInvariance, PTL

(***************************************************************************)
(* However many pieces TCP delivers a frame in, recv_buffer() assembles    *)
(* the fields that lie in the first two and that no later piece is written *)
(* over, and the node has in them what its issuer gave the message, the    *)
(* clock up to 9999.                                                       *)
(***************************************************************************)
THEOREM NodesAreAsIssued == Spec => []NodesAsIssued
<1>1. ASSUME NInv PROVE NodesAsIssued
  <2>1. SUFFICES ASSUME NEW a \in Linked(list)
                 PROVE  /\ origin[a].of \in arrived
                        /\ AsIssued(list.heap[a], origin[a].of.msg, origin[a].kept)
    BY DEF NodesAsIssued
  <2> DEFINE k == origin[a].of
  <2>2. k \in arrived /\ Matches(list.heap[a], k.frame, origin[a].kept)
    BY <1>1, <2>1 DEF NInv, FrameInv
  <2> HIDE DEF k
  <2>3. PICK m \in Issued : IsFrameOf(k, m)
    BY <1>1, <2>2, NodeParts
  <2>4. /\ k.msg = m /\ k.frame.uid = generate_uid(m.pid, m.lc)
        /\ k.frame.pid = m.pid /\ k.frame.port = m.port
        /\ m.lc + 1 < 10^4 => k.frame.lc = m.lc + 1
    BY <2>3, FrameOf
  <2>5. AsIssued(list.heap[a], k.msg, origin[a].kept)
    BY <2>2, <2>4 DEF AsIssued, Matches
  <2>6. QED
    BY <2>2, <2>5 DEF k
<1>2. QED
  BY <1>1, NodeInvariance, PTL

(***************************************************************************)
(* When uids tell the messages apart, and as long as no frame was garbled, *)
(* a message this process acknowledged is found by find_node() until its   *)
(* READY is handled.                                                       *)
(***************************************************************************)
THEOREM AckedIsAlwaysFound ==
    ASSUME DistinctUids
    PROVE  Spec => []AckedIsFound
<1>1. NInv => AckedIsFound
  BY DEF NInv, AckInv, AckedIsFound
<1>2. QED
  BY <1>1, NodeInvariance, PTL

(***************************************************************************)
(* Likewise, handle_ack() counts every acknowledgement on the node of the  *)
(* message it is for, and on no other: ack_count is the number that came,  *)
(* whatever was sorted and removed in between.                             *)
(***************************************************************************)
THEOREM AcksAreCounted ==
    ASSUME DistinctUids
    PROVE  Spec => []AcksCountOwn
<1>1. NInv => AcksCountOwn
  BY DEF NInv, AckInv, AcksCountOwn
<1>2. QED
  BY <1>1, NodeInvariance, PTL

-----------------------------------------------------------------------------
(* The refinement *)

Nodes(h, N) == {AbsNode(h[c]) : c \in N}

(***************************************************************************)
(* The fields of a node of the queue.                                      *)
(***************************************************************************)
LEMMA AbsFields ==
    ASSUME NEW x
    PROVE  /\ AbsNode(x).uid = x.uid /\ AbsNode(x).port = x.port
           /\ AbsNode(x).lc = x.lc /\ AbsNode(x).ack_flg = x.ack_flg
           /\ AbsNode(x).ack_count = x.ack_count
BY DEF AbsNode

(***************************************************************************)
(* Nodes with equal fields are the same node of the queue.                 *)
(***************************************************************************)
LEMMA AbsSame ==
    ASSUME NEW x, NEW y, x.uid = y.uid, x.port = y.port, x.lc = y.lc,
           x.ack_flg = y.ack_flg, x.ack_count = y.ack_count
    PROVE  AbsNode(x) = AbsNode(y)
BY DEF AbsNode

(***************************************************************************)
(* Where tail points to is a matter of the list being empty.               *)
(***************************************************************************)
LEMMA TailStates ==
    ASSUME NEW L, \E s \in Lists : IsList(L, s)
    PROVE  Linked(L) # {} => L.tail \in Linked(L) /\ L.tail # NULL
<1>1. PICK s \in Lists : IsList(L, s)
  OBVIOUS
<1>2. /\ Linked(L) = Elems(s) /\ Linked(L) \subseteq Addr
      /\ (Linked(L) = {} <=> s = <<>>)
  BY <1>1, LinkedList
<1>3. s # <<>> => L.tail = s[Len(s)] /\ Len(s) \in 1 .. Len(s)
  BY <1>1, EmptyPath DEF IsList
<1>4. QED
  BY <1>2, <1>3, AddrAssumption DEF Elems

(***************************************************************************)
(* Changing one of the nodes changes that node of the queue and no other.  *)
(***************************************************************************)
LEMMA ChangeOne ==
    ASSUME NEW h, NEW g, NEW N, NEW b \in N, NEW y,
           \A c, d \in N : h[c].uid = h[d].uid => c = d,
           \A c \in N : c # b => AbsNode(g[c]) = AbsNode(h[c]),
           AbsNode(g[b]) = y
    PROVE  Nodes(g, N) = (Nodes(h, N) \ {AbsNode(h[b])}) \cup {y}
<1>1. \A c \in N : AbsNode(h[c]) = AbsNode(h[b]) => c = b
  <2>1. \A c \in N : AbsNode(h[c]).uid = h[c].uid
    BY AbsFields
  <2>2. QED
    BY <2>1
<1>2. ASSUME NEW z \in Nodes(g, N)
      PROVE  z \in (Nodes(h, N) \ {AbsNode(h[b])}) \cup {y}
  BY <1>1, <1>2 DEF Nodes
<1>3. ASSUME NEW z \in (Nodes(h, N) \ {AbsNode(h[b])}) \cup {y}
      PROVE  z \in Nodes(g, N)
  BY <1>1, <1>3 DEF Nodes
<1>4. QED
  BY <1>2, <1>3

QNodes == {AbsNode(list.heap[a]) : a \in Linked(list)}

Offered == {AbsNode(create_node(k.frame)) : k \in wire \cup arrived}

(***************************************************************************)
(* The state of tail, in NInv.                                             *)
(***************************************************************************)
LEMMA TailIs ==
    ASSUME ListInv
    PROVE  /\ TailState = "null" <=> list.tail = NULL
           /\ TailState = "off" <=> list.tail # NULL /\ Linked(list) = {}
           /\ Linked(list) # {} => TailState = "last"
<1>1. Linked(list) # {} => list.tail \in Linked(list) /\ list.tail # NULL
  BY TailStates DEF ListInv
<1>2. QED
  BY <1>1 DEF TailState

(***************************************************************************)
(* The order of order_queue() is the order of the queue: a node's pid is   *)
(* that of its port.                                                       *)
(***************************************************************************)
LEMMA OrderAgrees ==
    ASSUME NEW x \in Cell, NEW y \in Cell, x.pid = Pid[x.port], y.pid = Pid[y.port]
    PROVE  /\ Stays(x, y) <=> ~ Queue!Before(AbsNode(y), AbsNode(x))
           /\ Stays(x, y) /\ ~ Queue!Before(AbsNode(x), AbsNode(y)) =>
                 x.pid = y.pid /\ x.lc = y.lc
<1>1. /\ AbsNode(x).port = x.port /\ AbsNode(x).lc = x.lc
      /\ AbsNode(y).port = y.port /\ AbsNode(y).lc = y.lc
  BY AbsFields
<1>2. /\ x.pid \in Int /\ y.pid \in Int /\ x.lc \in Nat /\ y.lc \in Nat
  BY CellFields
<1>3. QED
  BY <1>1, <1>2 DEF Stays, Queue!Before

(***************************************************************************)
(* Every node of the list with the new one is made from a frame.           *)
(***************************************************************************)
LEMMA NewNodesFramed ==
    ASSUME NInv, Whole, NEW k \in wire, NEW a \in Addr, a \notin Linked(list),
           NEW c \in NewLinked(a)
    PROVE  LET h == NewHeap(create_node(k.frame), a)
           IN  \E i \in wire \cup arrived :
                  /\ h[c].uid = i.frame.uid /\ h[c].pid = i.frame.pid
                  /\ h[c].port = i.frame.port /\ h[c].lc = i.frame.lc
<1> DEFINE h == NewHeap(create_node(k.frame), a)
<1>1. PICK m \in Issued : IsFrameOf(k, m)
  BY NodeParts
<1>2. /\ create_node(k.frame) \in Cell
      /\ create_node(k.frame).uid = k.frame.uid
      /\ create_node(k.frame).pid = k.frame.pid
      /\ create_node(k.frame).port = k.frame.port
      /\ create_node(k.frame).lc = k.frame.lc
  BY <1>1, FrameOf
<1>3. /\ h[a] = create_node(k.frame)
      /\ \A d \in Linked(list) : h[d] = list.heap[d]
      /\ c = a \/ c \in Linked(list)
  BY <1>2, NewHeapNodes
<1> HIDE DEF h
<1>4. CASE c = a
  BY <1>2, <1>3, <1>4 DEF h
<1>5. CASE c \in Linked(list)
  <2> DEFINE i == origin[c].of
  <2>1. /\ i \in arrived /\ list.heap[c].uid = i.frame.uid
        /\ list.heap[c].pid = i.frame.pid /\ list.heap[c].port = i.frame.port
        /\ list.heap[c].lc = i.frame.lc
    BY <1>5, NodeWhole
  <2> HIDE DEF i
  <2>2. QED
    BY <1>3, <1>5, <2>1 DEF h
<1>6. QED
  BY <1>3, <1>4, <1>5

(***************************************************************************)
(* With different uids the nodes have different uids, the new one too.     *)
(***************************************************************************)
LEMMA NewUids ==
    ASSUME NInv, DistinctUids, Whole, NEW k \in wire, NEW a \in Addr,
           a \notin Linked(list)
    PROVE  LET h == NewHeap(create_node(k.frame), a)
           IN  \A c, d \in NewLinked(a) : h[c].uid = h[d].uid => c = d
<1> DEFINE h == NewHeap(create_node(k.frame), a)
<1>1. PICK m \in Issued : IsFrameOf(k, m)
  BY NodeParts
<1>2. create_node(k.frame) \in Cell /\ create_node(k.frame).uid = k.frame.uid
  BY <1>1, FrameOf
<1>3. /\ h[a] = create_node(k.frame)
      /\ \A c \in Linked(list) : h[c] = list.heap[c] /\ c # a
      /\ \A c \in NewLinked(a) : c = a \/ c \in Linked(list)
  BY <1>2, NewHeapNodes
<1> HIDE DEF h
<1>4. AckInv /\ k \notin arrived
  BY DEF NInv, FrameInv
<1>5. \A c \in Linked(list) : h[c].uid # h[a].uid
  <2>1. SUFFICES ASSUME NEW c \in Linked(list), h[c].uid = h[a].uid PROVE FALSE
    OBVIOUS
  <2> DEFINE i == origin[c].of
  <2>2. i \in arrived /\ list.heap[c].uid = i.frame.uid
    BY NodeWhole
  <2> HIDE DEF i
  <2>3. i.frame.uid = k.frame.uid
    BY <1>2, <1>3, <2>1, <2>2
  <2>4. i = k
    BY <2>2, <2>3, FrameKnown
  <2>5. QED
    BY <1>4, <2>2, <2>4
<1>6. \A c, d \in Linked(list) : h[c].uid = h[d].uid => c = d
  BY <1>3, <1>4 DEF AckInv
<1>7. QED
  BY <1>3, <1>5, <1>6 DEF h

(***************************************************************************)
(* handle_broadcast() implements Receive.                                  *)
(***************************************************************************)
LEMMA BroadcastReceives ==
    ASSUME NInv, DistinctUids, Untied, Whole, NEW k \in wire, NEW e \in Splits,
           NEW j \in Junk, NEW a \in Addr, handle_broadcast(k, e, j, a),
           Kept(e) = DOMAIN FieldAt
    PROVE  Queue!Receive
<1> DEFINE h == NewHeap(create_node(k.frame), a)
           N == NewLinked(a)
           n == AbsNode(create_node(k.frame))
           q == Queue!enqueue(QNodes, TailState, n)
<1>1. /\ list \in Memory /\ lc \in Nat /\ ListInv
  BY NodeParts DEF NInv
<1>2. PICK m \in Issued : IsFrameOf(k, m)
  BY NodeParts
<1>3. /\ Linked(list') = N
      /\ \E u \in Lists : IsList(list', u)
      /\ N = {} => list'.tail = a
      /\ a \notin Linked(list)
      /\ FirstAcked(h, N, list'.heap, acked, acked')
  <2>1. Received(k, e, j) = create_node(k.frame)
    BY <1>2, ReceivedNode
  <2>2. /\ Linked(list') = N
        /\ \E u \in Lists : IsList(list', u)
        /\ N = {} => list'.tail = a
        /\ a \notin Linked(list)
        /\ FirstAcked(NewHeap(Received(k, e, j), a), N, list'.heap, acked, acked')
    BY <1>1, <1>2, BroadcastStep
  <2>3. QED
    BY <2>1, <2>2
<1>4. /\ h \in Heaps /\ h[a] = create_node(k.frame)
      /\ \A c \in Linked(list) : h[c] = list.heap[c]
      /\ N \subseteq Addr
  <2>1. create_node(k.frame) \in Cell
    BY <1>2, FrameOf
  <2>2. QED
    BY <1>3, <2>1, NewHeapNodes
<1>5. wire' \cup arrived' = wire \cup arrived
  BY DEF handle_broadcast
<1>6. n \in Offered /\ Offered' = Offered
  BY <1>5 DEF Offered
<1>7. q = Nodes(h, N)
  <2>1. TailState = "off" <=> ~ (list.tail = NULL \/ Linked(list) # {})
    BY <1>1, TailIs
  <2>2. QNodes = Nodes(h, Linked(list))
    BY <1>4 DEF QNodes, Nodes
  <2>3. CASE TailState = "off"
    <3>1. q = QNodes /\ N = {} /\ Linked(list) = {}
      BY <2>1, <2>3 DEF Queue!enqueue, NewLinked
    <3>2. QED
      BY <2>2, <3>1
  <2>4. CASE TailState # "off"
    <3>1. q = QNodes \cup {n} /\ N = Linked(list) \cup {a}
      BY <2>1, <2>4 DEF Queue!enqueue, NewLinked
    <3>2. n = AbsNode(h[a])
      BY <1>4
    <3> HIDE DEF h, N, n, q
    <3>3. QED
      BY <2>2, <3>1, <3>2 DEF Nodes
  <2>5. QED
    BY <2>3, <2>4
<1>8. QNodes' = Nodes(list'.heap, N)
  BY <1>3 DEF QNodes, Nodes
<1>9. TailState' = Queue!enqueue_tail(TailState)
  <2>1. TailState = "off" <=> N = {}
    BY <1>1, TailIs DEF NewLinked
  <2>2. N # {} => list'.tail \in Linked(list') /\ list'.tail # NULL
    BY <1>3, TailStates
  <2>3. N = {} => list'.tail \notin Linked(list') /\ list'.tail # NULL
    BY <1>3, AddrAssumption
  <2> HIDE DEF N
  <2>4. TailState' = IF N = {} THEN "off" ELSE "last"
    BY <2>2, <2>3 DEF TailState
  <2>5. QED
    BY <2>1, <2>4 DEF Queue!enqueue_tail
<1>10. \A c \in N : \E i \in wire \cup arrived :
          /\ h[c].uid = i.frame.uid /\ h[c].pid = i.frame.pid
          /\ h[c].port = i.frame.port /\ h[c].lc = i.frame.lc
  BY <1>3, NewNodesFramed
<1>11. \A c, d \in N : h[c].uid = h[d].uid => c = d
  BY <1>3, NewUids
<1> HIDE DEF h, N, n, q
<1>12. \A c \in N : h[c] \in Cell /\ h[c].pid = Pid[h[c].port]
  <2>1. SUFFICES ASSUME NEW c \in N PROVE h[c] \in Cell /\ h[c].pid = Pid[h[c].port]
    OBVIOUS
  <2>2. PICK i \in wire \cup arrived : h[c].pid = i.frame.pid /\ h[c].port = i.frame.port
    BY <1>10
  <2>3. PICK x \in Issued : IsFrameOf(i, x)
    BY NodeParts
  <2>4. i.frame.pid = Pid[i.frame.port]
    BY <2>3, FrameOf
  <2>5. QED
    BY <1>4, <2>2, <2>4 DEF Heaps
<1>13. ASSUME NEW b \in N, IsFirst(h, N, b) PROVE Queue!IsHead(AbsNode(h[b]), Nodes(h, N))
  <2>1. ASSUME NEW c \in N PROVE ~ Queue!Before(AbsNode(h[c]), AbsNode(h[b]))
    <3>1. Stays(h[b], h[c])
      <4>1. CASE c = b
        BY <1>12, <4>1, StaysOrder
      <4>2. CASE c # b
        BY <1>13, <4>2 DEF IsFirst
      <4>3. QED
        BY <4>1, <4>2
    <3>2. QED
      BY <1>12, <3>1, OrderAgrees
  <2>2. QED
    BY <2>1 DEF Queue!IsHead, Nodes
<1>14. ASSUME NEW b \in N, IsFirst(h, N, b), NEW c \in N,
              ~ Queue!Before(AbsNode(h[b]), AbsNode(h[c]))
       PROVE  c = b
  <2>1. SUFFICES ASSUME c # b PROVE FALSE
    OBVIOUS
  <2>2. Stays(h[b], h[c])
    BY <1>14, <2>1 DEF IsFirst
  <2>3. h[b].pid = h[c].pid /\ h[b].lc = h[c].lc
    BY <1>12, <1>14, <2>2, OrderAgrees
  <2>4. PICK i \in wire \cup arrived : h[b].uid = i.frame.uid /\ h[b].pid = i.frame.pid
                                      /\ h[b].lc = i.frame.lc
    BY <1>10
  <2>5. PICK l \in wire \cup arrived : h[c].uid = l.frame.uid /\ h[c].pid = l.frame.pid
                                      /\ h[c].lc = l.frame.lc
    BY <1>10
  <2>6. PICK x \in Issued : IsFrameOf(i, x)
    BY NodeParts
  <2>7. PICK y \in Issued : IsFrameOf(l, y)
    BY NodeParts
  <2>8. x.pid = y.pid /\ ClockField(x.lc + 1) = ClockField(y.lc + 1)
    <3>1. i.frame.pid = x.pid /\ i.frame.lc = ClockField(x.lc + 1)
      BY <2>6, FrameOf
    <3>2. l.frame.pid = y.pid /\ l.frame.lc = ClockField(y.lc + 1)
      BY <2>7, FrameOf
    <3>3. QED
      BY <2>3, <2>4, <2>5, <3>1, <3>2
  <2>9. x = y
    BY <2>8 DEF Untied
  <2>10. i = l
    BY <2>6, <2>7, <2>9 DEF IsFrameOf
  <2>11. QED
    BY <1>11, <2>1, <2>4, <2>5, <2>10
<1>15. ASSUME Marked(h, list'.heap, NULL),
              N = {} \/ \E b \in N : IsFirst(h, N, b) /\ h[b].ack_flg = 1
       PROVE  Queue!AckFirst(q)
  <2>1. QNodes' = q
    <3>1. \A c \in N : AbsNode(list'.heap[c]) = AbsNode(h[c])
      BY <1>4, <1>15, AbsSame, AddrAssumption DEF Marked
    <3>2. QED
      BY <1>7, <1>8, <3>1 DEF Nodes
  <2>2. ASSUME NEW z \in q, Queue!IsHead(z, q) PROVE z.ack_flg = 1
    <3>1. PICK c \in N : z = AbsNode(h[c])
      BY <1>7 DEF Nodes
    <3>2. PICK b \in N : IsFirst(h, N, b) /\ h[b].ack_flg = 1
      BY <1>15
    <3>3. AbsNode(h[b]) \in q
      BY <1>7 DEF Nodes
    <3>4. ~ Queue!Before(AbsNode(h[b]), AbsNode(h[c]))
      BY <2>2, <3>1, <3>3 DEF Queue!IsHead
    <3>5. c = b
      BY <1>14, <3>2, <3>4
    <3>6. QED
      BY <3>1, <3>2, <3>5, AbsFields
  <2>3. QED
    BY <2>1, <2>2 DEF Queue!AckFirst, QNodes
<1>16. ASSUME NEW b \in N, Marked(h, list'.heap, b), IsFirst(h, N, b), h[b].ack_flg = 0
       PROVE  Queue!AckFirst(q)
  <2> DEFINE z == AbsNode(h[b])
             y == [z EXCEPT !.ack_flg = 1]
  <2>1. z \in q /\ Queue!IsHead(z, q) /\ z.ack_flg = 0
    BY <1>7, <1>13, <1>16, AbsFields DEF Nodes
  <2>2. AbsNode(list'.heap[b]) = y
    BY <1>4, <1>16 DEF Marked, AbsNode
  <2>3. \A c \in N : c # b => AbsNode(list'.heap[c]) = AbsNode(h[c])
    BY <1>4, <1>16, AbsSame DEF Marked
  <2>4. Nodes(list'.heap, N) = (Nodes(h, N) \ {z}) \cup {y}
    <3> HIDE DEF y
    <3>1. QED
      BY <1>11, <2>2, <2>3, ChangeOne
  <2>5. QNodes' = Queue!Acked(q, z)
    BY <1>7, <1>8, <2>4 DEF Queue!Acked
  <2> HIDE DEF z
  <2>6. QED
    BY <2>1, <2>5 DEF Queue!AckFirst, QNodes
<1>17. Queue!AckFirst(q)
  BY <1>3, <1>15, <1>16 DEF FirstAcked
<1>18. QED
  BY <1>6, <1>9, <1>17 DEF Queue!Receive, Offered, QNodes, q

(***************************************************************************)
(* handle_ack() implements Count, or changes nothing of the queue.         *)
(***************************************************************************)
LEMMA AckCounts ==
    ASSUME NInv, DistinctUids, Whole, NEW k \in arrived, handle_ack(k)
    PROVE  Queue!Count \/ UNCHANGED <<Offered, QNodes, TailState>>
<1> DEFINE h == list.heap
           g == list'.heap
           N == Linked(list)
<1>1. list \in Memory /\ lc \in Nat /\ ListInv /\ AckInv /\ N \subseteq Addr
  BY NodeParts DEF NInv
<1>2. /\ Linked(list') = N
      /\ list'.tail = list.tail
      /\ list' = list \/ \E a \in N : Counted(h, g, a)
  BY <1>1, AckStep
<1>3. wire' = wire /\ arrived' = arrived
  BY DEF handle_ack
<1>4. Offered' = Offered
  BY <1>3 DEF Offered
<1>5. TailState' = TailState
  BY <1>2 DEF TailState
<1>6. CASE list' = list
  BY <1>4, <1>5, <1>6 DEF QNodes
<1>7. ASSUME NEW a \in N, Counted(h, g, a) PROVE Queue!Count
  <2>1. QNodes = Nodes(h, N) /\ QNodes' = Nodes(g, N)
    BY <1>2 DEF QNodes, Nodes
  <2>2. \A c, d \in N : h[c].uid = h[d].uid => c = d
    BY <1>1 DEF AckInv
  <2> HIDE DEF h, g, N
  <2> DEFINE z == AbsNode(h[a])
             y == [z EXCEPT !.ack_count = @ + 1]
  <2>3. AbsNode(g[a]) = y
    BY <1>1, <1>7 DEF Counted, AbsNode
  <2>4. \A c \in N : c # a => AbsNode(g[c]) = AbsNode(h[c])
    BY <1>1, <1>7, AbsSame DEF Counted
  <2>5. Nodes(g, N) = (Nodes(h, N) \ {z}) \cup {y}
    <3> HIDE DEF y
    <3>1. QED
      BY <1>7, <2>2, <2>3, <2>4, ChangeOne
  <2>6. z \in QNodes
    BY <2>1 DEF Nodes
  <2>7. QNodes' = (QNodes \ {z}) \cup {y}
    BY <2>1, <2>5
  <2> HIDE DEF z
  <2>8. QED
    BY <1>4, <1>5, <2>6, <2>7 DEF Queue!Count, QNodes, Offered
<1>8. QED
  BY <1>2, <1>6, <1>7

(***************************************************************************)
(* handle_ready() implements Remove, or changes nothing of the queue.      *)
(***************************************************************************)
LEMMA ReadyRemoves ==
    ASSUME NInv, DistinctUids, Whole, NEW k \in readied, handle_ready(k)
    PROVE  Queue!Remove \/ UNCHANGED <<Offered, QNodes, TailState>>
<1> DEFINE h == list.heap
           g == list'.heap
           N == Linked(list)
<1>1. list \in Memory /\ ListInv /\ AckInv /\ N \subseteq Addr
  BY NodeParts DEF NInv
<1>2. /\ \E s \in Lists : IsList(list', s)
      /\ SameData(h, g)
      /\ \/ list' = list
         \/ \E a \in N : /\ h[a].uid = k.frame.uid
                         /\ Linked(list') = N \ {a}
                         /\ N = {a} => list'.tail = list.tail
  BY <1>1, ReadyStep
<1>3. wire' = wire /\ arrived' = arrived
  BY DEF handle_ready
<1>4. Offered' = Offered
  BY <1>3 DEF Offered
<1>5. CASE list' = list
  BY <1>4, <1>5 DEF QNodes, TailState
<1>6. ASSUME NEW a \in N, h[a].uid = k.frame.uid, Linked(list') = N \ {a},
             N = {a} => list'.tail = list.tail
      PROVE  Queue!Remove
  <2> DEFINE z == AbsNode(h[a])
  <2>1. \A c, d \in N : h[c].uid = h[d].uid => c = d
    BY <1>1 DEF AckInv
  <2>2. h[a].ack_flg = 1
    <3> DEFINE i == origin[a].of
    <3>1. i \in arrived /\ h[a].uid = i.frame.uid /\ AckOf(h[a]) = AckOf(i.frame)
      BY NodeWhole
    <3>2. k \in arrived
      BY NodeParts
    <3> HIDE DEF i
    <3>3. i = k
      BY <1>6, <3>1, <3>2, FrameKnown
    <3>4. AckOf(k.frame) \in acked
      BY <1>1 DEF AckInv
    <3>5. QED
      BY <1>1, <3>1, <3>3, <3>4 DEF AckInv
  <2>3. QNodes = Nodes(h, N) /\ QNodes' = Nodes(g, N \ {a})
    BY <1>6 DEF QNodes, Nodes
  <2>4. \A c \in N : AbsNode(g[c]) = AbsNode(h[c])
    BY <1>1, <1>2, AbsSame DEF SameData
  <2>5. \A c \in N : AbsNode(h[c]) = z => c = a
    BY <2>1, AbsFields
  <2>6. TailState = "last"
    BY <1>1, TailIs
  <2>7. list.tail # NULL /\ list.tail \in N
    BY <1>1, TailStates DEF ListInv
  <2>8. TailState' = IF N = {a} THEN "off" ELSE "last"
    <3>1. CASE N = {a}
      BY <1>6, <2>7, <3>1 DEF TailState
    <3>2. CASE N # {a}
      <4>1. Linked(list') # {}
        BY <1>6, <3>2
      <4>2. list'.tail \in Linked(list') /\ list'.tail # NULL
        BY <1>2, <4>1, TailStates
      <4>3. QED
        BY <3>2, <4>2 DEF TailState
    <3>3. QED
      BY <3>1, <3>2
  <2> HIDE DEF h, g, N, z
  <2>9. z \in QNodes /\ z.ack_flg = 1
    BY <2>2, <2>3, AbsFields DEF Nodes, z
  <2>10. QNodes' = QNodes \ {z}
    <3>1. AbsNode(h[a]) = z
      BY DEF z
    <3>2. ASSUME NEW x \in QNodes' PROVE x \in QNodes \ {z}
      BY <2>3, <2>4, <2>5, <3>2 DEF Nodes
    <3>3. ASSUME NEW x \in QNodes \ {z} PROVE x \in QNodes'
      <4>1. PICK c \in N : x = AbsNode(h[c])
        BY <2>3 DEF Nodes
      <4>2. c \in N \ {a} /\ x = AbsNode(g[c])
        BY <2>4, <3>1, <3>3, <4>1
      <4>3. QED
        BY <2>3, <4>2 DEF Nodes
    <3>4. QED
      BY <3>2, <3>3
  <2>11. QNodes = {z} <=> N = {a}
    <3>1. QNodes = {z} => \A c \in N : AbsNode(h[c]) = z
      BY <2>3 DEF Nodes
    <3>2. N = {a} => QNodes = {z}
      BY <2>3 DEF Nodes, z
    <3>3. QED
      BY <2>5, <3>1, <3>2
  <2>12. TailState' = Queue!dequeue_tail(QNodes, TailState, z)
    BY <2>6, <2>8, <2>11 DEF Queue!dequeue_tail
  <2>13. QED
    BY <1>4, <2>9, <2>10, <2>12 DEF Queue!Remove, QNodes, Offered
<1>7. QED
  BY <1>2, <1>5, <1>6

(***************************************************************************)
(* The list of queue.c and the handlers on it implement MsgQueue, the      *)
(* queue the protocol is verified with, when uids tell the messages apart  *)
(* and no two messages of one process have the same truncated clock, and   *)
(* as long as no frame was garbled.                                        *)
(***************************************************************************)
THEOREM NodeRefinement ==
    ASSUME DistinctUids, Untied
    PROVE  Spec => ImplementsMsgQueue
<1>1. Init => Queue!Init
  <2> SUFFICES ASSUME Init PROVE Queue!Init
    OBVIOUS
  <2>1. NInv
    BY NodeInit
  <2>2. list.head = NULL /\ list.tail = NULL
    BY DEF Init, EmptyList
  <2>3. Linked(list) = {}
    <3>1. PICK s \in Lists : IsList(list, s)
      BY <2>1 DEF NInv, ListInv
    <3>2. s = <<>>
      BY <2>2, <3>1, EmptyPath DEF IsList
    <3>3. QED
      BY <3>1, <3>2, LinkedList
  <2>4. QED
    BY <2>2, <2>3 DEF Queue!Init, TailState
<1>2. NInv /\ [Next]_vars => [Whole' => [Queue!Next]_(Queue!vars)]_vars
  <2> SUFFICES ASSUME NInv, [Next]_vars, Whole' PROVE [Queue!Next]_(Queue!vars)
    OBVIOUS
  <2>1. ASSUME NEW k \in wire, NEW e \in Splits, NEW j \in Junk, NEW a \in Addr,
               handle_broadcast(k, e, j, a)
        PROVE  Queue!Next
    <3>1. Whole /\ Kept(e) = DOMAIN FieldAt
      BY <2>1, StillWhole
    <3>2. QED
      BY <2>1, <3>1, BroadcastReceives DEF Queue!Next
  <2>2. ASSUME NEW k \in arrived, handle_ack(k)
        PROVE  Queue!Next \/ UNCHANGED Queue!vars
    <3>1. Queue!Count \/ UNCHANGED <<Offered, QNodes, TailState>>
      <4>1. Whole
        BY <2>2 DEF handle_ack, Whole
      <4>2. QED
        BY <2>2, <4>1, AckCounts
    <3>2. QED
      BY <3>1 DEF Queue!Next, Queue!vars, Offered, QNodes
  <2>3. ASSUME NEW k \in arrived, PeerReadies(k) PROVE UNCHANGED Queue!vars
    BY <2>3 DEF PeerReadies, Queue!vars, TailState
  <2>4. ASSUME NEW k \in readied, handle_ready(k)
        PROVE  Queue!Next \/ UNCHANGED Queue!vars
    <3>1. Queue!Remove \/ UNCHANGED <<Offered, QNodes, TailState>>
      <4>1. Whole
        BY <2>4 DEF handle_ready, Whole
      <4>2. QED
        BY <2>4, <4>1, ReadyRemoves
    <3>2. QED
      BY <3>1 DEF Queue!Next, Queue!vars, Offered, QNodes
  <2>5. CASE UNCHANGED vars
    BY <2>5 DEF vars, Queue!vars, TailState
  <2>6. QED
    BY <2>1, <2>2, <2>3, <2>4, <2>5 DEF Next
<1>3. QED
  BY <1>1, <1>2, NodeInvariance, PTL DEF Spec, ImplementsMsgQueue

-----------------------------------------------------------------------------
(* Where the hypotheses hold *)

(***************************************************************************)
(* A number of 20 bits is known by its bits.                               *)
(***************************************************************************)
LEMMA BitsTell ==
    ASSUME NEW p \in Nat, NEW q \in Nat, p < 2^20, q < 2^20, Bits(p) = Bits(q)
    PROVE  p = q
<1>1. \A k \in 0 .. 19 : (p \div 2^k) % 2 = 1 <=> (q \div 2^k) % 2 = 1
  BY DEF Bits
<1>2. p \div 2^18 = q \div 2^18
  <2>1. /\ (p \div 2^18) % 2 = 1 <=> (q \div 2^18) % 2 = 1
        /\ (p \div 2^19) % 2 = 1 <=> (q \div 2^19) % 2 = 1
    BY <1>1
  <2>2. QED
    BY <2>1
<1>3. p \div 2^16 = q \div 2^16
  <2>1. /\ (p \div 2^16) % 2 = 1 <=> (q \div 2^16) % 2 = 1
        /\ (p \div 2^17) % 2 = 1 <=> (q \div 2^17) % 2 = 1
    BY <1>1
  <2>2. QED
    BY <1>2, <2>1
<1>4. p \div 2^14 = q \div 2^14
  <2>1. /\ (p \div 2^14) % 2 = 1 <=> (q \div 2^14) % 2 = 1
        /\ (p \div 2^15) % 2 = 1 <=> (q \div 2^15) % 2 = 1
    BY <1>1
  <2>2. QED
    BY <1>3, <2>1
<1>5. p \div 2^12 = q \div 2^12
  <2>1. /\ (p \div 2^12) % 2 = 1 <=> (q \div 2^12) % 2 = 1
        /\ (p \div 2^13) % 2 = 1 <=> (q \div 2^13) % 2 = 1
    BY <1>1
  <2>2. QED
    BY <1>4, <2>1
<1>6. p \div 2^10 = q \div 2^10
  <2>1. /\ (p \div 2^10) % 2 = 1 <=> (q \div 2^10) % 2 = 1
        /\ (p \div 2^11) % 2 = 1 <=> (q \div 2^11) % 2 = 1
    BY <1>1
  <2>2. QED
    BY <1>5, <2>1
<1>7. p \div 2^8 = q \div 2^8
  <2>1. /\ (p \div 2^8) % 2 = 1 <=> (q \div 2^8) % 2 = 1
        /\ (p \div 2^9) % 2 = 1 <=> (q \div 2^9) % 2 = 1
    BY <1>1
  <2>2. QED
    BY <1>6, <2>1
<1>8. p \div 2^6 = q \div 2^6
  <2>1. /\ (p \div 2^6) % 2 = 1 <=> (q \div 2^6) % 2 = 1
        /\ (p \div 2^7) % 2 = 1 <=> (q \div 2^7) % 2 = 1
    BY <1>1
  <2>2. QED
    BY <1>7, <2>1
<1>9. p \div 2^4 = q \div 2^4
  <2>1. /\ (p \div 2^4) % 2 = 1 <=> (q \div 2^4) % 2 = 1
        /\ (p \div 2^5) % 2 = 1 <=> (q \div 2^5) % 2 = 1
    BY <1>1
  <2>2. QED
    BY <1>8, <2>1
<1>10. p \div 2^2 = q \div 2^2
  <2>1. /\ (p \div 2^2) % 2 = 1 <=> (q \div 2^2) % 2 = 1
        /\ (p \div 2^3) % 2 = 1 <=> (q \div 2^3) % 2 = 1
    BY <1>1
  <2>2. QED
    BY <1>9, <2>1
<1>11. p \div 2^0 = q \div 2^0
  <2>1. /\ (p \div 2^0) % 2 = 1 <=> (q \div 2^0) % 2 = 1
        /\ (p \div 2^1) % 2 = 1 <=> (q \div 2^1) % 2 = 1
    BY <1>1
  <2>2. QED
    BY <1>10, <2>1
<1>12. QED
  BY <1>11

(***************************************************************************)
(* Zero has no bit that is one.                                            *)
(***************************************************************************)
LEMMA NoBits == Bits(0) = {}
<1>1. \A k \in 0 .. 19 : (0 \div 2^k) % 2 # 1
  <2>1. /\ (0 \div 2^0) % 2 # 1 /\ (0 \div 2^1) % 2 # 1 /\ (0 \div 2^2) % 2 # 1
        /\ (0 \div 2^3) % 2 # 1 /\ (0 \div 2^4) % 2 # 1 /\ (0 \div 2^5) % 2 # 1
        /\ (0 \div 2^6) % 2 # 1 /\ (0 \div 2^7) % 2 # 1 /\ (0 \div 2^8) % 2 # 1
        /\ (0 \div 2^9) % 2 # 1 /\ (0 \div 2^10) % 2 # 1 /\ (0 \div 2^11) % 2 # 1
        /\ (0 \div 2^12) % 2 # 1 /\ (0 \div 2^13) % 2 # 1 /\ (0 \div 2^14) % 2 # 1
        /\ (0 \div 2^15) % 2 # 1 /\ (0 \div 2^16) % 2 # 1 /\ (0 \div 2^17) % 2 # 1
        /\ (0 \div 2^18) % 2 # 1 /\ (0 \div 2^19) % 2 # 1
    OBVIOUS
  <2>2. \A k \in 0 .. 19 : k \in {0, 1, 2, 3, 4, 5, 6, 7, 8, 9, 10, 11, 12, 13, 14,
                                  15, 16, 17, 18, 19}
    OBVIOUS
  <2>3. QED
    BY <2>1, <2>2
<1>2. QED
  BY <1>1 DEF Bits

(***************************************************************************)
(* Up to clock 4095, with pids of at most 20 bits, generate_uid() gives    *)
(* different uids and ClockField cuts off no digit: the hypotheses of      *)
(* AckedIsAlwaysFound and NodeRefinement hold.                             *)
(***************************************************************************)
THEOREM EarlyMessages ==
    ASSUME PidsDiffer, \A m \in Issued : m.lc < 2^12
    PROVE  DistinctUids /\ Untied
<1>1. \A m \in Issued : /\ m \in [pid : Nat, port : 0 .. NumProc - 1, lc : Nat]
                        /\ m.pid = Pid[m.port] /\ m.pid < 2^20 /\ m.lc < 2^12
  BY NodeAssumption DEF PidsDiffer
<1>2. ASSUME NEW m \in Issued, NEW n \in Issued, m.pid = n.pid, m.lc = n.lc
      PROVE  m = n
  <2>1. m.port = n.port
    BY <1>1, <1>2 DEF PidsDiffer
  <2>2. QED
    BY <1>1, <1>2, <2>1
<1>3. ASSUME NEW m \in Issued, NEW n \in Issued,
             generate_uid(m.pid, m.lc) = generate_uid(n.pid, n.lc)
      PROVE  m = n
  <2>1. /\ Bits(m.pid) \cup Bits(m.lc \div 2^12) = Bits(n.pid) \cup Bits(n.lc \div 2^12)
        /\ m.lc % 2^12 = n.lc % 2^12
    BY <1>3 DEF generate_uid
  <2>2. m.lc = n.lc /\ m.lc \div 2^12 = 0 /\ n.lc \div 2^12 = 0
    BY <1>1, <2>1
  <2>3. Bits(m.pid) = Bits(n.pid)
    BY <2>1, <2>2, NoBits
  <2>4. m.pid = n.pid
    BY <1>1, <2>3, BitsTell
  <2>5. QED
    BY <1>2, <2>2, <2>4
<1>4. ASSUME NEW m \in Issued, NEW n \in Issued, m.pid = n.pid,
             ClockField(m.lc + 1) = ClockField(n.lc + 1)
      PROVE  m = n
  <2>1. /\ m.lc + 1 \in Nat /\ m.lc + 1 < 10^4 /\ (m.lc + 1) \div 2^12 < 2^20
        /\ n.lc + 1 \in Nat /\ n.lc + 1 < 10^4 /\ (n.lc + 1) \div 2^12 < 2^20
    BY <1>1
  <2>2. ClockField(m.lc + 1) = m.lc + 1 /\ ClockField(n.lc + 1) = n.lc + 1
    BY <2>1, ClockFits
  <2>3. m.lc = n.lc
    BY <1>1, <1>4, <2>2
  <2>4. QED
    BY <1>2, <1>4, <2>3
<1>5. QED
  BY <1>3, <1>4 DEF DistinctUids, Untied
=============================================================================
