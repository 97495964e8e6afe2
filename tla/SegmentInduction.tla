-------------------------- MODULE SegmentInduction --------------------------
(***************************************************************************)
(* Induction over the numbers from 0 to n, and functions defined by        *)
(* recursion over them: for the loops of hashmap.c, queue.c and the log    *)
(* reader, which are recursive functions in HashMap and MsgList.  They are *)
(* stated for sets, as no prover instantiates a predicate.                 *)
(***************************************************************************)
EXTENDS Naturals, TLAPS, WellFoundedInduction

(***************************************************************************)
(* A set of natural numbers has a least element.                           *)
(***************************************************************************)
LEMMA LeastNumber ==
    ASSUME NEW T \in SUBSET Nat, T # {}
    PROVE  \E x \in T : \A y \in T : x <= y
<1> DEFINE R == OpToRel(<, Nat)
<1>1. \A a, b \in Nat : a < b => <<a, b>> \in R
  BY DEF OpToRel
<1>2. IsWellFoundedOn(R, Nat)
  BY NatLessThanWellFounded
<1> HIDE DEF R
<1>3. PICK x \in T : \A y \in T : ~ (<<y, x>> \in R)
  BY <1>2, WFMin
<1>4. \A y \in T : ~ (y < x)
  BY <1>1, <1>3
<1>5. QED
  BY <1>4

(***************************************************************************)
(* Induction over the numbers up to n, for a set instead of a predicate.   *)
(***************************************************************************)
LEMMA Segment ==
    ASSUME NEW n \in Nat, NEW G, 0 \in G,
           \A i \in 1 .. n : i - 1 \in G => i \in G
    PROVE  \A i \in 0 .. n : i \in G
<1> DEFINE Bad == {i \in 0 .. n : i \notin G}
<1>1. SUFFICES ASSUME Bad # {} PROVE FALSE
  OBVIOUS
<1>2. Bad \in SUBSET Nat
  OBVIOUS
<1>3. PICK k \in Bad : \A y \in Bad : k <= y
  <2> HIDE DEF Bad
  <2> QED
    BY <1>1, <1>2, LeastNumber
<1>4. k \in 1 .. n /\ k - 1 \in 0 .. n
  BY <1>3
<1>5. k - 1 \in G
  BY <1>3, <1>4
<1>6. QED
  BY <1>4, <1>5

(***************************************************************************)
(* f starts at s and follows step.                                         *)
(***************************************************************************)
Follows(f, n, s, step) ==
    f[0] = s /\ \A i \in 1 .. n : f[i] = step[i][f[i - 1]]

(***************************************************************************)
(* A function can be defined by recursion over the numbers up to n.        *)
(***************************************************************************)
LEMMA Recursion ==
    ASSUME NEW n \in Nat, NEW S, NEW s \in S, NEW step \in [1 .. n -> [S -> S]]
    PROVE  \E f \in [0 .. n -> S] : Follows(f, n, s, step)
<1> DEFINE Good(k) == \E f \in [0 .. k -> S] :
                         /\ f[0] = s
                         /\ \A i \in 1 .. k : f[i] = step[i][f[i - 1]]
           G == {k \in 0 .. n : Good(k)}
<1>1. Good(0)
  <2> DEFINE f0 == [i \in 0 .. 0 |-> s]
  <2>1. f0 \in [0 .. 0 -> S] /\ f0[0] = s
    OBVIOUS
  <2>2. 1 .. 0 = {}
    OBVIOUS
  <2> HIDE DEF f0
  <2>3. QED
    BY <2>1, <2>2
<1>2. ASSUME NEW k \in 1 .. n, Good(k - 1) PROVE Good(k)
  <2>1. PICK f \in [0 .. k - 1 -> S] :
           /\ f[0] = s
           /\ \A i \in 1 .. k - 1 : f[i] = step[i][f[i - 1]]
    BY <1>2
  <2> DEFINE g == [i \in 0 .. k |-> IF i < k THEN f[i] ELSE step[k][f[k - 1]]]
  <2>2. g \in [0 .. k -> S]
    BY <2>1
  <2>3. g[0] = s
    BY <2>1
  <2>4. ASSUME NEW i \in 1 .. k PROVE g[i] = step[i][g[i - 1]]
    BY <2>1
  <2> HIDE DEF g
  <2>5. QED
    BY <2>2, <2>3, <2>4
<1> HIDE DEF Good
<1>3. 0 \in G /\ \A i \in 1 .. n : i - 1 \in G => i \in G
  BY <1>1, <1>2
<1>4. n \in G
  <2> HIDE DEF G
  <2>1. \A i \in 0 .. n : i \in G
    BY <1>3, Segment
  <2>2. QED
    BY <2>1
<1>5. QED
  BY <1>4 DEF Good, Follows
=============================================================================
