--------------------------- MODULE WorkQueueProofs ---------------------------
(***************************************************************************)
(* Proofs about the thread pools of WorkQueue, for every pool size and     *)
(* every amount of work.                                                   *)
(***************************************************************************)
EXTENDS WorkQueue, FiniteSetTheorems, TLAPS

(***************************************************************************)
(* What relates the queue, the threads and the history: arrival numbers    *)
(* run through started and on through queue without a gap; the busy        *)
(* threads are those that hold an item, which has been started, each by    *)
(* one of them.                                                            *)
(***************************************************************************)
Numbered ==
    /\ \A k \in 1 .. Len(started) : started[k] = k
    /\ \A k \in 1 .. Len(queue) : queue[k] = Len(started) + k

Held ==
    /\ \A t \in Thread : item[t] # None <=> phase[t] = "busy"
    /\ \A t \in In("busy") : item[t] <= Len(started)
    /\ \A t, u \in In("busy") : item[t] = item[u] => t = u

Inv == TypeOK /\ Numbered /\ Held

(***************************************************************************)
(* The empty pool satisfies Inv.                                           *)
(***************************************************************************)
LEMMA InitInv == Init => Inv
BY MaxItemAssumption DEF Init, Inv, TypeOK, Numbered, Held, In, None, Item

(***************************************************************************)
(* enqueue() and the signal preserve Inv.                                  *)
(***************************************************************************)
LEMMA PutInv ==
    ASSUME Inv, NEW i \in Item, i = Len(started) + Len(queue) + 1, Put(i)
    PROVE  Inv'
<1> USE MaxItemAssumption DEF Inv, TypeOK, Put, Item, None
<1>1. phase' \in [Thread -> {"ready", "wait", "woken", "busy"}]
  BY DEF Signal, In
<1>2. queue' \in Seq(Item) /\ Len(queue') = Len(queue) + 1
  OBVIOUS
<1>3. Numbered'
  <2>1. ASSUME NEW k \in 1 .. Len(queue')
        PROVE  queue'[k] = Len(started') + k
    <3>1. CASE k = Len(queue) + 1
      BY <3>1
    <3>2. CASE k \in 1 .. Len(queue)
      BY <3>2 DEF Numbered
    <3> QED BY <1>2, <3>1, <3>2
  <2> QED BY <2>1 DEF Numbered
<1>4. In("busy")' = In("busy")
  BY DEF In, Signal
<1>5. Held'
  BY <1>4 DEF Held, In, Signal
<1> QED BY <1>1, <1>2, <1>3, <1>5

(***************************************************************************)
(* So does a dequeue() that finds an item.                                 *)
(***************************************************************************)
LEMMA DequeueInv ==
    ASSUME Inv, NEW t \in Thread, phase[t] # "busy", Dequeue(t)
    PROVE  Inv'
<1> USE MaxItemAssumption DEF Inv, TypeOK, Dequeue
<1>1. Head(queue) = Len(started) + 1 /\ Head(queue) \in Item
  BY DEF Numbered, Item
<1>2. TypeOK'
  BY <1>1
<1>3. Numbered'
  <2>1. Len(started') = Len(started) + 1
    OBVIOUS
  <2>2. \A k \in 1 .. Len(started') : started'[k] = k
    BY <1>1, <2>1 DEF Numbered
  <2>3. \A k \in 1 .. Len(queue') : queue'[k] = Len(started') + k
    BY <2>1 DEF Numbered
  <2> QED BY <2>2, <2>3 DEF Numbered
<1>4. In("busy")' = In("busy") \cup {t}
  BY DEF In
<1>5. Held'
  BY <1>1, <1>4 DEF Held, None, Item, In
<1> QED BY <1>2, <1>3, <1>5

(***************************************************************************)
(* So does every step of the pool.                                         *)
(***************************************************************************)
LEMMA StepInv == Inv /\ [Next]_vars => Inv'
<1> SUFFICES ASSUME Inv, [Next]_vars PROVE Inv'
  OBVIOUS
<1>1. CASE Arrive
  BY <1>1, PutInv DEF Arrive
<1>2. CASE \E t \in Thread : Step(t)
  <2>1. PICK t \in Thread : Step(t)
    BY <1>2
  <2>2. CASE Dequeue(t) /\ phase[t] # "busy"
    BY <2>2, DequeueInv
  <2>3. CASE phase[t] # "busy" /\ ~ Dequeue(t)
    BY <2>1, <2>3 DEF Step, Fetch, Resume, Finish, Inv, TypeOK, Numbered, Held, In
  <2>4. CASE phase[t] = "busy"
    BY <2>1, <2>4 DEF Step, Fetch, Resume, Finish, Inv, TypeOK, Numbered, Held, In
  <2> QED BY <2>2, <2>3, <2>4
<1>3. CASE \E t \in Thread : SpuriousWakeup(t)
  BY <1>3 DEF SpuriousWakeup, Inv, TypeOK, Numbered, Held, In
<1>4. CASE UNCHANGED vars
  BY <1>4 DEF vars, Inv, TypeOK, Numbered, Held, In
<1> QED BY <1>1, <1>2, <1>3, <1>4 DEF Next

(***************************************************************************)
(* Inv is an invariant.                                                    *)
(***************************************************************************)
LEMMA Always == Spec => []Inv
BY InitInv, StepInv, PTL DEF Spec

(***************************************************************************)
(* The variables of a pool keep their types.                               *)
(***************************************************************************)
THEOREM PoolTypeCorrect == Spec => []TypeOK
BY Always, PTL DEF Inv

(***************************************************************************)
(* Handlers are called in the order in which main() or handle_client()     *)
(* called enqueue(), once for every item.                                  *)
(***************************************************************************)
THEOREM FifoStart == Spec => []StartedInOrder
<1>1. Inv => StartedInOrder
  BY DEF Inv, Numbered, StartedInOrder
<1> QED BY <1>1, Always, PTL

(***************************************************************************)
(* No handler is called with NULL, and no two with the same item.          *)
(***************************************************************************)
THEOREM ExclusiveWork == Spec => []ExclusiveItem
<1>1. Inv => ExclusiveItem
  BY DEF Inv, Held, ExclusiveItem, In
<1> QED BY <1>1, Always, PTL

-----------------------------------------------------------------------------
(***************************************************************************)
(* No lost wakeup.  The bound is inductive: a put adds an item and wakes a *)
(* sleeper, a dequeue takes one item and makes one awake thread busy, and  *)
(* a thread only falls asleep over an empty queue.                         *)
(***************************************************************************)
LEMMA AwakeFinite == IsFiniteSet(Awake) /\ Cardinality(Awake) \in Nat
<1>1. Awake \subseteq Thread
  BY DEF Awake, In
<1> QED BY <1>1, ThreadAssumption, FS_Subset, FS_CardinalityType

(***************************************************************************)
(* A put adds one item, and wakes a thread for it if one sleeps.           *)
(***************************************************************************)
LEMMA PutWakeup ==
    ASSUME TypeOK, NoLostWakeup, NEW i \in Item, Put(i)
    PROVE  NoLostWakeup'
<1> SUFFICES ASSUME In("wait")' # {}
             PROVE  Len(queue') <= Cardinality(Awake')
  BY DEF NoLostWakeup
<1>1. PICK w \in In("wait") : w \in Awake'
  <2>1. In("wait") # {}
    BY DEF Put, Signal, In
  <2>2. PICK W \in SUBSET In("wait") :
           /\ W # {}
           /\ phase' = [t \in Thread |-> IF t \in W THEN "woken" ELSE phase[t]]
    BY <2>1 DEF Put, Signal
  <2> QED BY <2>2 DEF Awake, In
<1>2. w \notin Awake /\ Awake \cup {w} \subseteq Awake'
  BY <1>1 DEF Put, Signal, Awake, In, TypeOK
<1>3. IsFiniteSet(Awake')
  BY AwakeFinite, ThreadAssumption, FS_Subset DEF Awake, In
<1>4. Cardinality(Awake \cup {w}) = Cardinality(Awake) + 1
  BY <1>2, AwakeFinite, FS_AddElement
<1>5. Cardinality(Awake \cup {w}) <= Cardinality(Awake')
  BY <1>2, <1>3, FS_Subset
<1>6. Len(queue') = Len(queue) + 1 /\ Len(queue) <= Cardinality(Awake)
  BY <1>1 DEF Put, TypeOK, NoLostWakeup
<1>7. Cardinality(Awake') \in Nat /\ Len(queue) \in Nat
  BY <1>3, FS_CardinalityType DEF TypeOK
<1> QED BY <1>4, <1>5, <1>6, <1>7, AwakeFinite

(***************************************************************************)
(* A dequeue takes one item and one awake thread.                          *)
(***************************************************************************)
LEMMA DequeueWakeup ==
    ASSUME TypeOK, NoLostWakeup, NEW t \in Awake, Dequeue(t)
    PROVE  NoLostWakeup'
<1> SUFFICES ASSUME In("wait")' # {}
             PROVE  Len(queue') <= Cardinality(Awake')
  BY DEF NoLostWakeup
<1>1. Awake' = Awake \ {t} /\ In("wait") # {}
  BY DEF Dequeue, Awake, In, TypeOK
<1>2. Cardinality(Awake \ {t}) = Cardinality(Awake) - 1
  BY AwakeFinite, FS_RemoveElement
<1>3. Len(queue') = Len(queue) - 1 /\ Len(queue) \in Nat
  BY DEF Dequeue, TypeOK
<1> QED BY <1>1, <1>2, <1>3, AwakeFinite DEF NoLostWakeup

(***************************************************************************)
(* Steps that leave the queue alone, and no awake thread less awake.       *)
(***************************************************************************)
LEMMA OtherWakeup ==
    ASSUME TypeOK, NoLostWakeup, queue' = queue, Awake \subseteq Awake',
           In("wait")' \subseteq In("wait")
    PROVE  NoLostWakeup'
<1>1. IsFiniteSet(Awake')
  BY ThreadAssumption, FS_Subset DEF Awake, In
<1>2. Cardinality(Awake) <= Cardinality(Awake')
  BY <1>1, FS_Subset
<1> QED BY <1>1, <1>2, AwakeFinite, FS_CardinalityType DEF NoLostWakeup, TypeOK

(***************************************************************************)
(* Every step of the pool preserves NoLostWakeup.                          *)
(***************************************************************************)
LEMMA StepWakeup == Inv /\ NoLostWakeup /\ [Next]_vars => NoLostWakeup'
<1> SUFFICES ASSUME Inv, NoLostWakeup, [Next]_vars PROVE NoLostWakeup'
  OBVIOUS
<1> USE DEF Inv
<1>1. CASE Arrive
  BY <1>1, PutWakeup DEF Arrive
<1>2. ASSUME NEW t \in Thread, Fetch(t) \/ Resume(t)
      PROVE  NoLostWakeup'
  <2>1. t \in Awake
    BY <1>2 DEF Fetch, Resume, Awake, In
  <2>2. CASE Dequeue(t)
    BY <2>1, <2>2, DequeueWakeup
  <2>3. CASE queue = <<>> /\ queue' = <<>>
    <3>1. IsFiniteSet(Awake')
      BY ThreadAssumption, FS_Subset DEF Awake, In
    <3> QED BY <2>3, <3>1, FS_CardinalityType DEF NoLostWakeup
  <2> QED BY <1>2, <2>2, <2>3 DEF Fetch, Resume
<1>3. ASSUME NEW t \in Thread, Finish(t)
      PROVE  NoLostWakeup'
  BY <1>3, OtherWakeup DEF Finish, Awake, In, TypeOK
<1>4. ASSUME NEW t \in Thread, SpuriousWakeup(t)
      PROVE  NoLostWakeup'
  BY <1>4, OtherWakeup DEF SpuriousWakeup, Awake, In, TypeOK
<1>5. CASE UNCHANGED vars
  BY <1>5, OtherWakeup DEF vars, Awake, In
<1> QED BY <1>1, <1>2, <1>3, <1>4, <1>5 DEF Next, Step

(***************************************************************************)
(* However the threads of a pool interleave, and however many of them one  *)
(* signal wakes, no item waits for a thread while a thread waits for an    *)
(* item.                                                                   *)
(***************************************************************************)
THEOREM NoWakeupLost == Spec => []NoLostWakeup
<1>1. Init => NoLostWakeup
  BY DEF Init, NoLostWakeup, In
<1> QED BY <1>1, Always, StepWakeup, PTL DEF Spec

-----------------------------------------------------------------------------
(***************************************************************************)
(* Every step of a pool is a step of WorkPool, or leaves its variables     *)
(* unchanged: what the server relies on is the abstract pool.              *)
(***************************************************************************)
THEOREM PoolRefinement == Spec => Pool!Spec
<1>1. Init => Pool!Init
  BY DEF Init, Pool!Init
<1>2. Inv /\ [Next]_vars => [Pool!Next]_<<queue, item>>
  <2> SUFFICES ASSUME Inv, [Next]_vars
               PROVE  Pool!Next \/ UNCHANGED <<queue, item>>
    OBVIOUS
  <2>1. CASE Arrive
    BY <2>1 DEF Arrive, Put, Pool!Next, Pool!Put
  <2>2. ASSUME NEW t \in Thread, Fetch(t) \/ Resume(t)
        PROVE  Pool!Next \/ UNCHANGED <<queue, item>>
    <3>1. item[t] = None
      BY <2>2 DEF Fetch, Resume, Inv, Held
    <3>2. CASE Dequeue(t)
      BY <3>1, <3>2 DEF Dequeue, Pool!Next, Pool!Take
    <3>3. CASE UNCHANGED <<queue, item>>
      BY <3>3
    <3> QED BY <2>2, <3>2, <3>3 DEF Fetch, Resume
  <2>3. ASSUME NEW t \in Thread, Finish(t)
        PROVE  Pool!Next
    BY <2>3 DEF Finish, Pool!Next, Pool!Finish, Inv, Held
  <2>4. CASE \E t \in Thread : SpuriousWakeup(t)
    BY <2>4 DEF SpuriousWakeup
  <2>5. CASE UNCHANGED vars
    BY <2>5 DEF vars
  <2> QED BY <2>1, <2>2, <2>3, <2>4, <2>5 DEF Next, Step
<1> QED BY <1>1, <1>2, Always, PTL DEF Spec, Pool!Spec
=============================================================================
