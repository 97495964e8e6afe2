---------------------------- MODULE MCKvServer ----------------------------
(***************************************************************************)
(* Values of the constants of KvServer for TLC.  "A" and "F" share a       *)
(* bucket, and neither is a prefix of the other.                           *)
(***************************************************************************)
EXTENDS KvInv, TLC

CONSTANTS s1, s2, s3, s4, g1, n1

KeyA == <<65>>
KeyF == <<70>>
Key7 == <<65, 65, 65, 65, 65, 65, 65>>
Key9 == <<65, 65, 65, 65, 65, 65, 65, 65, 65>>

Call(op, key) == [op |-> op, key |-> key]

(***************************************************************************)
(* Two sets and a get of one key, and a set of a key in the same bucket.   *)
(***************************************************************************)
ReqRace == (s1 :> Call("set", KeyA)) @@ (s2 :> Call("set", KeyA))
           @@ (s3 :> Call("set", KeyF)) @@ (g1 :> Call("get", KeyA))

(***************************************************************************)
(* A set that is never read to its end, one that is given up, and a client *)
(* that leaves without a request, next to a set and a get.                 *)
(***************************************************************************)
ReqStuck == (s1 :> Call("set", Key9)) @@ (s2 :> Call("set", KeyA))
            @@ (s4 :> Call("set", Key7)) @@ (g1 :> Call("get", KeyA))
            @@ (n1 :> Call("none", KeyA))

ReqRestored == (s1 :> Call("set", KeyA)) @@ (g1 :> Call("get", KeyA))

ThreadSymmetry == Permutations(ConnThread) \cup Permutations(HashThread)
=============================================================================
