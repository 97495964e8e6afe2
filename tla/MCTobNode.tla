----------------------------- MODULE MCTobNode -----------------------------
(***************************************************************************)
(* Values of the constants of TobNode for TLC: three processes of which    *)
(* the first has the pid 5001, so that pids 5002 and 5003 differ in their  *)
(* lowest bit alone.                                                       *)
(***************************************************************************)
EXTENDS TobNodeInv, TLC

AddrSymmetry == Permutations(Addr)

PidUp == (0 :> 5001) @@ (1 :> 5002) @@ (2 :> 5003)

Message(p, c) == [pid |-> PidUp[p], port |-> p, lc |-> c]

(***************************************************************************)
(* Clocks that tie, follow each other and leave the four digits.           *)
(***************************************************************************)
Messages == {Message(0, 1), Message(1, 1), Message(1, 3), Message(2, 9999)}

(***************************************************************************)
(* Two pieces that meet within the uid; three, of which the last is written*)
(* over every field, over the clock, and over the length alone; and four,  *)
(* of which the last two are written over the uid and the pid.             *)
(***************************************************************************)
Cuts == {<<8, 38>>, <<4, 12, 38>>, <<2, 32, 38>>, <<2, 36, 38>>,
         <<20, 30, 34, 38>>}

(***************************************************************************)
(* Garbled fields read as numbers no message has, but for the uid.         *)
(***************************************************************************)
Numbers == {[uid |-> generate_uid(5002, 1), pid |-> -1, port |-> -1, lc |-> 42]}
============================================================================
