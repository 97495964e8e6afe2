------------------------------ MODULE TobFrame ------------------------------
(***************************************************************************)
(* The BROAD frame between two processes: what encode_broadcast_buffer()   *)
(* makes of a message's identity, how recv_buffer() assembles the 38 bytes *)
(* behind the header from the pieces TCP delivers, and what                *)
(* handle_broadcast() reads from them.  A byte of the buffer is known by   *)
(* the position it had in the frame.                                       *)
(***************************************************************************)
EXTENDS Integers, Sequences, FiniteSetsExt

(***************************************************************************)
(* The bits of n that are one, of the lowest 20.                           *)
(***************************************************************************)
Bits(n) == {k \in 0 .. 19 : (n \div 2^k) % 2 = 1}

(***************************************************************************)
(* pid << 12 | lc in 32 bits: the upper 20, in which the pid and a clock   *)
(* of more than 12 bits meet, as a set of bits, the lower 12 as a number.  *)
(* Faulty variants: the pid is left out; the lower part takes more than    *)
(* 12 bits.                                                                *)
(***************************************************************************)
Uid == (SUBSET (0 .. 19)) \X (0 .. 2^12 - 1)

generate_uid_ClockOnly(pid, lc) == <<Bits(lc \div 2^12), lc % 2^12>>

generate_uid_Wide(pid, lc) == <<Bits(pid) \cup Bits(lc \div 2^12), lc>>

generate_uid(pid, lc) == <<Bits(pid) \cup Bits(lc \div 2^12), lc % 2^12>>

(***************************************************************************)
(* What fits into the four digits of a clock.                              *)
(***************************************************************************)
Digits == 0 .. 9999

(***************************************************************************)
(* "%04u" cut off after four characters: the leading digits of the clock.  *)
(***************************************************************************)
ClockField(lc) ==
    LET cut == Min({d \in {1, 10, 100, 1000, 10000, 100000, 1000000} :
                       lc \div d \in Digits})
    IN  lc \div cut

(***************************************************************************)
(* The message m was taken by process m.port of pid m.pid at clock m.lc;   *)
(* total_broadcast() has incremented the clock again.                      *)
(***************************************************************************)
encode_broadcast_buffer(m) ==
    [uid  |-> generate_uid(m.pid, m.lc),
     pid  |-> m.pid,
     port |-> m.port,
     lc   |-> ClockField(m.lc + 1)]

MetaLen == 38

(***************************************************************************)
(* The bytes of each field; those of the message length are the last six.  *)
(***************************************************************************)
FieldAt == [uid |-> 0 .. 11, pid |-> 12 .. 19, port |-> 20 .. 27,
            lc |-> 28 .. 31]

(***************************************************************************)
(* recv() has the frame up to the byte end, and copies what is new of it   *)
(* to offset brecv, the number of bytes the last recv() returned.  Faulty  *)
(* variant: always to offset 0.                                            *)
(***************************************************************************)
Copy_Start(r, end) ==
    [buf   |-> [i \in DOMAIN r.buf |->
                   IF i < end - r.total THEN r.total + i ELSE r.buf[i]],
     total |-> end,
     brecv |-> end - r.total]

Copy(r, end) ==
    [buf   |-> [i \in DOMAIN r.buf |->
                   IF i \in r.brecv .. r.brecv + (end - r.total) - 1
                   THEN r.total + i - r.brecv ELSE r.buf[i]],
     total |-> end,
     brecv |-> end - r.total]

(***************************************************************************)
(* The buffer after the pieces that end at these bytes of the frame; -1 is *)
(* a byte malloc() left there.                                             *)
(***************************************************************************)
recv_buffer(ends) ==
    LET after[i \in 0 .. Len(ends)] ==
            IF i = 0 THEN [buf |-> [b \in 0 .. MetaLen - 1 |-> -1],
                           total |-> 0, brecv |-> 0]
            ELSE Copy(after[i - 1], ends[i])
    IN  after[Len(ends)].buf

(***************************************************************************)
(* A field whose bytes are not in place reads as something else, junk.     *)
(***************************************************************************)
Decoded(frame, buf, junk) ==
    [f \in DOMAIN FieldAt |->
        IF \A i \in FieldAt[f] : buf[i] = i THEN frame[f] ELSE junk[f]]

(***************************************************************************)
(* What can be said of a frame in pieces, without running the loop: from   *)
(* the third on, a piece is written over bytes that were right, and what   *)
(* it brings gets to no byte of its own.                                   *)
(***************************************************************************)
PieceLen(ends, i) == ends[i] - (IF i = 1 THEN 0 ELSE ends[i - 1])

Overwritten(ends, i) ==
    PieceLen(ends, i - 1) .. PieceLen(ends, i - 1) + PieceLen(ends, i) - 1

Kept(ends) ==
    {f \in DOMAIN FieldAt : \A b \in FieldAt[f] :
        /\ Len(ends) > 2 => b < ends[2]
        /\ \A i \in 3 .. Len(ends) : b \notin Overwritten(ends, i)}
=============================================================================
