---------------------------- MODULE MCWorkQueue ----------------------------
(***************************************************************************)
(* WorkQueue for TLC; pool.cfg gives its constants their values.           *)
(***************************************************************************)
EXTENDS WorkQueue
=============================================================================
