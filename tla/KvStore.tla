------------------------------ MODULE KvStore ------------------------------
(***************************************************************************)
(* What the key-value server promises to its clients, with keys short      *)
(* enough to be read and none a prefix of another: every request takes     *)
(* effect in one step between its call and its answer, a set at most once, *)
(* and an answer that was decided is the one the client gets, or none.     *)
(* When the server is killed it may lose answers, and sets whose answer    *)
(* nobody had may have been made durable; started again it knows the keys  *)
(* of the durable sets, but not their values.                              *)
(***************************************************************************)
EXTENDS Naturals

CONSTANTS
    Client,
    Req,      \* Req[c]: the operation and the key of client c
    Large,    \* the set clients whose value is too long to be read back
    Junk,     \* a value that no client ever sent
    NoOne     \* no value

VARIABLES
    running,  \* whether the server runs
    called,   \* the clients that have made their request, or given up
    table,    \* table[k]: the value of key k, or NoOne
    applied,  \* the set clients whose set is durable
    ans       \* ans[c]: the line and the value decided for client c

vars == <<running, called, table, applied, ans>>

Key == {Req[c].key : c \in Client}

NoAnswer == [line |-> "none", val |-> NoOne]

Init ==
    /\ running = TRUE
    /\ called = {}
    /\ table = [k \in Key |-> NoOne]
    /\ applied = {}
    /\ ans = [c \in Client |-> NoAnswer]

Call(c) ==
    /\ c \notin called
    /\ called' = called \cup {c}
    /\ UNCHANGED <<running, table, applied, ans>>

Asks(c, op) == running /\ c \in called /\ Req[c].op = op /\ ans[c] = NoAnswer

Set(c) ==
    /\ Asks(c, "set")
    /\ c \notin applied
    /\ table' = [table EXCEPT ![Req[c].key] = c]
    /\ applied' = applied \cup {c}
    /\ ans' = [ans EXCEPT ![c] = [line |-> "STORED", val |-> NoOne]]
    /\ UNCHANGED <<running, called>>

Get(c) ==
    /\ Asks(c, "get")
    /\ LET v == table[Req[c].key]
       IN  ans' = [ans EXCEPT ![c] =
                      [line |-> IF v = NoOne THEN "NOTFOUND" ELSE "VALUE",
                       val  |-> v]]
    /\ UNCHANGED <<running, called, table, applied>>

(***************************************************************************)
(* A client is gone before its answer could be sent.                       *)
(***************************************************************************)
Lose(c) ==
    /\ ans' = [ans EXCEPT ![c] = NoAnswer]
    /\ UNCHANGED <<running, called, table, applied>>

Crash ==
    /\ running = TRUE
    /\ running' = FALSE
    /\ table' = [k \in Key |-> NoOne]
    /\ applied \subseteq applied' /\ applied' \subseteq called
    /\ \A c \in Client : ans'[c] \in {ans[c], NoAnswer}
    /\ UNCHANGED called

Recover ==
    /\ running = FALSE
    /\ running' = TRUE
    /\ \E g \in Client \cup {Junk} :
          table' = [k \in Key |->
                       IF \E c \in applied \ Large : Req[c].key = k
                       THEN g ELSE NoOne]
    /\ UNCHANGED <<called, applied, ans>>

Next ==
    \/ \E c \in Client : Call(c) \/ Set(c) \/ Get(c) \/ Lose(c)
    \/ Crash
    \/ Recover

Spec == Init /\ [][Next]_vars
=============================================================================
