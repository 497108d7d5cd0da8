---------------------------- MODULE HistoryIndex ----------------------------
(***************************************************************************)
(* What the history database promises: an index from addresses to the      *)
(* transactions that touch them, which grows at the end of the chain, is   *)
(* cut back by a reorganisation, and of which a durable copy is committed  *)
(* atomically, so that a crash takes the index back to its last commit.    *)
(* HistoryStore implements it with rows, flush ids and two databases.      *)
(***************************************************************************)
EXTENDS Naturals

CONSTANTS
    HashX,   \* the address hashes
    MaxTx    \* bound: transactions in a chain

VARIABLES
    index,     \* set of [hashX, tx_num] a client can be told about
    durable    \* the index a restart comes back to

vars == <<index, durable>>

Init ==
    /\ index = {}
    /\ durable = {}

\* A transaction later than all indexed ones touches hashXs.
Extend(hashXs, n) ==
    /\ \A p \in index : p.tx_num < n
    /\ index' = index \cup { [hashX |-> x, tx_num |-> n] : x \in hashXs }
    /\ UNCHANGED durable

\* A reorganisation undoes the transactions from number n on.
Rollback(n) ==
    /\ index' = { p \in index : p.tx_num < n }
    /\ UNCHANGED durable

Commit ==
    /\ durable' = index
    /\ UNCHANGED index

Crash ==
    /\ index' = durable
    /\ UNCHANGED durable

Next ==
    \/ \E hashXs \in SUBSET HashX, n \in 0 .. MaxTx : Extend(hashXs, n)
    \/ \E n \in 0 .. MaxTx : Rollback(n)
    \/ Commit
    \/ Crash

Spec == Init /\ [][Next]_vars
=============================================================================
