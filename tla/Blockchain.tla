----------------------------- MODULE Blockchain -----------------------------
(***************************************************************************)
(* The block tree the daemon knows, as constants, and what an index of the *)
(* chain that ends in a given block must contain.  The definitions of the  *)
(* second half are the reference: they look at a chain as a whole and      *)
(* share nothing with the incremental algorithm of BlockProcessor.         *)
(***************************************************************************)
EXTENDS Integers, Sequences, FiniteSets, SequencesExt

CONSTANTS
    Blocks,   \* the blocks
    NoBlock,  \* the parent of the genesis block
    Prev,     \* [Blocks -> Blocks \cup {NoBlock}], header_prevhash
    Txs,      \* [Blocks -> sequence of transaction ids]
    Ins,      \* [tx -> sequence of outpoints [tx, idx]]; none for a coinbase
    Outs,     \* [tx -> sequence of hashXs, or NoX if unspendable]
    Comp,     \* [tx -> its compressed hash]
    NoX       \* stands for the hashX of an unspendable output

\* The chain that ends in b: the block of height h is Path[b][h + 1].
Path[b \in Blocks \cup {NoBlock}] ==
    IF b = NoBlock THEN <<>> ELSE Append(Path[Prev[b]], b)

Height(b) == Len(Path[b]) - 1

\* Every chain has a first block; transactions have inputs and outputs.
ASSUME BlockchainAssumption ==
    /\ NoBlock \notin Blocks /\ NoBlock \notin DOMAIN Outs
    /\ Prev \in [Blocks -> Blocks \cup {NoBlock}]
    /\ \A S \in SUBSET Blocks : (\A b \in S : Prev[b] \in S) => S = {}
    /\ Txs \in [Blocks -> Seq(DOMAIN Outs)] /\ \A b \in Blocks : Txs[b] # <<>>
    /\ DOMAIN Ins = DOMAIN Outs /\ DOMAIN Comp = DOMAIN Outs
    /\ \A t \in DOMAIN Outs : /\ Outs[t] \in Seq(Range(Outs[t]))
                              /\ Ins[t] \in Seq([tx : DOMAIN Outs, idx : Nat])

-----------------------------------------------------------------------------
(* Reference definitions, for the chain that ends in b.                     *)

Tips == Blocks \cup {NoBlock}

\* Its transactions in order; tx_num n is at position n + 1.
ChainTxs[b \in Tips] ==
    IF b = NoBlock THEN <<>> ELSE ChainTxs[Prev[b]] \o Txs[b]

TxCount(b) == Len(ChainTxs[b])

\* The daemon has valid blocks only: no two transactions of a chain have one id, and
\* an input spends a spendable output of an earlier one that no other input spends.
ASSUME ChainsValid ==
    \A b \in Blocks : LET t == ChainTxs[b] IN
        /\ \A m, n \in 1 .. TxCount(b) : t[m] = t[n] => m = n
        /\ \A n \in 1 .. TxCount(b) : \A i \in DOMAIN Ins[t[n]] :
             LET o == Ins[t[n]][i] IN
             /\ \E m \in 1 .. n - 1 : t[m] = o.tx
             /\ o.idx \in DOMAIN Outs[o.tx] /\ Outs[o.tx][o.idx] # NoX
        /\ \A m, n \in 1 .. TxCount(b) : \A j \in DOMAIN Ins[t[m]] : \A i \in DOMAIN Ins[t[n]] :
             Ins[t[m]][j] = Ins[t[n]][i] => m = n /\ j = i

\* The number of transactions up to each height.
TxCounts == [b \in Tips |-> [i \in 1 .. Len(Path[b]) |-> TxCount(Path[b][i])]]

TxHeight(b, n) == CHOOSE h \in 0 .. Height(b) :
                     /\ n < TxCounts[b][h + 1]
                     /\ h > 0 => n >= TxCounts[b][h]

\* Its spendable outputs.
Created ==
    [b \in Tips |->
        UNION { LET t == ChainTxs[b][n + 1] IN
                { [tx |-> t, idx |-> i, hashX |-> Outs[t][i], tx_num |-> n] :
                    i \in { j \in DOMAIN Outs[t] : Outs[t][j] # NoX } } :
                n \in 0 .. TxCount(b) - 1 }]

Spenders(b, c) ==
    { n \in 0 .. TxCount(b) - 1 :
         [tx |-> c.tx, idx |-> c.idx] \in Range(Ins[ChainTxs[b][n + 1]]) }

Unspent == [b \in Tips |-> { c \in Created[b] : Spenders(b, c) = {} }]

\* Which addresses each transaction touches.
Touches ==
    [b \in Tips |->
        { [hashX |-> c.hashX, tx_num |-> c.tx_num] : c \in Created[b] }
        \cup UNION { { [hashX |-> c.hashX, tx_num |-> n] : n \in Spenders(b, c) } :
                     c \in Created[b] }]

\* The history of an address as clients see it: transactions with heights.
Confirmed ==
    [b \in Tips |-> { <<p.hashX, ChainTxs[b][p.tx_num + 1],
                        TxHeight(b, p.tx_num)>> : p \in Touches[b] }]

\* The outputs block b spends, in the order in which its inputs spend them.
SpentOutputs ==
    [b \in Blocks |->
        LET ins == FlattenSeq([i \in DOMAIN Txs[b] |-> Ins[Txs[b][i]]])
            coin(o) == CHOOSE c \in Created[b] : c.tx = o.tx /\ c.idx = o.idx
        IN [i \in DOMAIN ins |-> [hashX |-> coin(ins[i]).hashX,
                                  tx_num |-> coin(ins[i]).tx_num]]]
=============================================================================
