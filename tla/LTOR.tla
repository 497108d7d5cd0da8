-------------------------------- MODULE LTOR --------------------------------
(***************************************************************************)
(* LTORBlockProcessor (server/block_processor.py): blocks whose transactions *)
(* come in any order, so an input may spend an output of a later transaction *)
(* of its block.  Outputs are added first and inputs spent afterwards; a      *)
(* backup restores the spent coins first and removes the outputs afterwards.  *)
(*                                                                          *)
(* The cache and the database of UTXOs are one map here (BlockProcessor       *)
(* models the two), and a coin's value is left out.                           *)
(***************************************************************************)
EXTENDS Integers, Sequences, SequencesExt, Functions

CONSTANTS
    Tx,           \* Tx[t]: the inputs (outpoints) and outputs (hashXs) of transaction t
    Unspendable,  \* the script of an output that is never saved
    MaxBlockTxs   \* bound: transactions in a block

LTORAssumption ==
    /\ \A t \in DOMAIN Tx : /\ Tx[t].ins \in Seq(ToSet(Tx[t].ins))
                            /\ Tx[t].outs \in Seq(ToSet(Tx[t].outs))
    /\ MaxBlockTxs \in Nat

VARIABLES
    chain,      \* the blocks up to the tip, each the sequence of its transactions
    utxos,      \* outpoint -> [hashX, num]
    undo,       \* height -> undo_info, the entries of the coins the block spent
    history,    \* hashX -> tx numbers, in order
    touched,    \* hashXs touched since the last notification
    failed      \* a ChainError was raised

vars == <<chain, utxos, undo, history, touched, failed>>

HashXs == UNION {ToSet(Tx[t].outs) : t \in DOMAIN Tx} \ {Unspendable}
TxsOf(blocks) == FlattenSeq(blocks)
tx_count == Len(TxsOf(chain))

\* hashX_from_script
HashX(o) == Tx[o[1]].outs[o[2]]

\* The outputs of t that are saved, and the inputs of a block in the order they are met.
Made(t) == {<<t, i>> : i \in {j \in DOMAIN Tx[t].outs : Tx[t].outs[j] # Unspendable}}
MadeIn(txs) == UNION {Made(txs[k]) : k \in DOMAIN txs}
Inputs(txs) == FlattenSeq([k \in DOMAIN txs |-> Tx[txs[k]].ins])

\* The entry put_utxo stores for an output of the block that starts at number first.
Entry(txs, first, o) ==
    [hashX |-> HashX(o), num |-> first + (CHOOSE k \in DOMAIN txs : txs[k] = o[1]) - 1]

WithOutputs(map, txs, first) ==
    [o \in MadeIn(txs) \cup DOMAIN map |-> IF o \in MadeIn(txs) THEN Entry(txs, first, o) ELSE map[o]]
Without(map, os) == Restrict(map, DOMAIN map \ os)

\* spend_utxo raises ChainError for a coin that is not there, or is spent a second time.
Spendable(map, os) == ToSet(os) \subseteq DOMAIN map /\ IsInjective(os)

Init == /\ chain = <<>> /\ utxos = <<>> /\ undo = <<>>
        /\ history = [h \in HashXs |-> <<>>] /\ touched = {} /\ failed = FALSE

----------------------------------------------------------------------------
(* A block the daemon accepts: its inputs are unspent coins or outputs of    *)
(* the block, each spent once.                                               *)
Valid(txs) ==
    /\ IsInjective(txs) /\ ToSet(txs) \cap ToSet(TxsOf(chain)) = {}
    /\ IsInjective(Inputs(txs))
    /\ ToSet(Inputs(txs)) \subseteq (DOMAIN utxos \cup MadeIn(txs))

ValidBlocks == {txs \in SeqOf(DOMAIN Tx, MaxBlockTxs) : Len(txs) > 0 /\ Valid(txs)}

\* hashXs_by_tx: of the outputs saved, then of the coins spent.
HashXsOf(t, map) == {HashX(o) : o \in Made(t)} \cup {map[o].hashX : o \in ToSet(Tx[t].ins)}

\* history.add_unflushed: the transactions one by one.
WithHistory(txs, map) ==
    [h \in HashXs |->
        LET after[k \in 0 .. Len(txs)] ==
                IF k = 0 THEN history[h]
                ELSE IF h \in HashXsOf(txs[k], map) THEN Append(after[k - 1], tx_count + k - 1)
                ELSE after[k - 1]
        IN  after[Len(txs)]]

\* No spend_utxo of the second loop raises.
CanAdvance(txs) == Spendable(WithOutputs(utxos, txs, tx_count), Inputs(txs))

advance_txs(txs) ==
    /\ ~failed /\ txs \in ValidBlocks
    /\ IF ~CanAdvance(txs)
       THEN failed' = TRUE /\ UNCHANGED <<chain, utxos, undo, history, touched>>
       ELSE LET added == WithOutputs(utxos, txs, tx_count)
            IN  /\ utxos' = Without(added, ToSet(Inputs(txs)))
                /\ undo' = Append(undo, [i \in DOMAIN Inputs(txs) |-> added[Inputs(txs)[i]]])
                /\ history' = WithHistory(txs, added)
                /\ touched' = touched \cup UNION {HashXsOf(txs[k], added) : k \in DOMAIN txs}
                /\ chain' = Append(chain, txs)
                /\ UNCHANGED failed

----------------------------------------------------------------------------
\* Mutant of Restored: the undo entries are taken from the end, as BlockProcessor.backup_txs does.
RestoredFromEnd(txs, info) ==
    LET ins == Inputs(txs)
    IN  [o \in ToSet(ins) \cup DOMAIN utxos |->
            IF o \in ToSet(ins) THEN info[Len(info) + 1 - (CHOOSE i \in DOMAIN ins : ins[i] = o)] ELSE utxos[o]]

\* Coins that had been spent are put back, the entries taken in the order they were appended.
Restored(txs, info) ==
    LET ins == Inputs(txs)
    IN  [o \in ToSet(ins) \cup DOMAIN utxos |->
            IF o \in ToSet(ins) THEN info[CHOOSE i \in DOMAIN ins : ins[i] = o] ELSE utxos[o]]

\* Both the restored coins and the removed outputs are touched.
BackupTouches(txs, info) ==
    {e.hashX : e \in Range(info)} \cup {HashX(o) : o \in MadeIn(txs)}

\* Where x belongs in an ordered sequence.
bisect_left(a, x) ==
    CHOOSE n \in 0 .. Len(a) : /\ \A i \in 1 .. n : a[i] < x
                              /\ \A i \in n + 1 .. Len(a) : a[i] >= x

\* backup_txs of the tip, and flush_backup with it: History.backup removes the block's
\* numbers from the histories of the touched hashXs only.
backup_txs ==
    /\ ~failed /\ chain # <<>>
    /\ LET txs == Last(chain)
           info == Last(undo)
           restored == Restored(txs, info)
           kept == tx_count - Len(txs)
       IN  IF ~(MadeIn(txs) \subseteq DOMAIN restored)
           THEN failed' = TRUE /\ UNCHANGED <<chain, utxos, undo, history, touched>>
           ELSE /\ utxos' = Without(restored, MadeIn(txs))
                /\ touched' = touched \cup BackupTouches(txs, info)
                /\ history' = [h \in HashXs |-> IF h \in touched'
                                                THEN SubSeq(history[h], 1, bisect_left(history[h], kept))
                                                ELSE history[h]]
                /\ chain' = Front(chain) /\ undo' = Front(undo)
                /\ UNCHANGED failed

\* on_block: the notification takes the touched set away.
Notify == ~failed /\ touched # {} /\ touched' = {} /\ UNCHANGED <<chain, utxos, undo, history, failed>>

Next == (\E txs \in ValidBlocks : advance_txs(txs)) \/ backup_txs \/ Notify

Spec == Init /\ [][Next]_vars

----------------------------------------------------------------------------
\* No block whose transactions are valid in some order raises ChainError, going forward
\* or back ("allows any tx ordering in block").
NoChainError == ~failed

\* The coins are those the chain leaves unspent, each under the number of its transaction,
\* however many blocks with internal spends were advanced and backed up.
UtxosMatchChain ==
    LET all == TxsOf(chain)
    IN  utxos = [o \in MadeIn(all) \ ToSet(Inputs(all)) |-> Entry(all, 0, o)]

\* A transaction pays h or spends a coin of h.
Touching(h, t) == h \in {HashX(o) : o \in Made(t) \cup ToSet(Tx[t].ins)}

\* The history of a hashX is the transactions that pay it or spend its coins, in order: a
\* backup leaves none behind although History.backup looks at touched hashXs only.
HistoryMatchesChain ==
    LET all == TxsOf(chain)
    IN  \A h \in HashXs :
            /\ ToSet(history[h]) = {n \in 0 .. Len(all) - 1 : Touching(h, all[n + 1])}
            /\ \A i, j \in DOMAIN history[h] : i < j => history[h][i] < history[h][j]

\* The index is that of the chain whatever the order of transactions in blocks, forward
\* and back (advance_txs, backup_txs).
IndexMatchesChain == NoChainError /\ UtxosMatchChain /\ HistoryMatchesChain
=============================================================================
