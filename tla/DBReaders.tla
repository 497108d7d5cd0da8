----------------------------- MODULE DBReaders -----------------------------
(***************************************************************************)
(* The requests that read the database in a thread of their own while the  *)
(* block processor flushes or undoes blocks in another: limited_history,   *)
(* all_utxos and lookup_utxos of class DB, and tx_hashes_at_blockheight    *)
(* with the cache the session manager keeps of it.                         *)
(*                                                                         *)
(* The four stores of a flush are written one after the other, and so they *)
(* may be of four different chains: the array tx_counts (chain), the file  *)
(* of transaction hashes, the history rows (hist_at) and the UTXO rows     *)
(* (utxos_at).  Rows are functions of the chain they were written for.     *)
(***************************************************************************)
EXTENDS Integers, Sequences, FiniteSets, SequencesExt

CONSTANTS
    Blocks,     \* Blocks[h]: the blocks the daemon may have at height h; a block
                \* is a sequence of transactions [id, to, spends]
    Genesis,    \* the block of height 0
    A,          \* the address asked for
    NoOne,      \* spends nothing, is nobody's
    Kinds,      \* the requests considered
    Comp(_),    \* the compressed transaction id of a row's key
    MaxReorgs   \* bound on reorganisations

MaxHeight == Len(Blocks)

AllTxs == { Genesis[i] : i \in DOMAIN Genesis }
          \cup UNION { { b[i] : i \in DOMAIN b } : b \in UNION { Blocks[h] : h \in 1 .. MaxHeight } }

ReadersAssumption ==
    /\ MaxReorgs \in Nat /\ Genesis \in Seq(AllTxs)
    /\ \A h \in 1 .. MaxHeight : \A b \in Blocks[h] : b \in Seq(AllTxs) /\ Len(b) > 0

VARIABLES
    chain,        \* blocks in memory: tx_counts
    hashes_file,  \* transaction ids by number; never truncated
    hist_at, utxos_at, \* the chains the history rows and the UTXO rows are of
    disk,         \* the chain up to db_height
    bp,           \* [mode, pc] of the block processor
    reorgs,
    r,            \* the request
    snaps,        \* chains that were on disk since the request began
    txids_cache, reorg_count

flushing == <<chain, hashes_file, hist_at, utxos_at, disk, bp, reorgs>>
manager == <<txids_cache, reorg_count>>
vars == <<chain, hashes_file, hist_at, utxos_at, disk, bp, reorgs, r, snaps,
          txids_cache, reorg_count>>

db_height == Len(disk) - 1
Ids(block) == [i \in DOMAIN block |-> block[i].id]
Txs(c) == FlattenSeq(c)
TxCount(c, n) == Len(Txs(SubSeq(c, 1, n)))       \* cumulative, first n blocks

\* The transactions of an address, as numbers: its history rows.
TxNums(c) == SelectSeq([i \in DOMAIN Txs(c) |-> i - 1],
               LAMBDA n : LET tx == Txs(c)[n + 1] IN
                  \/ tx.to = A
                  \/ \E p \in DOMAIN Txs(c) : Txs(c)[p].id = tx.spends /\ Txs(c)[p].to = A)

Spent(c) == { Txs(c)[i].spends : i \in DOMAIN Txs(c) }
\* The UTXO rows: output [address, number of its transaction, id, value].
Utxos(c) == { [to |-> Txs(c)[i].to, num |-> i - 1, id |-> Txs(c)[i].id, value |-> Txs(c)[i].value] :
              i \in { j \in DOMAIN Txs(c) : Txs(c)[j].id \notin Spent(c) } }

\* bisect_right(tx_counts, num)
TxHeight(num) == Cardinality({ n \in 1 .. Len(chain) : TxCount(chain, n) <= num })

Idle == [kind |-> "none", pc |-> "idle", arg |-> NoOne, todo |-> <<>>, at |-> 0,
         out |-> <<>>, count |-> 0]

Init ==
    /\ chain = <<Genesis>> /\ hashes_file = Ids(Genesis)
    /\ hist_at = chain /\ utxos_at = chain /\ disk = chain
    /\ bp = [mode |-> "advance", pc |-> "idle"] /\ reorgs = 0
    /\ r = Idle /\ snaps = {} /\ txids_cache = <<>> /\ reorg_count = 0

-----------------------------------------------------------------------------
(* The block processor: advance or undo in memory, then flush store by store. *)

Snap(c) == IF r = Idle THEN {} ELSE snaps \cup {c}

AdvanceBlock(b) ==
    /\ bp = [mode |-> "advance", pc |-> "idle"] /\ Len(chain) <= MaxHeight
    /\ b.spends \subseteq { u.id : u \in Utxos(chain) }
    /\ chain' = Append(chain, b.txs)
    /\ UNCHANGED <<hashes_file, hist_at, utxos_at, disk, bp, reorgs, r, snaps, manager>>

FlushFs ==
    /\ bp = [mode |-> "advance", pc |-> "idle"] /\ Len(chain) > Len(disk)
    /\ LET new == FlattenSeq([i \in 1 .. Len(chain) - Len(disk) |-> Ids(chain[Len(disk) + i])])
           at == TxCount(chain, Len(disk))
       IN hashes_file' = SubSeq(hashes_file, 1, at) \o new
                         \o SubSeq(hashes_file, at + Len(new) + 1, Len(hashes_file))
    /\ bp' = [bp EXCEPT !.pc = "history"]
    /\ UNCHANGED <<chain, hist_at, utxos_at, disk, reorgs, r, snaps, manager>>

\* A reorganisation: n blocks are undone in memory before the flush.
BackupBlocks(n) ==
    /\ bp = [mode |-> "advance", pc |-> "idle"] /\ chain = disk
    /\ n < Len(chain) /\ reorgs < MaxReorgs
    /\ chain' = SubSeq(chain, 1, Len(chain) - n)
    /\ reorgs' = reorgs + 1 /\ bp' = [mode |-> "backup", pc |-> "history"]
    /\ UNCHANGED <<hashes_file, hist_at, utxos_at, disk, r, snaps, manager>>

\* history.flush or history.backup
FlushHistory ==
    /\ bp.pc = "history" /\ bp' = [bp EXCEPT !.pc = "state"]
    /\ hist_at' = chain
    /\ UNCHANGED <<chain, hashes_file, utxos_at, disk, reorgs, r, snaps, manager>>

\* flush_utxo_db fills the batch and sets db_height ...
SetState ==
    /\ bp.pc = "state" /\ bp' = [bp EXCEPT !.pc = "commit"]
    /\ disk' = chain /\ snaps' = Snap(chain)
    /\ UNCHANGED <<chain, hashes_file, hist_at, utxos_at, reorgs, r, manager>>

\* ... before the batch is written.
CommitBatch ==
    /\ bp.pc = "commit"
    /\ bp' = [bp EXCEPT !.pc = IF bp.mode = "backup" THEN "signal" ELSE "idle"]
    /\ utxos_at' = chain
    /\ UNCHANGED <<chain, hashes_file, hist_at, disk, reorgs, r, snaps, manager>>

\* backed_up_event wakes _handle_chain_reorgs before the processor's next thread
\* can end.
ReorgSignalled ==
    /\ bp.pc = "signal" /\ bp' = [mode |-> "advance", pc |-> "idle"]
    /\ reorg_count' = reorg_count + 1 /\ txids_cache' = <<>>
    /\ UNCHANGED <<chain, hashes_file, hist_at, utxos_at, disk, reorgs, r, snaps>>

-----------------------------------------------------------------------------
(* A request.                                                               *)

Request(kind, arg) ==
    /\ r = Idle /\ kind \in Kinds
    /\ r' = IF kind = "txids" /\ arg \in DOMAIN txids_cache
            THEN [Idle EXCEPT !.kind = kind, !.pc = "done", !.arg = arg, !.out = txids_cache[arg]]
            ELSE [Idle EXCEPT !.kind = kind, !.pc = "start", !.arg = arg, !.count = reorg_count]
    /\ snaps' = {disk, utxos_at}
    /\ UNCHANGED <<flushing, manager>>

\* The thread starts with a consistent view of the rows (an iterator).
UtxosOfA == { u \in Utxos(utxos_at) : u.to = A }
RowsOf(id) == { u \in Utxos(utxos_at) : Comp(u.id) = Comp(id) }

ReadRows ==
    /\ r.pc = "start" /\ r.kind # "txids"
    /\ r' = [r EXCEPT !.pc = "number", !.out = <<>>, !.todo =
               CASE r.kind = "history" -> [i \in DOMAIN TxNums(hist_at) |-> [num |-> TxNums(hist_at)[i]]]
                 [] r.kind = "utxos"   -> SetToSeq(UtxosOfA)
                 [] r.kind = "lookup"  -> SetToSeq(RowsOf(r.arg))]
    /\ UNCHANGED <<flushing, snaps, manager>>

\* Mutant of OnDisk: blocks in memory count as written.
OnDiskInMemory(height) == height < Len(chain)

\* Mutant of OnDisk: off by one.
OnDiskBelow(height) == height < db_height

\* fs_tx_hash finds no hash above db_height.
OnDisk(height) == height <= db_height

\* fs_tx_hash of the next row: the height from tx_counts, then the hash from the
\* file.
Locate ==
    /\ r.pc = "number" /\ r.todo # <<>>
    /\ LET height == TxHeight(Head(r.todo).num)
       IN r' = IF OnDisk(height) THEN [r EXCEPT !.pc = "hash", !.at = height]
               ELSE [r EXCEPT !.todo = Tail(@),
                              !.out = Append(@, [row |-> Head(r.todo), hash |-> NoOne, height |-> height])]
    /\ UNCHANGED <<flushing, snaps, manager>>

ReadHash ==
    /\ r.pc = "hash"
    /\ r' = [r EXCEPT !.pc = "number", !.todo = Tail(@),
                      !.out = Append(@, [row |-> Head(r.todo), height |-> r.at,
                                         hash |-> hashes_file[Head(r.todo).num + 1]])]
    /\ UNCHANGED <<flushing, snaps, manager>>

Missing == \E i \in DOMAIN r.out : r.out[i].hash = NoOne

\* limited_history and all_utxos: start over until every hash was found.
RowsRead ==
    /\ r.pc = "number" /\ r.todo = <<>> /\ r.kind \in {"history", "utxos"}
    /\ r' = [r EXCEPT !.pc = IF Missing THEN "start" ELSE "done"]
    /\ UNCHANGED <<flushing, snaps, manager>>

HashXFound == SelectSeq(r.out, LAMBDA e : e.hash = r.arg)

\* lookup_utxos: the value is looked up in a second thread.
LookupHashX ==
    /\ r.pc = "number" /\ r.todo = <<>> /\ r.kind = "lookup"
    /\ r' = [r EXCEPT !.pc = IF HashXFound = <<>> THEN "done" ELSE "value",
                      !.out = IF HashXFound = <<>> THEN <<>> ELSE <<Head(HashXFound).row>>]
    /\ UNCHANGED <<flushing, snaps, manager>>

LookupUtxo ==
    /\ r.pc = "value"
    /\ LET row == Head(r.out)
           found == { u \in Utxos(utxos_at) : u.to = row.to /\ u.num = row.num }
       IN r' = [r EXCEPT !.pc = "done", !.out = SetToSeq({ [to |-> u.to, value |-> u.value] : u \in found })]
    /\ UNCHANGED <<flushing, snaps, manager>>

\* fs_tx_hashes_at_blockheight: DBError, IndexError, or the place in the file.
BlockCounts ==
    /\ r.pc = "start" /\ r.kind = "txids"
    /\ r' = IF r.arg > db_height \/ r.arg >= Len(chain) THEN [r EXCEPT !.pc = "error"]
            ELSE [r EXCEPT !.pc = "hashes",
                           !.todo = <<TxCount(chain, r.arg), TxCount(chain, r.arg + 1)>>]
    /\ UNCHANGED <<flushing, snaps, manager>>

ReadHashes ==
    /\ r.pc = "hashes"
    /\ r' = [r EXCEPT !.pc = "resume", !.out = SubSeq(hashes_file, r.todo[1] + 1, r.todo[2])]
    /\ UNCHANGED <<flushing, snaps, manager>>

\* Mutant of Fresh: cached without looking at the counter again.
FreshAlways == TRUE

Fresh == r.count = reorg_count

\* tx_hashes_at_blockheight: read again if the chain was reorganised meanwhile.
CacheTxids ==
    /\ r.pc = "resume"
    /\ \/ /\ Fresh
          /\ r' = [r EXCEPT !.pc = "done"]
          /\ txids_cache' = [h \in DOMAIN txids_cache \cup {r.arg} |->
                               IF h = r.arg THEN r.out ELSE txids_cache[h]]
       \/ /\ ~Fresh
          /\ r' = [r EXCEPT !.pc = "start", !.count = reorg_count]
          /\ UNCHANGED txids_cache
    /\ UNCHANGED <<flushing, snaps, reorg_count>>

Answered ==
    /\ r.pc \in {"done", "error"}
    /\ r' = Idle /\ snaps' = {}
    /\ UNCHANGED <<flushing, manager>>

BlockOf(b) == [txs |-> b, spends |-> { b[i].spends : i \in DOMAIN b } \ {NoOne}]
Arguments(kind) == CASE kind = "txids"  -> 0 .. MaxHeight
                     [] kind = "lookup" -> { tx.id : tx \in AllTxs }
                     [] OTHER -> {A}

Process ==
    \/ \E h \in 1 .. MaxHeight : \E b \in Blocks[h] : h = Len(chain) /\ AdvanceBlock(BlockOf(b))
    \/ \E n \in 1 .. MaxHeight : BackupBlocks(n)
    \/ FlushFs \/ FlushHistory \/ SetState \/ CommitBatch \/ ReorgSignalled

Read ==
    \/ ReadRows \/ Locate \/ ReadHash \/ RowsRead \/ LookupHashX \/ LookupUtxo
    \/ BlockCounts \/ ReadHashes \/ CacheTxids \/ Answered

Next == \/ Process \/ Read
        \/ \E kind \in Kinds : \E arg \in Arguments(kind) : Request(kind, arg)

\* Threads run to their end, and what was advanced is flushed.
Spec == /\ Init /\ [][Next]_vars
        /\ WF_vars(FlushFs) /\ WF_vars(FlushHistory) /\ WF_vars(SetState) /\ WF_vars(CommitBatch)
        /\ WF_vars(ReorgSignalled) /\ WF_vars(Read)

-----------------------------------------------------------------------------
Pairs == [i \in DOMAIN r.out |-> <<r.out[i].hash, r.out[i].height>>]
HistoryOf(c) == [i \in DOMAIN TxNums(c) |->
    LET n == TxNums(c)[i] IN <<Txs(c)[n + 1].id,
        Cardinality({ k \in 1 .. Len(c) : TxCount(c, k) <= n })>>]
TouchesA(id) == \E tx \in AllTxs :
    /\ tx.id = id
    /\ (tx.to = A \/ \E p \in AllTxs : p.id = tx.spends /\ p.to = A)

\* While blocks are only added, a history is that of a chain that was on disk at
\* some time during the request, however the thread and a flush interleave
\* (limited_history starts over when a hash is not on disk yet).
HistoryWasTrue ==
    r.pc = "done" /\ r.kind = "history" => \E c \in snaps : Pairs = HistoryOf(c)

\* The same of all_utxos: no output of two different chains is mixed, although
\* db_height is set before the batch of UTXO rows is written.
UtxosWereTrue ==
    r.pc = "done" /\ r.kind = "utxos" =>
        \E c \in snaps : ToSet(Pairs) =
            { <<u.id, Cardinality({ k \in 1 .. Len(c) : TxCount(c, k) <= u.num })>> :
              u \in { v \in Utxos(c) : v.to = A } }

\* An output that lookup_utxos finds has the address and the value of the
\* transaction asked for, on a chain that was on disk during the request.
LookupRight ==
    r.pc = "done" /\ r.kind = "lookup" /\ r.out # <<>> =>
        \E c \in snaps : \E u \in Utxos(c) :
            u.id = r.arg /\ u.to = r.out[1].to /\ u.value = r.out[1].value

\* What requests read in their thread was true while they ran (limited_history,
\* all_utxos, lookup_utxos).
ReadsConsistent == HistoryWasTrue /\ UtxosWereTrue /\ LookupRight

\* Outside a reorganisation, every list of transaction hashes that
\* tx_hashes_at_blockheight has cached is that of the block now at its height.
TxidsFresh ==
    bp.mode = "advance" =>
        \A h \in DOMAIN txids_cache : h <= db_height /\ txids_cache[h] = Ids(disk[h + 1])

\* "confirmed transactions that touched the address": no transaction of a history
\* is a stranger to the address.  This does not hold (README, section 4).
HistoryOfAddress ==
    r.pc = "done" /\ r.kind = "history" => \A i \in DOMAIN r.out : TouchesA(r.out[i].hash)

\* A request is answered in the end: starting over does not go on for ever.
RequestsAnswered == r.pc = "start" ~> r.pc \in {"done", "error"}
=============================================================================
