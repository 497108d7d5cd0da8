---------------------------- MODULE HistoryStore ----------------------------
(***************************************************************************)
(* The history database and the UTXO database side by side: the flush,    *)
(* backup, recovery and compaction protocols of server/db.py,             *)
(* server/history.py and cli/electrumx_compact_history.py.                 *)
(*                                                                         *)
(* The two databases commit in separate write batches.  Every flush stamps *)
(* its history rows with a flush id, and the UTXO state record remembers   *)
(* the id it covers, so that opening the databases after a crash can undo  *)
(* history the UTXO database never committed.  A crash may strike wherever *)
(* `pc' is in CrashPoints.                                                 *)
(*                                                                         *)
(* The chain is abstracted to the set of [hashX, tx_num] pairs its         *)
(* transactions touch.  Blocks are invisible here: a transaction is        *)
(* indexed at a time, and a flush or a backup can happen after any of      *)
(* them.                                                                   *)
(***************************************************************************)
EXTENDS History

CONSTANTS
    MaxTx,        \* bound: transactions in a chain
    MaxFlushId,   \* largest flush id a key can hold (65535)
    MaxPerFlush,  \* bound: unflushed entries of one hashX
    NameX,        \* hashXs only NameIndexBlockProcessor.advance_txs indexes
    CrashPoints   \* the values of pc at which a crash may strike

ASSUME StoreAssumption ==
    /\ MaxTx \in Nat
    /\ MaxFlushId \in Nat
    /\ MaxPerFlush \in Nat
    /\ NameX \subseteq HashX
    /\ CrashPoints \subseteq
          {"sync", "hist_flushed", "backed_up", "compact", "compacted"}

VARIABLES
    pc,          \* where the process is, "down" when none runs
    chain,       \* in memory: the pairs of the chain indexed so far
    tx_count,    \* in memory: its number of transactions
    db,          \* in memory: db_tip (as the chain it identifies),
                 \* db_tx_count and utxo_flush_count of the DB object
    utxo_state   \* on disk: the 'state' record of the UTXO database

storeVars == <<pc, chain, tx_count, db, utxo_state>>
vars == <<histVars, storeVars>>

DbState == [chain : SUBSET Pair, tx_count : Nat, utxo_flush_count : Nat]

Init ==
    /\ HistoryInit
    /\ pc = "down"
    /\ chain = {}
    /\ tx_count = 0
    /\ db = [chain |-> {}, tx_count |-> 0, utxo_flush_count |-> 0]
    /\ utxo_state = db

-----------------------------------------------------------------------------
(* The server: opening, indexing and flushing.                              *)

\* _open_dbs for syncing.  The flush count the history database ends up with
\* is also the UTXO flush count, in memory.
Start ==
    /\ pc = "down"
    /\ OpenDb(utxo_state.utxo_flush_count)
    /\ db' = [utxo_state EXCEPT !.utxo_flush_count = flush_count']
    /\ chain' = utxo_state.chain
    /\ tx_count' = utxo_state.tx_count
    /\ pc' = "sync"
    /\ UNCHANGED utxo_state

\* open_for_serving, when the server has caught up and everything is flushed:
\* the databases are closed and opened again, with all of the cleaning.
Reopen ==
    /\ pc = "sync"
    /\ tx_count = db.tx_count
    /\ OpenDb(utxo_state.utxo_flush_count)
    /\ db' = [utxo_state EXCEPT !.utxo_flush_count = flush_count']
    /\ UNCHANGED <<pc, chain, tx_count, utxo_state>>

\* advance_txs for one transaction that touches hashXs.
AdvanceTx(hashXs) ==
    /\ pc = "sync"
    /\ tx_count < MaxTx
    /\ \A x \in hashXs :
          Cardinality({ p \in unflushed : p.hashX = x }) < MaxPerFlush
    /\ AddUnflushed(hashXs, tx_count)
    /\ chain' = chain \cup { [hashX |-> x, tx_num |-> tx_count] : x \in hashXs }
    /\ tx_count' = tx_count + 1
    /\ UNCHANGED <<pc, db, utxo_state>>

\* flush_dbs up to and including the history batch.  It returns early when
\* nothing was indexed since the UTXO database was flushed.
FlushHistory ==
    /\ pc = "sync"
    /\ tx_count # db.tx_count
    /\ flush_count < MaxFlushId
    /\ Flush
    /\ pc' = "hist_flushed"
    /\ UNCHANGED <<chain, tx_count, db, utxo_state>>

\* Mutant of FlushUtxos: the flush count is recorded without the UTXOs.
FlushUtxosCountOnly(flush_utxos) ==
    /\ pc = "hist_flushed"
    /\ db' = IF flush_utxos
             THEN [chain |-> chain, tx_count |-> tx_count,
                   utxo_flush_count |-> flush_count]
             ELSE [db EXCEPT !.utxo_flush_count = flush_count]
    /\ utxo_state' = db'
    /\ pc' = "sync"
    /\ UNCHANGED <<histVars, chain, tx_count>>

\* The UTXO batch of flush_dbs: flush_utxo_db if flush_utxos, then the state.
FlushUtxos(flush_utxos) ==
    /\ pc = "hist_flushed"
    /\ db' = IF flush_utxos
             THEN [chain |-> chain, tx_count |-> tx_count,
                   utxo_flush_count |-> flush_count]
             ELSE db
    /\ utxo_state' = db'
    /\ pc' = "sync"
    /\ UNCHANGED <<histVars, chain, tx_count>>

\* The hashXs backup_txs touches when it undoes the transactions >= n.
Undone(n) == { p.hashX : p \in { q \in chain : q.tx_num >= n } }

\* backup_blocks down to n transactions, then flush_backup up to and
\* including the history batch.  Everything is flushed by then, and at least
\* the genesis transaction stays.  touched may hold other hashXs too.
BackupHistory(n, others) ==
    /\ pc = "sync"
    /\ tx_count = db.tx_count
    /\ n \in 1 .. tx_count - 1
    /\ Backup((Undone(n) \ NameX) \cup others, n)
    /\ chain' = { p \in chain : p.tx_num < n }
    /\ tx_count' = n
    /\ pc' = "backed_up"
    /\ UNCHANGED <<db, utxo_state>>

\* The UTXO batch of flush_backup.
BackupUtxos ==
    /\ pc = "backed_up"
    /\ db' = [chain |-> chain, tx_count |-> tx_count,
              utxo_flush_count |-> flush_count]
    /\ utxo_state' = db'
    /\ pc' = "sync"
    /\ UNCHANGED <<histVars, chain, tx_count>>

-----------------------------------------------------------------------------
(* The compaction tool, run while the server is down.                       *)

\* compact_history asserts that the first sync is over: something is indexed.
StartCompaction ==
    /\ pc = "down"
    /\ utxo_state.tx_count > 0
    /\ OpenDbCompacting(utxo_state.utxo_flush_count)
    /\ db' = [utxo_state EXCEPT !.utxo_flush_count = flush_count']
    /\ chain' = utxo_state.chain
    /\ tx_count' = utxo_state.tx_count
    /\ pc' = "compact"
    /\ UNCHANGED utxo_state

Compact(cursor) ==
    /\ pc = "compact"
    /\ CompactPass(cursor)
    /\ pc' = IF cursor = Prefixes THEN "compacted" ELSE "compact"
    /\ UNCHANGED <<chain, tx_count, db, utxo_state>>

\* The process' memory is gone; the disk is what the last batch left.
LoseMemory ==
    /\ pc' = "down"
    /\ unflushed' = {}
    /\ flush_count' = 0
    /\ CancelCompaction
    /\ chain' = {}
    /\ tx_count' = 0
    /\ db' = [chain |-> {}, tx_count |-> 0, utxo_flush_count |-> 0]

\* Mutant of SetFlushCount: the UTXO database keeps its flush count.
SetFlushCountMissing ==
    /\ pc = "compacted"
    /\ LoseMemory
    /\ UNCHANGED <<histDisk, utxo_state>>

\* set_flush_count, after which the tool exits.
SetFlushCount ==
    /\ pc = "compacted"
    /\ utxo_state' = [db EXCEPT !.utxo_flush_count = flush_count]
    /\ LoseMemory
    /\ UNCHANGED histDisk

-----------------------------------------------------------------------------
\* A crash, a kill or a power failure; at "sync" also an orderly exit.
Crash ==
    /\ pc \in CrashPoints
    /\ LoseMemory
    /\ UNCHANGED <<histDisk, utxo_state>>

\* pack_be_uint16 raises on flush ids beyond the key's two bytes: the flush
\* writes nothing and the server goes down.
FlushIdExhausted ==
    /\ pc = "sync"
    /\ tx_count # db.tx_count
    /\ flush_count >= MaxFlushId
    /\ LoseMemory
    /\ UNCHANGED <<histDisk, utxo_state>>

Next ==
    \/ Start
    \/ Reopen
    \/ \E hashXs \in SUBSET HashX : AdvanceTx(hashXs)
    \/ FlushHistory
    \/ \E flush_utxos \in BOOLEAN : FlushUtxos(flush_utxos)
    \/ \E n \in 1 .. MaxTx, others \in SUBSET HashX : BackupHistory(n, others)
    \/ BackupUtxos
    \/ StartCompaction
    \/ \E cursor \in comp_cursor + 1 .. Prefixes : Compact(cursor)
    \/ SetFlushCount
    \/ Crash
    \/ FlushIdExhausted

Spec == Init /\ [][Next]_vars

-----------------------------------------------------------------------------
TypeOK ==
    /\ unflushed \subseteq Pair
    /\ flush_count \in Nat
    /\ comp_flush_count \in Nat \cup {-1}
    /\ comp_cursor \in (0 .. Prefixes) \cup {-1}
    /\ hist \subseteq Entry
    /\ hist_state \in [flush_count : Nat, comp_flush_count : Nat \cup {-1},
                       comp_cursor : (0 .. Prefixes) \cup {-1}]
    /\ pc \in {"down", "sync", "hist_flushed", "backed_up", "compact",
              "compacted"}
    /\ chain \subseteq Pair
    /\ tx_count \in Nat
    /\ db \in DbState
    /\ utxo_state \in DbState

-----------------------------------------------------------------------------
(* Safety.                                                                  *)

Running == pc \in {"sync", "hist_flushed", "backed_up"}

Committed == { e \in hist : e.flush_id <= utxo_state.utxo_flush_count }

\* The rows that opening the databases now would keep.
Recovered == IF hist_state.flush_count <= utxo_state.utxo_flush_count
             THEN hist ELSE Committed

\* While the server indexes, the rows on disk together with the unflushed
\* entries are exactly the chain's pairs: recovery on opening (clear_excess),
\* backups and compaction neither lose a transaction of an address nor leave
\* one of an abandoned or uncommitted block behind.
HistoryMatchesChain == Running => Pairs(hist) \cup unflushed = chain

\* Reading the rows of an address in key order gives an increasing list
\* without repetitions (get_txnums), in every state of the disk.
HistorySorted == RowsSorted

\* No flush finds its key taken (flush puts without reading): the ids in use
\* stay at or below flush_count, also after an interrupted compaction.
FlushIdsFresh == pc = "sync" => RowsWithin(flush_count)

\* What a query reads is right, and the next flush keeps it so (flush,
\* get_txnums, backup, clear_excess, compaction).
HistoryCorrect == HistoryMatchesChain /\ HistorySorted /\ FlushIdsFresh

\* Whenever no process runs, opening the databases recovers exactly the chain
\* that the UTXO state record names (read_utxo_state, clear_excess).
Recoverable == pc = "down" => Pairs(Recovered) = utxo_state.chain

-----------------------------------------------------------------------------
(* HistoryStore implements the atomic index of HistoryIndex.                *)

\* Between the two batches of a backup, and of the end of a compaction, the
\* rows alone do not tell.
Durable == IF pc \in {"backed_up", "compacted"}
           THEN utxo_state.chain ELSE Pairs(Recovered)

Index == IF Running THEN Pairs(hist) \cup unflushed ELSE Durable

Abstract == INSTANCE HistoryIndex WITH index <- Index, durable <- Durable

\* Rows, flush ids and two separately committed databases behave like one
\* index that is committed atomically (flush_dbs, flush_backup, _open_dbs).
ImplementsIndex == Abstract!Spec

-----------------------------------------------------------------------------
(* The inductive invariant behind the theorems of HistoryStoreProofs.  It   *)
(* assumes that no crash separates the two batches of a backup or strikes   *)
(* the compaction tool, and that every indexed hashX is undone.             *)

Finite == IsFiniteSet(hist) /\ IsFiniteSet(unflushed)

\* The committed rows are those of the committed transactions.
CommittedSplit ==
    \A e \in hist : e.flush_id <= utxo_state.utxo_flush_count
                        <=> e.tx_num < utxo_state.tx_count

RunningInv ==
    /\ db = utxo_state
    /\ comp_cursor = -1
    /\ hist_state.flush_count = flush_count
    /\ db.utxo_flush_count <= flush_count
    /\ RowsWithin(flush_count)
    /\ Pairs(hist) \cup unflushed = chain
    /\ \A p \in chain : p.tx_num < tx_count
    /\ \A e \in hist, p \in unflushed : e.tx_num < p.tx_num

SyncInv ==
    /\ db.tx_count <= tx_count
    /\ \A p \in unflushed : db.tx_count <= p.tx_num
    /\ CommittedSplit
    /\ Pairs(Committed) = utxo_state.chain

DownInv ==
    /\ unflushed = {}
    /\ utxo_state.utxo_flush_count <= hist_state.flush_count
    /\ RowsWithin(hist_state.flush_count)
    /\ CommittedSplit
    /\ Pairs(Committed) = utxo_state.chain

CompactInv ==
    /\ db.chain = utxo_state.chain
    /\ db.tx_count = utxo_state.tx_count
    /\ unflushed = {}
    /\ hist_state.flush_count = flush_count
    /\ Pairs(hist) = utxo_state.chain

\* Rows of compacted prefixes have ids compaction gave them.
CompactedRows ==
    /\ flush_count <= utxo_state.utxo_flush_count
    /\ \A e \in hist : PrefixOf[e.hashX] < comp_cursor
                           => e.flush_id <= comp_flush_count

IndInv ==
    /\ TypeOK
    /\ Finite
    /\ RowsSorted
    /\ \A p \in utxo_state.chain : p.tx_num < utxo_state.tx_count
    /\ pc # "compact" => hist_state.comp_cursor = -1
    /\ Running => RunningInv
    /\ pc \in {"hist_flushed", "backed_up"} => unflushed = {}
    /\ pc \in {"sync", "hist_flushed"} => SyncInv
    /\ pc = "down" => DownInv
    /\ pc \in {"compact", "compacted"} => CompactInv
    /\ pc = "compact" => CompactedRows
    /\ pc = "compacted" => RowsWithin(flush_count)

=============================================================================
