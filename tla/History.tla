------------------------------ MODULE History ------------------------------
(***************************************************************************)
(* The address history database, class History of server/history.py.      *)
(*                                                                         *)
(* A row of the database has the key hashX + flush_id and holds an         *)
(* increasing list of tx_nums.  The rows are modelled by the set `hist' of *)
(* their entries: e \in hist says that the row (e.hashX, e.flush_id)       *)
(* contains e.tx_num.  A write batch is atomic, so every operation below   *)
(* replaces `hist' and the stored state record in one step.  The module    *)
(* has the operations only; HistoryStore composes them with the UTXO       *)
(* database, which commits separately.                                     *)
(***************************************************************************)
EXTENDS Integers, FiniteSets

CONSTANTS
    HashX,        \* the address hashes
    Prefixes,     \* number of key prefixes compaction loops over (65536)
    PrefixOf,     \* the prefix, in 0..Prefixes-1, of every hashX
    MaxRow        \* max_hist_row_entries

ASSUME HistoryAssumption ==
    /\ IsFiniteSet(HashX)
    /\ Prefixes \in Nat \ {0}
    /\ PrefixOf \in [HashX -> 0 .. Prefixes - 1]
    /\ MaxRow \in Nat \ {0}

VARIABLES
    unflushed,         \* in memory: set of [hashX, tx_num]
    flush_count,       \* in memory: id of the last flush
    comp_flush_count,  \* in memory: largest row id compaction has used, or -1
    comp_cursor,       \* in memory: first prefix not yet compacted, or -1
    hist,              \* on disk: the entries of all rows
    hist_state         \* on disk: the record under key 'state\0\0'

histMem  == <<unflushed, flush_count, comp_flush_count, comp_cursor>>
histDisk == <<hist, hist_state>>
histVars == <<histMem, histDisk>>

Pair  == [hashX : HashX, tx_num : Nat]
Entry == [hashX : HashX, flush_id : Nat, tx_num : Nat]

Entries(P, f) ==
    { [hashX |-> p.hashX, flush_id |-> f, tx_num |-> p.tx_num] : p \in P }

\* What the rows R say about addresses and transactions.
Pairs(R) == { [hashX |-> e.hashX, tx_num |-> e.tx_num] : e \in R }

-----------------------------------------------------------------------------
HistoryInit ==
    /\ unflushed = {}
    /\ flush_count = 0
    /\ comp_flush_count = -1
    /\ comp_cursor = -1
    /\ hist = {}
    /\ hist_state = [flush_count |-> 0, comp_flush_count |-> -1,
                     comp_cursor |-> -1]

\* write_state: part of every batch.
WriteState ==
    hist_state' = [flush_count |-> flush_count',
                   comp_flush_count |-> comp_flush_count',
                   comp_cursor |-> comp_cursor']

\* add_unflushed, for one transaction with the hash set hashXs.
AddUnflushed(hashXs, tx_num) ==
    /\ unflushed' = unflushed \cup
                        { [hashX |-> x, tx_num |-> tx_num] : x \in hashXs }
    /\ UNCHANGED <<flush_count, comp_flush_count, comp_cursor, histDisk>>

\* Rows a put at flush id f replaces: put overwrites an existing key.
Overwritten(f) ==
    { e \in hist : e.flush_id = f /\ \E p \in unflushed : p.hashX = e.hashX }

Flush ==
    /\ flush_count' = flush_count + 1
    /\ hist' = (hist \ Overwritten(flush_count + 1))
                   \cup Entries(unflushed, flush_count + 1)
    /\ unflushed' = {}
    /\ UNCHANGED <<comp_flush_count, comp_cursor>>
    /\ WriteState

\* backup visits the rows of a hashX from the highest flush id down, cuts
\* tx_nums >= tx_count off each, and stops at the first row it keeps part of.
BackupKeeps(e, hashXs, tx_count) ==
    \/ e.hashX \notin hashXs
    \/ e.tx_num < tx_count
    \/ \E f \in hist : /\ f.hashX = e.hashX
                       /\ f.flush_id > e.flush_id
                       /\ f.tx_num < tx_count

Backup(hashXs, tx_count) ==
    /\ flush_count' = flush_count + 1
    /\ hist' = { e \in hist : BackupKeeps(e, hashXs, tx_count) }
    /\ UNCHANGED <<unflushed, comp_flush_count, comp_cursor>>
    /\ WriteState

\* Mutant of Kept: nothing is deleted.
KeptAll(n) == hist

\* The rows that clear_excess does not delete.
Kept(n) == { e \in hist : e.flush_id <= n }

\* clear_excess: drop the rows of flushes the UTXO database never committed.
ClearExcess(utxo_flush_count) ==
    IF hist_state.flush_count <= utxo_flush_count
    THEN /\ flush_count' = hist_state.flush_count
         /\ UNCHANGED histDisk
    ELSE /\ flush_count' = utxo_flush_count
         /\ hist' = Kept(utxo_flush_count)
         /\ hist_state' = [hist_state EXCEPT !.flush_count = utxo_flush_count]

CancelCompaction ==
    /\ comp_flush_count' = -1
    /\ comp_cursor' = -1

\* open_db when not compacting: read_state, clear_excess, _cancel_compaction.
\* The cancellation reaches the disk with the next batch only.
OpenDb(utxo_flush_count) ==
    /\ ClearExcess(utxo_flush_count)
    /\ CancelCompaction
    /\ UNCHANGED unflushed

\* The same for the compaction tool, which then continues where an earlier
\* compaction left off.
OpenDbCompacting(utxo_flush_count) ==
    /\ ClearExcess(utxo_flush_count)
    /\ comp_cursor' = IF hist_state.comp_cursor = -1
                      THEN 0 ELSE hist_state.comp_cursor
    /\ comp_flush_count' = IF hist_state.comp_flush_count < 1
                           THEN 1 ELSE hist_state.comp_flush_count
    /\ UNCHANGED unflushed

-----------------------------------------------------------------------------
(* Compaction.  The rows of a hashX are concatenated in key order and cut   *)
(* into rows 0, 1, ... of MaxRow entries.                                   *)

Precedes(e, f) ==
    /\ e.hashX = f.hashX
    /\ \/ e.flush_id < f.flush_id
       \/ e.flush_id = f.flush_id /\ e.tx_num < f.tx_num

CompactedId(e) == Cardinality({ f \in hist : Precedes(f, e) }) \div MaxRow

CompactedEntry(e) == [e EXCEPT !.flush_id = CompactedId(e)]

\* _compact_history: one pass over the prefixes comp_cursor .. cursor-1,
\* flushed as one batch.  The byte limit that ends a pass is abstracted to
\* any cursor; the last pass switches flush_count to the compacted ids.
CompactPass(cursor) ==
    LET todo == { e \in hist : PrefixOf[e.hashX] \in comp_cursor .. cursor - 1 }
        ids  == { CompactedId(e) : e \in todo } \cup {comp_flush_count}
    IN \E max_id \in ids :
          /\ \A i \in ids : i <= max_id
          /\ hist' = (hist \ todo) \cup { CompactedEntry(e) : e \in todo }
          /\ IF cursor = Prefixes
             THEN /\ flush_count' = max_id
                  /\ comp_flush_count' = -1
                  /\ comp_cursor' = -1
             ELSE /\ comp_flush_count' = max_id
                  /\ comp_cursor' = cursor
                  /\ UNCHANGED flush_count
          /\ UNCHANGED unflushed
          /\ WriteState

-----------------------------------------------------------------------------
(* What get_txnums promises its readers, about the rows on disk.            *)

\* Key order is transaction order: "an unpruned, sorted list".
RowsSorted ==
    \A e, f \in hist : Precedes(e, f) => e.tx_num < f.tx_num

RowsWithin(n) == \A e \in hist : e.flush_id <= n

=============================================================================
