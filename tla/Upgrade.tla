------------------------------- MODULE Upgrade -------------------------------
(***************************************************************************)
(* The upgrade of databases of an older version when they are opened: the  *)
(* two tables of outputs, the file of transaction counts and the history,  *)
(* with crashes between any two of its batches.                            *)
(*                                                                         *)
(* The rows of a table are reduced to the prefixes they are upgraded by.   *)
(* Transaction numbers grow from 4 to 5 bytes, counts from 4 to 8.         *)
(***************************************************************************)
EXTENDS Integers

CONSTANTS
    PrefixCount,      \* number of prefixes (65536)
    Blocks,        \* db_height + 1
    Leftover,          \* counts left in the file by blocks that were backed up
    CrashAt,       \* where the process may die
    MaxCrashes     \* bound: crashes

UpgradeAssumption ==
    /\ PrefixCount \in Nat \ {0} /\ Blocks \in Nat \ {0} /\ Leftover \in Nat /\ MaxCrashes \in Nat

Prefix == 0 .. PrefixCount - 1

VARIABLES
    db_version, u, h,                    \* UTXO database: old or new, rows by prefix
    undo,                                \* width of numbers in undo information
    width, bytes,                        \* tx_counts_file: of a count, of the file
    hist_version, hist, upgrade_cursor,  \* history: width of numbers by prefix
    pc, cursor,
    crashes

utxo == <<db_version, u, h, undo>>
counts == <<width, bytes>>
history == <<hist_version, hist, upgrade_cursor>>
vars == <<utxo, counts, history, pc, cursor, crashes>>

Init ==
    /\ db_version = "old" /\ undo = 4
    /\ u \in [Prefix -> {"none", "old"}] /\ h \in [Prefix -> {"none", "old"}]
    /\ width = 4 /\ bytes = (Blocks + Leftover) * 4
    /\ hist_version = "old" /\ hist \in [Prefix -> {0, 4}] /\ upgrade_cursor = -1
    /\ pc = "open" /\ cursor = 0 /\ crashes = 0

-----------------------------------------------------------------------------
\* read_utxo_state
Open ==
    /\ pc = "open" /\ cursor' = 0
    /\ pc' = IF db_version = "new" THEN "open history" ELSE "u"
    /\ UNCHANGED <<utxo, counts, history, crashes>>

LastPrefix == cursor = PrefixCount - 1

\* One prefix of a table.  Rows that are upgraded end the function without a
\* count, which the caller adds up.
UpgradeRows(table, here, next) ==
    /\ pc = here
    /\ table' = [table EXCEPT ![cursor] = IF @ = "old" THEN "new" ELSE @]
    /\ pc' = IF table[cursor] = "new" THEN "failed" ELSE IF LastPrefix THEN next ELSE here
    /\ cursor' = IF LastPrefix THEN 0 ELSE cursor + 1

UpgradeU == UpgradeRows(u, "u", "h") /\ UNCHANGED <<db_version, h, undo, counts, history, crashes>>
UpgradeH == UpgradeRows(h, "h", "counts") /\ UNCHANGED <<db_version, u, undo, counts, history, crashes>>

\* What is read decides whether the file has its old form.
ReadBytes == IF bytes < Blocks * 8 THEN bytes ELSE Blocks * 8

OldCounts == ReadBytes = Blocks * 4

UpgradeCounts ==
    /\ pc = "counts" /\ pc' = "state"
    /\ IF OldCounts THEN width' = 2 * width /\ bytes' = Blocks * 8 ELSE UNCHANGED counts
    /\ UNCHANGED <<utxo, history, cursor, crashes>>

WriteUtxoState ==
    /\ pc = "state" /\ pc' = "open history" /\ db_version' = "new"
    /\ UNCHANGED <<u, h, undo, counts, history, cursor, crashes>>

-----------------------------------------------------------------------------
\* History.read_state
OpenHistory ==
    /\ pc = "open history"
    /\ pc' = IF hist_version = "new" THEN "read counts" ELSE "history"
    /\ UNCHANGED <<utxo, counts, history, cursor, crashes>>

\* Mutant of CursorWritten: the cursor is not part of the batch.
CursorWrittenLater(c) == IF c = PrefixCount - 1 THEN c ELSE upgrade_cursor

CursorWritten(c) == c

\* One prefix and the cursor, in one batch; 4 is taken for the width.
UpgradeCursor ==
    LET next == IF cursor > upgrade_cursor THEN cursor ELSE upgrade_cursor + 1 IN
    /\ pc = "history" /\ next < PrefixCount
    /\ hist' = [hist EXCEPT ![next] = IF @ = 0 THEN 0 ELSE @ + 1]
    /\ upgrade_cursor' = CursorWritten(next) /\ cursor' = next + 1
    /\ UNCHANGED <<utxo, counts, hist_version, pc, crashes>>

WriteHistoryState ==
    /\ pc = "history" /\ upgrade_cursor = PrefixCount - 1
    /\ hist_version' = "new" /\ pc' = "read counts" /\ upgrade_cursor' = -1
    /\ UNCHANGED <<utxo, counts, hist, cursor, crashes>>

\* _read_tx_counts, with its assertions.
ReadTxCounts ==
    /\ pc = "read counts"
    /\ pc' = IF width = 8 /\ bytes >= Blocks * 8 THEN "serving" ELSE "failed"
    /\ UNCHANGED <<utxo, counts, history, cursor, crashes>>

\* The process dies; it is started again.
Crash ==
    /\ pc \in CrashAt /\ crashes < MaxCrashes /\ crashes' = crashes + 1
    /\ pc' = "open" /\ cursor' = 0
    /\ UNCHANGED <<utxo, counts, history>>

Work == \/ Open \/ UpgradeU \/ UpgradeH \/ UpgradeCounts \/ WriteUtxoState
        \/ OpenHistory \/ UpgradeCursor \/ WriteHistoryState \/ ReadTxCounts

Next == Work \/ Crash

\* The upgrade runs on unless the process dies.
Spec == Init /\ [][Next]_vars /\ WF_vars(Work)

-----------------------------------------------------------------------------
\* A database marked as upgraded has no row of the old form in its tables.
RowsUpgraded == db_version = "new" => \A p \in Prefix : u[p] # "old" /\ h[p] # "old"

\* Numbers in the history are widened once: a crash neither repeats nor skips
\* a prefix.
HistoryOnce ==
    /\ \A p \in Prefix : hist[p] \in {0, 4, 5}
    /\ hist_version = "new" => \A p \in Prefix : hist[p] # 4

\* Every row is converted once, wherever the upgrade was interrupted (upgrade_db,
\* upgrade_hist of the history).
RowsOnce == RowsUpgraded /\ HistoryOnce

\* The upgrade ends with databases that can be served, however often it is
\* interrupted.  This does not hold (README, section 4).
UpgradeCompletes == <>(pc = "serving")

\* Undo information has the width backup_txs reads it by.  This does not hold (README,
\* section 4).
UndoReadable == pc = "serving" => undo = 5
=============================================================================
