------------------------- MODULE HistoryStoreProofs -------------------------
(***************************************************************************)
(* Theorems about HistoryStore, for all values of its constants.           *)
(***************************************************************************)
EXTENDS HistoryStore, FiniteSetTheorems, TLAPS

-----------------------------------------------------------------------------
(* Finite sets.                                                             *)

\* The image of a finite set under a function is finite.
LEMMA ImageFinite ==
    ASSUME NEW S, IsFiniteSet(S), NEW f, DOMAIN f = S
    PROVE  IsFiniteSet({ f[x] : x \in S })
<1> DEFINE T == { f[x] : x \in S }
           g == [x \in S |-> f[x]]
<1>1. g \in [S -> T]
  OBVIOUS
<1>2. \A t \in T : \E x \in S : g[x] = t
  OBVIOUS
<1>3. g \in Surjection(S, T)
  BY <1>1, <1>2 DEF Surjection
<1> HIDE DEF T, g
<1>4. IsFiniteSet(T)
  BY <1>3, FS_Surjection
<1> QED
  BY <1>4 DEF T

\* The entries a flush writes (Flush) are finitely many.
LEMMA EntriesFinite ==
    ASSUME NEW P, IsFiniteSet(P), NEW f
    PROVE  IsFiniteSet(Entries(P, f))
<1> DEFINE g == [p \in P |-> [hashX |-> p.hashX, flush_id |-> f,
                              tx_num |-> p.tx_num]]
<1>1. IsFiniteSet({ g[p] : p \in P })
  BY ImageFinite
<1>2. { g[p] : p \in P } = Entries(P, f)
  BY DEF Entries
<1> QED
  BY <1>1, <1>2

\* The pairs one transaction adds (AddUnflushed) are finitely many.
LEMMA TouchFinite ==
    ASSUME NEW X \in SUBSET HashX, NEW n
    PROVE  IsFiniteSet({ [hashX |-> x, tx_num |-> n] : x \in X })
<1> DEFINE g == [x \in X |-> [hashX |-> x, tx_num |-> n]]
<1>1. IsFiniteSet(X)
  BY HistoryAssumption, FS_Subset
<1>2. IsFiniteSet({ g[x] : x \in X })
  BY <1>1, ImageFinite
<1>3. { g[x] : x \in X } = { [hashX |-> x, tx_num |-> n] : x \in X }
  OBVIOUS
<1> QED
  BY <1>2, <1>3

\* The ids compaction assigns are natural numbers and follow the key order.
LEMMA CompactedIds ==
    ASSUME IsFiniteSet(hist), hist \subseteq Entry
    PROVE  /\ \A e \in hist : CompactedId(e) \in Nat
           /\ \A e, f \in hist : Precedes(e, f)
                                     => CompactedId(e) <= CompactedId(f)
<1> DEFINE B(e) == { g \in hist : Precedes(g, e) }
<1>1. ASSUME NEW e \in hist
      PROVE  Cardinality(B(e)) \in Nat /\ IsFiniteSet(B(e))
  <2>1. B(e) \in SUBSET hist
    OBVIOUS
  <2> QED
    BY <2>1, FS_Subset, FS_CardinalityType
<1>2. ASSUME NEW e \in hist, NEW f \in hist, Precedes(e, f)
      PROVE  Cardinality(B(e)) <= Cardinality(B(f))
  <2>1. B(e) \in SUBSET B(f)
    BY <1>2 DEF Precedes, Entry
  <2> QED
    BY <1>1, <2>1, FS_Subset
<1>3. ASSUME NEW i \in Nat, NEW j \in Nat, i <= j
      PROVE  i \div MaxRow \in Nat /\ i \div MaxRow <= j \div MaxRow
  BY <1>3, HistoryAssumption, Z3
<1> HIDE DEF B
<1>4. \A e \in hist : CompactedId(e) = Cardinality(B(e)) \div MaxRow
  BY DEF B, CompactedId
<1>5. \A e \in hist : CompactedId(e) \in Nat
  BY <1>1, <1>3, <1>4
<1>6. ASSUME NEW e \in hist, NEW f \in hist, Precedes(e, f)
      PROVE  CompactedId(e) <= CompactedId(f)
  <2>1. Cardinality(B(e)) <= Cardinality(B(f))
    BY <1>2, <1>6
  <2> QED
    BY <1>1, <1>3, <1>4, <2>1
<1> QED
  BY <1>5, <1>6

-----------------------------------------------------------------------------
(* Type correctness.                                                        *)

\* A running compaction has a cursor and an id: 0 and 1 at least.
CompactionOn == pc = "compact" => comp_cursor >= 0 /\ comp_flush_count >= 1

TypeInv == TypeOK /\ Finite /\ CompactionOn

\* Opening the databases (read_state, clear_excess) keeps the types.
LEMMA OpenType ==
    ASSUME TypeInv, ClearExcess(utxo_state.utxo_flush_count)
    PROVE  /\ flush_count' \in Nat
           /\ hist' \subseteq hist
           /\ IsFiniteSet(hist')
           /\ hist_state' \in [flush_count : Nat,
                               comp_flush_count : Nat \cup {-1},
                               comp_cursor : (0 .. Prefixes) \cup {-1}]
<1>1. hist' \in SUBSET hist
  BY DEF TypeInv, TypeOK, ClearExcess, Kept, histDisk
<1>2. IsFiniteSet(hist')
  BY <1>1, FS_Subset DEF TypeInv, Finite
<1>3. flush_count' \in Nat
  BY DEF TypeInv, TypeOK, ClearExcess, Kept, histDisk, DbState
<1>4. CASE hist_state.flush_count <= utxo_state.utxo_flush_count
  BY <1>1, <1>2, <1>3, <1>4 DEF TypeInv, TypeOK, ClearExcess, Kept, histDisk
<1>5. CASE ~(hist_state.flush_count <= utxo_state.utxo_flush_count)
  BY <1>1, <1>2, <1>3, <1>5 DEF TypeInv, TypeOK, ClearExcess, Kept, DbState
<1> QED
  BY <1>4, <1>5

\* Every step of Next keeps every variable in its type, and the sets finite.
LEMMA TypeStep == TypeInv /\ [Next]_vars => TypeInv'
<1> SUFFICES ASSUME TypeInv, [Next]_vars PROVE TypeInv'
  OBVIOUS
<1> USE HistoryAssumption, StoreAssumption
<1>1. CASE Start \/ Reopen
  <2>1. ClearExcess(utxo_state.utxo_flush_count)
    BY <1>1 DEF Start, Reopen, OpenDb
  <2>2. unflushed' = unflushed
    BY <1>1 DEF Start, Reopen, OpenDb
  <2> QED
    BY <1>1, <2>1, <2>2, OpenType
    DEF Start, Reopen, OpenDb, CancelCompaction, TypeInv, TypeOK, CompactionOn,
        Finite, DbState
<1>2. ASSUME NEW hashXs \in SUBSET HashX, AdvanceTx(hashXs)
      PROVE  TypeInv'
  <2> DEFINE T == { [hashX |-> x, tx_num |-> tx_count] : x \in hashXs }
  <2>1. tx_count \in Nat /\ T \subseteq Pair
    BY DEF TypeInv, TypeOK, CompactionOn, Pair
  <2>2. IsFiniteSet(T)
    BY TouchFinite
  <2> HIDE DEF T
  <2>3. unflushed' = unflushed \cup T /\ chain' = chain \cup T
    BY <1>2 DEF AdvanceTx, AddUnflushed, T
  <2>4. IsFiniteSet(unflushed')
    BY <2>2, <2>3, FS_Union DEF TypeInv, Finite
  <2> QED
    BY <1>2, <2>1, <2>3, <2>4
    DEF AdvanceTx, AddUnflushed, histDisk, TypeInv, TypeOK, CompactionOn, Finite
<1>3. CASE FlushHistory
  <2> DEFINE N == Entries(unflushed, flush_count + 1)
             K == hist \ Overwritten(flush_count + 1)
  <2>1. N \subseteq Entry
    BY DEF TypeInv, TypeOK, CompactionOn, Entries, Pair, Entry
  <2>2. IsFiniteSet(N)
    BY EntriesFinite DEF TypeInv, Finite
  <2>3. IsFiniteSet(K)
    BY FS_Subset DEF TypeInv, Finite
  <2>4. hist' = K \cup N
    BY <1>3 DEF FlushHistory, Flush
  <2>5. K \subseteq hist
    OBVIOUS
  <2> HIDE DEF N, K
  <2>6. IsFiniteSet(hist')
    BY <2>2, <2>3, <2>4, FS_Union
  <2>7. hist' \subseteq Entry
    BY <2>1, <2>4, <2>5 DEF TypeInv, TypeOK, CompactionOn
  <2>8. IsFiniteSet(unflushed') /\ unflushed' = {}
    BY <1>3, FS_EmptySet DEF FlushHistory, Flush
  <2> QED
    BY <1>3, <2>6, <2>7, <2>8
    DEF FlushHistory, Flush, WriteState, TypeInv, TypeOK, CompactionOn, Finite
<1>4. ASSUME NEW flush_utxos \in BOOLEAN, FlushUtxos(flush_utxos)
      PROVE  TypeInv'
  BY <1>4 DEF FlushUtxos, histVars, histMem, histDisk, TypeInv, TypeOK, CompactionOn, Finite,
              DbState
<1>5. ASSUME NEW n \in 1 .. MaxTx, NEW others \in SUBSET HashX,
             BackupHistory(n, others)
      PROVE  TypeInv'
  <2>1. hist' \in SUBSET hist
    BY <1>5 DEF BackupHistory, Backup
  <2>2. IsFiniteSet(hist')
    BY <2>1, FS_Subset DEF TypeInv, Finite
  <2> QED
    BY <1>5, <2>1, <2>2
    DEF BackupHistory, Backup, WriteState, TypeInv, TypeOK, CompactionOn, Finite
<1>6. CASE BackupUtxos
  BY <1>6 DEF BackupUtxos, histVars, histMem, histDisk, TypeInv, TypeOK, CompactionOn, Finite,
              DbState
<1>7. CASE StartCompaction
  <2>1. ClearExcess(utxo_state.utxo_flush_count)
    BY <1>7 DEF StartCompaction, OpenDbCompacting
  <2>2. unflushed' = unflushed
    BY <1>7 DEF StartCompaction, OpenDbCompacting
  <2>3. comp_cursor' \in (0 .. Prefixes) \cup {-1}
    BY <1>7 DEF StartCompaction, OpenDbCompacting, TypeInv, TypeOK, CompactionOn
  <2>4. comp_flush_count' \in Nat \cup {-1}
    BY <1>7 DEF StartCompaction, OpenDbCompacting, TypeInv, TypeOK, CompactionOn
  <2> QED
    BY <1>7, <2>1, <2>2, <2>3, <2>4, OpenType
    DEF StartCompaction, OpenDbCompacting, TypeInv, TypeOK, CompactionOn, Finite, DbState
<1>8. ASSUME NEW cursor \in comp_cursor + 1 .. Prefixes, Compact(cursor)
      PROVE  TypeInv'
  <2> DEFINE todo == { e \in hist : PrefixOf[e.hashX]
                                        \in comp_cursor .. cursor - 1 }
             g == [e \in todo |-> CompactedEntry(e)]
             done == { g[e] : e \in todo }
             ids == { CompactedId(e) : e \in todo } \cup {comp_flush_count}
  <2>1. \A e \in hist : CompactedId(e) \in Nat
    BY CompactedIds DEF TypeInv, TypeOK, CompactionOn, Finite
  <2>2. IsFiniteSet(todo)
    BY FS_Subset DEF TypeInv, Finite
  <2>3. IsFiniteSet(done)
    BY <2>2, ImageFinite
  <2>4. IsFiniteSet(hist \ todo)
    BY FS_Subset DEF TypeInv, Finite
  <2>5. done = { CompactedEntry(e) : e \in todo }
    OBVIOUS
  <2>6. hist' = (hist \ todo) \cup done
    BY <1>8, <2>5 DEF Compact, CompactPass
  <2>7. ASSUME NEW e \in todo PROVE CompactedEntry(e) \in Entry
    <3>1. e \in Entry /\ CompactedId(e) \in Nat
      BY <2>1 DEF TypeInv, TypeOK
    <3> HIDE DEF todo
    <3> QED
      BY <3>1 DEF CompactedEntry, Entry
  <2>8. ids \subseteq Nat \cup {-1}
    BY <2>1 DEF TypeInv, TypeOK
  <2>9. PICK max_id \in ids :
           /\ \A i \in ids : i <= max_id
           /\ IF cursor = Prefixes
              THEN /\ flush_count' = max_id
                   /\ comp_flush_count' = -1
                   /\ comp_cursor' = -1
              ELSE /\ comp_flush_count' = max_id
                   /\ comp_cursor' = cursor
                   /\ UNCHANGED flush_count
           /\ UNCHANGED unflushed
           /\ WriteState
    BY <1>8 DEF Compact, CompactPass
  <2>10. pc = "compact" /\ comp_flush_count >= 1 /\ comp_cursor >= 0
    BY <1>8 DEF Compact, TypeInv, CompactionOn
  <2>11. comp_flush_count \in ids
    OBVIOUS
  <2>12. hist' \subseteq Entry
    BY <2>5, <2>6, <2>7 DEF TypeInv, TypeOK
  <2>13. IsFiniteSet(hist')
    BY <2>3, <2>4, <2>6, FS_Union
  <2> HIDE DEF ids, todo, done, g
  <2>14. max_id \in Nat /\ max_id >= 1
    BY <2>8, <2>9, <2>10, <2>11 DEF TypeInv, TypeOK
  <2>15. cursor \in 0 .. Prefixes
    BY <2>10 DEF TypeInv, TypeOK
  <2>16. CASE cursor = Prefixes
    BY <1>8, <2>9, <2>12, <2>13, <2>14, <2>16
    DEF Compact, WriteState, TypeInv, TypeOK, Finite, CompactionOn
  <2>17. CASE cursor # Prefixes
    BY <1>8, <2>9, <2>12, <2>13, <2>14, <2>15, <2>17
    DEF Compact, WriteState, TypeInv, TypeOK, Finite, CompactionOn
  <2> QED
    BY <2>16, <2>17
<1>9. CASE SetFlushCount
  BY <1>9, FS_EmptySet
  DEF SetFlushCount, LoseMemory, CancelCompaction, histDisk,
      TypeInv, TypeOK, CompactionOn, Finite, DbState
<1>10. CASE Crash
  BY <1>10, FS_EmptySet
  DEF Crash, LoseMemory, CancelCompaction, histDisk, TypeInv, TypeOK, CompactionOn, Finite,
      DbState
<1>11. CASE FlushIdExhausted
  BY <1>11, FS_EmptySet
  DEF FlushIdExhausted, LoseMemory, CancelCompaction, histDisk, TypeInv,
      TypeOK, CompactionOn, Finite, DbState
<1>12. CASE UNCHANGED vars
  BY <1>12 DEF vars, histVars, histMem, histDisk, storeVars, TypeInv, TypeOK, CompactionOn,
               Finite
<1> QED
  BY <1>1, <1>2, <1>3, <1>4, <1>5, <1>6, <1>7, <1>8, <1>9, <1>10, <1>11, <1>12
  DEF Next

\* Type correctness of the two databases and of the process' memory, at every
\* crash point and for every bound.
THEOREM TypeCorrect == Spec => []TypeOK
<1>1. Init => TypeInv
  BY FS_EmptySet, HistoryAssumption
  DEF Init, HistoryInit, TypeInv, TypeOK, Finite, CompactionOn, DbState
<1>2. TypeInv => TypeOK
  BY DEF TypeInv
<1> QED
  BY <1>1, <1>2, TypeStep, PTL DEF Spec

-----------------------------------------------------------------------------
(* The inductive invariant, when crashes strike outside the windows in      *)
(* which the two databases disagree, and backups undo every hashX.          *)

SafeCrashes == CrashPoints \subseteq {"sync", "hist_flushed"}

\* Reading a row set through Pairs: what is in it, and nothing else.
LEMMA PairsMember ==
    ASSUME NEW R
    PROVE  /\ \A e \in R : [hashX |-> e.hashX, tx_num |-> e.tx_num] \in Pairs(R)
           /\ \A p \in Pairs(R) : \E e \in R :
                  p = [hashX |-> e.hashX, tx_num |-> e.tx_num]
  BY DEF Pairs

\* While the server runs, rows hold transactions of its chain only.
LEMMA RowsBelow ==
    ASSUME RunningInv PROVE \A e \in hist : e.tx_num < tx_count
<1> TAKE e \in hist
<1> DEFINE p == [hashX |-> e.hashX, tx_num |-> e.tx_num]
<1>1. p \in chain
  BY PairsMember DEF RunningInv
<1>2. p.tx_num < tx_count
  BY <1>1 DEF RunningInv
<1> QED
  BY <1>2

\* Opening the databases keeps exactly the committed rows (clear_excess).
LEMMA OpenKeepsCommitted ==
    ASSUME TypeInv, utxo_state.utxo_flush_count <= hist_state.flush_count,
           RowsWithin(hist_state.flush_count),
           ClearExcess(utxo_state.utxo_flush_count)
    PROVE  /\ hist' = Committed
           /\ flush_count' = utxo_state.utxo_flush_count
           /\ hist_state'.flush_count = flush_count'
           /\ hist_state'.comp_cursor = hist_state.comp_cursor
<1> USE DEF TypeInv, TypeOK, DbState, Entry
<1>1. CASE hist_state.flush_count <= utxo_state.utxo_flush_count
  <2>1. hist_state.flush_count = utxo_state.utxo_flush_count
    BY <1>1
  <2>2. hist = Committed
    BY <2>1 DEF RowsWithin, Committed
  <2> QED
    BY <1>1, <2>1, <2>2 DEF ClearExcess, Kept, histDisk
<1>2. CASE ~(hist_state.flush_count <= utxo_state.utxo_flush_count)
  BY <1>2 DEF ClearExcess, Kept, Committed
<1> QED
  BY <1>1, <1>2

\* Start after any safe crash finds the chain of the UTXO state record.
LEMMA StartInd ==
    ASSUME TypeInv, TypeInv', IndInv, Start
    PROVE  IndInv'
<1>1. DownInv /\ pc = "down" /\ RowsSorted
  BY DEF IndInv, Start
<1>2. /\ hist' = Committed
      /\ flush_count' = utxo_state.utxo_flush_count
      /\ hist_state'.flush_count = flush_count'
      /\ hist_state'.comp_cursor = -1
  BY <1>1, OpenKeepsCommitted DEF Start, OpenDb, IndInv, DownInv
<1>3. /\ db' = utxo_state /\ utxo_state' = utxo_state
      /\ unflushed' = {} /\ comp_cursor' = -1
  BY <1>1, <1>2 DEF Start, OpenDb, CancelCompaction, DownInv, TypeInv, TypeOK, DbState
<1>4. chain' = utxo_state.chain /\ tx_count' = utxo_state.tx_count /\ pc' = "sync"
  BY DEF Start
<1>5. hist' \subseteq hist
  BY <1>2 DEF Committed
<1>6. RowsSorted'
  BY <1>1, <1>5 DEF RowsSorted, Precedes
<1>7. Pairs(hist') = chain'
  BY <1>1, <1>2, <1>4 DEF DownInv
<1>8. RunningInv'
  BY <1>1, <1>2, <1>3, <1>4, <1>7
  DEF RunningInv, RowsWithin, Committed, IndInv, TypeInv, TypeOK, DbState, Entry
<1>9. Committed' = Committed
  BY <1>2, <1>3 DEF Committed
<1>10. Pairs(Committed)' = utxo_state'.chain
  BY <1>1, <1>3, <1>9 DEF DownInv, Pairs
<1>11. CommittedSplit'
  BY <1>1, <1>3, <1>5 DEF DownInv, CommittedSplit
<1>12. SyncInv'
  BY <1>3, <1>4, <1>10, <1>11 DEF SyncInv, TypeInv, TypeOK, DbState
<1> QED
  BY <1>2, <1>3, <1>4, <1>6, <1>8, <1>12 DEF IndInv, TypeInv, Running

\* Reopening for serving finds nothing to clean (open_for_serving): all rows
\* are committed when everything is flushed.
LEMMA ReopenInd ==
    ASSUME TypeInv, TypeInv', IndInv, Reopen
    PROVE  IndInv'
<1>1. pc = "sync" /\ RunningInv /\ SyncInv /\ tx_count = db.tx_count
  BY DEF IndInv, Reopen, Running
<1>2. /\ hist' = Committed
      /\ flush_count' = utxo_state.utxo_flush_count
      /\ hist_state'.flush_count = flush_count'
      /\ hist_state'.comp_cursor = -1
  BY <1>1, OpenKeepsCommitted DEF Reopen, OpenDb, IndInv, RunningInv
<1>3. \A e \in hist : [hashX |-> e.hashX, tx_num |-> e.tx_num] \in chain
  BY <1>1 DEF RunningInv, Pairs
<1>4. \A e \in hist : e.tx_num < utxo_state.tx_count
  BY <1>1, <1>3 DEF RunningInv
<1>5. hist = Committed
  BY <1>1, <1>4 DEF SyncInv, CommittedSplit, Committed
<1>6. unflushed = {}
  <2> SUFFICES ASSUME NEW p \in unflushed PROVE FALSE
    OBVIOUS
  <2>1. db.tx_count <= p.tx_num /\ p.tx_num < tx_count
    BY <1>1 DEF RunningInv, SyncInv
  <2> QED
    BY <1>1, <2>1 DEF TypeInv, TypeOK, Pair, DbState
<1>7. /\ db' = utxo_state /\ utxo_state' = utxo_state /\ unflushed' = {}
      /\ comp_cursor' = -1 /\ hist' = hist /\ chain' = chain
      /\ tx_count' = tx_count /\ pc' = "sync" /\ db = utxo_state
  BY <1>1, <1>2, <1>5, <1>6
  DEF Reopen, OpenDb, CancelCompaction, RunningInv, TypeInv, TypeOK, DbState
<1>8. Pairs(hist)' = Pairs(hist) /\ Committed' = hist
  BY <1>5, <1>7 DEF Pairs, Committed
<1>9. RunningInv'
  BY <1>1, <1>2, <1>5, <1>6, <1>7, <1>8
  DEF RunningInv, RowsWithin, Committed, TypeInv, TypeOK, DbState, Entry
<1>10. SyncInv'
  <2>1. Pairs(Committed)' = utxo_state'.chain
    BY <1>1, <1>5, <1>7, <1>8 DEF SyncInv, Pairs
  <2> QED
    BY <1>1, <1>6, <1>7, <2>1 DEF SyncInv, CommittedSplit
<1>11. RowsSorted'
  BY <1>7 DEF IndInv, RowsSorted, Precedes
<1> QED
  BY <1>2, <1>7, <1>9, <1>10, <1>11 DEF IndInv, TypeInv, Running

\* Indexing a transaction keeps the index equal to the chain (advance_txs).
LEMMA AdvanceInd ==
    ASSUME TypeInv, TypeInv', IndInv,
           NEW hashXs \in SUBSET HashX, AdvanceTx(hashXs)
    PROVE  IndInv'
<1> DEFINE T == { [hashX |-> x, tx_num |-> tx_count] : x \in hashXs }
<1>1. /\ pc = "sync" /\ pc' = "sync"
      /\ tx_count' = tx_count + 1
      /\ UNCHANGED <<flush_count, comp_cursor, hist, hist_state, db, utxo_state>>
      /\ unflushed' = unflushed \cup T
      /\ chain' = chain \cup T
  BY DEF AdvanceTx, AddUnflushed, histDisk
<1>2. RunningInv /\ SyncInv
  BY <1>1 DEF IndInv, Running
<1>3. \A p \in T : p.tx_num = tx_count
  OBVIOUS
<1> HIDE DEF T
<1>4. \A e \in hist : e.tx_num < tx_count
  BY <1>2, RowsBelow
<1>5. Pairs(hist)' = Pairs(hist) /\ Pairs(Committed)' = Pairs(Committed)
  BY <1>1 DEF Pairs, Committed
<1>6. RunningInv'
  <2>1. (\A p \in chain : p.tx_num < tx_count)'
    BY <1>1, <1>2, <1>3 DEF RunningInv, TypeInv, TypeOK, Pair
  <2>2. (\A e \in hist, p \in unflushed : e.tx_num < p.tx_num)'
    BY <1>1, <1>2, <1>3, <1>4 DEF RunningInv
  <2> QED
    BY <1>1, <1>2, <1>5, <2>1, <2>2 DEF RunningInv, RowsWithin
<1>7. SyncInv'
  <2>1. (\A p \in unflushed : db.tx_count <= p.tx_num)'
    BY <1>1, <1>2, <1>3 DEF SyncInv
  <2> QED
    BY <1>1, <1>2, <1>5, <2>1 DEF SyncInv, CommittedSplit, TypeInv, TypeOK,
                                  DbState
<1> QED
  BY <1>1, <1>6, <1>7 DEF IndInv, TypeInv, Running, RowsSorted, Precedes

\* A history flush writes rows above all others, for later transactions.
LEMMA FlushInd ==
    ASSUME TypeInv, TypeInv', IndInv, FlushHistory
    PROVE  IndInv'
<1> DEFINE N == Entries(unflushed, flush_count + 1)
<1>1. /\ pc = "sync" /\ pc' = "hist_flushed"
      /\ flush_count' = flush_count + 1
      /\ unflushed' = {}
      /\ UNCHANGED <<comp_cursor, chain, tx_count, db, utxo_state>>
      /\ hist_state'.flush_count = flush_count'
      /\ hist_state'.comp_cursor = comp_cursor'
      /\ hist' = (hist \ Overwritten(flush_count + 1)) \cup N
  BY DEF FlushHistory, Flush, WriteState
<1>2. RunningInv /\ SyncInv /\ RowsSorted
  BY <1>1 DEF IndInv, Running
<1>3. Overwritten(flush_count + 1) = {}
  BY <1>2 DEF RunningInv, RowsWithin, Overwritten, TypeInv, TypeOK, Entry
<1>4. hist' = hist \cup N
  BY <1>1, <1>3
<1>5. \A e \in N : /\ e.flush_id = flush_count + 1
                   /\ \E p \in unflushed : e.hashX = p.hashX /\ e.tx_num = p.tx_num
  BY DEF Entries
<1>6. Pairs(N) = unflushed
  <2>1. \A p \in unflushed : p = [hashX |-> p.hashX, tx_num |-> p.tx_num]
    BY DEF TypeInv, TypeOK, Pair
  <2>2. ASSUME NEW q \in Pairs(N) PROVE q \in unflushed
    <3>1. PICK e \in N : q = [hashX |-> e.hashX, tx_num |-> e.tx_num]
      BY PairsMember
    <3> QED
      BY <1>5, <2>1, <3>1
  <2>3. ASSUME NEW p \in unflushed PROVE p \in Pairs(N)
    <3> DEFINE e == [hashX |-> p.hashX, flush_id |-> flush_count + 1,
                     tx_num |-> p.tx_num]
    <3>1. e \in N
      BY DEF Entries
    <3>2. [hashX |-> e.hashX, tx_num |-> e.tx_num] \in Pairs(N)
      BY <3>1, PairsMember
    <3> QED
      BY <2>1, <3>2
  <2> QED
    BY <2>2, <2>3
<1> HIDE DEF N
<1>7. Pairs(hist') = chain'
  <2>1. Pairs(hist') = Pairs(hist) \cup Pairs(N)
    BY <1>4 DEF Pairs
  <2> QED
    BY <1>1, <1>2, <1>6, <2>1 DEF RunningInv
<1>8. RowsSorted'
  BY <1>2, <1>4, <1>5
  DEF RowsSorted, Precedes, RunningInv, RowsWithin, TypeInv, TypeOK, Entry, Pair
<1>9. RunningInv'
  BY <1>1, <1>2, <1>4, <1>5, <1>7
  DEF RunningInv, RowsWithin, TypeInv, TypeOK, DbState, Entry
<1>10. CommittedSplit'
  BY <1>1, <1>2, <1>4, <1>5
  DEF SyncInv, RunningInv, CommittedSplit, TypeInv, TypeOK, DbState, Entry, Pair
<1>11. Committed' = Committed
  BY <1>1, <1>2, <1>4, <1>5 DEF Committed, RunningInv, TypeInv, TypeOK, DbState
<1>12. Pairs(Committed)' = Pairs(Committed)
  BY <1>11 DEF Pairs
<1>13. SyncInv'
  BY <1>1, <1>2, <1>10, <1>12 DEF SyncInv
<1> QED
  BY <1>1, <1>2, <1>8, <1>9, <1>13 DEF IndInv, TypeInv, Running, RunningInv

\* The UTXO batch of a flush commits the chain, or leaves the commit alone.
LEMMA FlushUtxosInd ==
    ASSUME TypeInv, TypeInv', IndInv,
           NEW flush_utxos \in BOOLEAN, FlushUtxos(flush_utxos)
    PROVE  IndInv'
<1>1. /\ pc = "hist_flushed" /\ pc' = "sync"
      /\ UNCHANGED <<unflushed, flush_count, comp_cursor, hist, hist_state,
                     chain, tx_count>>
      /\ utxo_state' = db'
  BY DEF FlushUtxos, histVars, histMem, histDisk
<1>2. RunningInv /\ SyncInv /\ RowsSorted /\ unflushed = {}
  BY <1>1 DEF IndInv, Running
<1>3. RowsSorted' /\ Pairs(hist)' = Pairs(hist)
  BY <1>1, <1>2 DEF RowsSorted, Precedes, Pairs
<1>4. CASE flush_utxos
  <2>1. db' = [chain |-> chain, tx_count |-> tx_count,
               utxo_flush_count |-> flush_count]
    BY <1>4 DEF FlushUtxos
  <2>2. \A e \in hist : e.tx_num < tx_count
    BY <1>2, RowsBelow
  <2>3. RunningInv'
    BY <1>1, <1>2, <1>3, <2>1
    DEF RunningInv, RowsWithin, TypeInv, TypeOK
  <2>4. Committed' = hist
    BY <1>1, <1>2, <2>1 DEF Committed, RunningInv, RowsWithin
  <2>5. Pairs(Committed)' = chain
    BY <1>2, <2>4 DEF Pairs, RunningInv
  <2>6. CommittedSplit'
    BY <1>1, <1>2, <2>1, <2>2 DEF CommittedSplit, RunningInv, RowsWithin
  <2>7. SyncInv'
    BY <1>1, <1>2, <2>1, <2>5, <2>6 DEF SyncInv, TypeInv, TypeOK
  <2> QED
    BY <1>1, <1>2, <1>3, <2>1, <2>3, <2>7
    DEF IndInv, TypeInv, Running, RunningInv
<1>5. CASE ~flush_utxos
  <2>1. db' = db /\ utxo_state' = utxo_state
    BY <1>1, <1>2, <1>5 DEF FlushUtxos, RunningInv
  <2>2. Pairs(Committed)' = Pairs(Committed)
    BY <1>1, <2>1 DEF Pairs, Committed
  <2>3. RunningInv' /\ SyncInv'
    BY <1>1, <1>2, <1>3, <2>1, <2>2
    DEF RunningInv, SyncInv, CommittedSplit, RowsWithin
  <2> QED
    BY <1>1, <1>2, <1>3, <2>1, <2>3 DEF IndInv, TypeInv, Running
<1> QED
  BY <1>4, <1>5

\* A backup removes exactly the entries of the undone transactions: since the
\* rows are sorted, stopping at the first row that keeps an entry is enough.
LEMMA BackupInd ==
    ASSUME TypeInv, TypeInv', IndInv, NameX = {},
           NEW n \in 1 .. MaxTx, NEW others \in SUBSET HashX,
           BackupHistory(n, others)
    PROVE  IndInv'
<1>1. /\ pc = "sync" /\ pc' = "backed_up"
      /\ tx_count = db.tx_count /\ tx_count' = n /\ n < tx_count
      /\ UNCHANGED <<unflushed, comp_cursor, db, utxo_state>>
      /\ flush_count' = flush_count + 1
      /\ hist_state'.flush_count = flush_count'
      /\ hist_state'.comp_cursor = comp_cursor'
      /\ chain' = { p \in chain : p.tx_num < n }
  BY DEF BackupHistory, Backup, WriteState, TypeInv, TypeOK
<1>2. RunningInv /\ SyncInv /\ RowsSorted
  BY <1>1 DEF IndInv, Running
<1>3. unflushed = {}
  <2> SUFFICES ASSUME NEW p \in unflushed PROVE FALSE
    OBVIOUS
  <2>1. p \in chain
    BY <1>2 DEF RunningInv
  <2> QED
    BY <1>1, <1>2, <2>1 DEF RunningInv, SyncInv, TypeInv, TypeOK, Pair, DbState
<1>4. Pairs(hist) = chain
  BY <1>2, <1>3 DEF RunningInv
<1>5. hist' = { e \in hist : BackupKeeps(e, Undone(n) \cup others, n) }
  BY DEF BackupHistory, Backup
<1>6. hist' = { e \in hist : e.tx_num < n }
  <2>1. ASSUME NEW e \in hist, BackupKeeps(e, Undone(n) \cup others, n)
        PROVE  e.tx_num < n
    <3> SUFFICES ASSUME e.tx_num >= n PROVE FALSE
      BY DEF TypeInv, TypeOK, Entry
    <3>1. e.hashX \in Undone(n)
      <4> DEFINE p == [hashX |-> e.hashX, tx_num |-> e.tx_num]
      <4>1. p \in chain
        BY <1>4, PairsMember
      <4>2. p.tx_num >= n
        OBVIOUS
      <4> QED
        BY <4>1, <4>2 DEF Undone
    <3>2. PICK f \in hist : /\ f.hashX = e.hashX
                            /\ f.flush_id > e.flush_id
                            /\ f.tx_num < n
      BY <2>1, <3>1 DEF BackupKeeps, TypeInv, TypeOK, Entry
    <3>3. e.tx_num < f.tx_num
      BY <1>2, <3>2 DEF RowsSorted, Precedes, TypeInv, TypeOK, Entry
    <3> QED
      BY <3>2, <3>3 DEF TypeInv, TypeOK, Entry
  <2>2. ASSUME NEW e \in hist, e.tx_num < n
        PROVE  BackupKeeps(e, Undone(n) \cup others, n)
    BY <2>2 DEF BackupKeeps
  <2> QED
    BY <1>5, <2>1, <2>2
<1>7. Pairs(hist') = chain'
  BY <1>1, <1>4, <1>6 DEF Pairs
<1>8. RowsSorted'
  BY <1>2, <1>6 DEF RowsSorted, Precedes
<1>9. RunningInv'
  BY <1>1, <1>2, <1>3, <1>6, <1>7
  DEF RunningInv, RowsWithin, TypeInv, TypeOK, DbState, Entry
<1> QED
  BY <1>1, <1>2, <1>3, <1>8, <1>9 DEF IndInv, TypeInv, Running, RunningInv

\* The UTXO batch of a backup commits the shortened chain.
LEMMA BackupUtxosInd ==
    ASSUME TypeInv, TypeInv', IndInv, BackupUtxos
    PROVE  IndInv'
<1>1. /\ pc = "backed_up" /\ pc' = "sync"
      /\ UNCHANGED <<unflushed, flush_count, comp_cursor, hist, hist_state,
                     chain, tx_count>>
      /\ utxo_state' = db'
      /\ db' = [chain |-> chain, tx_count |-> tx_count,
                utxo_flush_count |-> flush_count]
  BY DEF BackupUtxos, histVars, histMem, histDisk
<1>2. RunningInv /\ RowsSorted /\ unflushed = {}
  BY <1>1 DEF IndInv, Running
<1>3. RowsSorted' /\ Pairs(hist)' = Pairs(hist)
  BY <1>1, <1>2 DEF RowsSorted, Precedes, Pairs
<1>4. \A e \in hist : e.tx_num < tx_count
  BY <1>2, RowsBelow
<1>5. RunningInv'
  BY <1>1, <1>2, <1>3 DEF RunningInv, RowsWithin, TypeInv, TypeOK
<1>6. Committed' = hist
  BY <1>1, <1>2 DEF Committed, RunningInv, RowsWithin
<1>7. Pairs(Committed)' = chain
  BY <1>2, <1>6 DEF Pairs, RunningInv
<1>8. CommittedSplit'
  BY <1>1, <1>2, <1>4 DEF CommittedSplit, RunningInv, RowsWithin
<1>9. SyncInv'
  BY <1>1, <1>2, <1>7, <1>8 DEF SyncInv, TypeInv, TypeOK
<1> QED
  BY <1>1, <1>2, <1>3, <1>5, <1>9 DEF IndInv, TypeInv, Running, RunningInv

\* The compaction tool finds the committed rows, none of them compacted.
LEMMA StartCompactionInd ==
    ASSUME TypeInv, TypeInv', IndInv, StartCompaction
    PROVE  IndInv'
<1>1. DownInv /\ pc = "down" /\ RowsSorted /\ hist_state.comp_cursor = -1
  BY DEF IndInv, StartCompaction
<1>2. /\ hist' = Committed
      /\ flush_count' = utxo_state.utxo_flush_count
      /\ hist_state'.flush_count = flush_count'
  BY <1>1, OpenKeepsCommitted DEF StartCompaction, OpenDbCompacting, DownInv
<1>3. /\ pc' = "compact" /\ comp_cursor' = 0 /\ unflushed' = {}
      /\ utxo_state' = utxo_state
      /\ db' = [utxo_state EXCEPT !.utxo_flush_count = flush_count']
  BY <1>1 DEF StartCompaction, OpenDbCompacting, DownInv
<1>4. db'.chain = utxo_state.chain /\ db'.tx_count = utxo_state.tx_count
  BY <1>3 DEF TypeInv, TypeOK, DbState
<1>5. hist' \subseteq hist
  BY <1>2 DEF Committed
<1>6. RowsSorted'
  BY <1>1, <1>5 DEF RowsSorted, Precedes
<1>7. Pairs(hist)' = utxo_state.chain
  BY <1>1, <1>2 DEF DownInv, Pairs
<1>8. CompactInv'
  BY <1>2, <1>3, <1>4, <1>7 DEF CompactInv
<1>9. \A x \in HashX : ~(PrefixOf[x] < 0)
  BY HistoryAssumption
<1>10. CompactedRows'
  BY <1>2, <1>3, <1>5, <1>9
  DEF CompactedRows, TypeInv, TypeOK, DbState, Entry
<1> QED
  BY <1>3, <1>6, <1>8, <1>10 DEF IndInv, TypeInv, Running

\* Recutting the rows of an address keeps them sorted (_compact_hashX).
LEMMA CompactOrder ==
    ASSUME TypeInv, RowsSorted, NEW e \in hist, NEW f \in hist,
           Precedes(CompactedEntry(e), CompactedEntry(f))
    PROVE  e.tx_num < f.tx_num
<1>1. e \in Entry /\ f \in Entry
  BY DEF TypeInv, TypeOK
<1>2. /\ CompactedId(e) \in Nat /\ CompactedId(f) \in Nat
      /\ Precedes(f, e) => CompactedId(f) <= CompactedId(e)
  BY CompactedIds DEF TypeInv, TypeOK, Finite
<1>3. ASSUME NEW g \in Entry
      PROVE  /\ CompactedEntry(g).hashX = g.hashX
             /\ CompactedEntry(g).flush_id = CompactedId(g)
             /\ CompactedEntry(g).tx_num = g.tx_num
  BY DEF CompactedEntry, Entry
<1>4. /\ e.hashX = f.hashX
      /\ \/ CompactedId(e) < CompactedId(f)
         \/ e.tx_num < f.tx_num
  BY <1>1, <1>3 DEF Precedes
<1>5. CASE CompactedId(e) < CompactedId(f)
  <2>1. ~Precedes(f, e)
    BY <1>2, <1>5
  <2>2. e # f
    BY <1>2, <1>5
  <2>3. e.flush_id # f.flush_id \/ e.tx_num # f.tx_num
    BY <1>1, <1>4, <2>2 DEF Entry
  <2>4. Precedes(e, f)
    BY <1>1, <1>4, <2>1, <2>3 DEF Precedes, Entry
  <2> QED
    BY <2>4 DEF RowsSorted
<1> QED
  BY <1>4, <1>5

\* A compaction pass keeps what the rows say, and their order.
LEMMA CompactInd ==
    ASSUME TypeInv, TypeInv', IndInv,
           NEW cursor \in comp_cursor + 1 .. Prefixes, Compact(cursor)
    PROVE  IndInv'
<1> DEFINE todo == { e \in hist : PrefixOf[e.hashX]
                                      \in comp_cursor .. cursor - 1 }
           ids == { CompactedId(e) : e \in todo } \cup {comp_flush_count}
           C(e) == IF e \in todo THEN CompactedEntry(e) ELSE e
<1>1. /\ pc = "compact"
      /\ pc' = IF cursor = Prefixes THEN "compacted" ELSE "compact"
      /\ UNCHANGED <<unflushed, chain, tx_count, db, utxo_state>>
      /\ hist' = (hist \ todo) \cup { CompactedEntry(e) : e \in todo }
  BY DEF Compact, CompactPass
<1>2. PICK max_id \in ids :
         /\ \A i \in ids : i <= max_id
         /\ IF cursor = Prefixes
            THEN /\ flush_count' = max_id
                 /\ comp_flush_count' = -1
                 /\ comp_cursor' = -1
            ELSE /\ comp_flush_count' = max_id
                 /\ comp_cursor' = cursor
                 /\ UNCHANGED flush_count
         /\ WriteState
  BY DEF Compact, CompactPass
<1>3. CompactInv /\ CompactedRows /\ RowsSorted
  BY <1>1 DEF IndInv
<1>4. \A e \in hist : e \in Entry /\ CompactedId(e) \in Nat
  BY CompactedIds DEF TypeInv, TypeOK, Finite
<1>5. ASSUME NEW e \in hist
      PROVE  /\ C(e).hashX = e.hashX
             /\ C(e).tx_num = e.tx_num
             /\ e \in todo => C(e).flush_id = CompactedId(e)
  <2>1. e \in Entry
    BY <1>4
  <2> QED
    BY <2>1 DEF CompactedEntry, Entry
<1>6. hist' = { C(e) : e \in hist }
  BY <1>1
<1>7. Pairs(hist') = Pairs(hist)
  <2>1. ASSUME NEW q \in Pairs(hist') PROVE q \in Pairs(hist)
    <3>1. PICK d \in hist' : q = [hashX |-> d.hashX, tx_num |-> d.tx_num]
      BY PairsMember
    <3>2. PICK e \in hist : d = C(e)
      BY <1>6
    <3> QED
      BY <1>5, <3>1, <3>2, PairsMember
  <2>2. ASSUME NEW q \in Pairs(hist) PROVE q \in Pairs(hist')
    <3>1. PICK e \in hist : q = [hashX |-> e.hashX, tx_num |-> e.tx_num]
      BY PairsMember
    <3>2. C(e) \in hist'
      BY <1>6
    <3>3. [hashX |-> C(e).hashX, tx_num |-> C(e).tx_num] \in Pairs(hist')
      BY <3>2, PairsMember
    <3> QED
      BY <1>5, <3>1, <3>3
  <2> QED
    BY <2>1, <2>2
<1>8. RowsSorted'
  <2> SUFFICES ASSUME NEW d1 \in hist', NEW d2 \in hist', Precedes(d1, d2)
               PROVE  d1.tx_num < d2.tx_num
    BY DEF RowsSorted, Precedes
  <2>1. PICK e \in hist, f \in hist : d1 = C(e) /\ d2 = C(f)
    BY <1>6
  <2>2. e.hashX = f.hashX
    BY <1>5, <2>1 DEF Precedes
  <2>3. e \in todo <=> f \in todo
    BY <2>2
  <2>4. CASE e \in todo
    <3>1. d1 = CompactedEntry(e) /\ d2 = CompactedEntry(f)
      BY <2>1, <2>3, <2>4
    <3>2. e.tx_num < f.tx_num
      BY <1>3, <3>1, CompactOrder
    <3> QED
      BY <1>5, <2>1, <3>2
  <2>5. CASE e \notin todo
    <3>1. d1 = e /\ d2 = f
      BY <2>1, <2>3, <2>5
    <3> QED
      BY <1>3, <3>1 DEF RowsSorted
  <2> QED
    BY <2>4, <2>5
<1>9. /\ comp_cursor \in Nat /\ comp_flush_count \in Nat
      /\ \A x \in HashX : PrefixOf[x] \in 0 .. Prefixes - 1
  BY <1>1, HistoryAssumption DEF TypeInv, TypeOK, CompactionOn
<1>10. ids \subseteq Int
  BY <1>4, <1>9
<1>11. ASSUME NEW d \in hist', PrefixOf[d.hashX] < cursor
       PROVE  d.flush_id <= max_id
  <2>1. PICK e \in hist : d = C(e)
    BY <1>6
  <2>2. e \in Entry /\ PrefixOf[e.hashX] < cursor
    BY <1>4, <1>5, <1>11, <2>1
  <2>3. CASE e \in todo
    <3>1. d.flush_id = CompactedId(e) /\ CompactedId(e) \in ids
      BY <1>5, <2>1, <2>3
    <3> QED
      BY <1>2, <3>1
  <2>4. CASE e \notin todo
    <3>1. PrefixOf[e.hashX] < comp_cursor
      BY <1>9, <2>2, <2>4 DEF Entry
    <3>2. e.flush_id <= comp_flush_count /\ d = e
      BY <1>3, <2>1, <2>4, <3>1 DEF CompactedRows
    <3>3. comp_flush_count <= max_id
      BY <1>2
    <3> HIDE DEF ids, todo
    <3> QED
      BY <1>9, <1>10, <2>2, <3>2, <3>3 DEF Entry
  <2> QED
    BY <2>3, <2>4
<1> HIDE DEF todo, ids, C
<1>12. hist_state'.flush_count = flush_count' /\ hist_state'.comp_cursor = comp_cursor'
  BY <1>2 DEF WriteState
<1>13. CompactInv'
  BY <1>1, <1>3, <1>7, <1>12 DEF CompactInv, Pairs
<1>14. CASE cursor = Prefixes
  <2>1. \A d \in hist' : PrefixOf[d.hashX] < cursor
    BY <1>9, <1>14, HistoryAssumption DEF TypeInv, TypeOK, Entry
  <2>2. RowsWithin(flush_count)'
    BY <1>2, <1>11, <1>14, <2>1 DEF RowsWithin
  <2> QED
    BY <1>1, <1>2, <1>8, <1>12, <1>13, <1>14, <2>2
    DEF IndInv, TypeInv, Running
<1>15. CASE cursor # Prefixes
  <2>1. CompactedRows'
    BY <1>1, <1>2, <1>3, <1>11, <1>15 DEF CompactedRows
  <2> QED
    BY <1>1, <1>8, <1>12, <1>13, <1>15, <2>1 DEF IndInv, TypeInv, Running
<1> QED
  BY <1>14, <1>15

\* set_flush_count makes the compacted rows the committed ones.
LEMMA SetFlushCountInd ==
    ASSUME TypeInv, TypeInv', IndInv, SetFlushCount
    PROVE  IndInv'
<1>1. /\ pc = "compacted" /\ pc' = "down" /\ UNCHANGED <<hist, hist_state>>
      /\ unflushed' = {}
      /\ utxo_state' = [db EXCEPT !.utxo_flush_count = flush_count]
  BY DEF SetFlushCount, LoseMemory, histDisk
<1>2. CompactInv /\ RowsWithin(flush_count) /\ RowsSorted
  BY <1>1 DEF IndInv
<1>3. /\ utxo_state'.chain = utxo_state.chain
      /\ utxo_state'.tx_count = utxo_state.tx_count
      /\ utxo_state'.utxo_flush_count = flush_count
  BY <1>1, <1>2 DEF CompactInv, TypeInv, TypeOK, DbState
<1>4. Committed' = hist
  BY <1>1, <1>2, <1>3 DEF Committed, RowsWithin
<1>5. Pairs(Committed)' = utxo_state'.chain
  BY <1>2, <1>3, <1>4 DEF CompactInv, Pairs
<1>6. \A e \in hist : e.tx_num < utxo_state.tx_count
  <2> TAKE e \in hist
  <2> DEFINE p == [hashX |-> e.hashX, tx_num |-> e.tx_num]
  <2>1. p \in utxo_state.chain
    BY <1>2, PairsMember DEF CompactInv
  <2>2. p.tx_num < utxo_state.tx_count
    BY <2>1 DEF IndInv
  <2> QED
    BY <2>2
<1>7. DownInv'
  BY <1>1, <1>2, <1>3, <1>5, <1>6
  DEF DownInv, CommittedSplit, CompactInv, RowsWithin, TypeInv, TypeOK
<1> QED
  BY <1>1, <1>2, <1>3, <1>7
  DEF IndInv, TypeInv, Running, RowsSorted, Precedes

\* Losing the memory of a server at a safe point leaves a recoverable disk.
LEMMA CrashInd ==
    ASSUME TypeInv, TypeInv', IndInv, pc \in {"sync", "hist_flushed"},
           LoseMemory, UNCHANGED <<histDisk, utxo_state>>
    PROVE  IndInv'
<1>1. /\ pc' = "down" /\ UNCHANGED <<hist, hist_state, utxo_state>>
      /\ unflushed' = {}
  BY DEF LoseMemory, histDisk
<1>2. RunningInv /\ SyncInv
  BY DEF IndInv, Running
<1>3. Pairs(Committed)' = Pairs(Committed)
  BY <1>1 DEF Committed, Pairs
<1>4. DownInv'
  BY <1>1, <1>2, <1>3
  DEF DownInv, RunningInv, SyncInv, CommittedSplit, RowsWithin
<1> QED
  BY <1>1, <1>4 DEF IndInv, TypeInv, Running, RowsSorted, Precedes

\* The inductive step.
LEMMA IndStep ==
    ASSUME SafeCrashes, NameX = {}, TypeInv, IndInv, [Next]_vars
    PROVE  IndInv'
<1>1. TypeInv'
  BY TypeStep
<1>2. CASE Crash
  BY <1>1, <1>2, CrashInd DEF Crash, SafeCrashes
<1>3. CASE FlushIdExhausted
  BY <1>1, <1>3, CrashInd DEF FlushIdExhausted
<1>4. CASE UNCHANGED vars
  <2>1. Pairs(hist)' = Pairs(hist) /\ Pairs(Committed)' = Pairs(Committed)
    BY <1>4 DEF vars, histVars, histDisk, storeVars, Pairs, Committed
  <2> QED
    BY <1>1, <1>4, <2>1
    DEF vars, histVars, histMem, histDisk, storeVars, TypeInv, IndInv, Running,
        RunningInv, SyncInv, DownInv, CompactInv, CompactedRows, CommittedSplit,
        RowsSorted, RowsWithin, Precedes
<1> QED
  BY <1>1, <1>2, <1>3, <1>4, StartInd, ReopenInd, AdvanceInd, FlushInd,
     FlushUtxosInd, BackupInd, BackupUtxosInd, StartCompactionInd, CompactInd,
     SetFlushCountInd
  DEF Next

\* The initial state: two empty databases and no process.
LEMMA InitInd == Init => TypeInv /\ IndInv
<1> SUFFICES ASSUME Init PROVE TypeInv /\ IndInv
  OBVIOUS
<1>1. TypeInv
  BY FS_EmptySet, HistoryAssumption
  DEF Init, HistoryInit, TypeInv, TypeOK, Finite, CompactionOn, DbState
<1>2. Pairs(Committed) = {}
  BY DEF Init, HistoryInit, Pairs, Committed
<1>3. DownInv
  BY <1>2 DEF Init, HistoryInit, DownInv, CommittedSplit, RowsWithin
<1> QED
  BY <1>1, <1>3 DEF Init, HistoryInit, TypeInv, IndInv, Running, RowsSorted

\* What the inductive invariant says about the rows that opening would keep.
LEMMA RecoveredRows ==
    ASSUME TypeInv, IndInv, pc \notin {"backed_up", "compacted"}
    PROVE  Pairs(Recovered) = utxo_state.chain
<1>1. CASE pc = "compact"
  BY <1>1 DEF IndInv, CompactInv, CompactedRows, Recovered
<1>2. CASE pc # "compact"
  <2>1. /\ Pairs(Committed) = utxo_state.chain
        /\ utxo_state.utxo_flush_count <= hist_state.flush_count
        /\ RowsWithin(hist_state.flush_count)
    BY <1>2 DEF TypeInv, TypeOK, IndInv, Running, RunningInv, SyncInv, DownInv
  <2>2. hist_state.flush_count <= utxo_state.utxo_flush_count
            => hist = Committed
    BY <2>1 DEF RowsWithin, Committed, TypeInv, TypeOK, DbState, Entry
  <2> QED
    BY <2>1, <2>2 DEF Recovered
<1> QED
  BY <1>1, <1>2

\* The inductive invariant gives what the runs check.
LEMMA IndGives ==
    ASSUME TypeInv, IndInv, SafeCrashes, NameX = {}
    PROVE  HistoryCorrect /\ Recoverable
<1>1. Recoverable
  BY RecoveredRows DEF Recoverable
<1>2. HistoryCorrect
  BY DEF IndInv, RunningInv, Running, HistoryCorrect, HistoryMatchesChain,
         HistorySorted, FlushIdsFresh
<1> QED
  BY <1>1, <1>2

\* If crashes strike while the server indexes or between the two batches of a
\* flush, the index always equals the chain, its rows are sorted and free of
\* repetitions, and flush ids never collide.
THEOREM HistoryIsSafe ==
    ASSUME SafeCrashes, NameX = {}
    PROVE  Spec => []HistoryCorrect
<1>1. Init => TypeInv /\ IndInv
  BY InitInd
<1>2. TypeInv /\ IndInv /\ [Next]_vars => (TypeInv /\ IndInv)'
  BY TypeStep, IndStep
<1>3. TypeInv /\ IndInv => HistoryCorrect
  BY IndGives
<1> QED
  BY <1>1, <1>2, <1>3, PTL DEF Spec

\* With the same crash points, a restart recovers exactly the committed chain
\* (read_utxo_state, clear_excess).
THEOREM HistoryRecovers ==
    ASSUME SafeCrashes, NameX = {}
    PROVE  Spec => []Recoverable
<1>1. Init => TypeInv /\ IndInv
  BY InitInd
<1>2. TypeInv /\ IndInv /\ [Next]_vars => (TypeInv /\ IndInv)'
  BY TypeStep, IndStep
<1>3. TypeInv /\ IndInv => Recoverable
  BY IndGives
<1> QED
  BY <1>1, <1>2, <1>3, PTL DEF Spec

-----------------------------------------------------------------------------
(* Refinement.                                                              *)

\* The abstract state, in terms of the chain.
Mapping ==
    /\ Durable = utxo_state.chain
    /\ Running => Index = chain
    /\ ~Running => Index = utxo_state.chain

\* The invariant determines the abstract state.
LEMMA MappingHolds == TypeInv /\ IndInv => Mapping
<1> SUFFICES ASSUME TypeInv, IndInv PROVE Mapping
  OBVIOUS
<1>1. Durable = utxo_state.chain
  BY RecoveredRows DEF Durable
<1>2. Running => Index = chain
  BY DEF Index, IndInv, RunningInv
<1>3. ~Running => Index = utxo_state.chain
  BY <1>1 DEF Index
<1> QED
  BY <1>1, <1>2, <1>3 DEF Mapping

\* Every step is a step of the abstract index, or leaves it alone.
LEMMA StepRefines ==
    ASSUME TypeInv, IndInv, IndInv', Mapping, Mapping', [Next]_vars,
           SafeCrashes
    PROVE  [Abstract!Next]_<<Index, Durable>>
<1> USE DEF Mapping
<1>1. CASE Start
  <2>1. ~Running /\ Running' /\ chain' = utxo_state.chain
            /\ utxo_state' = utxo_state
    BY <1>1 DEF Start, Running
  <2> QED
    BY <2>1
<1>2. ASSUME NEW hashXs \in SUBSET HashX, AdvanceTx(hashXs)
      PROVE  Abstract!Next
  <2>1. /\ Running /\ Running' /\ utxo_state' = utxo_state
        /\ chain' = chain \cup
               { [hashX |-> x, tx_num |-> tx_count] : x \in hashXs }
    BY <1>2 DEF AdvanceTx, Running
  <2>2. \A p \in chain : p.tx_num < tx_count
    BY <2>1 DEF IndInv, RunningInv
  <2>3. tx_count \in 0 .. MaxTx
    BY <1>2, StoreAssumption DEF AdvanceTx, TypeInv, TypeOK
  <2>4. Abstract!Extend(hashXs, tx_count)
    BY <2>1, <2>2 DEF Abstract!Extend
  <2> QED
    BY <2>3, <2>4 DEF Abstract!Next
<1>3. CASE FlushHistory
  <2>1. Running /\ Running' /\ chain' = chain /\ utxo_state' = utxo_state
    BY <1>3 DEF FlushHistory, Running
  <2> QED
    BY <2>1
<1>4. ASSUME NEW flush_utxos \in BOOLEAN, FlushUtxos(flush_utxos)
      PROVE  [Abstract!Next]_<<Index, Durable>>
  <2>1. Running /\ Running' /\ chain' = chain /\ db = utxo_state
    BY <1>4 DEF FlushUtxos, Running, IndInv, RunningInv
  <2>2. utxo_state'.chain = chain \/ utxo_state' = utxo_state
    BY <1>4, <2>1 DEF FlushUtxos
  <2>3. Abstract!Commit \/ UNCHANGED <<Index, Durable>>
    BY <2>1, <2>2 DEF Abstract!Commit
  <2> QED
    BY <2>3 DEF Abstract!Next
<1>5. ASSUME NEW n \in 1 .. MaxTx, NEW others \in SUBSET HashX,
             BackupHistory(n, others)
      PROVE  Abstract!Next
  <2>1. /\ Running /\ Running' /\ utxo_state' = utxo_state
        /\ chain' = { p \in chain : p.tx_num < n }
    BY <1>5 DEF BackupHistory, Running
  <2>2. Abstract!Rollback(n)
    BY <2>1 DEF Abstract!Rollback
  <2>3. n \in 0 .. MaxTx
    BY StoreAssumption
  <2> QED
    BY <2>2, <2>3 DEF Abstract!Next
<1>6. CASE BackupUtxos
  <2>1. Running /\ Running' /\ chain' = chain /\ utxo_state'.chain = chain
    BY <1>6 DEF BackupUtxos, Running
  <2>2. Abstract!Commit
    BY <2>1 DEF Abstract!Commit
  <2> QED
    BY <2>2 DEF Abstract!Next
<1>7. CASE StartCompaction
  <2>1. ~Running /\ ~Running' /\ utxo_state' = utxo_state
    BY <1>7 DEF StartCompaction, Running
  <2> QED
    BY <2>1
<1>8. ASSUME NEW cursor \in comp_cursor + 1 .. Prefixes, Compact(cursor)
      PROVE  UNCHANGED <<Index, Durable>>
  <2>1. ~Running /\ ~Running' /\ utxo_state' = utxo_state
    BY <1>8 DEF Compact, Running
  <2> QED
    BY <2>1
<1>9. CASE SetFlushCount
  <2>1. ~Running /\ ~Running'
    BY <1>9 DEF SetFlushCount, LoseMemory, Running
  <2>2. utxo_state'.chain = utxo_state.chain
    BY <1>9 DEF SetFlushCount, IndInv, CompactInv, TypeInv, TypeOK, DbState
  <2> QED
    BY <2>1, <2>2
<1>10. CASE Crash \/ FlushIdExhausted
  <2>1. ~Running' /\ utxo_state' = utxo_state
    BY <1>10 DEF Crash, FlushIdExhausted, LoseMemory, Running
  <2>2. Abstract!Crash
    BY <2>1 DEF Abstract!Crash
  <2> QED
    BY <2>2 DEF Abstract!Next
<1>11. CASE Reopen \/ UNCHANGED vars
  <2>1. chain' = chain /\ utxo_state' = utxo_state /\ pc' = pc
    BY <1>11 DEF Reopen, vars, storeVars
  <2> QED
    BY <2>1 DEF Running
<1> QED
  BY <1>1, <1>2, <1>3, <1>4, <1>5, <1>6, <1>7, <1>8, <1>9, <1>10, <1>11
  DEF Next

\* With the same crash points, the two databases implement one index that is
\* committed atomically and that a crash takes back to its last commit.
THEOREM HistoryRefinesIndex ==
    ASSUME SafeCrashes, NameX = {}
    PROVE  Spec => ImplementsIndex
<1>1. Init => TypeInv /\ IndInv
  BY InitInd
<1>2. TypeInv /\ IndInv /\ [Next]_vars => (TypeInv /\ IndInv)'
  BY TypeStep, IndStep
<1>3. Init => Abstract!Init
  <2> SUFFICES ASSUME Init PROVE Abstract!Init
    OBVIOUS
  <2>1. Mapping /\ ~Running
    BY InitInd, MappingHolds DEF Init, Running
  <2>2. Index = {} /\ Durable = {}
    BY <2>1 DEF Mapping, Init
  <2> QED
    BY <2>2 DEF Abstract!Init
<1>4. TypeInv /\ IndInv /\ (TypeInv /\ IndInv)' /\ Mapping /\ Mapping'
          /\ [Next]_vars => [Abstract!Next]_<<Index, Durable>>
  BY StepRefines
<1> QED
  BY <1>1, <1>2, <1>3, <1>4, MappingHolds, PTL
  DEF Spec, ImplementsIndex, Abstract!Spec, Abstract!vars
=============================================================================
