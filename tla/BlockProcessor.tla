--------------------------- MODULE BlockProcessor ---------------------------
(***************************************************************************)
(* The block processor and the databases it writes: server/               *)
(* block_processor.py and the flushing, backup and opening code of         *)
(* server/db.py, against a daemon that grows and reorganises its chain.    *)
(*                                                                         *)
(* The process is the loop _process_prefetched_blocks; `pc' is where it    *)
(* is.  It may crash between any two steps, and it may be cancelled at an  *)
(* await.  Work that runs in a thread under state_lock (advance_blocks, a  *)
(* flush, backup_blocks) is shielded from cancellation, so a cancellation  *)
(* that arrives during it takes effect at the await after it.              *)
(*                                                                         *)
(* The history database is used through what HistoryStore implements: an   *)
(* index whose committed copy moves with the UTXO batch (HistoryIndex).    *)
(***************************************************************************)
EXTENDS Blockchain

CONSTANTS
    DaemonTips,      \* the blocks that become tips of the daemon's chain
    ReorgLimit,      \* env.reorg_limit
    ChunkSize,       \* blocks backed up at a time (50)
    MaxQueue,        \* bound: prefetched blocks
    MaxForced,       \* bound: blocks of a forced reorganisation
    MaxReorgs,       \* bound: number of forced reorganisations
    MaxCrashes,      \* bound: crashes and shutdowns
    ShutdownPoints   \* the awaits at which the process may be cancelled

ASSUME ProcessorAssumption ==
    /\ DaemonTips \subseteq Blocks
    /\ ReorgLimit \in Nat \ {0} /\ ChunkSize \in Nat \ {0}
    /\ MaxQueue \in Nat /\ MaxForced \in Nat /\ MaxReorgs \in Nat /\ MaxCrashes \in Nat
    /\ "down" \notin ShutdownPoints

\* The daemon's chains differ in their last ReorgLimit blocks only: what lies deeper is not
\* reorganised, its undo information is dropped (min_undo_height).
ASSUME ReorgsShallow ==
    \A a, b \in DaemonTips : \A h \in 0 .. Height(a) :
        h <= Height(a) - ReorgLimit /\ h <= Height(b) => Path[a][h + 1] = Path[b][h + 1]

VARIABLES
    (* the daemon, and the prefetcher *)
    best,            \* tip of the daemon's chain
    prior_best,      \* its tip when the current fetch of blocks began
    cached_height,   \* daemon.cached_height()
    queue,           \* prefetcher.blocks
    fetched_height,  \* prefetcher.fetched_height
    (* the block processor's memory *)
    pc,              \* where the process is; "down" if none runs
    bp,              \* [height, tip, tx_count, headers, tx_hashes, undo_infos,
                     \*  cache, deletes, touched, history]
    work,            \* what the current step works on, see NoWork
    caught_up,       \* _caught_up_event
    reorg_count,     \* blocks of a queued forced reorganisation
    (* the DB object's memory *)
    db,              \* [height, tx_count, tip, first_sync, fs_height]
    tx_counts,       \* transactions up to each height
    (* the disk *)
    disk,            \* UTXO database: [state, h, u, undo, history]
    files,           \* metadata files: [headers, tx_counts, hashes]
    raw,             \* raw block files, by height
    (* bookkeeping *)
    told,            \* the tip of the last on_block notification
    crashes, reorgs  \* how many there were

daemonVars == <<best, prior_best>>
prefetchVars == <<cached_height, queue, fetched_height>>
memVars == <<bp, work, caught_up, reorg_count, db, tx_counts>>
diskVars == <<disk, files, raw>>
countVars == <<told, crashes, reorgs>>
vars == <<daemonVars, prefetchVars, pc, memVars, diskVars, countVars>>

-----------------------------------------------------------------------------
NoWork == [batch |-> <<>>,       \* blocks still to advance
           after |-> "top",      \* where a flush returns to
           flush_utxos |-> TRUE, \* the flush's argument
           start |-> 0, count |-> 0]  \* reorganisation range

EmptyState == [height |-> -1, tx_count |-> 0, tip |-> NoBlock,
               first_sync |-> TRUE]

EmptyBp == [height |-> -1, tip |-> NoBlock, tx_count |-> 0, headers |-> <<>>,
            tx_hashes |-> <<>>, undo_infos |-> <<>>, cache |-> {},
            deletes |-> {}, touched |-> {}, history |-> {}]

EmptyDb == [height |-> -1, tx_count |-> 0, tip |-> NoBlock,
            first_sync |-> TRUE, fs_height |-> -1]

Init ==
    /\ best \in DaemonTips /\ prior_best = best
    /\ cached_height = -1 /\ queue = <<>> /\ fetched_height = -1
    /\ pc = "down"
    /\ bp = EmptyBp /\ work = NoWork
    /\ caught_up = FALSE /\ reorg_count = 0
    /\ db = EmptyDb /\ tx_counts = <<>>
    /\ disk = [state |-> EmptyState, h |-> {}, u |-> {}, undo |-> <<>>,
               history |-> {}]
    /\ files = [headers |-> <<>>, tx_counts |-> <<>>, hashes |-> <<>>]
    /\ raw = <<>>
    /\ told = NoBlock /\ crashes = 0 /\ reorgs = 0

-----------------------------------------------------------------------------
(* The UTXO cache.  A coin of the cache is [tx, idx, hashX, tx_num]; s is   *)
(* the part of the memory that a block changes, with `ok' for "no           *)
(* exception" and `undo' for the block's undo list.                         *)

\* op applied to the elements of seq from left to right.  The value so far is
\* bound at every step: where TLC evaluates ENABLED it would otherwise compute it
\* once per use.
Fold(op(_, _), base, seq) ==
    LET result[i \in 0 .. Len(seq)] ==
            IF i = 0 THEN base
            ELSE CHOOSE r \in { op(v, seq[i]) : v \in {result[i - 1]} } : TRUE
    IN result[Len(seq)]

HKey(c) == [comp |-> Comp[c.tx], idx |-> c.idx, tx_num |-> c.tx_num,
            hashX |-> c.hashX]
UKey(k) == [hashX |-> k.hashX, idx |-> k.idx, tx_num |-> k.tx_num]
Prevout(c) == [hashX |-> c.hashX, tx_num |-> c.tx_num]

\* bisect_right on tx_counts: the height of a transaction number.
HeightOf(counts, n) == Cardinality({ i \in DOMAIN counts : counts[i] <= n })

\* fs_tx_hash: the transaction's hash, if its height is on disk.
FsTxHash(counts, n) ==
    IF HeightOf(counts, n) > db.height THEN NoBlock ELSE files.hashes[n + 1]

PutUtxo(s, o, v) ==
    [s EXCEPT !.cache = { c \in @ : <<c.tx, c.idx>> # <<o.tx, o.idx>> }
                            \cup { [tx |-> o.tx, idx |-> o.idx,
                                    hashX |-> v.hashX, tx_num |-> v.tx_num] }]

\* Mutant of IsOutput: compressed hashes are trusted.
IsOutputUnchecked(s, o, k, candidates) == UKey(k) \in disk.u

\* Whether an entry k of the h table, one of `candidates' with the compressed
\* hash and index of outpoint o, is the output itself: the full hash is
\* compared only if there are several.
IsOutput(s, o, k, candidates) ==
    /\ Cardinality(candidates) > 1 => FsTxHash(s.counts, k.tx_num) = o.tx
    /\ UKey(k) \in disk.u

\* spend_utxo: the cache first, then the tables on disk.
SpendUtxo(s, o) ==
    LET cached == { c \in s.cache : c.tx = o.tx /\ c.idx = o.idx }
        candidates == { k \in disk.h : k.comp = Comp[o.tx] /\ k.idx = o.idx }
        found == { k \in candidates : IsOutput(s, o, k, candidates) }
        c == CHOOSE c \in cached : TRUE
        k == CHOOSE k \in found : TRUE
    IN CASE cached # {} -> [s EXCEPT !.cache = @ \ {c}, !.spent = Prevout(c)]
         [] cached = {} /\ found # {} ->
              [s EXCEPT !.deletes = @ \cup {k}, !.spent = Prevout(k)]
         [] OTHER -> [s EXCEPT !.ok = FALSE]

Scratch == [cache |-> bp.cache, deletes |-> bp.deletes, touched |-> bp.touched,
            history |-> bp.history, tx_count |-> bp.tx_count,
            counts |-> tx_counts, undo |-> <<>>,
            spent |-> [hashX |-> NoX, tx_num |-> 0], ok |-> TRUE]

\* The same, with the block that is undone next.
BackupScratch == [cache |-> bp.cache, deletes |-> bp.deletes, touched |-> bp.touched,
                  history |-> bp.history, tx_count |-> bp.tx_count,
                  counts |-> tx_counts, undo |-> <<>>,
                  spent |-> [hashX |-> NoX, tx_num |-> 0], ok |-> TRUE,
                  height |-> bp.height, tip |-> bp.tip]

Indices(t) == [i \in DOMAIN Outs[t] |-> i]

\* Mutant of Touch: the address is indexed but not reported as touched.
TouchSilently(s, x) ==
    [s EXCEPT !.history = @ \cup {[hashX |-> x, tx_num |-> s.tx_count]}]

Touch(s, x) ==
    [s EXCEPT !.touched = @ \cup {x},
              !.history = @ \cup {[hashX |-> x, tx_num |-> s.tx_count]}]

\* The body of advance_txs for one transaction.
AdvanceTx(s0, t) ==
    LET spend(s, o) ==
            LET r == SpendUtxo(s, o)
            IN Touch([r EXCEPT !.undo = Append(@, r.spent)], r.spent.hashX)
        create(s, i) ==
            IF Outs[t][i] = NoX THEN s
            ELSE Touch(PutUtxo(s, [tx |-> t, idx |-> i],
                               [hashX |-> Outs[t][i], tx_num |-> s.tx_count]),
                       Outs[t][i])
        s1 == Fold(spend, s0, Ins[t])
        s2 == Fold(create, s1, Indices(t))
    IN [s2 EXCEPT !.tx_count = @ + 1]

\* The body of backup_txs for one transaction; s.undo is what is left of the
\* undo list, consumed from its end.
BackupTx(s0, t) ==
    LET spend(s, i) ==
            LET r == SpendUtxo(s, [tx |-> t, idx |-> i])
            IN IF Outs[t][i] = NoX THEN s
               ELSE [r EXCEPT !.touched = @ \cup {r.spent.hashX}]
        restore(s, o) ==
            IF s.undo = <<>> THEN [s EXCEPT !.ok = FALSE]
            ELSE [PutUtxo(s, o, Last(s.undo)) EXCEPT
                     !.undo = Front(@),
                     !.touched = @ \cup {Last(s.undo).hashX}]
        s1 == Fold(spend, s0, Indices(t))
    IN Fold(restore, s1, Reverse(Ins[t]))

-----------------------------------------------------------------------------
(* The daemon and the prefetcher.                                           *)

\* A new best chain is always longer.
NewBest ==
    /\ \E b \in DaemonTips : Height(b) > Height(best) /\ best' = b
    /\ UNCHANGED <<prior_best, prefetchVars, pc, memVars, diskVars, countVars>>

\* _prefetch_blocks, with the blocks that follow fetched_height.  If the
\* daemon changed chains while it answered the hash requests, the first
\* `old' hashes are of its prior chain; fetches do not overlap, so this is so
\* of one fetch only.
Prefetch(count, old) ==
    LET chain(i) == Path[IF i <= old THEN prior_best ELSE best]
    IN /\ pc # "down"
       /\ count <= Height(best) - fetched_height
       /\ old = 0 \/ fetched_height + old <= Height(prior_best)
       /\ Len(queue) + count <= MaxQueue
       /\ queue' = queue \o [i \in 1 .. count |->
                                chain(i)[fetched_height + 1 + i]]
       /\ fetched_height' = fetched_height + count
       /\ cached_height' = Height(best)
       /\ prior_best' = best
       /\ UNCHANGED <<best, pc, memVars, diskVars, countVars>>

\* Mutant of ResetHeight: the fetched height is not moved back.
ResetHeightQueueOnly(height) ==
    /\ queue' = <<>>
    /\ cached_height' = Height(best)
    /\ UNCHANGED fetched_height

\* reset_height, which also asks the daemon for its height.
ResetHeight(height) ==
    /\ queue' = <<>>
    /\ fetched_height' = height
    /\ cached_height' = Height(best)

\* force_chain_reorg: refused unless caught up.  The operator is assumed not
\* to ask for the genesis block.
ForceReorg(count) ==
    /\ pc # "down" /\ caught_up
    /\ count < bp.height
    /\ reorgs < MaxReorgs
    /\ reorgs' = reorgs + 1
    /\ reorg_count' = count
    /\ UNCHANGED <<daemonVars, prefetchVars, pc, bp, work, caught_up, db,
                   tx_counts, diskVars, told, crashes>>

-----------------------------------------------------------------------------
(* Opening the databases.                                                   *)

MinUndoHeight(max_height) == max_height - ReorgLimit + 1

From(f, h) == [i \in { j \in DOMAIN f : j >= h } |-> f[i]]

\* clear_excess_undo_info: undo entries and raw blocks too old to be needed.
ClearExcessUndo ==
    LET min_height == MinUndoHeight(disk.state.height)
    IN /\ disk' = [disk EXCEPT !.undo = From(@, min_height)]
       /\ raw' = From(raw, min_height)

\* read_utxo_state.
ReadUtxoState ==
    db' = [height |-> disk.state.height, tx_count |-> disk.state.tx_count,
           tip |-> disk.state.tip, first_sync |-> disk.state.first_sync,
           fs_height |-> disk.state.height]

\* _first_open_dbs, and main_loop's first reset_height.
Start ==
    /\ pc = "down"
    /\ ReadUtxoState
    /\ ClearExcessUndo
    /\ tx_counts' = SubSeq(files.tx_counts, 1, disk.state.height + 1)
    /\ bp' = [EmptyBp EXCEPT !.height = disk.state.height,
                             !.tip = disk.state.tip,
                             !.tx_count = disk.state.tx_count,
                             !.history = disk.history]
    /\ ResetHeight(disk.state.height)
    /\ pc' = "top"
    /\ UNCHANGED <<daemonVars, work, caught_up, reorg_count, files, countVars>>

\* A server that stops loses its memory.
Stop ==
    /\ pc' = "down"
    /\ bp' = EmptyBp /\ work' = NoWork
    /\ caught_up' = FALSE /\ reorg_count' = 0
    /\ db' = EmptyDb /\ tx_counts' = <<>>
    /\ cached_height' = -1 /\ queue' = <<>> /\ fetched_height' = -1
    /\ told' = NoBlock

\* A crash, at any step.
Crash ==
    /\ pc \notin {"down", "failed"}
    /\ crashes < MaxCrashes
    /\ crashes' = crashes + 1
    /\ Stop
    /\ UNCHANGED <<daemonVars, diskVars, reorgs>>

\* An exception ends the server without a flush ("failed" is an assertion, a
\* ChainError or a DBError); the operator starts it again.
RestartFailed ==
    /\ pc = "failed"
    /\ Stop
    /\ UNCHANGED <<daemonVars, diskVars, crashes, reorgs>>

\* fetch_and_process_blocks is cancelled: flush everything and exit.
Shutdown ==
    /\ pc \in ShutdownPoints
    /\ crashes < MaxCrashes
    /\ crashes' = crashes + 1
    /\ work' = [NoWork EXCEPT !.after = "exit"]
    /\ pc' = "flush"
    /\ UNCHANGED <<daemonVars, prefetchVars, bp, caught_up, reorg_count, db,
                   tx_counts, diskVars, told, reorgs>>

Exit ==
    /\ pc = "exit"
    /\ Stop
    /\ UNCHANGED <<daemonVars, diskVars, crashes, reorgs>>

-----------------------------------------------------------------------------
(* Flushing: flush_dbs(flush_utxos), which then continues at work.after.    *)

Overwrite(f, offset, s) ==
    SubSeq(f, 1, offset) \o s \o SubSeq(f, offset + Len(s) + 1, Len(f))

AssertFlushed ==
    /\ bp.tx_count = db.tx_count /\ bp.height = db.fs_height
    /\ bp.height = db.height /\ bp.tip = db.tip
    /\ bp.headers = <<>> /\ bp.tx_hashes = <<>> /\ bp.undo_infos = <<>>
    /\ bp.cache = {} /\ bp.deletes = {}

\* Nothing to do, which is asserted.
FlushNothing ==
    /\ pc = "flush"
    /\ bp.height = db.height
    /\ pc' = IF AssertFlushed THEN work.after ELSE "failed"
    /\ UNCHANGED <<daemonVars, prefetchVars, memVars, diskVars, countVars>>

PriorTxCount == IF db.fs_height >= 0 THEN tx_counts[db.fs_height + 1] ELSE 0

FlushFsAsserts ==
    /\ Len(bp.tx_hashes) = Len(bp.headers)
    /\ bp.height = db.fs_height + Len(bp.headers)
    /\ Len(tx_counts) = bp.height + 1
    /\ bp.tx_count = Last(tx_counts)
    /\ Len(FlattenSeq(bp.tx_hashes)) = bp.tx_count - PriorTxCount

\* flush_fs: append to the metadata files, in place of whatever a crash or a
\* reorganisation left there.  The history batch follows.
FlushFs ==
    /\ pc = "flush"
    /\ bp.height # db.height
    /\ IF FlushFsAsserts
       THEN /\ files' = [headers |-> Overwrite(files.headers, db.fs_height + 1,
                                               bp.headers),
                         tx_counts |-> Overwrite(files.tx_counts,
                             db.fs_height + 1,
                             SubSeq(tx_counts, db.fs_height + 2, Len(tx_counts))),
                         hashes |-> Overwrite(files.hashes, PriorTxCount,
                                              FlattenSeq(bp.tx_hashes))]
            /\ db' = [db EXCEPT !.fs_height = bp.height]
            /\ bp' = [bp EXCEPT !.headers = <<>>, !.tx_hashes = <<>>]
            /\ pc' = "flush_utxos"
       ELSE /\ pc' = "failed"
            /\ UNCHANGED <<files, db, bp>>
    /\ UNCHANGED <<daemonVars, prefetchVars, work, caught_up, reorg_count,
                   tx_counts, disk, raw, countVars>>

\* flush_utxo_db: deletes, then puts; the committed state becomes ours.
FlushUtxoDb(d) ==
    LET new_h == { HKey(c) : c \in bp.cache }
        undos == bp.undo_infos
        new_undo == [h \in { undos[i].height : i \in DOMAIN undos } |->
                       (CHOOSE i \in DOMAIN undos :
                           /\ undos[i].height = h
                           /\ \A j \in DOMAIN undos :
                                 undos[j].height = h => j <= i)]
    IN [state |-> [height |-> bp.height, tx_count |-> bp.tx_count,
                   tip |-> bp.tip, first_sync |-> d.first_sync],
        h |-> (disk.h \ bp.deletes) \cup new_h,
        u |-> (disk.u \ { UKey(k) : k \in bp.deletes })
                  \cup { UKey(k) : k \in new_h },
        undo |-> [h \in DOMAIN new_undo \cup DOMAIN disk.undo |->
                    IF h \in DOMAIN new_undo THEN undos[new_undo[h]].info ELSE disk.undo[h]],
        history |-> bp.history]

\* Mutant of Flushed: the undo information stays in memory.
FlushedKeepsUndo == [bp EXCEPT !.cache = {}, !.deletes = {}]

Flushed == [bp EXCEPT !.cache = {}, !.deletes = {}, !.undo_infos = <<>>]

\* The UTXO batch of flush_dbs.
FlushUtxos ==
    /\ pc = "flush_utxos"
    /\ IF work.flush_utxos
       THEN /\ disk' = FlushUtxoDb(db)
            /\ db' = [db EXCEPT !.height = bp.height, !.tip = bp.tip,
                                !.tx_count = bp.tx_count]
            /\ bp' = Flushed
       ELSE /\ disk' = [disk EXCEPT !.state.first_sync = db.first_sync]
            /\ UNCHANGED <<db, bp>>
    /\ pc' = work.after
    /\ UNCHANGED <<daemonVars, prefetchVars, work, caught_up, reorg_count,
                   tx_counts, files, raw, countVars>>

-----------------------------------------------------------------------------
(* The loop of _process_prefetched_blocks.                                  *)

\* The top of the loop: the first time the daemon's height is reached, flush
\* everything "with first_sync->False state" (_first_caught_up).
Top ==
    /\ pc = "top"
    /\ IF bp.height = cached_height /\ ~caught_up
       THEN /\ db' = [db EXCEPT !.first_sync = FALSE]
            /\ work' = [NoWork EXCEPT !.after = "reopen"]
            /\ pc' = "flush"
       ELSE /\ pc' = "wait"
            /\ UNCHANGED <<db, work>>
    /\ UNCHANGED <<daemonVars, prefetchVars, bp, caught_up, reorg_count,
                   tx_counts, diskVars, countVars>>

\* open_for_serving, then caught_up_event.set().
Reopen ==
    /\ pc = "reopen"
    /\ ReadUtxoState
    /\ ClearExcessUndo
    /\ caught_up' = TRUE
    /\ told' = bp.tip
    /\ pc' = "wait"
    /\ UNCHANGED <<daemonVars, prefetchVars, bp, work, reorg_count, tx_counts,
                   files, crashes, reorgs>>

\* check_and_advance_blocks.
Linked == [i \in DOMAIN queue |->
              Prev[queue[i]] = IF i = 1 THEN bp.tip ELSE queue[i - 1]]

TakeBlocks ==
    /\ pc = "wait" /\ reorg_count = 0 /\ queue # <<>>
    /\ IF \A i \in DOMAIN queue : Linked[i]
       THEN /\ pc' = "advance"
            /\ work' = [NoWork EXCEPT !.batch = queue]
            /\ queue' = <<>>
            /\ UNCHANGED <<fetched_height, cached_height>>
       ELSE IF ~Linked[1]
       THEN /\ pc' = "flush"
            /\ work' = [NoWork EXCEPT !.after = "reorg"]
            /\ queue' = <<>>
            /\ UNCHANGED <<fetched_height, cached_height>>
       ELSE /\ ResetHeight(bp.height)
            /\ pc' = "top"
            /\ UNCHANGED work
    /\ UNCHANGED <<daemonVars, bp, caught_up, reorg_count, db, tx_counts,
                   diskVars, countVars>>

\* advance_blocks, one block at a time.  The raw block is on disk at once.
\* height and tip are really assigned after the last block, which nobody can
\* tell: the lock is held until then.
AdvanceBlock ==
    /\ pc = "advance" /\ work.batch # <<>>
    /\ LET b == Head(work.batch)
           height == bp.height + 1
           keep == height >= MinUndoHeight(cached_height)
       IN \E s \in { Fold(AdvanceTx, Scratch, Txs[b]) } :
          /\ bp' = [bp EXCEPT
                      !.height = height, !.tip = b, !.tx_count = s.tx_count,
                      !.headers = Append(@, b),
                      !.tx_hashes = Append(@, Txs[b]),
                      !.undo_infos =
                          IF keep THEN Append(@, [height |-> height,
                                                  info |-> s.undo])
                          ELSE @,
                      !.cache = s.cache, !.deletes = s.deletes,
                      !.touched = s.touched, !.history = s.history]
          /\ tx_counts' = Append(tx_counts, s.tx_count)
          /\ raw' = IF keep
                    THEN [h \in (DOMAIN raw \cup {height}) \ {MinUndoHeight(height) - 1} |->
                             IF h = height THEN b ELSE raw[h]]
                    ELSE raw
          /\ work' = [work EXCEPT !.batch = Tail(@)]
          /\ pc' = IF ~s.ok THEN "failed"
                   ELSE IF Len(work.batch) = 1 THEN "advanced" ELSE "advance"
    /\ UNCHANGED <<daemonVars, prefetchVars, caught_up, reorg_count, db,
                   disk, files, countVars>>

\* _maybe_flush: always when caught up; otherwise when the cache is checked
\* and found too big.
MaybeFlush(needed, flush_utxos) ==
    /\ pc = "advanced"
    /\ caught_up => needed /\ flush_utxos
    /\ work' = [NoWork EXCEPT !.after = "notify", !.flush_utxos = flush_utxos]
    /\ pc' = IF needed THEN "flush" ELSE "notify"
    /\ UNCHANGED <<daemonVars, prefetchVars, bp, caught_up, reorg_count, db,
                   tx_counts, diskVars, countVars>>

\* on_block(touched, height), if caught up; then touched starts afresh.
Notify ==
    /\ pc = "notify"
    /\ told' = IF caught_up THEN bp.tip ELSE told
    /\ bp' = [bp EXCEPT !.touched = {}]
    /\ pc' = "top"
    /\ UNCHANGED <<daemonVars, prefetchVars, work, caught_up, reorg_count, db,
                   tx_counts, diskVars, crashes, reorgs>>

-----------------------------------------------------------------------------
(* Reorganisations.                                                         *)

\* A forced reorganisation: reorg_chain(reorg_count).
TakeForcedReorg ==
    /\ pc = "wait" /\ reorg_count > 0
    /\ work' = [NoWork EXCEPT !.after = "forced", !.count = reorg_count]
    /\ pc' = "flush"
    /\ UNCHANGED <<daemonVars, prefetchVars, bp, caught_up, reorg_count, db,
                   tx_counts, diskVars, countVars>>

ForcedRange ==
    /\ pc = "forced"
    /\ work' = [work EXCEPT !.start = bp.height - work.count + 1]
    /\ pc' = IF bp.height - work.count + 1 >= 0 THEN "backup" ELSE "failed"
    /\ UNCHANGED <<daemonVars, prefetchVars, bp, caught_up, reorg_count, db,
                   tx_counts, diskVars, countVars>>

\* calc_reorg_range(None) starts one below our tip ...
RealRange ==
    /\ pc = "reorg"
    /\ work' = [work EXCEPT !.start = bp.height - 1, !.count = 1]
    /\ pc' = "probe"
    /\ UNCHANGED <<daemonVars, prefetchVars, bp, caught_up, reorg_count, db,
                   tx_counts, diskVars, countVars>>

\* diff_pos: the hashes our chain and the daemon's share from start on.
Common(start, count) ==
    LET same == { n \in 0 .. count :
                    \A i \in 1 .. n : files.headers[start + i]
                                          = Path[best][start + i] }
    IN CHOOSE n \in same : \A m \in same : m <= n

\* ... and looks back twice as far each time, asking the daemon again, until
\* the chains share a block.
Probe ==
    /\ pc = "probe"
    /\ LET n == Common(work.start, work.count)
           count == IF work.count * 2 < work.start THEN work.count * 2
                    ELSE work.start
           done(start) == [work EXCEPT !.start = start,
                                       !.count = bp.height - start + 1]
       IN IF work.start <= 0
          THEN /\ work' = done(work.start)
               /\ pc' = IF work.start >= 0 THEN "backup" ELSE "failed"
          ELSE IF n > 0
          THEN work' = done(work.start + n) /\ pc' = "backup"
          ELSE /\ work' = [work EXCEPT !.start = work.start - count,
                                       !.count = count]
               /\ pc' = "probe"
    /\ UNCHANGED <<daemonVars, prefetchVars, bp, caught_up, reorg_count, db,
                   tx_counts, diskVars, countVars>>

\* get_raw_blocks: from the raw block files if all are there, else from the
\* daemon by hash.  In order of decreasing height.
RawBlocks(count) ==
    LET heights == [i \in 1 .. count |-> bp.height - i + 1]
    IN IF Range(heights) \subseteq DOMAIN raw
       THEN [i \in 1 .. count |-> raw[heights[i]]]
       ELSE [i \in 1 .. count |-> files.headers[heights[i] + 1]]

Chunk == IF work.count < ChunkSize THEN work.count ELSE ChunkSize

\* One block of backup_blocks, on the scratch state s.
BackupBlock(s, b) ==
    IF ~s.ok \/ b # s.tip \/ s.height \notin DOMAIN disk.undo
    THEN [s EXCEPT !.ok = FALSE]
    ELSE LET r == Fold(BackupTx, [s EXCEPT !.undo = disk.undo[s.height]],
                           Reverse(Txs[b]))
         IN [r EXCEPT !.ok = @ /\ r.undo = <<>>,
                      !.tx_count = @ - Len(Txs[b]),
                      !.height = @ - 1,
                      !.tip = Prev[b],
                      !.counts = Front(@)]

\* backup_blocks on the next chunk: in memory only.
BackupBlocks ==
    /\ pc = "backup" /\ work.count > 0
    /\ \E s \in { Fold(BackupBlock, BackupScratch, RawBlocks(Chunk)) } :
          IF AssertFlushed /\ bp.height >= Chunk /\ s.ok
          THEN /\ bp' = [bp EXCEPT !.height = s.height, !.tip = s.tip,
                                   !.tx_count = s.tx_count, !.cache = s.cache,
                                   !.deletes = s.deletes,
                                   !.touched = s.touched]
               /\ tx_counts' = s.counts
               /\ work' = [work EXCEPT !.count = @ - Chunk]
               /\ pc' = "flush_backup"
          ELSE /\ pc' = "failed"
               /\ UNCHANGED <<bp, tx_counts, work>>
    /\ UNCHANGED <<daemonVars, prefetchVars, caught_up, reorg_count, db,
                   diskVars, countVars>>

\* Mutant of Cut: off by one.
CutTooFew(history, n) ==
    { p \in history : p.tx_num <= n \/ p.hashX \notin bp.touched }

\* history.backup: the touched addresses lose their transactions from n on.
Cut(history, n) ==
    { p \in history : p.tx_num < n \/ p.hashX \notin bp.touched }

\* flush_backup: move the file pointer back, cut the touched histories, and
\* commit.  After the last chunk the prefetcher starts over.
FlushBackup ==
    /\ pc = "flush_backup"
    /\ bp' = [Flushed EXCEPT !.history = Cut(@, bp.tx_count)]
    /\ disk' = [FlushUtxoDb(db) EXCEPT !.history = Cut(@, bp.tx_count)]
    /\ db' = [db EXCEPT !.height = bp.height, !.tip = bp.tip,
                        !.tx_count = bp.tx_count, !.fs_height = bp.height]
    /\ IF work.count > 0
       THEN /\ pc' = "backup"
            /\ UNCHANGED <<prefetchVars, reorg_count>>
       ELSE /\ pc' = "top"
            /\ ResetHeight(bp.height)
            /\ reorg_count' = IF work.after = "forced" THEN 0 ELSE reorg_count
    /\ UNCHANGED <<daemonVars, work, caught_up, tx_counts, files, raw,
                   countVars>>

-----------------------------------------------------------------------------
Process ==
    \/ Start
    \/ FlushNothing \/ FlushFs \/ FlushUtxos
    \/ Top \/ Reopen \/ TakeBlocks \/ AdvanceBlock
    \/ \E needed, flush_utxos \in BOOLEAN : MaybeFlush(needed, flush_utxos)
    \/ Notify
    \/ TakeForcedReorg \/ ForcedRange \/ RealRange \/ Probe
    \/ BackupBlocks \/ FlushBackup
    \/ Exit \/ RestartFailed

Prefetching ==
    \E count \in 1 .. MaxQueue : \E old \in 0 .. count - 1 : Prefetch(count, old)

Next ==
    \/ Process
    \/ Prefetching
    \/ NewBest
    \/ \E count \in 1 .. MaxForced : ForceReorg(count)
    \/ Crash \/ Shutdown

\* The event loop runs every task that can run; nothing makes the daemon grow
\* or the server crash.
Spec == Init /\ [][Next]_vars /\ WF_vars(Process) /\ WF_vars(Prefetching)

-----------------------------------------------------------------------------
(* Safety.                                                                  *)

Coin == [tx : DOMAIN Outs, idx : Nat, tx_num : Nat,
         hashX : UNION { Range(Outs[t]) : t \in DOMAIN Outs } \ {NoX}]

TypeOK ==
    /\ best \in Blocks /\ prior_best \in Blocks
    /\ cached_height \in Int /\ fetched_height \in Int
    /\ queue \in Seq(Blocks)
    /\ pc \in {"down", "failed", "top", "wait", "advance", "advanced", "notify",
              "flush", "flush_utxos", "reopen", "exit", "forced", "reorg",
              "probe", "backup", "flush_backup"}
    /\ bp.tip \in Tips /\ bp.cache \subseteq Coin /\ bp.height \in Int
    /\ db.tip \in Tips /\ disk.state.tip \in Tips /\ told \in Tips
    /\ DOMAIN disk.undo \subseteq Nat /\ DOMAIN raw \subseteq Nat

\* The committed databases are exactly the index of the committed tip's
\* chain, whatever crash, shutdown or reorganisation led to them: the height
\* and transaction count, both UTXO tables, and the address histories.
TablesMatchTip ==
    LET tip == disk.state.tip
        h == { HKey(c) : c \in Unspent[tip] }
    IN /\ disk.state.height = Height(tip)
       /\ disk.state.tx_count = TxCount(tip)
       /\ disk.h = h
       /\ disk.u = { UKey(k) : k \in h }
       /\ disk.history = Touches[tip]

\* Up to the committed height the metadata files are those of the committed
\* tip's chain; what lies beyond is never read (flush_fs, backup_fs).
FilesMatchTip ==
    LET tip == disk.state.tip
    IN /\ SubSeq(files.headers, 1, Len(Path[tip])) = Path[tip]
       /\ SubSeq(files.tx_counts, 1, Len(Path[tip])) = TxCounts[tip]
       /\ SubSeq(files.hashes, 1, TxCount(tip)) = ChainTxs[tip]

\* The UTXO database seen through the cache is the UTXO set of the in-memory
\* tip, also in the middle of a batch, a flush or a reorganisation
\* (spend_utxo, backup_txs).
CacheMatchesTip ==
    pc \notin {"down", "failed"} =>
        /\ (disk.h \ bp.deletes) \cup { HKey(c) : c \in bp.cache }
               = { HKey(c) : c \in Unspent[bp.tip] }
        /\ tx_counts = TxCounts[bp.tip]

\* Every block that the daemon may still replace can be undone: its undo
\* information is on disk, and it is this block's, not that of a block which
\* had the height before (min_undo_height, flush_undo_infos).  A block can be
\* replaced if it is among the last ReorgLimit ones below the daemon's height.
UndoAvailable ==
    pc \notin {"down", "failed"} =>
        \A h \in 0 .. disk.state.height :
            h > cached_height - ReorgLimit =>
                /\ h \in DOMAIN disk.undo
                /\ disk.undo[h] = SpentOutputs[Path[disk.state.tip][h + 1]]

\* What is committed is right as a whole, so that a restart finds it: tables,
\* files and the undo information (flush_dbs, flush_backup, open_db).
DiskMatchesTip == TablesMatchTip /\ FilesMatchTip /\ UndoAvailable

\* No assertion fails and no ChainError or DBError is raised.
NoFailure == pc # "failed"

\* When the block processor announces a block, the touched set has every
\* address whose confirmed history differs from the one at the previous
\* announcement, those of undone blocks included (check_and_advance_blocks).
TouchedCoversChanges ==
    pc = "notify" /\ caught_up =>
        \A e \in (Confirmed[told] \ Confirmed[bp.tip])
                     \cup (Confirmed[bp.tip] \ Confirmed[told]) :
            e[1] \in bp.touched

\* Once the daemon stops changing, the index on disk is that of its chain, and
\* clients are served.
EventuallySynced == <>[](caught_up /\ disk.state.tip = best)

-----------------------------------------------------------------------------
(* What comments, docstrings and assertions of the code say and the code    *)
(* does not keep (README, section 4).                                       *)

\* _first_caught_up: "Flush everything but with first_sync->False state."
FirstSyncCleared == caught_up => ~db.first_sync

\* fetch_and_process_blocks: "shuts down cleanly if cancelled".
ShutdownIsClean == work.after = "exit" => pc # "failed"

\* backup_blocks: assert self.height >= len(raw_blocks).
BackupKeepsGenesis == pc = "backup" => bp.height >= Chunk
=============================================================================
