------------------------------ MODULE Mempool ------------------------------
(***************************************************************************)
(* The mirror of the daemon's mempool (class MemPool): a refresh asks for  *)
(* the hashes, removes what has gone, fetches what is new in concurrent    *)
(* tasks, accepts a transaction once all its inputs are known and defers   *)
(* it otherwise, while the daemon's mempool, its chain and the UTXO        *)
(* database move.                                                          *)
(*                                                                         *)
(* The transactions and what they spend and create are constants, so a     *)
(* MemPoolTx is its hash: in_pairs is determined by the prevouts.          *)
(***************************************************************************)
EXTENDS Integers, Sequences, FiniteSets, FiniteSetsExt, SequencesExt, Functions

CONSTANTS
    Tx,            \* transactions that are or were in the daemon's mempool
    Prevouts,      \* [Tx -> set of outpoints <<Tx or Coin, index>>]
    Coins,         \* set of outpoints confirmed and unspent from the beginning
    Pairs,         \* [outpoint -> [hashX, value]], of all outpoints
    ChunkSize,     \* transactions fetched by one task, 200 in the code
    MaxBlocks,     \* bound on mined blocks
    MaxEvictions,  \* bound on evictions by the daemon
    PromptTasks    \* do tasks abandoned by a refresh end before the next one

HashXs == { Pairs[p].hashX : p \in DOMAIN Pairs }
Outs(t) == { p \in DOMAIN Pairs : p[1] = t }
Addresses(t) == { Pairs[p].hashX : p \in Prevouts[t] \cup Outs(t) }

MempoolAssumption ==
    /\ \A t \in Tx : Prevouts[t] \subseteq DOMAIN Pairs /\ Prevouts[t] # {}
    /\ \A t \in Tx : \A p \in Prevouts[t] : p[1] \in Tx \/ p \in Coins
    /\ Coins \subseteq DOMAIN Pairs
    /\ ChunkSize \in Nat \ {0}
    /\ PromptTasks \in BOOLEAN

VARIABLES
    \* the daemon (external) and the UTXO database behind it
    pool, mined,     \* its mempool; its blocks, as sets of transactions
    cached,          \* its height when last asked by anyone
    db_height,       \* blocks indexed
    evicted,         \* transactions it dropped without mining them
    \* the MemPool object
    txs, hashXs,     \* accepted transactions; pairs <<hashX, tx>>
    touched,
    histogram,       \* is the fee histogram being computed, in a thread
    rf,              \* the refresh: its step, height, hashes and generation of touched
    tasks,           \* fetches in flight
    gathered,        \* <<deferred transactions, outpoints found for them>>
    \* ghosts
    owed,            \* addresses of changes not announced yet
    gone,            \* transactions removed since the last announcement
    quiet            \* neither daemon nor database moved since the refresh began

ext == <<pool, mined, cached, db_height, evicted>>
mem == <<txs, hashXs, touched, owed, gone>>
vars == <<pool, mined, cached, db_height, evicted, txs, hashXs, touched, histogram,
          rf, tasks, gathered, owed, gone, quiet>>

Confirmed(n) == UNION { mined[i] : i \in 1 .. n }

\* lookup_utxos: unspent outpoints of the database after n blocks.
Utxos(n) == (Coins \cup UNION { Outs(t) : t \in Confirmed(n) })
            \ UNION { Prevouts[t] : t \in Confirmed(n) }

Init ==
    /\ pool = {} /\ mined = <<>> /\ cached = 0 /\ db_height = 0 /\ evicted = {}
    /\ txs = {} /\ hashXs = {} /\ touched = {} /\ histogram = FALSE
    /\ rf = [pc |-> "start", height |-> 0, hashes |-> {}, gen |-> 0]
    /\ tasks = {} /\ gathered = <<{}, {}>>
    /\ owed = {} /\ gone = {} /\ quiet = TRUE

-----------------------------------------------------------------------------
(* The daemon, external, and the block processor behind it.                 *)

Parents(t) == { p[1] : p \in Prevouts[t] } \cap Tx
Alive == pool \cup Confirmed(Len(mined))

DaemonAccepts(t) ==
    /\ t \notin Alive /\ Parents(t) \subseteq Alive
    /\ \A u \in Alive : Prevouts[u] \cap Prevouts[t] = {}
    /\ pool' = pool \cup {t}
    /\ quiet' = FALSE
    /\ UNCHANGED <<mined, cached, db_height, evicted, mem, histogram, rf, tasks, gathered>>

DaemonEvicts(t) ==
    /\ t \in pool /\ Cardinality(evicted) < MaxEvictions /\ evicted' = evicted \cup {t}
    /\ ~ \E u \in pool : t \in Parents(u)
    /\ pool' = pool \ {t}
    /\ quiet' = FALSE
    /\ UNCHANGED <<mined, cached, db_height, mem, histogram, rf, tasks, gathered>>

DaemonMines(S) ==
    /\ Len(mined) < MaxBlocks
    /\ \A t \in S : Parents(t) \cap pool \subseteq S
    /\ mined' = Append(mined, S) /\ pool' = pool \ S
    /\ quiet' = FALSE
    /\ UNCHANGED <<cached, db_height, evicted, mem, histogram, rf, tasks, gathered>>

\* The prefetcher polls the height; the flush thread moves db_height at any time.
HeightPolled ==
    /\ cached # Len(mined) /\ cached' = Len(mined)
    /\ UNCHANGED <<pool, mined, db_height, evicted, mem, histogram, rf, tasks, gathered, quiet>>

BlockIndexed ==
    /\ db_height < cached /\ db_height' = db_height + 1
    /\ quiet' = FALSE
    /\ UNCHANGED <<pool, mined, cached, evicted, mem, histogram, rf, tasks, gathered>>

-----------------------------------------------------------------------------
(* Accepting transactions.                                                  *)

\* Every prevout is an outpoint found in the database or of an accepted parent.
Resolved(t, found, accepted) ==
    \A p \in Prevouts[t] : p \in found \/ p[1] \in accepted

\* One pass over a map of transactions in its order: a parent accepted earlier in
\* the pass counts for a child later in it.
AcceptPass(order, found, accepted) ==
    LET earlier(ok, i) == { order[j] : j \in { n \in 1 .. i - 1 : ok[n] } }
        passes[i \in DOMAIN order] == Resolved(order[i], found, accepted \cup earlier(passes, i))
    IN  accepted \cup { order[i] : i \in { n \in DOMAIN order : passes[n] } }

\* Mutant of AcceptRounds: the deferred transactions are passed over once only.
AcceptRoundsOnce(pending, found, accepted) ==
    accepted \cup { t \in pending : Resolved(t, found, accepted) }

\* Passes over the deferred transactions until one accepts nothing: the least set that
\* holds whatever is resolved with its help.
AcceptRounds(pending, found, accepted) ==
    LET closed == { S \in SUBSET pending :
                      \A t \in pending : Resolved(t, found, accepted \cup S) => t \in S }
    IN  accepted \cup { t \in pending : \A S \in closed : t \in S }

Index(new) == UNION { { <<x, t>> : x \in Addresses(t) } : t \in new }

\* The effect of accepting the transactions `new` in a refresh of generation gen:
\* the touched set of an earlier generation was handed over already.
Accept(new, gen) ==
    /\ txs' = txs \cup new
    /\ hashXs' = hashXs \cup Index(new)
    /\ touched' = IF gen = rf.gen THEN touched \cup UNION { Addresses(t) : t \in new }
                  ELSE touched
    /\ owed' = owed \cup UNION { Addresses(t) : t \in new \ txs }
    /\ UNCHANGED gone

-----------------------------------------------------------------------------
(* The refresh loop.                                                        *)

At(step) == rf.pc = step
Goto(step) == rf' = [rf EXCEPT !.pc = step]

\* Mutant of ReadHeight: the height is read before the loop only.
ReadHeightOnce ==
    /\ At("start") /\ (PromptTasks => tasks = {})
    /\ Goto("hashes")
    /\ quiet' = TRUE
    /\ UNCHANGED <<ext, mem, histogram, tasks, gathered>>

ReadHeight ==
    /\ At("start") /\ (PromptTasks => tasks = {})
    /\ rf' = [rf EXCEPT !.pc = "hashes", !.height = cached]
    /\ quiet' = TRUE
    /\ UNCHANGED <<ext, mem, histogram, tasks, gathered>>

GetHashes ==
    /\ At("hashes")
    /\ rf' = [rf EXCEPT !.pc = "height", !.hashes = pool]
    /\ UNCHANGED <<ext, mem, histogram, tasks, gathered, quiet>>

\* The height must not have changed while the hashes were fetched.
CheckHeight ==
    /\ At("height")
    /\ cached' = Len(mined)
    /\ Goto(IF rf.height = Len(mined) THEN "lock" ELSE "start")
    /\ UNCHANGED <<pool, mined, db_height, evicted, mem, histogram, tasks, gathered, quiet>>

\* The refresh holds self.lock in these steps, the histogram while it is computed.
Locked == rf.pc \in {"process", "spawned", "gather"}

\* Mutant of TakeLock: the histogram is not waited for.
TakeLockAnyway ==
    /\ At("lock")
    /\ Goto("process")
    /\ UNCHANGED <<ext, mem, histogram, tasks, gathered, quiet>>

TakeLock ==
    /\ At("lock") /\ ~histogram
    /\ Goto("process")
    /\ UNCHANGED <<ext, mem, histogram, tasks, gathered, quiet>>

\* DBSyncError before anything was done.
NotSynced ==
    /\ At("process") /\ rf.height # db_height
    /\ Goto("start")
    /\ UNCHANGED <<ext, mem, histogram, tasks, gathered, quiet>>

Chunkings(S) ==
    { P \in SUBSET { c \in SUBSET S : c # {} /\ Cardinality(c) <= ChunkSize } :
        /\ UNION P = S /\ \A c, d \in P : c = d \/ c \cap d = {}
        /\ Cardinality({ c \in P : Cardinality(c) < ChunkSize }) <= 1 }

\* What has disappeared is taken out; its addresses are touched.
TouchRemoved(old) == touched \cup UNION { Addresses(t) : t \in old }

\* Fetches are spawned for what is new.
Process ==
    /\ At("process") /\ rf.height = db_height
    /\ LET old == txs \ rf.hashes
           new == rf.hashes \ txs
       IN /\ txs' = txs \ old
          /\ hashXs' = { e \in hashXs : e[2] \notin old }
          /\ touched' = TouchRemoved(old)
          /\ owed' = owed \cup UNION { Addresses(t) : t \in old }
          /\ gone' = gone \cup old
          /\ \E chunking \in Chunkings(new) :
               tasks' = tasks \cup { [pc |-> "fetch", hashes |-> c, found |-> {},
                                      all |-> rf.hashes, gen |-> rf.gen, live |-> TRUE] :
                                     c \in chunking }
          /\ Goto(IF new = {} THEN "announce" ELSE "spawned")
    /\ gathered' = <<{}, {}>>
    /\ UNCHANGED <<ext, histogram, quiet>>

\* Spawning does not yield to other tasks, but the flush thread may move db_height.
\* DBSyncError then: the spawned tasks run on without the refresh.
Abandon ==
    /\ At("spawned") /\ rf.height # db_height
    /\ Goto("start")
    /\ tasks' = { [k EXCEPT !.live = FALSE] : k \in tasks }
    /\ UNCHANGED <<ext, mem, histogram, gathered, quiet>>

Await ==
    /\ At("spawned") /\ rf.height = db_height
    /\ Goto("gather")
    /\ UNCHANGED <<ext, mem, histogram, tasks, gathered, quiet>>

\* getrawtransaction: nothing for a transaction evicted, nor (without an index in
\* the daemon) for a mined one.
Fetch(k) ==
    /\ k.pc = "fetch" /\ ~At("spawned")
    /\ tasks' = (tasks \ {k}) \cup {[k EXCEPT !.pc = "lookup", !.hashes = @ \cap pool]}
    /\ UNCHANGED <<ext, mem, histogram, rf, gathered, quiet>>

\* Prevouts that are not of mempool transactions are looked up in the database.
Lookup(k) ==
    /\ k.pc = "lookup"
    /\ LET prevouts == { p \in UNION { Prevouts[t] : t \in k.hashes } : p[1] \notin k.all }
       IN tasks' = (tasks \ {k})
                   \cup {[k EXCEPT !.pc = "accept", !.found = prevouts \cap Utxos(db_height)]}
    /\ UNCHANGED <<ext, mem, histogram, rf, gathered, quiet>>

\* The end of a task: what can be accepted is, the rest is left to the refresh,
\* if it still waits.
AcceptFetched(k) ==
    /\ k.pc = "accept" /\ ~At("spawned") /\ tasks' = tasks \ {k}
    /\ \E order \in SetToSeqs(k.hashes) :
         LET acc == AcceptPass(order, k.found, txs) \ txs
             spent == UNION { Prevouts[t] : t \in acc }
         IN /\ Accept(acc, k.gen)
            /\ gathered' = IF k.live
                           THEN <<gathered[1] \cup (k.hashes \ (acc \cup txs)),
                                  gathered[2] \cup (k.found \ spent)>>
                           ELSE gathered
    /\ UNCHANGED <<ext, histogram, rf, quiet>>

\* All tasks are done: the deferred transactions are tried together, and those
\* that still miss an input are dropped until a later refresh.
Gather ==
    /\ At("gather") /\ ~ \E k \in tasks : k.live
    /\ Accept(AcceptRounds(gathered[1], gathered[2], txs) \ txs, rf.gen)
    /\ gathered' = <<{}, {}>>
    /\ Goto("announce")
    /\ UNCHANGED <<ext, histogram, tasks, quiet>>

\* on_mempool(touched, height), and a new touched set.
Announce ==
    /\ At("announce")
    /\ rf' = [rf EXCEPT !.pc = "start", !.gen = 1 - @]
    /\ owed' = owed \ touched /\ touched' = {} /\ gone' = {}
    /\ UNCHANGED <<ext, txs, hashXs, histogram, tasks, gathered, quiet>>

\* _update_histogram iterates over txs in a thread, under the lock.
HistogramBegins ==
    /\ ~histogram /\ ~Locked /\ (PromptTasks => tasks = {})
    /\ histogram' = TRUE
    /\ UNCHANGED <<ext, mem, rf, tasks, gathered, quiet>>

HistogramEnds ==
    /\ histogram /\ histogram' = FALSE
    /\ UNCHANGED <<ext, mem, rf, tasks, gathered, quiet>>

External ==
    \/ \E t \in Tx : DaemonAccepts(t) \/ DaemonEvicts(t)
    \/ \E S \in SUBSET pool : DaemonMines(S)
    \/ HistogramBegins

Refresh ==
    \/ ReadHeight \/ GetHashes \/ CheckHeight \/ TakeLock \/ NotSynced \/ Process
    \/ Abandon \/ Await \/ Gather \/ Announce

Task == \E k \in tasks : Fetch(k) \/ Lookup(k) \/ AcceptFetched(k)

Next == External \/ HeightPolled \/ BlockIndexed \/ Refresh \/ Task \/ HistogramEnds

\* The event loop runs every ready task; the refresh gets the lock in its turn
\* (an asyncio.Lock is fair); the daemon need not do anything.
Spec == /\ Init /\ [][Next]_vars
        /\ WF_vars(HeightPolled) /\ WF_vars(BlockIndexed) /\ WF_vars(Task)
        /\ WF_vars(Refresh) /\ SF_vars(TakeLock) /\ WF_vars(HistogramEnds)

-----------------------------------------------------------------------------
(* The external interface.                                                  *)

TxsOf(x) == { t \in txs : <<x, t>> \in hashXs }

balance_delta(x) ==
    LET of(S) == FoldSet(LAMBDA p, v : IF Pairs[p].hashX = x THEN v + Pairs[p].value ELSE v, 0, S)
    IN FoldSet(LAMBDA t, v : v + of(Outs(t)) - of(Prevouts[t]), 0, TxsOf(x))

potential_spends(x) == UNION { Prevouts[t] : t \in TxsOf(x) }

transaction_summaries(x) ==
    { [hash |-> t, has_unconfirmed_inputs |-> \E p \in Prevouts[t] : p[1] \in txs] :
        t \in TxsOf(x) }

unordered_UTXOs(x) == { p \in UNION { Outs(t) : t \in TxsOf(x) } : Pairs[p].hashX = x }

-----------------------------------------------------------------------------
TypeOK ==
    /\ pool \subseteq Tx /\ mined \in Seq(SUBSET Tx)
    /\ cached \in 0 .. MaxBlocks /\ db_height \in 0 .. cached
    /\ txs \subseteq Tx /\ hashXs \subseteq HashXs \X Tx /\ touched \subseteq HashXs
    /\ histogram \in BOOLEAN
    /\ rf \in [pc : {"start", "hashes", "height", "lock", "process", "spawned",
                     "gather", "announce"},
               height : 0 .. MaxBlocks, hashes : SUBSET Tx, gen : {0, 1}]
    /\ \A k \in tasks : k.pc \in {"fetch", "lookup", "accept"} /\ k.hashes \subseteq Tx
    /\ owed \subseteq HashXs /\ gone \subseteq Tx

\* What the four queries answer from the address index is what the accepted
\* transactions say: no spend of an address is missing from potential_spends, and
\* balances and unconfirmed outputs are those of all transactions.
QueriesExact ==
    \A x \in HashXs :
      /\ balance_delta(x) =
           LET value(S) == MapThenSumSet(LAMBDA p : IF Pairs[p].hashX = x
                                                    THEN Pairs[p].value ELSE 0, S)
           IN value(UNION { Outs(t) : t \in txs }) - value(UNION { Prevouts[t] : t \in txs })
      /\ { p \in UNION { Prevouts[t] : t \in txs } : Pairs[p].hashX = x }
           \subseteq potential_spends(x)
      /\ unordered_UTXOs(x) = { p \in UNION { Outs(t) : t \in txs } : Pairs[p].hashX = x }
      /\ { s.hash : s \in transaction_summaries(x) } = { t \in txs : x \in Addresses(t) }

\* A refresh during which nothing moved and for which the database was up to date
\* ends with exactly the daemon's mempool:
\* parents and children fetched by different tasks, in any order, are all accepted.
RefreshComplete ==
    (At("announce") /\ quiet /\ db_height = Len(mined)) => txs = rf.hashes /\ txs = pool

\* The index does not change while the fee histogram is computed from it.
HistogramUndisturbed == [][histogram => UNCHANGED <<txs, hashXs>>]_vars

\* The index agrees with the transactions, and whoever reads them under the lock finds
\* them unchanged (_process_mempool, _update_histogram).
MirrorExact == []QueriesExact /\ HistogramUndisturbed

\* Every address of a transaction that came or went is in the touched set that
\* the refresh will hand over (touched accumulates between calls to on_mempool).
ChangesAnnounced == owed \subseteq touched

\* A transaction that left the mempool because it was mined (and only so) is announced by a
\* refresh of the height of its block or a later one, so that the notification
\* can be joined with that of the block.
NotBeforeItsBlock ==
    At("announce") =>
        \A t \in gone \ (txs \cup evicted) : \A n \in 1 .. Len(mined) : t \in mined[n] => n <= rf.height

\* What came or went is announced, and not before its block (_refresh_hashes).
AnnouncedInTime == ChangesAnnounced /\ NotBeforeItsBlock

\* A refresh takes in all there is and hands over all that changed (_refresh_hashes).
RefreshRight == RefreshComplete /\ AnnouncedInTime

\* When the daemon is quiet the mirror becomes exact and stays so, also after
\* transactions were dropped because a parent was mined during the refresh.
EventuallyMirrors == <>[](txs = pool)
=============================================================================
