------------------------------ MODULE MCMempool ------------------------------
(***************************************************************************)
(* The mempool and what is told of it: the refresh, the compact histogram   *)
(* of fees, and the joining of mempool and block notifications.  Each is    *)
(* checked against an environment of its own; `part' says which one a       *)
(* behaviour is about, the others stay as they began.                       *)
(***************************************************************************)
EXTENDS Notifications, TLC

CONSTANTS
    Parts,
    Tx, Prevouts, Coins, Pairs, ChunkSize, MaxBlocks, MaxEvictions, PromptTasks  \* those of Mempool

VARIABLES
    part,
    pool, mined, cached, mp_height, evicted, txs, hashXs, touched, histogram, rf, tasks,
    gathered, owed, gone, quiet,
    ordered_txs, compact, updated

mempool == <<pool, mined, cached, mp_height, evicted, txs, hashXs, touched, histogram, rf,
             tasks, gathered, owed, gone, quiet>>
fees == <<ordered_txs, compact, updated>>

Mp == INSTANCE Mempool WITH db_height <- mp_height

\* A chain of three transactions, the last of which also spends a coin.
MCPrevouts == "t1" :> {<<"coin", 0>>} @@ "t2" :> {<<"t1", 0>>}
              @@ "t3" :> {<<"t2", 0>>, <<"coin", 1>>}
MCCoins == {<<"coin", 0>>, <<"coin", 1>>}
MCPairs == <<"coin", 0>> :> [hashX |-> "x", value |-> 7]
           @@ <<"coin", 1>> :> [hashX |-> "y", value |-> 5]
           @@ <<"t1", 0>> :> [hashX |-> "x", value |-> 3]
           @@ <<"t1", 1>> :> [hashX |-> "y", value |-> 2]
           @@ <<"t2", 0>> :> [hashX |-> "y", value |-> 1]
           @@ <<"t3", 0>> :> [hashX |-> "x", value |-> 4]

\* Sizes below, at and above the bin and twice the bin, and rates that end off
\* a tenth.
Hg == INSTANCE Histogram WITH
    Tx <- [fee : {0, 16, 23}, size : {3, 10, 11, 24}], bin_size <- 10, MaxTxs <- 4,
    txs <- ordered_txs

\* Two addresses; a block or a refresh touches one of them or none.
MCTouches == {{}} \cup { {x} : x \in HashX }

ASSUME PoolAssumption ==
    Mp!MempoolAssumption /\ Hg!HistogramAssumption /\ NotificationsAssumption

-----------------------------------------------------------------------------
PoolInit == part \in Parts /\ Mp!Init /\ Hg!Init /\ Init

PoolNext ==
    /\ UNCHANGED part
    /\ \/ part = "mempool" /\ Mp!Next /\ UNCHANGED <<fees, vars>>
       \/ part = "histogram" /\ Hg!Next /\ UNCHANGED <<mempool, vars>>
       \/ part = "notifications" /\ Next /\ UNCHANGED <<mempool, fees>>

\* The fairness of Mempool and of Notifications, see there.
PoolFairness ==
    /\ WF_mempool(part = "mempool" /\ Mp!HeightPolled)
    /\ WF_mempool(part = "mempool" /\ Mp!BlockIndexed)
    /\ WF_mempool(part = "mempool" /\ Mp!Task)
    /\ WF_mempool(part = "mempool" /\ Mp!Refresh)
    /\ SF_mempool(part = "mempool" /\ Mp!TakeLock)
    /\ WF_mempool(part = "mempool" /\ Mp!HistogramEnds)
    /\ WF_vars(part = "notifications" /\ \E S \in Touches : AdvanceAndFlush(S))
    /\ WF_vars(part = "notifications" /\ OnBlock)
    /\ WF_vars(part = "notifications" /\ \E S \in Touches : RefreshBegin(S))
    /\ WF_vars(part = "notifications" /\ \E S \in Touches : RefreshAccepts(S))
    /\ WF_vars(part = "notifications" /\ RefreshFails)
    /\ WF_vars(part = "notifications" /\ OnMempool)

Pool == PoolInit /\ [][PoolNext]_<<part, mempool, fees, vars>> /\ PoolFairness

-----------------------------------------------------------------------------
(* BlockTouchesKept is that of Notifications.                               *)

\* _process_mempool, _update_histogram: the index agrees with the transactions, and
\* neither changes under the thread that reads them.
MirrorExact == Mp!MirrorExact

\* _refresh_hashes: a refresh that nothing disturbed ends with exactly the daemon's mempool,
\* and what came or went is announced, not before its block.
RefreshRight == Mp!RefreshRight

\* _refresh_hashes: when the daemon is quiet, the mirror becomes exact.
EventuallyMirrors == part = "mempool" => Mp!EventuallyMirrors

\* _compress_histogram: every transaction that fills a bin is in the tranche of
\* its rate.
HistogramRight == Hg!HistogramRight

\* _maybe_notify: every address touched by a block is told in the end, and
\* heights told go up.
AllTold == (part = "notifications" => EventuallyTold) /\ HeightsAdvance
=============================================================================
