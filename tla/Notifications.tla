--------------------------- MODULE Notifications ---------------------------
(***************************************************************************)
(* How the two sources of address notifications, new blocks and mempool    *)
(* refreshes, are joined by height before clients are told (class          *)
(* Notifications), driven by the block processor and by the mempool as     *)
(* concurrent tasks.                                                       *)
(*                                                                         *)
(* A block is represented by the set of addresses it touches.  The point   *)
(* between "db_height is set" (in the flush thread) and on_block is        *)
(* bp_pc = "flushed"; the point between the end of a mempool refresh and   *)
(* on_mempool is refresh.done.                                             *)
(***************************************************************************)
EXTENDS Integers, FiniteSets, Sequences, FiniteSetsExt

CONSTANTS
    HashX,      \* addresses
    Touches,    \* the sets of addresses one block or refresh may touch
    MaxHeight,  \* bound on the height of the chain
    MaxReorgs,  \* reorganisations while a block's addresses are untold
    EarlyRefresh \* may a refresh end between a flush and its on_block

NotificationsAssumption ==
    /\ MaxHeight \in Nat /\ MaxReorgs \in Nat
    /\ EarlyRefresh \in BOOLEAN
    /\ Touches \subseteq SUBSET HashX

VARIABLES
    touched_mp, touched_bp,   \* [heights -> sets of addresses], partial
    highest_block,
    chain,            \* the indexed blocks; db_height = Len(chain) - 1
    daemon_height,
    bp_touched, bp_pc,
    mp_touched,       \* accumulates between calls of on_mempool
    refresh,          \* the refresh in progress, if any
    owed_bp, owed_mp, \* addresses changed by blocks, and by the mempool, since
                      \* clients were last told of them
    told,             \* height of the last notification
    reorgs            \* reorganisations since nothing was owed

notif == <<touched_mp, touched_bp, highest_block>>
vars == <<touched_mp, touched_bp, highest_block, chain, daemon_height, bp_touched,
          bp_pc, mp_touched, refresh, owed_bp, owed_mp, told, reorgs>>

db_height == Len(chain) - 1
Idle == [height |-> -1, done |-> FALSE]

Init ==
    /\ touched_mp = <<>> /\ touched_bp = <<>>
    /\ chain = <<{}>> /\ daemon_height = 0
    /\ highest_block = 0 /\ told = 0          \* start(height, notify_func)
    /\ bp_touched = {} /\ bp_pc = "idle"
    /\ mp_touched = {} /\ refresh = Idle
    /\ owed_bp = {} /\ owed_mp = {} /\ reorgs = 0

-----------------------------------------------------------------------------
(* The joining of the two sources.                                          *)

\* Mutant of Deliver: older block notifications are discarded with the rest.
DeliverDropsOlder(tmp, tbp, height) ==
    tmp[height] \cup (IF height \in DOMAIN tbp THEN tbp[height] ELSE {})

\* The addresses a notification at the given height carries.
Deliver(tmp, tbp, height) ==
    tmp[height] \cup (UNION { tbp[h] : h \in { g \in DOMAIN tbp : g <= height } })

Above(f, height) == [h \in { g \in DOMAIN f : g > height } |-> f[h]]

\* Mutant of NotifyHeight: joins one height below the last block only.
NotifyHeightCommon(tmp, tbp, highest) ==
    LET common == (DOMAIN tmp \cap DOMAIN tbp) \cap {highest - 1}
    IN IF common # {} THEN {Max(common)} ELSE {}

\* The height to notify at, if any.
NotifyHeight(tmp, tbp, highest) ==
    LET common == DOMAIN tmp \cap DOMAIN tbp
    IN IF common # {} THEN {Max(common)}
       ELSE IF tmp # <<>> /\ Max(DOMAIN tmp) = highest THEN {highest} ELSE {}

MaybeNotify(tmp, tbp, highest) ==
    LET due == NotifyHeight(tmp, tbp, highest)
    IN \/ /\ due = {}
          /\ touched_mp' = tmp /\ touched_bp' = tbp
          /\ UNCHANGED <<owed_bp, owed_mp, told, reorgs>>
       \/ \E height \in due :
            /\ touched_mp' = Above(tmp, height)
            /\ touched_bp' = Above(tbp, height)
            /\ owed_bp' = owed_bp \ Deliver(tmp, tbp, height)
            /\ owed_mp' = owed_mp \ Deliver(tmp, tbp, height)
            /\ told' = height
            /\ reorgs' = IF owed_bp' = {} THEN 0 ELSE reorgs

Put(f, h, S) == [g \in DOMAIN f \cup {h} |-> IF g = h THEN S ELSE f[g]]

-----------------------------------------------------------------------------
(* The block processor, once caught up: every batch is flushed before it is *)
(* announced.                                                               *)

AdvanceAndFlush(S) ==
    /\ bp_pc = "idle" /\ db_height < daemon_height
    /\ chain' = Append(chain, S)
    /\ bp_touched' = bp_touched \cup S
    /\ owed_bp' = owed_bp \cup S
    /\ bp_pc' = "flushed"
    /\ UNCHANGED <<notif, daemon_height, mp_touched, refresh, owed_mp, told, reorgs>>

OnBlock ==
    /\ bp_pc = "flushed" /\ bp_pc' = "idle"
    /\ highest_block' = db_height
    /\ MaybeNotify(touched_mp, Put(touched_bp, db_height, bp_touched), db_height)
    /\ bp_touched' = {}
    /\ UNCHANGED <<chain, daemon_height, mp_touched, refresh>>

\* A reorganisation undoes n blocks; their addresses stay in touched until the
\* first batch of the new branch is announced.
BackupBlocks(n) ==
    /\ bp_pc = "idle" /\ n < Len(chain) /\ db_height <= daemon_height
    /\ reorgs < MaxReorgs /\ reorgs' = reorgs + 1
    /\ LET undone == UNION { chain[i] : i \in Len(chain) - n + 1 .. Len(chain) }
       IN bp_touched' = bp_touched \cup undone /\ owed_bp' = owed_bp \cup undone
    /\ chain' = SubSeq(chain, 1, Len(chain) - n)
    /\ UNCHANGED <<notif, daemon_height, bp_pc, mp_touched, refresh, owed_mp, told>>

-----------------------------------------------------------------------------
(* The mempool refreshes.                                                   *)

\* The height is that of the daemon before and after the hashes were asked for,
\* and that of the database.
RefreshBegin(S) ==
    /\ refresh = Idle /\ daemon_height = db_height
    /\ refresh' = [height |-> db_height, done |-> FALSE]
    /\ mp_touched' = mp_touched \cup S
    /\ owed_mp' = owed_mp \cup S
    /\ UNCHANGED <<notif, chain, daemon_height, bp_touched, bp_pc, owed_bp, told, reorgs>>

\* DBSyncError: what was touched so far is kept for the next refresh.
RefreshFails ==
    /\ refresh # Idle /\ ~refresh.done /\ refresh.height # db_height
    /\ refresh' = Idle
    /\ UNCHANGED <<notif, chain, daemon_height, bp_touched, bp_pc, mp_touched,
                   owed_bp, owed_mp, told, reorgs>>

\* The new transactions are accepted; the height is not looked at again.
RefreshAccepts(S) ==
    /\ refresh # Idle /\ ~refresh.done
    /\ refresh' = [refresh EXCEPT !.done = TRUE]
    /\ mp_touched' = mp_touched \cup S
    /\ owed_mp' = owed_mp \cup S
    /\ UNCHANGED <<notif, chain, daemon_height, bp_touched, bp_pc, owed_bp, told, reorgs>>

OnMempool ==
    /\ refresh.done /\ (EarlyRefresh \/ bp_pc = "idle")
    /\ MaybeNotify(Put(touched_mp, refresh.height, mp_touched), touched_bp, highest_block)
    /\ mp_touched' = {} /\ refresh' = Idle
    /\ UNCHANGED <<highest_block, chain, daemon_height, bp_touched, bp_pc>>

\* External: the daemon's best chain grows.
DaemonAdvances ==
    /\ daemon_height < MaxHeight
    /\ daemon_height' = daemon_height + 1
    /\ UNCHANGED <<notif, chain, bp_touched, bp_pc, mp_touched, refresh, owed_bp,
                   owed_mp, told, reorgs>>

Next ==
    \/ \E S \in Touches :
         AdvanceAndFlush(S) \/ RefreshBegin(S) \/ RefreshAccepts(S)
    \/ \E n \in 1 .. MaxHeight : BackupBlocks(n)
    \/ OnBlock \/ RefreshFails \/ OnMempool \/ DaemonAdvances

\* The processor and the mempool poll for ever; nothing forces the daemon.
Fairness ==
    /\ WF_vars(\E S \in Touches : AdvanceAndFlush(S))
    /\ WF_vars(OnBlock)
    /\ WF_vars(\E S \in Touches : RefreshBegin(S))
    /\ WF_vars(\E S \in Touches : RefreshAccepts(S))
    /\ WF_vars(RefreshFails)
    /\ WF_vars(OnMempool)

Spec == Init /\ [][Next]_vars /\ Fairness

-----------------------------------------------------------------------------
PartialMap == UNION { [D -> SUBSET HashX] : D \in SUBSET (0 .. MaxHeight) }

TypeOK ==
    /\ touched_mp \in PartialMap /\ touched_bp \in PartialMap
    /\ highest_block \in 0 .. MaxHeight /\ told \in 0 .. MaxHeight
    /\ chain \in Seq(SUBSET HashX) /\ chain # <<>> /\ daemon_height \in 0 .. MaxHeight
    /\ bp_touched \subseteq HashX /\ bp_pc \in {"idle", "flushed"}
    /\ mp_touched \subseteq HashX
    /\ refresh \in [height : -1 .. MaxHeight, done : BOOLEAN]
    /\ owed_bp \subseteq HashX /\ owed_mp \subseteq HashX /\ reorgs \in 0 .. MaxReorgs

Pending == bp_touched \cup mp_touched
           \cup (UNION { touched_mp[h] : h \in DOMAIN touched_mp })
           \cup (UNION { touched_bp[h] : h \in DOMAIN touched_bp })

\* An address touched by a block, or by the undoing of one, is held by one of
\* the touched sets until clients are told of it, whatever refreshes arrive late,
\* early or repeatedly, and across one reorganisation (on_block, _maybe_notify).
BlockTouchesKept == owed_bp \subseteq Pending

\* The same for addresses touched by a mempool refresh: deferring a notification
\* never forgets an address.  This does not hold (README, section 4).
MempoolTouchesKept == owed_mp \subseteq Pending

\* Every address touched by a block is told in the end: no set in touched_bp
\* waits for ever for a refresh of its height.
EventuallyTold == \A a \in HashX : a \in owed_bp ~> a \notin owed_bp

\* Clients are never told of a height below the last one they were told of, also
\* when the chain is reorganised meanwhile: _maybe_notify discards what is at or
\* below the height it notifies, and refreshes begin at the daemon's height.
HeightsAdvance == [][told' >= told]_vars

\* Every touch of a block is told, and blocks are told in their order
\* (_maybe_notify).
ToldInOrder == EventuallyTold /\ HeightsAdvance
=============================================================================
