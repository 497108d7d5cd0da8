--------------------------- MODULE Subscriptions ---------------------------
(***************************************************************************)
(* What a client is told of one address and of the tip: the subscriptions  *)
(* of a session (class ElectrumX), the caches of histories and of the last *)
(* header (class SessionManager), and the calls of _notify_sessions that   *)
(* the block processor and the mempool make by way of Notifications.       *)
(*                                                                         *)
(* A block is 0 when it does not touch the address, or one of Txs.  Every  *)
(* await at which another task may run is a step boundary; Overlap says    *)
(* whether tasks of a session are really interrupted there.                *)
(***************************************************************************)
EXTENDS Integers, Sequences, FiniteSets

CONSTANTS
    Txs,          \* blocks that touch the address
    MaxHeight,    \* bound on the height
    MaxChanges,   \* bound on blocks, reorganisations and mempool changes
    Tasks,        \* tasks of sessions: requests and notify
    Limit,        \* histories of this length are too large
    Overlap,      \* do tasks of sessions and notifications overlap
    EqualHeights, \* may a reorganisation end at a height that was or is being notified
    None          \* no value

SubscriptionsAssumption ==
    /\ MaxHeight \in Nat /\ MaxChanges \in Nat /\ Limit \in Nat
    /\ Overlap \in BOOLEAN /\ EqualHeights \in BOOLEAN /\ 0 \notin Txs

VARIABLES
    chain, mempool,           \* confirmed blocks; is there an unconfirmed transaction
    bp_touched, bp_pc, highest, \* the block processor; height of the last on_block
    mp, waiting,              \* the mempool's next call; touched but not notified
    ns,                       \* calls of _notify_sessions, by caller
    history_cache, hsub_results, notified_height,
    tasks,
    subs, subscribe_headers, mempool_status,  \* the session
    client,                   \* [status, header] as last told
    changes

source == <<chain, mempool, bp_touched, bp_pc, highest, mp, waiting, changes>>
caches == <<history_cache, hsub_results, notified_height>>
session == <<subs, subscribe_headers, mempool_status, client>>
vars == <<source, ns, caches, tasks, session>>

db_height == Len(chain) - 1
Header(height) == [height |-> height, hash |-> SubSeq(chain, 1, height + 1)]
\* The history of the address: positions and contents of the blocks touching it.
History == { <<h, chain[h + 1]>> : h \in { k \in 0 .. db_height : chain[k + 1] # 0 } }
Status(history, unconfirmed) == <<history, unconfirmed>>

Quiet == [pc |-> "none", height |-> 0, touched |-> FALSE, header |-> None]
NoTask == [kind |-> "none", pc |-> "none", touched |-> FALSE, changed |-> FALSE,
           stage |-> 0, history |-> None, old |-> None, result |-> None]

Init ==
    /\ chain = <<0>> /\ mempool = FALSE /\ changes = 0
    /\ bp_touched = FALSE /\ bp_pc = "idle" /\ highest = 0
    /\ mp = [height |-> 0, touched |-> FALSE, ready |-> FALSE] /\ waiting = FALSE
    /\ ns = [c \in {"bp", "mp"} |-> Quiet]
    /\ history_cache = None /\ hsub_results = Header(0) /\ notified_height = 0
    /\ tasks = [t \in Tasks |-> NoTask]
    /\ subs = FALSE /\ subscribe_headers = FALSE /\ mempool_status = None
    /\ client = [status |-> None, header |-> None]

\* Without overlap, a task that began runs to its end before anything else happens.
Began(t) == tasks[t].pc \notin {"none", "new"}
Alone(t) == Overlap \/ \A u \in Tasks \ {t} : ~Began(u)
Undisturbed == Overlap \/ \A u \in Tasks : ~Began(u)

-----------------------------------------------------------------------------
(* SessionManager._notify_sessions, up to its first await.                  *)

Free == { t \in Tasks : tasks[t].pc = "none" }
Spawn(t, touched, changed) ==
    tasks' = [tasks EXCEPT ![t] = [NoTask EXCEPT !.kind = "notify", !.pc = "new",
                                                !.touched = touched, !.changed = changed]]

\* "Paranoia: a reorg could race and leave db_height lower"
RefreshedHeight(height) == IF height < db_height THEN height ELSE db_height

NotifySessions(c, height, touched) ==
    \/ /\ height # notified_height
       /\ ns' = [ns EXCEPT ![c] = [pc |-> "header", height |-> RefreshedHeight(height),
                                   touched |-> touched, header |-> None]]
       /\ bp_pc' = IF c = "bp" THEN "notifying" ELSE bp_pc
       /\ UNCHANGED tasks
    \/ /\ height = notified_height
       /\ \E t \in Free : Spawn(t, touched, FALSE)
       /\ bp_pc' = IF c = "bp" THEN "idle" ELSE bp_pc
       /\ UNCHANGED ns

-----------------------------------------------------------------------------
(* The block processor and the mempool.                                     *)

Changed == Undisturbed /\ changes < MaxChanges /\ changes' = changes + 1

\* A block, or one more of the same batch.
AdvanceAndFlush(b) ==
    /\ bp_pc \in {"idle", "flushed"} /\ db_height < MaxHeight /\ Changed
    /\ chain' = Append(chain, b)
    /\ bp_touched' = (bp_touched \/ b # 0) /\ bp_pc' = "flushed"
    /\ UNCHANGED <<mempool, highest, mp, waiting, ns, caches, tasks, session>>

BackupBlock ==
    /\ bp_pc = "idle" /\ db_height > 0 /\ Changed
    /\ Overlap \/ ns["mp"].pc = "none"
    /\ bp_touched' = (bp_touched \/ chain[Len(chain)] # 0)
    /\ chain' = SubSeq(chain, 1, Len(chain) - 1)
    /\ UNCHANGED <<mempool, bp_pc, highest, mp, waiting, ns, caches, tasks, session>>

\* height_changed does not tell a new block from the one it replaced.
AlreadyTold(height) ==
    \/ height = notified_height
    \/ \E c \in {"bp", "mp"} : ns[c].pc # "none" /\ ns[c].height = height

\* on_block, which notifies at once if the mempool is already at this height;
\* the processor waits for the call.
OnBlock ==
    /\ bp_pc = "flushed" /\ Undisturbed /\ (EqualHeights \/ ~AlreadyTold(db_height))
    /\ highest' = db_height /\ bp_touched' = FALSE
    /\ \/ NotifySessions("bp", db_height, bp_touched \/ waiting) /\ waiting' = FALSE
       \/ waiting' = (waiting \/ bp_touched) /\ bp_pc' = "idle" /\ UNCHANGED <<ns, tasks>>
    /\ UNCHANGED <<chain, mempool, mp, changes, caches, session>>

\* A refresh of the mempool ends at the height of the database.
Refresh(unconfirmed) ==
    /\ ~mp.ready /\ ns["mp"].pc = "none" /\ Changed
    /\ mempool' = unconfirmed
    /\ mp' = [height |-> db_height, touched |-> mempool # unconfirmed, ready |-> TRUE]
    /\ UNCHANGED <<chain, bp_touched, bp_pc, highest, waiting, ns, caches, tasks, session>>

\* on_mempool: deferred if the height is not that of the last block.
OnMempool ==
    /\ mp.ready /\ Undisturbed /\ mp' = [mp EXCEPT !.ready = FALSE]
    /\ IF mp.height = highest
       THEN NotifySessions("mp", mp.height, mp.touched \/ waiting) /\ waiting' = FALSE
       ELSE waiting' = (waiting \/ mp.touched) /\ UNCHANGED <<ns, tasks, bp_pc>>
    /\ UNCHANGED <<chain, mempool, bp_touched, highest, changes, caches, session>>

-----------------------------------------------------------------------------
(* The rest of _notify_sessions.                                            *)

\* raw_header in a thread: out of range if the chain was shortened meanwhile.
RawHeader(c) ==
    /\ ns[c].pc = "header"
    /\ ns' = [ns EXCEPT ![c].pc = IF ns[c].height <= db_height THEN "refresh" ELSE "failed",
                        ![c].header = IF ns[c].height <= db_height THEN Header(ns[c].height) ELSE None]
    /\ UNCHANGED <<source, caches, tasks, session>>

\* The cached histories of touched addresses are dropped.
Invalidated(touched) == IF touched THEN None ELSE history_cache

HeightChanged == TRUE

RefreshHsubResults(c) ==
    /\ ns[c].pc = "refresh" /\ Undisturbed
    /\ hsub_results' = ns[c].header /\ notified_height' = ns[c].height
    /\ history_cache' = Invalidated(ns[c].touched)
    /\ \E t \in Free : Spawn(t, ns[c].touched, HeightChanged)
    /\ ns' = [ns EXCEPT ![c] = Quiet] /\ bp_pc' = IF c = "bp" THEN "idle" ELSE bp_pc
    /\ UNCHANGED <<chain, mempool, bp_touched, highest, mp, waiting, changes, session>>

-----------------------------------------------------------------------------
(* The session: requests and notify.                                        *)

HeadersSubscribe ==
    /\ ~subscribe_headers /\ subscribe_headers' = TRUE
    /\ client' = [client EXCEPT !.header = hsub_results]
    /\ UNCHANGED <<source, ns, caches, tasks, subs, mempool_status>>

Unsubscribe ==
    /\ subs /\ subs' = FALSE /\ mempool_status' = None
    /\ UNCHANGED <<source, ns, caches, tasks, subscribe_headers, client>>

\* blockchain.scripthash.subscribe, or get_history of any session.
Ask(t, kind) ==
    /\ tasks[t].pc = "none"
    /\ tasks' = [tasks EXCEPT ![t] = [NoTask EXCEPT !.kind = kind, !.pc = "new"]]
    /\ UNCHANGED <<source, ns, caches, session>>

\* Mutant of ToTell: the mempool alone is no reason to notify.
ToTellAtHeight(task) == task.touched /\ task.changed

ToTell(task) == task.touched

\* _notify_inner: the header first, then what of the touched is subscribed.
NotifyInner(t) ==
    /\ tasks[t].pc = "new" /\ tasks[t].kind = "notify" /\ Alone(t)
    /\ client' = IF tasks[t].changed /\ subscribe_headers
                 THEN [client EXCEPT !.header = hsub_results] ELSE client
    /\ tasks' = [tasks EXCEPT ![t] =
         IF subs /\ ToTell(tasks[t]) THEN [@ EXCEPT !.pc = "status", !.stage = 1]
         ELSE IF subs /\ tasks[t].changed /\ mempool_status # None
         THEN [@ EXCEPT !.pc = "status", !.stage = 2, !.old = mempool_status]
         ELSE NoTask]
    /\ UNCHANGED <<source, ns, caches, subs, subscribe_headers, mempool_status>>

\* The rest of address_status once the history is there, and its caller up to the
\* next await.
Answer(t, history) ==
    LET task == tasks[t]
        status == Status(history, mempool)
        unconfirmed == IF mempool THEN status ELSE None
        tooLong == Cardinality(history) >= Limit    \* RPCError
    IN \/ /\ task.kind = "query" \/ (task.kind = "subscribe" /\ tooLong)
          /\ tasks' = [tasks EXCEPT ![t] = NoTask] /\ UNCHANGED session
       \/ /\ task.kind = "subscribe" /\ ~tooLong
          /\ tasks' = [tasks EXCEPT ![t] = NoTask]
          /\ subs' = TRUE /\ mempool_status' = unconfirmed
          /\ client' = [client EXCEPT !.status = status]
          /\ UNCHANGED subscribe_headers
       \/ /\ task.kind = "notify" /\ tooLong
          /\ tasks' = [tasks EXCEPT ![t] = [task EXCEPT !.pc = "send", !.result = Status({}, FALSE)]]
          /\ subs' = FALSE /\ mempool_status' = None
          /\ UNCHANGED <<subscribe_headers, client>>
       \/ /\ task.kind = "notify" /\ ~tooLong
          /\ tasks' = [tasks EXCEPT ![t] =
               IF task.stage = 1
               THEN [task EXCEPT !.pc = IF mempool THEN "status" ELSE "send",
                                 !.stage = 2, !.old = status, !.result = status]
               ELSE [task EXCEPT !.pc = "send", !.result = IF status # task.old THEN status ELSE @]]
          /\ mempool_status' = unconfirmed
          /\ UNCHANGED <<subs, subscribe_headers, client>>

AtStatus(t) == tasks[t].pc = "status" \/ (tasks[t].pc = "new" /\ tasks[t].kind # "notify")

\* limited_history: from the cache ...
CachedHistory(t) ==
    /\ AtStatus(t) /\ Alone(t) /\ history_cache # None
    /\ Answer(t, history_cache)
    /\ UNCHANGED <<source, ns, caches>>

\* ... or from the database, read in a thread ...
ReadHistory(t) ==
    /\ AtStatus(t) /\ Alone(t) /\ history_cache = None
    /\ tasks' = [tasks EXCEPT ![t].pc = "resume", ![t].history = History]
    /\ UNCHANGED <<source, ns, caches, session>>

\* ... and cached when the task runs again.
CacheHistory(t) ==
    /\ tasks[t].pc = "resume"
    /\ history_cache' = tasks[t].history
    /\ Answer(t, tasks[t].history)
    /\ UNCHANGED <<source, ns, hsub_results, notified_height>>

SendNotification(t) ==
    /\ tasks[t].pc = "send"
    /\ client' = IF tasks[t].result = None THEN client
                 ELSE [client EXCEPT !.status = tasks[t].result]
    /\ tasks' = [tasks EXCEPT ![t] = NoTask]
    /\ UNCHANGED <<source, ns, caches, subs, subscribe_headers, mempool_status>>

Manager == \E c \in {"bp", "mp"} : RawHeader(c) \/ RefreshHsubResults(c)
SessionTask(t) == NotifyInner(t) \/ CachedHistory(t) \/ ReadHistory(t) \/ CacheHistory(t)
              \/ SendNotification(t)

Next ==
    \/ \E b \in Txs \cup {0} : AdvanceAndFlush(b)
    \/ BackupBlock \/ OnBlock \/ OnMempool \/ \E u \in BOOLEAN : Refresh(u)
    \/ Manager \/ \E t \in Tasks : SessionTask(t)
    \/ HeadersSubscribe \/ Unsubscribe
    \/ \E t \in Tasks, kind \in {"subscribe", "query"} : Ask(t, kind)

Spec == Init /\ [][Next]_vars

-----------------------------------------------------------------------------
\* Nothing that was touched is still on its way to the client.
Settled ==
    /\ ~bp_touched /\ ~waiting /\ bp_pc = "idle" /\ ~mp.ready
    /\ ns = [c \in {"bp", "mp"} |-> Quiet] /\ tasks = [t \in Tasks |-> NoTask]

\* Once all notifications are delivered, a subscribed client has been told the
\* status the address has now (_notify_inner, hashX_subscribe).
ClientUpToDate == Settled /\ subs => client.status = Status(History, mempool)

\* Once all notifications are delivered, a cached history is that of the database
\* (limited_history, _notify_sessions).
CacheFresh == Settled /\ history_cache # None => history_cache = History

\* Once a block is announced and told, a client subscribed to headers knows the
\* tip, and so does one that subscribes now.
HeaderUpToDate ==
    Settled /\ highest = db_height /\ notified_height = highest =>
        /\ hsub_results = Header(db_height)
        /\ subscribe_headers => client.header = Header(db_height)

\* The paranoia of _refresh_hsub_results is enough: the header is always there.
HeaderFound == \A c \in {"bp", "mp"} : ns[c].pc # "failed"

\* Once all notifications are delivered, a client's view of its address and of the
\* tip, and the caches it is served from, are those of the chain (_notify_sessions).
ClientsUpToDate == ClientUpToDate /\ CacheFresh /\ HeaderUpToDate /\ HeaderFound
=============================================================================
