---------------------------- MODULE ClientsProofs ----------------------------
(***************************************************************************)
(* Theorems about what a client of the server sees, for all values of the  *)
(* constants: it is told the truth of its address and of the tip in the    *)
(* end, if no request is under way while a block is told and no            *)
(* reorganisation ends at the height that was told before; the fee         *)
(* estimates that sessions share are fresh; and a handshake settles the    *)
(* highest version that both sides speak.                                  *)
(***************************************************************************)
EXTENDS MCClients, FiniteSetTheorems, NaturalsInduction, WellFoundedInduction, TLAPS

-----------------------------------------------------------------------------
(* The subscriptions.                                                       *)

\* Tasks are not interrupted, a new block has a new height, NoValue is not a status.
NoRaces ==
    /\ Overlap = FALSE /\ EqualHeights = FALSE
    /\ \A history, unconfirmed : NoValue # Sb!Status(history, unconfirmed)

-----------------------------------------------------------------------------
(* The inductive invariant.                                                 *)

Callers == {"bp", "mp"}
Contents == Txs \cup {0}
Headers == [height : Nat, hash : Seq(Contents)]
Histories == SUBSET (Nat \X Contents)
Statuses == Histories \X BOOLEAN

CallRecords == [pc : {"none", "header", "refresh"}, height : Nat, touched : BOOLEAN,
                header : Headers \cup {NoValue}]
TaskRecords == [kind : {"none", "notify", "subscribe", "query"},
                pc : {"none", "new", "status", "resume", "send"},
                touched : BOOLEAN, changed : BOOLEAN, stage : {0, 1, 2},
                history : Histories \cup {NoValue}, old : Statuses \cup {NoValue},
                result : Statuses \cup {NoValue}]

TypeOK ==
    /\ chain \in Seq(Contents) /\ Len(chain) > 0 /\ mempool \in BOOLEAN
    /\ bp_touched \in BOOLEAN /\ waiting \in BOOLEAN /\ bp_pc \in {"idle", "flushed", "notifying"}
    /\ highest \in Nat /\ notified_height \in Nat /\ hsub_results \in Headers
    /\ mp \in [height : Nat, touched : BOOLEAN, ready : BOOLEAN]
    /\ ns \in [Callers -> CallRecords]
    /\ history_cache \in Histories \cup {NoValue}
    /\ tasks \in [Tasks -> TaskRecords]
    /\ subs \in BOOLEAN /\ subscribe_headers \in BOOLEAN /\ mempool_status \in Statuses \cup {NoValue}
    /\ client \in [status : Statuses \cup {NoValue}, header : Headers \cup {NoValue}]

\* The calls of _notify_sessions: their header is that of the chain, which is not shortened
\* under them.
CallsInv ==
    /\ ns["bp"].pc # "none" <=> bp_pc = "notifying"
    /\ mp.ready => ns["mp"].pc = "none"
    /\ \A c \in Callers :
         /\ ns[c].pc # "none" => ns[c].height <= Sb!db_height
         /\ ns[c].pc = "refresh" => ns[c].header = Sb!Header(ns[c].height)

\* The header last told is that of the chain, unless the chain was shortened below it; then no
\* block was announced at its height since.
HeaderInv ==
    /\ \/ notified_height <= Sb!db_height /\ hsub_results = Sb!Header(notified_height)
       \/ Sb!db_height < notified_height \/ bp_pc = "flushed" \/ highest # notified_height
    /\ subscribe_headers =>
         \/ client.header = hsub_results
         \/ \E t \in Tasks : tasks[t].kind = "notify" /\ tasks[t].pc = "new" /\ tasks[t].changed

Telling == \E c \in Callers : ns[c].pc # "none" /\ ns[c].touched

\* A touch that will reach the cache: if it waits, it waits for a height not yet told.
CacheInv ==
    history_cache \in {NoValue, Sb!History} \/ bp_touched \/ Telling
    \/ (waiting /\ ~Sb!AlreadyTold(highest))

\* A touch that waits, or is being told to the sessions.
Pending == bp_touched \/ waiting \/ Telling

TasksInv ==
    /\ \A t, u \in Tasks : Sb!Began(t) /\ Sb!Began(u) => t = u
    /\ \A t \in Tasks :
         /\ tasks[t].kind # "notify" =>
              tasks[t].touched = FALSE /\ tasks[t].result = NoValue /\ tasks[t].pc \notin {"status", "send"}
         /\ tasks[t].kind = "none" => tasks[t].pc = "none"
         /\ tasks[t].pc = "new" => tasks[t].result = NoValue
         /\ tasks[t].kind = "notify" /\ Sb!Began(t) => tasks[t].stage \in {1, 2}
         /\ tasks[t].pc = "resume" => tasks[t].history = Sb!History
         /\ Sb!Began(t) /\ tasks[t].result # NoValue =>
                 tasks[t].result = Sb!Status(Sb!History, mempool) \/ Pending \/ ~subs

\* The task will send the status.
Sending(task) ==
    /\ task.kind = "notify"
    /\ \/ task.pc = "new" /\ task.touched
       \/ task.pc \in {"status", "resume"} /\ (task.stage = 1 \/ task.result # NoValue)
       \/ task.pc = "send" /\ task.result # NoValue

StatusInv ==
    subs => \/ client.status = Sb!Status(Sb!History, mempool) \/ Pending
            \/ mp.ready /\ mp.touched
            \/ \E t \in Tasks : Sending(tasks[t])

IInv == TypeOK /\ CallsInv /\ HeaderInv /\ CacheInv /\ TasksInv /\ StatusInv

-----------------------------------------------------------------------------
(* The chain.                                                               *)

LEMMA ChainFacts ==
    ASSUME TypeOK
    PROVE  /\ Sb!db_height \in Nat /\ Len(chain) = Sb!db_height + 1 /\ Sb!History \in Histories
           /\ \A h \in 0 .. Sb!db_height : Sb!Header(h) \in Headers
           /\ Sb!Status(Sb!History, mempool) \in Statuses
<1>1. chain \in Seq(Contents) /\ Len(chain) \in Nat /\ Len(chain) > 0 /\ mempool \in BOOLEAN
  BY DEF TypeOK
<1>2. Sb!db_height \in Nat /\ Len(chain) = Sb!db_height + 1
  BY <1>1 DEF Sb!db_height
<1>3. Sb!History \in Histories
  BY <1>1, <1>2 DEF Sb!History, Histories
<1>4. ASSUME NEW h \in 0 .. Sb!db_height
      PROVE  Sb!Header(h) \in Headers
  <2>1. h \in Nat /\ \A i \in 1 .. h + 1 : chain[i] \in Contents
    BY <1>1, <1>2
  <2>2. SubSeq(chain, 1, h + 1) \in Seq(Contents)
    BY <1>1, <1>2, <2>1
  <2> QED
    BY <2>1, <2>2 DEF Sb!Header, Headers
<1> QED
  BY <1>1, <1>2, <1>3, <1>4 DEF Sb!Status, Statuses

\* A block that does not touch the address leaves its history, and every block the headers.
LEMMA ChainGrows ==
    ASSUME TypeOK, NEW b \in Contents, chain' = Append(chain, b)
    PROVE  /\ chain' \in Seq(Contents) /\ Sb!db_height' = Sb!db_height + 1
           /\ \A h \in 0 .. Sb!db_height : Sb!Header(h)' = Sb!Header(h)
           /\ b = 0 => Sb!History' = Sb!History
<1>1. /\ chain \in Seq(Contents) /\ Len(chain) \in Nat /\ Len(chain) = Sb!db_height + 1 /\ Sb!db_height \in Nat
  BY ChainFacts DEF TypeOK
<1>2. /\ chain' \in Seq(Contents) /\ Len(chain') = Len(chain) + 1
      /\ \A i \in 1 .. Len(chain) : chain'[i] = chain[i]
      /\ chain'[Len(chain) + 1] = b
  BY <1>1
<1>3. Sb!db_height' = Sb!db_height + 1
  BY <1>1, <1>2 DEF Sb!db_height
<1>4. ASSUME NEW h \in 0 .. Sb!db_height
      PROVE  SubSeq(chain', 1, h + 1) = SubSeq(chain, 1, h + 1)
  BY <1>1, <1>2
<1>5. ASSUME b = 0
      PROVE  Sb!History' = Sb!History
  <2>1. { k \in 0 .. Sb!db_height' : chain'[k + 1] # 0 } = { k \in 0 .. Sb!db_height : chain[k + 1] # 0 }
    BY <1>1, <1>2, <1>3, <1>5
  <2>2. \A h \in { k \in 0 .. Sb!db_height : chain[k + 1] # 0 } : chain'[h + 1] = chain[h + 1]
    BY <1>1, <1>2
  <2>3. Sb!History' = { <<h, chain'[h + 1]>> : h \in { k \in 0 .. Sb!db_height : chain[k + 1] # 0 } }
    BY <2>1 DEF Sb!History
  <2> QED
    BY <2>2, <2>3 DEF Sb!History
<1> QED
  BY <1>2, <1>3, <1>4, <1>5 DEF Sb!Header

LEMMA ChainShrinks ==
    ASSUME TypeOK, Sb!db_height > 0, chain' = SubSeq(chain, 1, Len(chain) - 1)
    PROVE  /\ chain' \in Seq(Contents) /\ Sb!db_height' = Sb!db_height - 1 /\ Len(chain') > 0
           /\ chain[Len(chain)] = 0 => Sb!History' = Sb!History
           /\ \A h \in 0 .. Sb!db_height - 1 : Sb!Header(h)' = Sb!Header(h)
<1>1. chain \in Seq(Contents) /\ Len(chain) \in Nat /\ Len(chain) = Sb!db_height + 1 /\ Sb!db_height \in Nat
  BY ChainFacts DEF TypeOK
<1>2. /\ chain' \in Seq(Contents) /\ Len(chain') = Len(chain) - 1
      /\ \A i \in 1 .. Len(chain) - 1 : chain'[i] = chain[i]
  BY <1>1
<1>3. Sb!db_height' = Sb!db_height - 1 /\ Len(chain') > 0
  BY <1>1, <1>2 DEF Sb!db_height
<1>4. ASSUME NEW h \in 0 .. Sb!db_height - 1
      PROVE  SubSeq(chain', 1, h + 1) = SubSeq(chain, 1, h + 1)
  BY <1>1, <1>2
<1>5. ASSUME chain[Len(chain)] = 0
      PROVE  Sb!History' = Sb!History
  <2>1. { k \in 0 .. Sb!db_height' : chain'[k + 1] # 0 } = { k \in 0 .. Sb!db_height : chain[k + 1] # 0 }
    BY <1>1, <1>2, <1>3, <1>5
  <2>2. \A h \in { k \in 0 .. Sb!db_height' : chain'[k + 1] # 0 } : chain'[h + 1] = chain[h + 1]
    BY <1>1, <1>2, <1>3
  <2>3. Sb!History' = { <<h, chain'[h + 1]>> : h \in { k \in 0 .. Sb!db_height' : chain'[k + 1] # 0 } }
    BY DEF Sb!History
  <2>4. Sb!History = { <<h, chain[h + 1]>> : h \in { k \in 0 .. Sb!db_height : chain[k + 1] # 0 } }
    BY DEF Sb!History
  <2> QED
    BY <2>1, <2>2, <2>3, <2>4
<1> QED
  BY <1>2, <1>3, <1>4, <1>5 DEF Sb!Header


-----------------------------------------------------------------------------
(* The block processor and the mempool.                                     *)

LEMMA AdvanceInv ==
    ASSUME NoRaces, IInv, NEW b \in Contents, Sb!AdvanceAndFlush(b)
    PROVE  IInv'
<1>1. /\ bp_pc \in {"idle", "flushed"} /\ chain' = Append(chain, b) /\ bp_pc' = "flushed"
      /\ bp_touched' = (bp_touched \/ b # 0)
      /\ UNCHANGED <<mempool, highest, mp, waiting, ns, history_cache, hsub_results, notified_height,
                     tasks, subs, subscribe_headers, mempool_status, client>>
      /\ \A t \in Tasks : ~Sb!Began(t)
  BY DEF Sb!AdvanceAndFlush, Sb!Changed, Sb!Undisturbed, NoRaces, Sb!caches, Sb!session
<1>2. TypeOK /\ CallsInv /\ HeaderInv /\ CacheInv /\ TasksInv /\ StatusInv
  BY DEF IInv
<1>3. /\ chain' \in Seq(Contents) /\ Sb!db_height' = Sb!db_height + 1 /\ Sb!db_height \in Nat
      /\ \A h \in 0 .. Sb!db_height : Sb!Header(h)' = Sb!Header(h)
      /\ b = 0 => Sb!History' = Sb!History
  BY <1>1, <1>2, ChainGrows, ChainFacts
<1>4. TypeOK'
  <2>1. Len(chain') > 0
    BY <1>1, <1>2 DEF TypeOK
  <2> QED
    BY <1>1, <1>2, <1>3, <2>1 DEF TypeOK
<1>5. CallsInv'
  <2>1. ns["bp"].pc = "none" /\ "bp" \in Callers
    BY <1>1, <1>2 DEF CallsInv, Callers
  <2>2. \A c \in Callers : ns[c].height \in Nat
    BY <1>2 DEF TypeOK, CallRecords
  <2>3. \A c \in Callers : ns[c].pc # "none" => ns[c].height <= Sb!db_height'
    BY <1>2, <1>3, <2>2 DEF CallsInv
  <2>4. \A c \in Callers : ns[c].pc = "refresh" => ns[c].header = Sb!Header(ns[c].height)'
    <3> SUFFICES ASSUME NEW c \in Callers, ns[c].pc = "refresh"
                 PROVE  ns[c].header = Sb!Header(ns[c].height)'
      OBVIOUS
    <3>1. ns[c].height \in 0 .. Sb!db_height /\ ns[c].header = Sb!Header(ns[c].height)
      BY <1>2, <1>3, <2>2 DEF CallsInv
    <3> QED
      BY <1>1, <1>3, <3>1 DEF Sb!Header
  <2> QED
    BY <1>1, <1>2, <2>1, <2>3, <2>4 DEF CallsInv
<1>6. HeaderInv'
  BY <1>1, <1>2 DEF HeaderInv
<1>7. CacheInv'
  BY <1>1, <1>2, <1>3 DEF CacheInv, Telling, Sb!AlreadyTold
<1>8. TasksInv'
  <2>1. \A t \in Tasks : ~Sb!Began(t)'
    BY <1>1 DEF Sb!Began
  <2>2. \A t \in Tasks : tasks[t].pc # "resume"
    BY <1>1 DEF Sb!Began
  <2> QED
    BY <1>1, <1>2, <2>1, <2>2 DEF TasksInv
<1>9. StatusInv'
  BY <1>1, <1>2, <1>3 DEF StatusInv, Pending, Telling, Sending
<1> QED
  BY <1>4, <1>5, <1>6, <1>7, <1>8, <1>9 DEF IInv

LEMMA BackupInv ==
    ASSUME NoRaces, IInv, Sb!BackupBlock
    PROVE  IInv'
<1>1. /\ bp_pc = "idle" /\ Sb!db_height > 0 /\ ns["mp"].pc = "none"
      /\ chain' = SubSeq(chain, 1, Len(chain) - 1) /\ bp_touched' = (bp_touched \/ chain[Len(chain)] # 0)
      /\ UNCHANGED <<mempool, bp_pc, highest, mp, waiting, ns, history_cache, hsub_results,
                     notified_height, tasks, subs, subscribe_headers, mempool_status, client>>
      /\ \A t \in Tasks : ~Sb!Began(t)
  BY DEF Sb!BackupBlock, Sb!Changed, Sb!Undisturbed, NoRaces, Sb!caches, Sb!session
<1>2. TypeOK /\ CallsInv /\ HeaderInv /\ CacheInv /\ TasksInv /\ StatusInv
  BY DEF IInv
<1>3. /\ chain' \in Seq(Contents) /\ Sb!db_height' = Sb!db_height - 1 /\ Len(chain') > 0 /\ Sb!db_height \in Nat
      /\ \A h \in 0 .. Sb!db_height - 1 : Sb!Header(h)' = Sb!Header(h)
      /\ chain[Len(chain)] = 0 => Sb!History' = Sb!History
  BY <1>1, <1>2, ChainShrinks, ChainFacts
<1>4. TypeOK'
  BY <1>1, <1>2, <1>3 DEF TypeOK
<1>5. CallsInv'
  <2>1. \A c \in Callers : ns[c].pc = "none"
    BY <1>1, <1>2 DEF CallsInv, Callers
  <2> QED
    BY <1>1, <1>2, <2>1 DEF CallsInv
<1>6. HeaderInv'
  <2>1. CASE notified_height <= Sb!db_height - 1 /\ hsub_results = Sb!Header(notified_height)
    <3>1. notified_height \in 0 .. Sb!db_height - 1
      BY <1>2, <1>3, <2>1 DEF TypeOK
    <3>2. Sb!Header(notified_height)' = Sb!Header(notified_height)
      BY <1>1, <1>3, <3>1 DEF Sb!Header
    <3> QED
      BY <1>1, <1>2, <1>3, <2>1, <3>2 DEF HeaderInv
  <2>2. CASE Sb!db_height' < notified_height \/ highest # notified_height
    BY <1>1, <1>2, <2>2 DEF HeaderInv
  <2>3. notified_height \in Nat
    BY <1>2 DEF TypeOK
  <2> QED
    BY <1>1, <1>2, <1>3, <2>1, <2>2, <2>3 DEF HeaderInv
<1>7. CacheInv'
  BY <1>1, <1>2, <1>3 DEF CacheInv, Telling, Sb!AlreadyTold
<1>8. TasksInv'
  <2>1. \A t \in Tasks : ~Sb!Began(t)'
    BY <1>1 DEF Sb!Began
  <2>2. \A t \in Tasks : tasks[t].pc # "resume"
    BY <1>1 DEF Sb!Began
  <2> QED
    BY <1>1, <1>2, <2>1, <2>2 DEF TasksInv
<1>9. StatusInv'
  BY <1>1, <1>2, <1>3 DEF StatusInv, Pending, Telling, Sending
<1> QED
  BY <1>4, <1>5, <1>6, <1>7, <1>8, <1>9 DEF IInv

LEMMA RefreshInv ==
    ASSUME NoRaces, IInv, NEW unconfirmed \in BOOLEAN, Sb!Refresh(unconfirmed)
    PROVE  IInv'
<1>1. /\ ~mp.ready /\ ns["mp"].pc = "none" /\ mempool' = unconfirmed
      /\ mp' = [height |-> Sb!db_height, touched |-> mempool # unconfirmed, ready |-> TRUE]
      /\ UNCHANGED <<chain, bp_touched, bp_pc, highest, waiting, ns, history_cache, hsub_results,
                     notified_height, tasks, subs, subscribe_headers, mempool_status, client>>
      /\ \A t \in Tasks : ~Sb!Began(t)
  BY DEF Sb!Refresh, Sb!Changed, Sb!Undisturbed, NoRaces, Sb!caches, Sb!session
<1>2. TypeOK /\ CallsInv /\ HeaderInv /\ CacheInv /\ TasksInv /\ StatusInv
  BY DEF IInv
<1>3. Sb!db_height \in Nat /\ Sb!db_height' = Sb!db_height /\ Sb!History' = Sb!History /\ \A h : Sb!Header(h)' = Sb!Header(h)
  BY <1>1, <1>2, ChainFacts DEF Sb!db_height, Sb!History, Sb!Header
<1>4. TypeOK'
  BY <1>1, <1>2, <1>3 DEF TypeOK
<1>5. CallsInv'
  BY <1>1, <1>2, <1>3 DEF CallsInv, Callers, Sb!Header, Sb!db_height
<1>6. HeaderInv'
  BY <1>1, <1>2, <1>3 DEF HeaderInv, Sb!Header
<1>7. CacheInv'
  BY <1>1, <1>2, <1>3 DEF CacheInv, Telling, Sb!AlreadyTold
<1>8. TasksInv'
  <2>1. \A t \in Tasks : ~Sb!Began(t)'
    BY <1>1 DEF Sb!Began
  <2>2. \A t \in Tasks : tasks[t].pc # "resume"
    BY <1>1 DEF Sb!Began
  <2> QED
    BY <1>1, <1>2, <2>1, <2>2 DEF TasksInv
<1>9. StatusInv'
  <2>1. mp'.ready /\ mp'.touched = (mempool # unconfirmed)
    BY <1>1
  <2>2. CASE mempool = unconfirmed
    BY <1>1, <1>2, <1>3, <2>2 DEF StatusInv, Pending, Telling, Sending
  <2>3. CASE mempool # unconfirmed
    BY <2>1, <2>3 DEF StatusInv
  <2> QED
    BY <2>2, <2>3
<1> QED
  BY <1>4, <1>5, <1>6, <1>7, <1>8, <1>9 DEF IInv


LEMMA OnBlockInv ==
    ASSUME NoRaces, IInv, Sb!OnBlock
    PROVE  IInv'
<1> DEFINE served == [pc |-> "header", height |-> Sb!db_height, touched |-> bp_touched \/ waiting, header |-> NoValue]
<1>1. /\ bp_pc = "flushed" /\ ~Sb!AlreadyTold(Sb!db_height) /\ highest' = Sb!db_height /\ bp_touched' = FALSE
      /\ UNCHANGED <<chain, mempool, mp, changes, history_cache, hsub_results, notified_height, subs,
                     subscribe_headers, mempool_status, client>>
      /\ \A t \in Tasks : ~Sb!Began(t)
  BY DEF Sb!OnBlock, Sb!Undisturbed, NoRaces, Sb!caches, Sb!session
<1>2. TypeOK /\ CallsInv /\ HeaderInv /\ CacheInv /\ TasksInv /\ StatusInv
  BY DEF IInv
<1>3. /\ Sb!db_height \in Nat /\ Sb!db_height' = Sb!db_height /\ Sb!History' = Sb!History
      /\ \A h : Sb!Header(h)' = Sb!Header(h)
  BY <1>1, <1>2, ChainFacts DEF Sb!db_height, Sb!History, Sb!Header
<1>4. /\ tasks' = tasks
      /\ \/ ns' = [ns EXCEPT !["bp"] = served] /\ bp_pc' = "notifying" /\ waiting' = FALSE
         \/ ns' = ns /\ bp_pc' = "idle" /\ waiting' = (waiting \/ bp_touched)
  <2>1. Sb!db_height # notified_height /\ Sb!RefreshedHeight(Sb!db_height) = Sb!db_height
    BY <1>1 DEF Sb!AlreadyTold, Sb!RefreshedHeight
  <2> QED
    BY <2>1 DEF Sb!OnBlock, Sb!NotifySessions
<1>5. ns["bp"].pc = "none" /\ "bp" \in Callers /\ DOMAIN ns = Callers
  BY <1>1, <1>2 DEF CallsInv, Callers, TypeOK
<1>6. \A c \in Callers : c # "bp" => ns'[c] = ns[c]
  BY <1>4, <1>5
<1>7. TypeOK'
  <2>1. waiting' \in BOOLEAN /\ bp_pc' \in {"idle", "notifying"}
    BY <1>2, <1>4 DEF TypeOK
  <2>2. served \in CallRecords
    BY <1>2, <1>3 DEF TypeOK, CallRecords
  <2>3. ns' \in [Callers -> CallRecords]
    <3> HIDE DEF served
    <3> QED
      BY <1>2, <1>4, <2>2 DEF TypeOK
  <2> QED
    BY <1>1, <1>2, <1>3, <1>4, <2>1, <2>3 DEF TypeOK
<1>8. CallsInv'
  <2>1. CASE ns' = ns /\ bp_pc' = "idle"
    BY <1>1, <1>2, <1>3, <1>5, <2>1 DEF CallsInv, Sb!Header
  <2>2. CASE ns' = [ns EXCEPT !["bp"] = served] /\ bp_pc' = "notifying"
    <3>1. ns'["bp"] = served /\ ns'["mp"] = ns["mp"] /\ Callers = {"bp", "mp"}
      BY <1>5, <2>2 DEF Callers
    <3>2. ns'["bp"].pc = "header" /\ ns'["bp"].height = Sb!db_height
      BY <3>1
    <3> HIDE DEF served
    <3> QED
      BY <1>1, <1>2, <1>3, <2>2, <3>1, <3>2 DEF CallsInv, Sb!Header
  <2> QED
    BY <1>4, <2>1, <2>2
<1>9. HeaderInv'
  <2>1. highest' # notified_height'
    BY <1>1 DEF Sb!AlreadyTold
  <2> QED
    BY <1>1, <1>2, <1>4, <2>1 DEF HeaderInv
<1>10. Telling \/ waiting \/ bp_touched => Telling' \/ waiting'
  <2>1. CASE Telling
    BY <1>5, <1>6, <2>1 DEF Telling
  <2>2. CASE (waiting \/ bp_touched) /\ ns' = [ns EXCEPT !["bp"] = served]
    <3>1. ns'["bp"] = served
      BY <1>5, <2>2
    <3>2. ns'["bp"].pc = "header"
      BY <3>1
    <3>3. ns'["bp"].touched = (bp_touched \/ waiting)
      BY <3>1
    <3> QED
      BY <1>5, <2>2, <3>2, <3>3 DEF Telling
  <2> QED
    BY <1>4, <2>1, <2>2
<1>11. CacheInv'
  <2>1. waiting' => ~Sb!AlreadyTold(highest)'
    <3>1. waiting' => ns' = ns
      BY <1>4
    <3> QED
      BY <1>1, <3>1 DEF Sb!AlreadyTold, Callers
  <2>2. CacheInv => history_cache \in {NoValue, Sb!History} \/ Telling' \/ waiting'
    BY <1>10 DEF CacheInv
  <2> QED
    BY <1>1, <1>2, <1>3, <2>1, <2>2 DEF CacheInv
<1>12. TasksInv'
  <2>1. \A t \in Tasks : ~Sb!Began(t)'
    BY <1>1, <1>4 DEF Sb!Began
  <2>2. \A t \in Tasks : tasks[t].pc # "resume"
    BY <1>1 DEF Sb!Began
  <2> QED
    BY <1>1, <1>2, <1>4, <2>1, <2>2 DEF TasksInv
<1>13. StatusInv'
  BY <1>1, <1>2, <1>3, <1>4, <1>10 DEF StatusInv, Pending, Sending
<1> QED
  BY <1>7, <1>8, <1>9, <1>11, <1>12, <1>13 DEF IInv

\* A task that notify starts.
LEMMA SpawnFacts ==
    ASSUME TypeOK, NEW t \in Sb!Free, NEW touched \in BOOLEAN, NEW changed \in BOOLEAN, Sb!Spawn(t, touched, changed)
    PROVE  /\ tasks' \in [Tasks -> TaskRecords]
           /\ t \in Tasks /\ tasks[t].pc = "none" /\ tasks'[t].kind = "notify" /\ tasks'[t].pc = "new"
           /\ tasks'[t].touched = touched /\ tasks'[t].changed = changed /\ tasks'[t].result = NoValue
           /\ \A u \in Tasks : u # t => tasks'[u] = tasks[u]
<1> DEFINE new == [Sb!NoTask EXCEPT !.kind = "notify", !.pc = "new", !.touched = touched, !.changed = changed]
<1>1. t \in Tasks /\ tasks[t].pc = "none" /\ tasks \in [Tasks -> TaskRecords]
  BY DEF Sb!Free, TypeOK
<1>2. new \in TaskRecords
  <2>1. Sb!NoTask \in TaskRecords
    BY DEF Sb!NoTask, TaskRecords
  <2> QED
    BY <2>1 DEF TaskRecords
<1>3. /\ new.kind = "notify" /\ new.pc = "new" /\ new.result = NoValue
      /\ new.touched = touched /\ new.changed = changed
  BY DEF Sb!NoTask
<1>4. tasks' = [tasks EXCEPT ![t] = new]
  BY DEF Sb!Spawn
<1> HIDE DEF new
<1>5. tasks' \in [Tasks -> TaskRecords] /\ tasks'[t] = new /\ \A u \in Tasks : u # t => tasks'[u] = tasks[u]
  BY <1>1, <1>2, <1>4
<1> QED
  BY <1>1, <1>3, <1>5

\* A new task disturbs no other.
LEMMA SpawnTasks ==
    ASSUME TypeOK, TasksInv, NEW t \in Tasks, \A u \in Tasks : ~Sb!Began(u),
           tasks'[t].kind = "notify", tasks'[t].pc = "new", tasks'[t].result = NoValue, tasks[t].pc = "none",
           \A u \in Tasks : u # t => tasks'[u] = tasks[u]
    PROVE  TasksInv'
<1>1. \A u \in Tasks : ~Sb!Began(u)'
  BY DEF Sb!Began
<1>2. \A u \in Tasks : tasks'[u].pc # "resume"
  BY <1>1 DEF Sb!Began
<1>3. \A u \in Tasks : tasks'[u].kind # "notify" =>
        tasks'[u].touched = FALSE /\ tasks'[u].result = NoValue /\ tasks'[u].pc \notin {"status", "send"}
  BY DEF TasksInv
<1> QED
  BY <1>1, <1>2, <1>3 DEF TasksInv


LEMMA OnMempoolInv ==
    ASSUME NoRaces, IInv, Sb!OnMempool
    PROVE  IInv'
<1> DEFINE told == mp.touched \/ waiting
           served == [pc |-> "header", height |-> Sb!RefreshedHeight(mp.height), touched |-> told, header |-> NoValue]
<1>1. /\ mp.ready /\ mp' = [mp EXCEPT !.ready = FALSE]
      /\ UNCHANGED <<chain, mempool, bp_touched, highest, changes, history_cache, hsub_results,
                     notified_height, subs, subscribe_headers, mempool_status, client>>
      /\ \A t \in Tasks : ~Sb!Began(t)
  BY DEF Sb!OnMempool, Sb!Undisturbed, NoRaces, Sb!caches, Sb!session
<1>2. TypeOK /\ CallsInv /\ HeaderInv /\ CacheInv /\ TasksInv /\ StatusInv
  BY DEF IInv
<1>3. /\ Sb!db_height \in Nat /\ Sb!db_height' = Sb!db_height /\ Sb!History' = Sb!History
      /\ \A h : Sb!Header(h)' = Sb!Header(h)
  BY <1>1, <1>2, ChainFacts DEF Sb!db_height, Sb!History, Sb!Header
<1>4. ns["mp"].pc = "none" /\ "mp" \in Callers /\ DOMAIN ns = Callers /\ Callers = {"bp", "mp"}
  BY <1>1, <1>2 DEF CallsInv, Callers, TypeOK
<1>5. mp.touched \in BOOLEAN /\ mp.height \in Nat /\ told \in BOOLEAN /\ waiting \in BOOLEAN
      /\ mp' \in [height : Nat, touched : BOOLEAN, ready : BOOLEAN] /\ ~mp'.ready
  BY <1>1, <1>2 DEF TypeOK
<1>6. CASE /\ mp.height = highest /\ mp.height # notified_height /\ waiting' = FALSE
           /\ ns' = [ns EXCEPT !["mp"] = served] /\ bp_pc' = bp_pc /\ tasks' = tasks
  <2>1. served \in CallRecords /\ served.height \in Nat /\ served.height <= Sb!db_height
        /\ served.pc = "header" /\ served.touched = told
    BY <1>3, <1>5 DEF CallRecords, Sb!RefreshedHeight
  <2> HIDE DEF served
  <2>2. /\ ns' \in [Callers -> CallRecords] /\ ns'["mp"] = served /\ ns'["bp"] = ns["bp"]
    BY <1>2, <1>4, <1>6, <2>1 DEF TypeOK
  <2>3. TypeOK'
    BY <1>1, <1>2, <1>3, <1>5, <1>6, <2>2 DEF TypeOK
  <2>4. CallsInv'
    BY <1>1, <1>2, <1>3, <1>4, <1>5, <1>6, <2>1, <2>2 DEF CallsInv, Sb!Header
  <2>5. HeaderInv'
    BY <1>1, <1>2, <1>3, <1>6 DEF HeaderInv, Sb!Header
  <2>6. Telling \/ told => Telling'
    <3>1. CASE told
      BY <1>4, <2>1, <2>2, <3>1 DEF Telling
    <3>2. CASE Telling
      BY <1>4, <2>2, <3>2 DEF Telling
    <3> QED
      BY <3>1, <3>2
  <2>7. CacheInv'
    BY <1>1, <1>2, <1>3, <2>6 DEF CacheInv
  <2>8. TasksInv'
    <3>1. \A t \in Tasks : ~Sb!Began(t)' /\ tasks[t].pc # "resume"
      BY <1>1, <1>6 DEF Sb!Began
    <3> QED
      BY <1>1, <1>2, <1>6, <3>1 DEF TasksInv
  <2>9. StatusInv'
    BY <1>1, <1>2, <1>3, <1>6, <2>6 DEF StatusInv, Pending, Sending
  <2> QED
    BY <2>3, <2>4, <2>5, <2>7, <2>8, <2>9 DEF IInv
<1>7. CASE /\ mp.height = highest /\ mp.height = notified_height /\ waiting' = FALSE
           /\ \E t \in Sb!Free : Sb!Spawn(t, told, FALSE)
           /\ ns' = ns /\ bp_pc' = bp_pc
  <2>1. PICK t \in Sb!Free : Sb!Spawn(t, told, FALSE)
    BY <1>7
  <2>2. /\ tasks' \in [Tasks -> TaskRecords]
        /\ t \in Tasks /\ tasks[t].pc = "none" /\ tasks'[t].kind = "notify" /\ tasks'[t].pc = "new"
        /\ tasks'[t].touched = told /\ tasks'[t].result = NoValue
        /\ \A u \in Tasks : u # t => tasks'[u] = tasks[u]
    BY <1>2, <1>5, <2>1, SpawnFacts
  <2>3. TypeOK'
    BY <1>1, <1>2, <1>3, <1>5, <1>7, <2>2 DEF TypeOK
  <2>4. CallsInv'
    BY <1>1, <1>2, <1>3, <1>5, <1>7 DEF CallsInv, Sb!Header
  <2>5. HeaderInv'
    BY <1>1, <1>2, <1>3, <1>7, <2>2 DEF HeaderInv, Sb!Header
  <2>6. CacheInv'
    BY <1>1, <1>2, <1>3, <1>7 DEF CacheInv, Telling, Sb!AlreadyTold
  <2>7. TasksInv'
    BY <1>1, <1>2, <2>2, SpawnTasks
  <2>8. StatusInv'
    <3>1. CASE told
      <4>1. Sending(tasks'[t])
        BY <2>2, <3>1 DEF Sending
      <4> QED
        BY <2>2, <4>1 DEF StatusInv
    <3>2. CASE ~told
      <4>1. \A u \in Tasks : Sending(tasks[u]) => u # t /\ Sending(tasks'[u])
        BY <2>2 DEF Sending
      <4>2. (Telling => Telling') /\ (Pending => Pending')
        BY <1>1, <1>7, <3>2 DEF Pending, Telling
      <4> QED
        BY <1>1, <1>2, <1>3, <3>2, <4>1, <4>2 DEF StatusInv
    <3> QED
      BY <3>1, <3>2
  <2> QED
    BY <2>3, <2>4, <2>5, <2>6, <2>7, <2>8 DEF IInv
<1>8. CASE waiting' = told /\ UNCHANGED <<ns, tasks, bp_pc>>
           /\ (mp.height # highest)
  <2>1. TypeOK'
    BY <1>1, <1>2, <1>3, <1>5, <1>8 DEF TypeOK
  <2>2. CallsInv'
    BY <1>1, <1>2, <1>3, <1>5, <1>8 DEF CallsInv, Sb!Header
  <2>3. HeaderInv'
    BY <1>1, <1>2, <1>3, <1>8 DEF HeaderInv, Sb!Header
  <2>4. CacheInv'
    BY <1>1, <1>2, <1>3, <1>8 DEF CacheInv, Telling, Sb!AlreadyTold
  <2>5. TasksInv'
    <3>1. \A t \in Tasks : ~Sb!Began(t)' /\ tasks[t].pc # "resume"
      BY <1>1, <1>8 DEF Sb!Began
    <3> QED
      BY <1>1, <1>2, <1>8, <3>1 DEF TasksInv
  <2>6. StatusInv'
    BY <1>1, <1>2, <1>3, <1>8 DEF StatusInv, Pending, Telling, Sending
  <2> QED
    BY <2>1, <2>2, <2>3, <2>4, <2>5, <2>6 DEF IInv
<1> QED
  BY <1>6, <1>7, <1>8 DEF Sb!OnMempool, Sb!NotifySessions

-----------------------------------------------------------------------------
(* The calls of _notify_sessions.                                           *)

LEMMA RawHeaderInv ==
    ASSUME NoRaces, IInv, NEW c \in Callers, Sb!RawHeader(c)
    PROVE  IInv'
<1>1. /\ ns[c].pc = "header"
      /\ UNCHANGED <<chain, mempool, bp_touched, bp_pc, highest, mp, waiting, changes, history_cache,
                     hsub_results, notified_height, tasks, subs, subscribe_headers, mempool_status, client>>
  BY DEF Sb!RawHeader, Sb!source, Sb!caches, Sb!session
<1>2. TypeOK /\ CallsInv /\ HeaderInv /\ CacheInv /\ TasksInv /\ StatusInv
  BY DEF IInv
<1>3. /\ Sb!db_height \in Nat /\ Sb!db_height' = Sb!db_height /\ Sb!History' = Sb!History
      /\ (\A h : Sb!Header(h)' = Sb!Header(h)) /\ \A h \in 0 .. Sb!db_height : Sb!Header(h) \in Headers
  BY <1>1, <1>2, ChainFacts DEF Sb!db_height, Sb!History, Sb!Header
<1>4. ns[c] \in CallRecords /\ ns[c].height \in 0 .. Sb!db_height /\ DOMAIN ns = Callers
  BY <1>1, <1>2, <1>3 DEF TypeOK, CallsInv, CallRecords
<1>5. ns' = [ns EXCEPT ![c].pc = "refresh", ![c].header = Sb!Header(ns[c].height)]
  <2>1. ns[c].height <= Sb!db_height
    BY <1>3, <1>4
  <2> QED
    BY <2>1 DEF Sb!RawHeader
<1>6. /\ ns' \in [Callers -> CallRecords]
      /\ ns'[c].pc = "refresh" /\ ns'[c].height = ns[c].height /\ ns'[c].touched = ns[c].touched
      /\ ns'[c].header = Sb!Header(ns[c].height)
      /\ \A d \in Callers : d # c => ns'[d] = ns[d]
  BY <1>2, <1>3, <1>4, <1>5 DEF TypeOK, CallRecords
<1>7. \A d \in Callers : /\ ns'[d].touched = ns[d].touched /\ ns'[d].height = ns[d].height
                         /\ ns'[d].pc # "none" <=> ns[d].pc # "none"
  BY <1>1, <1>6
<1>8. TypeOK'
  BY <1>1, <1>2, <1>6 DEF TypeOK
<1>9. CallsInv'
  BY <1>1, <1>2, <1>3, <1>4, <1>6, <1>7 DEF CallsInv, Sb!Header, Callers
<1>10. HeaderInv'
  BY <1>1, <1>2, <1>3 DEF HeaderInv, Sb!Header
<1>11. Telling' = Telling /\ Sb!AlreadyTold(highest)' = Sb!AlreadyTold(highest)
  BY <1>1, <1>7 DEF Telling, Sb!AlreadyTold, Callers
<1>12. CacheInv'
  BY <1>1, <1>2, <1>3, <1>11 DEF CacheInv
<1>13. TasksInv'
  BY <1>1, <1>2, <1>3, <1>11 DEF TasksInv, Sb!Began, Pending
<1>14. StatusInv'
  BY <1>1, <1>2, <1>3, <1>11 DEF StatusInv, Pending, Sending
<1> QED
  BY <1>8, <1>9, <1>10, <1>12, <1>13, <1>14 DEF IInv

LEMMA RefreshHsubInv ==
    ASSUME NoRaces, IInv, NEW c \in Callers, Sb!RefreshHsubResults(c)
    PROVE  IInv'
<1>1. /\ ns[c].pc = "refresh" /\ hsub_results' = ns[c].header /\ notified_height' = ns[c].height
      /\ history_cache' = Sb!Invalidated(ns[c].touched)
      /\ ns' = [ns EXCEPT ![c] = Sb!Quiet] /\ bp_pc' = IF c = "bp" THEN "idle" ELSE bp_pc
      /\ UNCHANGED <<chain, mempool, bp_touched, highest, mp, waiting, changes, subs,
                     subscribe_headers, mempool_status, client>>
      /\ \A t \in Tasks : ~Sb!Began(t)
  BY DEF Sb!RefreshHsubResults, Sb!Undisturbed, NoRaces, Sb!session
<1>2. TypeOK /\ CallsInv /\ HeaderInv /\ CacheInv /\ TasksInv /\ StatusInv
  BY DEF IInv
<1>3. /\ Sb!db_height \in Nat /\ Sb!db_height' = Sb!db_height /\ Sb!History' = Sb!History
      /\ (\A h : Sb!Header(h)' = Sb!Header(h)) /\ \A h \in 0 .. Sb!db_height : Sb!Header(h) \in Headers
  BY <1>1, <1>2, ChainFacts DEF Sb!db_height, Sb!History, Sb!Header
<1>4. /\ ns[c] \in CallRecords /\ ns[c].height \in 0 .. Sb!db_height /\ DOMAIN ns = Callers
      /\ ns[c].header = Sb!Header(ns[c].height) /\ ns[c].touched \in BOOLEAN
  BY <1>1, <1>2, <1>3 DEF TypeOK, CallsInv, CallRecords
<1>5. PICK t \in Sb!Free : Sb!Spawn(t, ns[c].touched, TRUE)
  BY DEF Sb!RefreshHsubResults, Sb!HeightChanged
<1>6. /\ tasks' \in [Tasks -> TaskRecords]
      /\ t \in Tasks /\ tasks[t].pc = "none" /\ tasks'[t].kind = "notify" /\ tasks'[t].pc = "new"
      /\ tasks'[t].touched = ns[c].touched /\ tasks'[t].changed = TRUE /\ tasks'[t].result = NoValue
      /\ \A u \in Tasks : u # t => tasks'[u] = tasks[u]
  BY <1>2, <1>4, <1>5, SpawnFacts
<1>7. /\ ns' \in [Callers -> CallRecords] /\ ns'[c] = Sb!Quiet /\ ns'[c].pc = "none"
      /\ \A d \in Callers : d # c => ns'[d] = ns[d]
  <2>1. Sb!Quiet \in CallRecords /\ Sb!Quiet.pc = "none"
    BY DEF Sb!Quiet, CallRecords
  <2> QED
    BY <1>1, <1>2, <1>4, <2>1 DEF TypeOK
<1>8. TypeOK'
  <2>1. history_cache' \in Histories \cup {NoValue} /\ bp_pc' \in {"idle", "flushed", "notifying"}
    BY <1>1, <1>2 DEF TypeOK, Sb!Invalidated
  <2>2. hsub_results' \in Headers /\ notified_height' \in Nat
    BY <1>1, <1>3, <1>4
  <2> QED
    BY <1>1, <1>2, <1>6, <1>7, <2>1, <2>2 DEF TypeOK
<1>9. CallsInv'
  <2>1. ns'["bp"].pc # "none" <=> bp_pc' = "notifying"
    <3>1. CASE c = "bp"
      BY <1>1, <1>7, <3>1
    <3>2. CASE c # "bp"
      BY <1>1, <1>2, <1>7, <3>2 DEF CallsInv, Callers
    <3> QED
      BY <3>1, <3>2
  <2>2. \A d \in Callers : ns'[d].pc # "none" => d # c /\ ns'[d] = ns[d]
    BY <1>7
  <2>3. mp'.ready => ns'["mp"].pc = "none"
    BY <1>1, <1>2, <1>7 DEF CallsInv, Callers
  <2>4. \A d \in Callers : ns'[d].pc = "refresh" => ns'[d].pc # "none"
    OBVIOUS
  <2> QED
    BY <1>1, <1>2, <1>3, <2>1, <2>2, <2>3, <2>4 DEF CallsInv, Sb!Header
<1>10. HeaderInv'
  <2>1. notified_height' <= Sb!db_height' /\ hsub_results' = Sb!Header(notified_height)'
    BY <1>1, <1>3, <1>4 DEF Sb!Header
  <2> QED
    BY <1>6, <2>1 DEF HeaderInv
<1>11. /\ Telling => Telling' \/ ns[c].touched
       /\ Sb!AlreadyTold(highest)' => Sb!AlreadyTold(highest)
  <2>1. Telling => Telling' \/ ns[c].touched
    BY <1>7 DEF Telling
  <2>2. Sb!AlreadyTold(highest)' => Sb!AlreadyTold(highest)
    BY <1>1, <1>7 DEF Sb!AlreadyTold, Callers
  <2> QED
    BY <2>1, <2>2
<1>12. CacheInv'
  <2>1. CASE ns[c].touched
    BY <1>1, <2>1 DEF CacheInv, Sb!Invalidated
  <2>2. CASE ~ns[c].touched
    BY <1>1, <1>2, <1>3, <1>11, <2>2 DEF CacheInv, Sb!Invalidated
  <2> QED
    BY <2>1, <2>2
<1>13. TasksInv'
  BY <1>1, <1>2, <1>6, SpawnTasks
<1>14. StatusInv'
  <2>1. CASE ns[c].touched
    <3>1. Sending(tasks'[t])
      BY <1>6, <2>1 DEF Sending
    <3> QED
      BY <1>6, <3>1 DEF StatusInv
  <2>2. CASE ~ns[c].touched
    <3>1. \A u \in Tasks : Sending(tasks[u]) => u # t /\ Sending(tasks'[u])
      BY <1>6 DEF Sending
    <3>2. Pending => Pending'
      BY <1>1, <1>11, <2>2 DEF Pending
    <3> QED
      BY <1>1, <1>2, <1>3, <3>1, <3>2 DEF StatusInv
  <2> QED
    BY <2>1, <2>2
<1> QED
  BY <1>8, <1>9, <1>10, <1>12, <1>13, <1>14 DEF IInv


-----------------------------------------------------------------------------
(* The session.  Of an action that leaves the sources and the caches, only  *)
(* what it does to tasks and session is left to prove.                      *)

LEMMA SessionStep ==
    ASSUME IInv, UNCHANGED <<Sb!source, ns, hsub_results, notified_height>>,
           history_cache' \in {history_cache, Sb!History},
           tasks' \in [Tasks -> TaskRecords], subs' \in BOOLEAN, subscribe_headers' \in BOOLEAN,
           mempool_status' \in Statuses \cup {NoValue},
           client' \in [status : Statuses \cup {NoValue}, header : Headers \cup {NoValue}]
    PROVE  /\ TypeOK' /\ CallsInv' /\ CacheInv'
           /\ Sb!History' = Sb!History /\ Sb!Status(Sb!History, mempool)' = Sb!Status(Sb!History, mempool)
           /\ Pending' = Pending /\ mp' = mp
           /\ hsub_results' = hsub_results
           /\ \/ notified_height <= Sb!db_height /\ hsub_results = Sb!Header(notified_height)
              \/ Sb!db_height < notified_height \/ bp_pc = "flushed" \/ highest # notified_height
           /\ UNCHANGED <<bp_pc, highest, notified_height, chain, mempool>>
<1>1. TypeOK /\ CallsInv /\ HeaderInv /\ CacheInv
  BY DEF IInv
<1>2. UNCHANGED <<chain, mempool, bp_touched, bp_pc, highest, mp, waiting, changes, ns, hsub_results,
                  notified_height>>
  BY DEF Sb!source
<1>3. TypeOK'
  <2>1. history_cache' \in Histories \cup {NoValue}
    BY <1>1, ChainFacts DEF TypeOK
  <2> QED
    BY <1>1, <1>2, <2>1 DEF TypeOK
<1>4. Sb!History' = Sb!History /\ Sb!db_height' = Sb!db_height /\ \A h : Sb!Header(h)' = Sb!Header(h)
  BY <1>2 DEF Sb!History, Sb!db_height, Sb!Header
<1>5. CallsInv'
  BY <1>1, <1>2, <1>4 DEF CallsInv, Sb!Header
<1>6. CacheInv'
  BY <1>1, <1>2, <1>4 DEF CacheInv, Telling, Sb!AlreadyTold
<1>7. Pending' = Pending
  BY <1>2 DEF Pending, Telling
<1>8. Sb!Status(Sb!History, mempool)' = Sb!Status(Sb!History, mempool)
  BY <1>2, <1>4 DEF Sb!Status
<1> QED
  BY <1>1, <1>2, <1>3, <1>4, <1>5, <1>6, <1>7, <1>8 DEF HeaderInv

LEMMA HeadersSubscribeInv ==
    ASSUME IInv, Sb!HeadersSubscribe
    PROVE  IInv'
<1>1. /\ UNCHANGED <<Sb!source, ns, hsub_results, notified_height, history_cache>> /\ tasks' = tasks /\ subs' = subs
      /\ subscribe_headers' = TRUE /\ mempool_status' = mempool_status
      /\ client' = [client EXCEPT !.header = hsub_results]
  BY DEF Sb!HeadersSubscribe, Sb!caches
<1>2. TypeOK /\ HeaderInv /\ TasksInv /\ StatusInv
  BY DEF IInv
<1>3. client'.status = client.status /\ client'.header = hsub_results
      /\ client' \in [status : Statuses \cup {NoValue}, header : Headers \cup {NoValue}]
  BY <1>1, <1>2 DEF TypeOK
<1>4. /\ tasks' \in [Tasks -> TaskRecords] /\ subs' \in BOOLEAN /\ subscribe_headers' \in BOOLEAN
      /\ mempool_status' \in Statuses \cup {NoValue}
  BY <1>1, <1>2 DEF TypeOK
<1>5. /\ TypeOK' /\ CallsInv' /\ CacheInv' /\ HeaderInv'
      /\ Sb!History' = Sb!History /\ Sb!Status(Sb!History, mempool)' = Sb!Status(Sb!History, mempool)
      /\ Pending' = Pending /\ mp' = mp
  BY <1>1, <1>2, <1>3, <1>4, SessionStep DEF HeaderInv, Sb!Header, Sb!db_height
<1>6. TasksInv'
  BY <1>1, <1>2, <1>5 DEF TasksInv, Sb!Began
<1>7. StatusInv'
  BY <1>1, <1>2, <1>3, <1>5 DEF StatusInv
<1> QED
  BY <1>5, <1>6, <1>7 DEF IInv

LEMMA UnsubscribeInv ==
    ASSUME IInv, Sb!Unsubscribe
    PROVE  IInv'
<1>1. /\ UNCHANGED <<Sb!source, ns, hsub_results, notified_height, history_cache>> /\ tasks' = tasks /\ subs' = FALSE
      /\ subscribe_headers' = subscribe_headers /\ mempool_status' = NoValue /\ client' = client
  BY DEF Sb!Unsubscribe, Sb!caches
<1>2. TypeOK /\ HeaderInv /\ TasksInv
  BY DEF IInv
<1>3. /\ tasks' \in [Tasks -> TaskRecords] /\ subs' \in BOOLEAN /\ subscribe_headers' \in BOOLEAN
      /\ mempool_status' \in Statuses \cup {NoValue}
      /\ client' \in [status : Statuses \cup {NoValue}, header : Headers \cup {NoValue}]
  BY <1>1, <1>2 DEF TypeOK
<1>4. /\ TypeOK' /\ CallsInv' /\ CacheInv' /\ HeaderInv'
      /\ Sb!History' = Sb!History /\ Sb!Status(Sb!History, mempool)' = Sb!Status(Sb!History, mempool)
      /\ Pending' = Pending
  BY <1>1, <1>2, <1>3, SessionStep DEF HeaderInv, Sb!Header, Sb!db_height
<1>5. TasksInv'
  BY <1>1, <1>2, <1>4 DEF TasksInv, Sb!Began
<1>6. StatusInv'
  BY <1>1 DEF StatusInv
<1> QED
  BY <1>4, <1>5, <1>6 DEF IInv

\* A task was replaced by another record, what is true of the rest stays.
LEMMA OneTaskChanged ==
    ASSUME NoRaces, IInv, NEW t \in Tasks, NEW record \in TaskRecords,
           tasks' = [tasks EXCEPT ![t] = record]
    PROVE  /\ tasks' \in [Tasks -> TaskRecords] /\ tasks'[t] = record
           /\ \A u \in Tasks : u # t => tasks'[u] = tasks[u]
  BY DEF IInv, TypeOK

LEMMA NoTaskFacts ==
    /\ Sb!NoTask \in TaskRecords /\ ~Sending(Sb!NoTask)
    /\ Sb!NoTask.kind = "none" /\ Sb!NoTask.pc = "none" /\ Sb!NoTask.touched = FALSE /\ Sb!NoTask.result = NoValue
<1>1. Sb!NoTask \in TaskRecords
  BY DEF Sb!NoTask, TaskRecords
<1>2. Sb!NoTask.kind = "none" /\ Sb!NoTask.pc = "none" /\ Sb!NoTask.touched = FALSE /\ Sb!NoTask.result = NoValue
  BY DEF Sb!NoTask
<1> QED
  BY <1>1, <1>2 DEF Sending

LEMMA AskInv ==
    ASSUME NoRaces, IInv, NEW t \in Tasks, NEW kind \in {"subscribe", "query"}, Sb!Ask(t, kind)
    PROVE  IInv'
<1> DEFINE new == [Sb!NoTask EXCEPT !.kind = kind, !.pc = "new"]
<1>1. /\ UNCHANGED <<Sb!source, ns, hsub_results, notified_height, history_cache, subs, subscribe_headers, mempool_status, client>>
      /\ tasks[t].pc = "none" /\ tasks' = [tasks EXCEPT ![t] = new]
  BY DEF Sb!Ask, Sb!session, Sb!caches
<1>2. TypeOK /\ HeaderInv /\ TasksInv /\ StatusInv
  BY DEF IInv
<1>3. /\ new \in TaskRecords /\ new.kind = kind /\ new.pc = "new" /\ new.touched = FALSE
      /\ new.result = NoValue
  BY NoTaskFacts DEF TaskRecords
<1> HIDE DEF new
<1>4. /\ tasks' \in [Tasks -> TaskRecords] /\ tasks'[t] = new
      /\ \A u \in Tasks : u # t => tasks'[u] = tasks[u]
  BY <1>1, <1>3, OneTaskChanged
<1>5. /\ subs' \in BOOLEAN /\ subscribe_headers' \in BOOLEAN
      /\ mempool_status' \in Statuses \cup {NoValue}
      /\ client' \in [status : Statuses \cup {NoValue}, header : Headers \cup {NoValue}]
  BY <1>1, <1>2 DEF TypeOK
<1>6. /\ TypeOK' /\ CallsInv' /\ CacheInv'
      /\ Sb!History' = Sb!History /\ Sb!Status(Sb!History, mempool)' = Sb!Status(Sb!History, mempool)
      /\ Pending' = Pending /\ mp' = mp /\ hsub_results' = hsub_results
      /\ \/ notified_height <= Sb!db_height /\ hsub_results = Sb!Header(notified_height)
         \/ Sb!db_height < notified_height \/ bp_pc = "flushed" \/ highest # notified_height
      /\ UNCHANGED <<bp_pc, highest, notified_height, chain, mempool>>
  BY <1>1, <1>4, <1>5, SessionStep
<1>7. HeaderInv'
  BY <1>1, <1>2, <1>4, <1>6 DEF HeaderInv, Sb!Header, Sb!db_height
<1>8. TasksInv'
  <2>1. ~Sb!Began(t)' /\ \A u \in Tasks : u # t => Sb!Began(u)' = Sb!Began(u)
    BY <1>3, <1>4 DEF Sb!Began
  <2> QED
    BY <1>1, <1>2, <1>3, <1>4, <1>6, <2>1 DEF TasksInv
<1>9. StatusInv'
  <2>1. \A u \in Tasks : Sending(tasks[u]) => u # t /\ Sending(tasks'[u])
    BY <1>1, <1>4 DEF Sending
  <2> QED
    BY <1>1, <1>2, <1>6, <2>1 DEF StatusInv
<1> QED
  BY <1>6, <1>7, <1>8, <1>9 DEF IInv


\* A task that goes on: what it found is right, or a touch is on its way.
LEMMA TaskGoesOn ==
    ASSUME NoRaces, IInv, NEW t \in Tasks, NEW record \in TaskRecords,
           tasks' = [tasks EXCEPT ![t] = record], \A u \in Tasks : u # t => ~Sb!Began(u),
           Sb!History' = Sb!History, Sb!Status(Sb!History, mempool)' = Sb!Status(Sb!History, mempool), Pending' = Pending,
           record.kind # "notify" =>
               record.touched = FALSE /\ record.result = NoValue /\ record.pc \notin {"status", "send"},
           record.kind = "none" => record.pc = "none", record.pc = "new" => record.result = NoValue,
           record.kind = "notify" /\ record.pc \notin {"none", "new"} => record.stage \in {1, 2},
           record.pc = "resume" => record.history = Sb!History,
           record.pc \notin {"none", "new"} /\ record.result # NoValue =>
               record.result = Sb!Status(Sb!History, mempool) \/ Pending \/ ~subs'
    PROVE  TasksInv'
<1>1. /\ tasks'[t] = record /\ \A u \in Tasks : u # t => tasks'[u] = tasks[u]
  BY OneTaskChanged
<1>2. TasksInv
  BY DEF IInv
<1>3. \A u \in Tasks : u # t => ~Sb!Began(u)'
  BY <1>1 DEF Sb!Began
<1>4. ASSUME NEW u \in Tasks, u # t
      PROVE  /\ tasks'[u].kind # "notify" =>
                   /\ tasks'[u].touched = FALSE /\ tasks'[u].result = NoValue
                   /\ tasks'[u].pc \notin {"status", "send"}
             /\ tasks'[u].kind = "none" => tasks'[u].pc = "none"
             /\ tasks'[u].pc = "new" => tasks'[u].result = NoValue
             /\ tasks'[u].pc # "resume"
  BY <1>1, <1>2, <1>4 DEF TasksInv, Sb!Began
<1> QED
  BY <1>1, <1>3, <1>4 DEF TasksInv, Sb!Began

LEMMA NotifyInnerInv ==
    ASSUME NoRaces, IInv, NEW t \in Tasks, Sb!NotifyInner(t)
    PROVE  IInv'
<1> DEFINE task == tasks[t]
           stage1 == [task EXCEPT !.pc = "status", !.stage = 1]
           second == [task EXCEPT !.pc = "status", !.stage = 2, !.old = mempool_status]
<1>1. /\ UNCHANGED <<Sb!source, ns, hsub_results, notified_height, history_cache, subs, subscribe_headers,
                     mempool_status>>
      /\ task.pc = "new" /\ task.kind = "notify" /\ \A u \in Tasks : u # t => ~Sb!Began(u)
      /\ client' = IF task.changed /\ subscribe_headers
                   THEN [client EXCEPT !.header = hsub_results] ELSE client
  BY DEF Sb!NotifyInner, Sb!caches, Sb!Alone, NoRaces
<1>2. TypeOK /\ HeaderInv /\ TasksInv /\ StatusInv
  BY DEF IInv
<1>3. task \in TaskRecords
  BY <1>2 DEF TypeOK
<1>4. PICK record \in {stage1, second, Sb!NoTask} :
        /\ tasks' = [tasks EXCEPT ![t] = record]
        /\ task.touched /\ subs => record = stage1
  BY DEF Sb!NotifyInner, Sb!ToTell
<1>5. /\ client'.status = client.status
      /\ client' \in [status : Statuses \cup {NoValue}, header : Headers \cup {NoValue}]
      /\ (client'.header = client.header \/ client'.header = hsub_results)
      /\ task.changed /\ subscribe_headers => client'.header = hsub_results
  <2>1. CASE task.changed /\ subscribe_headers
    BY <1>1, <1>2, <2>1 DEF TypeOK
  <2>2. CASE ~(task.changed /\ subscribe_headers)
    BY <1>1, <1>2, <2>2 DEF TypeOK
  <2> QED
    BY <2>1, <2>2
<1>6. /\ stage1 \in TaskRecords /\ stage1.kind = "notify" /\ stage1.pc = "status" /\ stage1.stage = 1
      /\ stage1.result = task.result
  <2>1. stage1 \in TaskRecords
    BY <1>3 DEF TaskRecords
  <2>2. stage1.kind = task.kind /\ stage1.pc = "status" /\ stage1.stage = 1 /\ stage1.result = task.result
    BY <1>3 DEF TaskRecords
  <2> QED
    BY <1>1, <2>1, <2>2
<1>7. /\ second \in TaskRecords /\ second.kind = "notify" /\ second.pc = "status" /\ second.stage = 2
      /\ second.result = task.result
  <2>1. mempool_status \in Statuses \cup {NoValue}
    BY <1>2 DEF TypeOK
  <2>2. second \in TaskRecords
    BY <1>3, <2>1 DEF TaskRecords
  <2>3. second.kind = task.kind /\ second.pc = "status" /\ second.stage = 2 /\ second.result = task.result
    BY <1>3 DEF TaskRecords
  <2> QED
    BY <1>1, <2>2, <2>3
<1> HIDE DEF stage1, second
<1>8. record \in TaskRecords
  BY <1>4, <1>6, <1>7, NoTaskFacts
<1>9. /\ tasks' \in [Tasks -> TaskRecords] /\ tasks'[t] = record
      /\ \A u \in Tasks : u # t => tasks'[u] = tasks[u]
  BY <1>4, <1>8, OneTaskChanged
<1>10. /\ subs' \in BOOLEAN /\ subscribe_headers' \in BOOLEAN /\ mempool_status' \in Statuses \cup {NoValue}
  BY <1>1, <1>2 DEF TypeOK
<1>11. /\ TypeOK' /\ CallsInv' /\ CacheInv'
       /\ Sb!History' = Sb!History /\ Sb!Status(Sb!History, mempool)' = Sb!Status(Sb!History, mempool)
       /\ Pending' = Pending /\ mp' = mp /\ hsub_results' = hsub_results
       /\ \/ notified_height <= Sb!db_height /\ hsub_results = Sb!Header(notified_height)
          \/ Sb!db_height < notified_height \/ bp_pc = "flushed" \/ highest # notified_height
       /\ UNCHANGED <<bp_pc, highest, notified_height, chain, mempool>>
  BY <1>1, <1>5, <1>9, <1>10, SessionStep
<1>12. HeaderInv'
  <2>1. \/ notified_height' <= Sb!db_height' /\ hsub_results' = Sb!Header(notified_height)'
        \/ Sb!db_height' < notified_height' \/ bp_pc' = "flushed" \/ highest' # notified_height'
    BY <1>11 DEF Sb!Header, Sb!db_height
  <2>2. subscribe_headers' =>
          \/ client'.header = hsub_results'
          \/ \E u \in Tasks : tasks'[u].kind = "notify" /\ tasks'[u].pc = "new" /\ tasks'[u].changed
    BY <1>1, <1>2, <1>5, <1>9, <1>11 DEF HeaderInv
  <2> QED
    BY <2>1, <2>2 DEF HeaderInv
<1>13. record.result = NoValue
  <2>1. task.result = NoValue
    BY <1>1, <1>2 DEF TasksInv
  <2> QED
    BY <1>4, <1>6, <1>7, <2>1, NoTaskFacts
<1>14. TasksInv'
  BY <1>1, <1>4, <1>6, <1>7, <1>8, <1>11, <1>13, NoTaskFacts, TaskGoesOn
<1>15. StatusInv'
  <2>1. Sending(task) /\ subs => Sending(record)
    BY <1>1, <1>4, <1>6 DEF Sending
  <2> QED
    BY <1>1, <1>2, <1>5, <1>9, <1>11, <2>1 DEF StatusInv, Sending
<1> QED
  BY <1>11, <1>12, <1>14, <1>15 DEF IInv


\* An answer from a history that is right, or wrong while a touch is on its way.
LEMMA AnswerInv ==
    ASSUME NoRaces, IInv, NEW t \in Tasks, NEW history \in Histories, Sb!Answer(t, history),
           history = Sb!History \/ Pending,
           Sb!Began(t) \/ (tasks[t].pc = "new" /\ tasks[t].kind # "notify"), tasks[t].pc \notin {"none", "send"},
           \A u \in Tasks : u # t => ~Sb!Began(u),
           UNCHANGED <<Sb!source, ns, hsub_results, notified_height>>,
           history_cache' \in {history_cache, Sb!History}
    PROVE  IInv'
<1> DEFINE task == tasks[t]
           status == Sb!Status(history, mempool)
           unconfirmed == IF mempool THEN status ELSE NoValue
           failed == [task EXCEPT !.pc = "send", !.result = Sb!Status({}, FALSE)]
           stage1 == [task EXCEPT !.pc = IF mempool THEN "status" ELSE "send",
                                 !.stage = 2, !.old = status, !.result = status]
           second == [task EXCEPT !.pc = "send", !.result = IF status # task.old THEN status ELSE @]
<1>1. TypeOK /\ HeaderInv /\ TasksInv /\ StatusInv
  BY DEF IInv
<1>2. /\ task \in TaskRecords /\ status \in Statuses /\ unconfirmed \in Statuses \cup {NoValue}
      /\ Sb!Status({}, FALSE) \in Statuses /\ status # NoValue
      /\ status = Sb!Status(Sb!History, mempool) \/ Pending
  <2>1. task \in TaskRecords /\ mempool \in BOOLEAN
    BY <1>1 DEF TypeOK
  <2>2. \A h \in Histories, u \in BOOLEAN : Sb!Status(h, u) \in Statuses
    BY DEF Sb!Status, Statuses
  <2>3. {} \in Histories
    BY DEF Histories
  <2> QED
    BY <2>1, <2>2, <2>3 DEF NoRaces
<1>3. /\ failed \in TaskRecords /\ stage1 \in TaskRecords /\ second \in TaskRecords
  <2>1. failed \in TaskRecords
    BY <1>2 DEF TaskRecords
  <2>2. stage1 \in TaskRecords
    BY <1>2 DEF TaskRecords
  <2>3. second \in TaskRecords
    BY <1>2 DEF TaskRecords
  <2> QED
    BY <2>1, <2>2, <2>3
<1>4. /\ failed.kind = task.kind /\ failed.pc = "send" /\ failed.stage = task.stage
      /\ failed.touched = task.touched
  BY <1>2 DEF TaskRecords
<1>5. /\ stage1.kind = task.kind /\ stage1.pc \in {"status", "send"} /\ stage1.stage = 2
      /\ stage1.result = status
  BY <1>2 DEF TaskRecords
<1>6. /\ second.kind = task.kind /\ second.pc = "send" /\ second.stage = task.stage
      /\ second.result = status \/ second.result = task.result
  BY <1>2 DEF TaskRecords
<1>7. PICK record \in TaskRecords :
        /\ tasks' = [tasks EXCEPT ![t] = record] /\ subscribe_headers' = subscribe_headers
        /\ \/ record = Sb!NoTask /\ task.kind # "notify"
              /\ subs' = subs /\ mempool_status' = mempool_status /\ client' = client
           \/ record = Sb!NoTask /\ task.kind # "notify"
              /\ subs' = TRUE /\ mempool_status' = unconfirmed
              /\ client' = [client EXCEPT !.status = status]
           \/ record = failed /\ task.kind = "notify"
              /\ subs' = FALSE /\ mempool_status' = NoValue /\ client' = client
           \/ record = (IF task.stage = 1 THEN stage1 ELSE second) /\ task.kind = "notify"
              /\ subs' = subs /\ mempool_status' = unconfirmed /\ client' = client
  <2> DEFINE tooLong == Sb!Cardinality(history) >= Limit
  <2>1. CASE /\ task.kind = "query" \/ (task.kind = "subscribe" /\ tooLong)
             /\ tasks' = [tasks EXCEPT ![t] = Sb!NoTask] /\ UNCHANGED Sb!session
    BY <2>1, NoTaskFacts DEF Sb!session
  <2>2. CASE /\ task.kind = "subscribe" /\ ~tooLong
             /\ tasks' = [tasks EXCEPT ![t] = Sb!NoTask]
             /\ subs' = TRUE /\ mempool_status' = unconfirmed
             /\ client' = [client EXCEPT !.status = status] /\ UNCHANGED subscribe_headers
    BY <2>2, NoTaskFacts
  <2>3. CASE /\ task.kind = "notify" /\ tooLong
             /\ tasks' = [tasks EXCEPT ![t] = failed]
             /\ subs' = FALSE /\ mempool_status' = NoValue /\ UNCHANGED <<subscribe_headers, client>>
    BY <1>3, <2>3
  <2>4. CASE /\ task.kind = "notify" /\ ~tooLong
             /\ tasks' = [tasks EXCEPT ![t] = IF task.stage = 1 THEN stage1 ELSE second]
             /\ mempool_status' = unconfirmed /\ UNCHANGED <<subs, subscribe_headers, client>>
    BY <1>3, <2>4
  <2> QED
    BY <2>1, <2>2, <2>3, <2>4 DEF Sb!Answer
<1> HIDE DEF failed, stage1, second, unconfirmed
<1>8. /\ tasks' \in [Tasks -> TaskRecords] /\ tasks'[t] = record
      /\ \A u \in Tasks : u # t => tasks'[u] = tasks[u]
  BY <1>7, OneTaskChanged
<1>9. /\ client' \in [status : Statuses \cup {NoValue}, header : Headers \cup {NoValue}]
      /\ client'.header = client.header
      /\ client'.status = client.status \/ (client'.status = status /\ client' # client)
  BY <1>1, <1>2, <1>7 DEF TypeOK
<1>10. /\ subs' \in BOOLEAN /\ subscribe_headers' \in BOOLEAN /\ mempool_status' \in Statuses \cup {NoValue}
  BY <1>1, <1>2, <1>7 DEF TypeOK
<1>11. /\ TypeOK' /\ CallsInv' /\ CacheInv'
       /\ Sb!History' = Sb!History /\ Sb!Status(Sb!History, mempool)' = Sb!Status(Sb!History, mempool)
       /\ Pending' = Pending /\ mp' = mp /\ hsub_results' = hsub_results
       /\ \/ notified_height <= Sb!db_height /\ hsub_results = Sb!Header(notified_height)
          \/ Sb!db_height < notified_height \/ bp_pc = "flushed" \/ highest # notified_height
       /\ UNCHANGED <<bp_pc, highest, notified_height, chain, mempool>>
  BY <1>8, <1>9, <1>10, SessionStep
<1>12. HeaderInv'
  <2>1. \/ notified_height' <= Sb!db_height' /\ hsub_results' = Sb!Header(notified_height)'
        \/ Sb!db_height' < notified_height' \/ bp_pc' = "flushed" \/ highest' # notified_height'
    BY <1>11 DEF Sb!Header, Sb!db_height
  <2>2. subscribe_headers' =>
          \/ client'.header = hsub_results'
          \/ \E u \in Tasks : tasks'[u].kind = "notify" /\ tasks'[u].pc = "new" /\ tasks'[u].changed
    <3>1. ~(task.kind = "notify" /\ task.pc = "new")
      BY DEF Sb!Began
    <3> QED
      BY <1>1, <1>7, <1>8, <1>9, <1>11, <3>1 DEF HeaderInv
  <2> QED
    BY <2>1, <2>2 DEF HeaderInv
<1>13. task.kind = "notify" =>
         /\ Sb!Began(t) /\ task.stage \in {1, 2}
         /\ task.result # NoValue => task.result = Sb!Status(Sb!History, mempool) \/ Pending \/ ~subs
  BY <1>1 DEF TasksInv
<1>14. TasksInv'
  <2>1. /\ record.kind # "notify" => record = Sb!NoTask
        /\ record.kind = "none" => record.pc = "none"
        /\ record.pc \notin {"new", "resume"}
        /\ record.kind = "notify" /\ record.pc \notin {"none", "new"} => record.stage \in {1, 2}
    BY <1>4, <1>5, <1>6, <1>7, <1>13, NoTaskFacts
  <2>2. record.result # NoValue => record.result = Sb!Status(Sb!History, mempool) \/ Pending \/ ~subs'
    BY <1>2, <1>5, <1>6, <1>7, <1>13, NoTaskFacts
  <2>3. record.kind # "notify" =>
          record.touched = FALSE /\ record.result = NoValue /\ record.pc \notin {"status", "send"}
    BY <2>1, NoTaskFacts
  <2> QED
    BY <1>7, <1>11, <2>1, <2>2, <2>3, TaskGoesOn
<1>15. StatusInv'
  <2>1. CASE subs' = TRUE /\ client' = [client EXCEPT !.status = status]
    <3>1. client'.status = status
      BY <1>1, <2>1 DEF TypeOK
    <3> QED
      BY <1>2, <1>11, <3>1 DEF StatusInv
  <2>2. CASE subs' = FALSE
    BY <2>2 DEF StatusInv
  <2>3. CASE subs' = subs /\ client' = client
             /\ (task.kind = "notify" => record = IF task.stage = 1 THEN stage1 ELSE second)
    <3>1. Sending(task) => Sending(record)
      <4> SUFFICES ASSUME Sending(task) PROVE Sending(record)
        OBVIOUS
      <4>1. task.kind = "notify" /\ task.pc \in {"status", "resume"} /\ (task.stage = 1 \/ task.result # NoValue)
        BY DEF Sending, Sb!Began
      <4>2. record.kind = "notify" /\ record.result # NoValue /\ record.pc \in {"status", "send"}
        BY <1>2, <1>5, <1>6, <2>3, <4>1
      <4> QED
        BY <4>2 DEF Sending
    <3> QED
      BY <1>1, <1>8, <1>11, <2>3, <3>1 DEF StatusInv
  <2> QED
    BY <1>7, <2>1, <2>2, <2>3
<1> QED
  BY <1>11, <1>12, <1>14, <1>15 DEF IInv


LEMMA OthersWait ==
    ASSUME TasksInv, NEW t \in Tasks, Sb!Began(t)
    PROVE  \A u \in Tasks : u # t => ~Sb!Began(u)
  BY DEF TasksInv

LEMMA CachedHistoryInv ==
    ASSUME NoRaces, IInv, NEW t \in Tasks, Sb!CachedHistory(t)
    PROVE  IInv'
<1>1. /\ history_cache # NoValue /\ Sb!Answer(t, history_cache) /\ Sb!AtStatus(t)
      /\ UNCHANGED <<Sb!source, ns, hsub_results, notified_height>> /\ history_cache' = history_cache
      /\ \A u \in Tasks : u # t => ~Sb!Began(u)
  BY DEF Sb!CachedHistory, Sb!caches, Sb!Alone, NoRaces
<1>2. history_cache \in Histories /\ (history_cache = Sb!History \/ Pending)
  BY <1>1 DEF IInv, TypeOK, CacheInv, Pending
<1>3. /\ Sb!Began(t) \/ (tasks[t].pc = "new" /\ tasks[t].kind # "notify")
      /\ tasks[t].pc \notin {"none", "send"}
  BY <1>1 DEF Sb!AtStatus, Sb!Began
<1> QED
  BY <1>1, <1>2, <1>3, AnswerInv

LEMMA CacheHistoryInv ==
    ASSUME NoRaces, IInv, NEW t \in Tasks, Sb!CacheHistory(t)
    PROVE  IInv'
<1>1. /\ tasks[t].pc = "resume" /\ history_cache' = tasks[t].history /\ Sb!Answer(t, tasks[t].history)
      /\ UNCHANGED <<Sb!source, ns, hsub_results, notified_height>>
  BY DEF Sb!CacheHistory
<1>2. tasks[t].history = Sb!History /\ Sb!History \in Histories
  BY <1>1, ChainFacts DEF IInv, TasksInv
<1>3. Sb!Began(t) /\ tasks[t].pc \notin {"none", "send"}
  BY <1>1 DEF Sb!Began
<1>4. \A u \in Tasks : u # t => ~Sb!Began(u)
  BY <1>3, OthersWait DEF IInv
<1> QED
  BY <1>1, <1>2, <1>3, <1>4, AnswerInv

LEMMA ReadHistoryInv ==
    ASSUME NoRaces, IInv, NEW t \in Tasks, Sb!ReadHistory(t)
    PROVE  IInv'
<1> DEFINE task == tasks[t]
           record == [task EXCEPT !.pc = "resume", !.history = Sb!History]
<1>1. /\ UNCHANGED <<Sb!source, ns, hsub_results, notified_height, history_cache, subs, subscribe_headers,
                     mempool_status, client>>
      /\ Sb!AtStatus(t) /\ \A u \in Tasks : u # t => ~Sb!Began(u)
  BY DEF Sb!ReadHistory, Sb!caches, Sb!session, Sb!Alone, NoRaces
<1>2. TypeOK /\ HeaderInv /\ TasksInv /\ StatusInv
  BY DEF IInv
<1>3. task \in TaskRecords /\ Sb!History \in Histories
  BY <1>2, ChainFacts DEF TypeOK
<1>4. tasks' = [tasks EXCEPT ![t] = record]
  BY <1>2 DEF Sb!ReadHistory, TypeOK, TaskRecords
<1>5. record \in TaskRecords
  BY <1>3 DEF TaskRecords
<1>6. /\ record.kind = task.kind /\ record.pc = "resume" /\ record.stage = task.stage
      /\ record.touched = task.touched /\ record.result = task.result /\ record.history = Sb!History
  BY <1>3 DEF TaskRecords
<1> HIDE DEF record
<1>7. /\ tasks' \in [Tasks -> TaskRecords] /\ tasks'[t] = record
      /\ \A u \in Tasks : u # t => tasks'[u] = tasks[u]
  BY <1>4, <1>5, OneTaskChanged
<1>8. /\ subs' \in BOOLEAN /\ subscribe_headers' \in BOOLEAN /\ mempool_status' \in Statuses \cup {NoValue}
      /\ client' \in [status : Statuses \cup {NoValue}, header : Headers \cup {NoValue}]
  BY <1>1, <1>2 DEF TypeOK
<1>9. /\ TypeOK' /\ CallsInv' /\ CacheInv'
      /\ Sb!History' = Sb!History /\ Sb!Status(Sb!History, mempool)' = Sb!Status(Sb!History, mempool)
      /\ Pending' = Pending /\ mp' = mp /\ hsub_results' = hsub_results
      /\ \/ notified_height <= Sb!db_height /\ hsub_results = Sb!Header(notified_height)
         \/ Sb!db_height < notified_height \/ bp_pc = "flushed" \/ highest # notified_height
      /\ UNCHANGED <<bp_pc, highest, notified_height, chain, mempool>>
  BY <1>1, <1>7, <1>8, SessionStep
<1>10. task.kind # "none" /\ ~(task.kind = "notify" /\ task.pc = "new")
       /\ (task.kind = "notify" => Sb!Began(t)) /\ (task.pc = "new" => task.result = NoValue)
  BY <1>1, <1>2 DEF Sb!AtStatus, Sb!Began, TasksInv
<1>11. HeaderInv'
  <2>1. \/ notified_height' <= Sb!db_height' /\ hsub_results' = Sb!Header(notified_height)'
        \/ Sb!db_height' < notified_height' \/ bp_pc' = "flushed" \/ highest' # notified_height'
    BY <1>9 DEF Sb!Header, Sb!db_height
  <2>2. subscribe_headers' =>
          \/ client'.header = hsub_results'
          \/ \E u \in Tasks : tasks'[u].kind = "notify" /\ tasks'[u].pc = "new" /\ tasks'[u].changed
    BY <1>1, <1>2, <1>7, <1>9, <1>10 DEF HeaderInv
  <2> QED
    BY <2>1, <2>2 DEF HeaderInv
<1>12. TasksInv'
  <2>1. /\ record.kind # "notify" =>
             record.touched = FALSE /\ record.result = NoValue /\ record.pc \notin {"status", "send"}
        /\ record.kind = "notify" => record.stage \in {1, 2}
        /\ record.result # NoValue => record.result = Sb!Status(Sb!History, mempool) \/ Pending \/ ~subs'
    BY <1>1, <1>2, <1>6, <1>10 DEF TasksInv, Sb!AtStatus, Sb!Began
  <2> QED
    BY <1>1, <1>4, <1>5, <1>6, <1>9, <1>10, <2>1, TaskGoesOn
<1>13. StatusInv'
  <2>1. Sending(task) => Sending(record)
    BY <1>1, <1>6, <1>10 DEF Sending, Sb!AtStatus
  <2> QED
    BY <1>1, <1>2, <1>7, <1>9, <2>1 DEF StatusInv
<1> QED
  BY <1>9, <1>11, <1>12, <1>13 DEF IInv

LEMMA SendNotificationInv ==
    ASSUME NoRaces, IInv, NEW t \in Tasks, Sb!SendNotification(t)
    PROVE  IInv'
<1> DEFINE task == tasks[t]
<1>1. /\ UNCHANGED <<Sb!source, ns, hsub_results, notified_height, history_cache, subs, subscribe_headers,
                     mempool_status>>
      /\ task.pc = "send" /\ tasks' = [tasks EXCEPT ![t] = Sb!NoTask]
      /\ client' = IF task.result = NoValue THEN client ELSE [client EXCEPT !.status = task.result]
  BY DEF Sb!SendNotification, Sb!caches
<1>2. TypeOK /\ HeaderInv /\ TasksInv /\ StatusInv
  BY DEF IInv
<1>3. Sb!Began(t)
  BY <1>1 DEF Sb!Began
<1>4. \A u \in Tasks : u # t => ~Sb!Began(u)
  BY <1>2, <1>3, OthersWait
<1>5. /\ tasks' \in [Tasks -> TaskRecords] /\ tasks'[t] = Sb!NoTask
      /\ \A u \in Tasks : u # t => tasks'[u] = tasks[u]
  BY <1>1, NoTaskFacts, OneTaskChanged
<1>6. /\ client' \in [status : Statuses \cup {NoValue}, header : Headers \cup {NoValue}]
      /\ client'.header = client.header
      /\ task.result = NoValue => client'.status = client.status
      /\ task.result # NoValue => client'.status = task.result
  <2>1. task.result \in Statuses \cup {NoValue}
    BY <1>2 DEF TypeOK, TaskRecords
  <2> QED
    BY <1>1, <1>2, <2>1 DEF TypeOK
<1>7. /\ subs' \in BOOLEAN /\ subscribe_headers' \in BOOLEAN /\ mempool_status' \in Statuses \cup {NoValue}
  BY <1>1, <1>2 DEF TypeOK
<1>8. /\ TypeOK' /\ CallsInv' /\ CacheInv'
      /\ Sb!History' = Sb!History /\ Sb!Status(Sb!History, mempool)' = Sb!Status(Sb!History, mempool)
      /\ Pending' = Pending /\ mp' = mp /\ hsub_results' = hsub_results
      /\ \/ notified_height <= Sb!db_height /\ hsub_results = Sb!Header(notified_height)
         \/ Sb!db_height < notified_height \/ bp_pc = "flushed" \/ highest # notified_height
      /\ UNCHANGED <<bp_pc, highest, notified_height, chain, mempool>>
  BY <1>1, <1>5, <1>6, <1>7, SessionStep
<1>9. HeaderInv'
  <2>1. \/ notified_height' <= Sb!db_height' /\ hsub_results' = Sb!Header(notified_height)'
        \/ Sb!db_height' < notified_height' \/ bp_pc' = "flushed" \/ highest' # notified_height'
    BY <1>8 DEF Sb!Header, Sb!db_height
  <2>2. subscribe_headers' =>
          \/ client'.header = hsub_results'
          \/ \E u \in Tasks : tasks'[u].kind = "notify" /\ tasks'[u].pc = "new" /\ tasks'[u].changed
    BY <1>1, <1>2, <1>5, <1>6, <1>8 DEF HeaderInv
  <2> QED
    BY <2>1, <2>2 DEF HeaderInv
<1>10. TasksInv'
  BY <1>1, <1>4, <1>8, NoTaskFacts, TaskGoesOn
<1>11. StatusInv'
  <2>1. CASE task.result = NoValue
    <3>1. ~Sending(task)
      BY <1>1, <2>1 DEF Sending
    <3> QED
      BY <1>1, <1>2, <1>5, <1>6, <1>8, <2>1, <3>1 DEF StatusInv
  <2>2. CASE task.result # NoValue
    <3>1. client'.status = Sb!Status(Sb!History, mempool) \/ Pending \/ ~subs
      BY <1>2, <1>3, <1>6, <2>2 DEF TasksInv
    <3> QED
      BY <1>1, <1>8, <3>1 DEF StatusInv
  <2> QED
    BY <2>1, <2>2
<1> QED
  BY <1>8, <1>9, <1>10, <1>11 DEF IInv

-----------------------------------------------------------------------------
(* The theorem.                                                             *)

LEMMA InitInv ==
    ASSUME NoRaces, Sb!Init
    PROVE  IInv
<1>1. /\ chain = <<0>> /\ mempool = FALSE /\ bp_touched = FALSE /\ bp_pc = "idle" /\ highest = 0
      /\ mp = [height |-> 0, touched |-> FALSE, ready |-> FALSE] /\ waiting = FALSE
      /\ ns = [c \in Callers |-> Sb!Quiet] /\ history_cache = NoValue /\ hsub_results = Sb!Header(0)
      /\ notified_height = 0 /\ tasks = [t \in Tasks |-> Sb!NoTask] /\ subs = FALSE
      /\ subscribe_headers = FALSE /\ mempool_status = NoValue /\ client = [status |-> NoValue, header |-> NoValue]
  BY DEF Sb!Init, Callers
<1>2. chain \in Seq(Contents) /\ Len(chain) = 1 /\ Sb!db_height = 0
  BY <1>1 DEF Contents, Sb!db_height
<1>3. Sb!Header(0) \in Headers
  <2>1. SubSeq(chain, 1, 1) \in Seq(Contents)
    BY <1>2
  <2> QED
    BY <2>1 DEF Sb!Header, Headers
<1>4. Sb!Quiet \in CallRecords /\ Sb!Quiet.pc = "none"
  BY DEF Sb!Quiet, CallRecords
<1>5. ns \in [Callers -> CallRecords] /\ \A c \in Callers : ns[c].pc = "none"
  BY <1>1, <1>4
<1>6. tasks \in [Tasks -> TaskRecords] /\ \A t \in Tasks : tasks[t] = Sb!NoTask
  BY <1>1, NoTaskFacts
<1>7. TypeOK
  <2>1. mp \in [height : Nat, touched : BOOLEAN, ready : BOOLEAN]
    BY <1>1
  <2>2. client \in [status : Statuses \cup {NoValue}, header : Headers \cup {NoValue}]
    BY <1>1
  <2>3. /\ highest \in Nat /\ notified_height \in Nat /\ hsub_results \in Headers
        /\ history_cache \in Histories \cup {NoValue} /\ mempool_status \in Statuses \cup {NoValue}
    BY <1>1, <1>3
  <2>4. /\ mempool \in BOOLEAN /\ bp_touched \in BOOLEAN /\ waiting \in BOOLEAN /\ subs \in BOOLEAN
        /\ subscribe_headers \in BOOLEAN /\ bp_pc \in {"idle", "flushed", "notifying"}
    BY <1>1
  <2> QED
    BY <1>2, <1>5, <1>6, <2>1, <2>2, <2>3, <2>4 DEF TypeOK
<1>8. CallsInv
  BY <1>1, <1>5 DEF CallsInv, Callers
<1>9. HeaderInv
  BY <1>1, <1>2 DEF HeaderInv
<1>10. CacheInv
  BY <1>1 DEF CacheInv
<1>11. TasksInv
  BY <1>6, NoTaskFacts DEF TasksInv, Sb!Began
<1>12. StatusInv
  BY <1>1 DEF StatusInv
<1> QED
  BY <1>7, <1>8, <1>9, <1>10, <1>11, <1>12 DEF IInv

LEMMA StutterInv ==
    ASSUME IInv, UNCHANGED Sb!vars
    PROVE  IInv'
<1>1. UNCHANGED <<chain, mempool, bp_touched, bp_pc, highest, mp, waiting, changes, ns, history_cache,
                  hsub_results, notified_height, tasks, subs, subscribe_headers, mempool_status, client>>
  BY DEF Sb!vars, Sb!source, Sb!caches, Sb!session
<1> QED
  BY <1>1 DEF IInv, TypeOK, CallsInv, HeaderInv, CacheInv, TasksInv, StatusInv, Pending, Telling, Sending,
              Sb!AlreadyTold, Sb!Began, Sb!History, Sb!Header, Sb!db_height, Sb!Status

LEMMA NextInv ==
    ASSUME NoRaces, IInv, [Sb!Next]_(Sb!vars)
    PROVE  IInv'
<1>1. CASE \E b \in Contents : Sb!AdvanceAndFlush(b)
  BY <1>1, AdvanceInv
<1>2. CASE Sb!BackupBlock \/ Sb!OnBlock \/ Sb!OnMempool \/ \E u \in BOOLEAN : Sb!Refresh(u)
  BY <1>2, BackupInv, OnBlockInv, OnMempoolInv, RefreshInv
<1>3. CASE Sb!Manager
  BY <1>3, RawHeaderInv, RefreshHsubInv DEF Sb!Manager, Callers
<1>4. CASE \E t \in Tasks : Sb!SessionTask(t)
  BY <1>4, NotifyInnerInv, CachedHistoryInv, ReadHistoryInv, CacheHistoryInv, SendNotificationInv
     DEF Sb!SessionTask
<1>5. CASE Sb!HeadersSubscribe \/ Sb!Unsubscribe
  BY <1>5, HeadersSubscribeInv, UnsubscribeInv
<1>6. CASE \E t \in Tasks, kind \in {"subscribe", "query"} : Sb!Ask(t, kind)
  BY <1>6, AskInv
<1>7. CASE UNCHANGED Sb!vars
  BY <1>7, StutterInv
<1> QED
  BY <1>1, <1>2, <1>3, <1>4, <1>5, <1>6, <1>7 DEF Sb!Next, Contents

LEMMA InvSafe ==
    ASSUME IInv
    PROVE  Sb!ClientsUpToDate
<1>1. TypeOK /\ CallsInv /\ HeaderInv /\ CacheInv /\ StatusInv
  BY DEF IInv
<1>2. Sb!Settled => ~Pending /\ ~mp.ready /\ bp_pc = "idle" /\ \A t \in Tasks : tasks[t] = Sb!NoTask
  BY DEF Sb!Settled, Pending, Telling, Sb!Quiet, Callers
<1>3. Sb!ClientUpToDate
  BY <1>1, <1>2, NoTaskFacts DEF Sb!ClientUpToDate, StatusInv
<1>4. Sb!CacheFresh
  BY <1>1, <1>2 DEF Sb!CacheFresh, CacheInv, Pending
<1>5. Sb!HeaderUpToDate
  <2> SUFFICES ASSUME Sb!Settled, highest = Sb!db_height, notified_height = highest
               PROVE  /\ hsub_results = Sb!Header(Sb!db_height)
                      /\ subscribe_headers => client.header = Sb!Header(Sb!db_height)
    BY DEF Sb!HeaderUpToDate
  <2>1. hsub_results = Sb!Header(Sb!db_height)
    BY <1>1, <1>2, ChainFacts DEF HeaderInv
  <2> QED
    BY <1>1, <1>2, <2>1, NoTaskFacts DEF HeaderInv
<1>6. Sb!HeaderFound
  BY <1>1 DEF Sb!HeaderFound, TypeOK, CallRecords, Callers
<1> QED
  BY <1>3, <1>4, <1>5, <1>6 DEF Sb!ClientsUpToDate

\* What clients are told is true in the end: whatever blocks, reorganisations and refreshes of
\* the mempool there are, however many, and wherever they meet the calls of _notify_sessions and
\* the tasks of sessions, when all notifications are delivered a subscribed client has the status
\* its address has now, and cached histories and the last header are those of the chain.
THEOREM ClientsAreToldRight ==
    ASSUME NoRaces
    PROVE  Sb!Spec => []ClientsUpToDate
<1>1. Sb!Init => IInv
  BY InitInv
<1>2. IInv /\ [Sb!Next]_(Sb!vars) => IInv'
  BY NextInv
<1>3. IInv => ClientsUpToDate
  BY InvSafe DEF ClientsUpToDate
<1> QED
  BY <1>1, <1>2, <1>3, PTL DEF Sb!Spec

-----------------------------------------------------------------------------
(* Fee estimates.  That they are fresh holds for a cache of any size; that  *)
(* one session asks for all needs a cache with room for every key.          *)

Entry == [hash : Tip \cup {None}, fee : Int, lock : Locks]

\* The variables of the daemon's time have their types.
ClockOK ==
    /\ tip \in Tip /\ now \in Nat /\ first \in [Tip -> Int]
    /\ owner \in [Locks -> Session \cup {None, "unmade"}]

\* Every entry is of a known key, and every call is in one of its three places: it
\* waits for a lock, or asks under the label of a block known by then.
PlacesOK ==
    /\ cache \in [DOMAIN cache -> Entry] /\ DOMAIN cache \subseteq Key
    /\ DOMAIN call = Session
    /\ \A s \in Session :
          \/ call[s] = Idle
          \/ \E k \in Key, l \in Locks : call[s] = Waiting(k, l)
          \/ \E k \in Key, l \in Locks, held \in Locks, hash \in Tip, at \in 0 .. now :
                call[s] = Asking(k, l, held, hash, at) /\ first[hash] # -1 /\ first[hash] <= at

\* The tip is known, every block since some time that has passed, and an entry's label
\* was known when its estimate was made.
LabelsOK ==
    /\ first[tip] # -1 /\ \A t \in Tip : first[t] <= now
    /\ \A k \in DOMAIN cache : cache[k].hash # None =>
          first[cache[k].hash] # -1 /\ cache[k].fee >= first[cache[k].hash]

FreshInv == ClockOK /\ PlacesOK /\ LabelsOK

-----------------------------------------------------------------------------
\* What the cache holds after an entry is stored: that entry, and entries it held.
LEMMA StoredEntries ==
    ASSUME NEW k, NEW e, NEW c \in Stored(k, e)
    PROVE  /\ DOMAIN c \subseteq DOMAIN cache \cup {k}
           /\ c = [x \in DOMAIN c |-> IF x = k THEN e ELSE cache[x]]
<1>1. PICK D : D \subseteq DOMAIN cache \cup {k} /\ c = [x \in D |-> IF x = k THEN e ELSE cache[x]]
  BY DEF Stored
<1> QED
  BY <1>1

\* A block's first time is set once.
LEMMA FirstStays ==
    ASSUME FreshInv, NEW t \in Tip, NewTip(t)
    PROVE  /\ first' \in [Tip -> Int]
           /\ \A u \in Tip : first[u] # -1 => first'[u] = first[u]
           /\ \A u \in Tip : first'[u] <= now'
           /\ first'[t] # -1
<1>1. first \in [Tip -> Int] /\ now \in Nat /\ \A u \in Tip : first[u] <= now
  BY DEF FreshInv, ClockOK, LabelsOK
<1>2. CASE first[t] = -1
  BY <1>1, <1>2 DEF NewTip
<1>3. CASE first[t] # -1
  BY <1>1, <1>3 DEF NewTip
<1> QED
  BY <1>2, <1>3

\* No step makes an estimate older than its label: the label of an answer was read before
\* the daemon was asked.
LEMMA FreshStep ==
    ASSUME FreshInv, [Next]_vars
    PROVE  FreshInv'
<1>t. ClockOK /\ PlacesOK /\ LabelsOK
  BY DEF FreshInv
<1>1. ASSUME NEW t \in Tip, NewTip(t)
      PROVE  FreshInv'
  <2>1. /\ tip' = t /\ now' = now + 1 /\ now \in Nat
        /\ cache' = cache /\ owner' = owner /\ call' = call
    BY <1>1, <1>t DEF NewTip, ClockOK
  <2>2. /\ first' \in [Tip -> Int]
        /\ \A u \in Tip : first[u] # -1 => first'[u] = first[u]
        /\ \A u \in Tip : first'[u] <= now'
        /\ first'[t] # -1
    BY <1>1, FirstStays
  <2>3. ClockOK'
    BY <2>1, <2>2, <1>t DEF ClockOK
  <2>4. PlacesOK'
    <3>1. \A hash \in Tip, at \in 0 .. now :
             first[hash] # -1 /\ first[hash] <= at
                 => at \in 0 .. now' /\ first'[hash] # -1 /\ first'[hash] <= at
      BY <2>1, <2>2
    <3> QED
      BY <2>1, <3>1, <1>t DEF PlacesOK, Locks
  <2>5. LabelsOK'
    <3>1. \A k \in DOMAIN cache : cache[k].hash \in Tip \cup {None}
      BY <1>t DEF PlacesOK, Entry
    <3> QED
      BY <3>1, <2>1, <2>2, <1>t DEF LabelsOK
  <2> QED
    BY <2>3, <2>4, <2>5 DEF FreshInv
<1>2. ASSUME NEW s \in Session, NEW k \in Key, Estimatefee(s, k)
      PROVE  FreshInv'
  <2>0. tip' = tip /\ first' = first /\ now' = now
    BY <1>2 DEF Estimatefee
  <2>1. CASE MakeLock(s, k)
    <3>1. PICK l \in Locks : /\ owner' = [owner EXCEPT ![l] = None]
                             /\ cache' \in Stored(k, [hash |-> None, fee |-> -1, lock |-> l])
                             /\ call' = [call EXCEPT ![s] = Waiting(k, l)]
      <4>1. Locks \ Made # {}
        BY <2>1 DEF MakeLock, Made
      <4> QED
        BY <4>1, <2>1 DEF MakeLock
    <3>2. ClockOK'
      BY <2>0, <3>1, <1>t DEF ClockOK
    <3> DEFINE e == [hash |-> None, fee |-> -1, lock |-> l]
    <3>3. /\ DOMAIN cache' \subseteq DOMAIN cache \cup {k}
          /\ cache' = [x \in DOMAIN cache' |-> IF x = k THEN e ELSE cache[x]]
      BY <3>1, StoredEntries
    <3>4. e \in Entry
      BY DEF Entry
    <3>5. PlacesOK'
      BY <2>0, <3>1, <3>3, <3>4, <1>t DEF PlacesOK
    <3>6. LabelsOK'
      BY <2>0, <3>3, <1>t DEF LabelsOK
    <3> QED
      BY <3>2, <3>5, <3>6 DEF FreshInv
  <2>2. CASE Cached(k) /\ call' = [call EXCEPT ![s] = IF cache[k].hash = tip THEN Idle ELSE Waiting(k, cache[k].lock)]
             /\ UNCHANGED <<cache, owner>>
    <3>1. cache[k].lock \in Locks
      BY <2>2, <1>t DEF PlacesOK, Entry, Cached
    <3>2. PlacesOK'
      BY <2>0, <2>2, <3>1, <1>t DEF PlacesOK
    <3> QED
      BY <2>0, <2>2, <3>2, <1>t DEF FreshInv, ClockOK, LabelsOK
  <2> QED
    BY <1>2, <2>1, <2>2 DEF Estimatefee
<1>3. ASSUME NEW s \in Session, Enter(s)
      PROVE  FreshInv'
  <2>0. tip' = tip /\ first' = first /\ now' = now /\ cache' = cache
    BY <1>3 DEF Enter
  <2>1. PICK k \in Key, l \in Locks : call[s] = Waiting(k, l)
    BY <1>3, <1>t DEF PlacesOK, Enter, Idle, Asking
  <2>2. call[s].key = k /\ call[s].lock = l
    BY <2>1 DEF Waiting
  <2>3. CASE call' = [call EXCEPT ![s] = Idle] /\ UNCHANGED owner
    <3>1. PlacesOK'
      BY <2>0, <2>3, <1>t DEF PlacesOK
    <3> QED
      BY <2>0, <2>3, <3>1, <1>t DEF FreshInv, ClockOK, LabelsOK
  <2>4. CASE /\ call' = [call EXCEPT ![s] = Asking(k, IF Cached(k) THEN cache[k].lock ELSE l, l, tip, now)]
             /\ owner' = [owner EXCEPT ![l] = s]
    <3>1. (IF Cached(k) THEN cache[k].lock ELSE l) \in Locks
      BY <1>t DEF PlacesOK, Entry, Cached
    <3>2. tip \in Tip /\ now \in 0 .. now /\ first[tip] # -1 /\ first[tip] <= now
      BY <1>t DEF ClockOK, LabelsOK
    <3>3. PlacesOK'
      BY <2>0, <2>4, <3>1, <3>2, <1>t DEF PlacesOK
    <3>4. ClockOK'
      BY <2>0, <2>4, <1>t DEF ClockOK
    <3> QED
      BY <2>0, <3>3, <3>4, <1>t DEF FreshInv, LabelsOK
  <2> QED
    BY <1>3, <2>2, <2>3, <2>4 DEF Enter
<1>4. ASSUME NEW s \in Session, Answer(s)
      PROVE  FreshInv'
  <2>0. tip' = tip /\ first' = first /\ now' = now /\ now \in Nat
    BY <1>4, <1>t DEF Answer, ClockOK
  <2>1. PICK k \in Key, l \in Locks, held \in Locks, hash \in Tip, at \in 0 .. now :
            call[s] = Asking(k, l, held, hash, at) /\ first[hash] # -1 /\ first[hash] <= at
    BY <1>4, <1>t DEF PlacesOK, Answer, Idle, Waiting
  <2>2. /\ call[s].key = k /\ call[s].lock = l /\ call[s].held = held
        /\ call[s].hash = hash /\ call[s].at = at
    BY <2>1 DEF Asking
  <2>3. PICK fee \in at .. now : cache' \in Stored(k, [hash |-> hash, fee |-> fee, lock |-> l])
    BY <1>4, <2>2 DEF Answer, Labelled
  <2> DEFINE e == [hash |-> hash, fee |-> fee, lock |-> l]
  <2>4. /\ DOMAIN cache' \subseteq DOMAIN cache \cup {k}
        /\ cache' = [x \in DOMAIN cache' |-> IF x = k THEN e ELSE cache[x]]
    BY <2>3, StoredEntries
  <2>5. e \in Entry /\ e.fee >= first[e.hash] /\ first[e.hash] # -1
    BY <2>0, <2>1, <1>t DEF Entry, ClockOK
  <2>6. owner' = [owner EXCEPT ![held] = None] /\ call' = [call EXCEPT ![s] = Idle]
    BY <1>4, <2>2 DEF Answer
  <2>7. ClockOK'
    BY <2>0, <2>6, <1>t DEF ClockOK
  <2>8. PlacesOK'
    BY <2>0, <2>4, <2>5, <2>6, <1>t DEF PlacesOK
  <2>9. LabelsOK'
    BY <2>0, <2>4, <2>5, <1>t DEF LabelsOK
  <2> QED
    BY <2>7, <2>8, <2>9 DEF FreshInv
<1>5. ASSUME NEW s \in Session, Fail(s)
      PROVE  FreshInv'
  <2>0. tip' = tip /\ first' = first /\ now' = now /\ cache' = cache
    BY <1>5 DEF Fail
  <2>1. ClockOK'
    BY <1>5, <2>0, <1>t DEF ClockOK, Fail, FailRelease
  <2>2. PlacesOK'
    BY <1>5, <2>0, <1>t DEF PlacesOK, Fail
  <2> QED
    BY <2>0, <2>1, <2>2, <1>t DEF FreshInv, LabelsOK
<1>6. CASE UNCHANGED vars
  BY <1>6, <1>t DEF vars, FreshInv, ClockOK, PlacesOK, LabelsOK
<1> QED
  BY <1>1, <1>2, <1>3, <1>4, <1>5, <1>6 DEF Next

\* A session is never given an estimate older than the block it is given for, whatever
\* the size of the cache (estimatefee).
THEOREM FeesAreFresh ==
    ASSUME EstimateFeeAssumption
    PROVE  Spec => []CachedFeeFresh
<1>1. Init => FreshInv
  BY DEF Init, FreshInv, ClockOK, PlacesOK, LabelsOK
<1>2. FreshInv /\ [Next]_vars => FreshInv'
  BY FreshStep
<1>3. FreshInv => CachedFeeFresh
  BY DEF FreshInv, LabelsOK, CachedFeeFresh
<1> QED
  BY <1>1, <1>2, <1>3, PTL DEF Spec

-----------------------------------------------------------------------------
\* With room for every key: a call waits for, or holds, the lock of the entry of its key,
\* and the entry stays.
HoldsLock(s) ==
    \/ call[s] = Idle
    \/ \E k \in DOMAIN cache : call[s] = Waiting(k, cache[k].lock)
    \/ \E k \in DOMAIN cache, hash \in Tip, at \in 0 .. now :
          /\ call[s] = Asking(k, cache[k].lock, cache[k].lock, hash, at)
          /\ owner[cache[k].lock] = s

LockInv == \A s \in Session : HoldsLock(s)

\* The constants of a server whose fee cache never forgets an entry.
RoomForAll ==
    /\ EstimateFeeAssumption
    /\ IsFiniteSet(Key) /\ Cardinality(Key) <= maxsize
    /\ None \notin Session /\ "unmade" \notin Session

\* With room for every key nothing is forgotten when an entry is stored.
LEMMA NothingForgotten ==
    ASSUME RoomForAll, DOMAIN cache \subseteq Key, NEW k \in Key, NEW e, NEW c \in Stored(k, e)
    PROVE  c = [x \in DOMAIN cache \cup {k} |-> IF x = k THEN e ELSE cache[x]]
<1> DEFINE keys == DOMAIN cache \cup {k}
<1>1. IsFiniteSet(Key) /\ Cardinality(Key) <= maxsize /\ maxsize \in Nat
  BY DEF RoomForAll, EstimateFeeAssumption
<1>2. keys \in SUBSET Key
  OBVIOUS
<1>3. Cardinality(keys) <= maxsize
  <2>1. Cardinality(keys) <= Cardinality(Key) /\ Cardinality(keys) \in Nat /\ Cardinality(Key) \in Nat
    BY <1>1, <1>2, FS_Subset, FS_CardinalityType
  <2> QED
    BY <1>1, <2>1
<1> QED
  BY <1>3 DEF Stored

\* Where a call is tells its three places apart.
LEMMA PlaceOf ==
    /\ Idle.pc = "idle"
    /\ \A k, l : Waiting(k, l).pc = "waiting"
    /\ \A k, l, held, hash, at : /\ Asking(k, l, held, hash, at).pc = "asking"
                                 /\ Asking(k, l, held, hash, at).key = k
  BY DEF Idle, Waiting, Asking

\* A lock is held by one session, and it is that of the entry its key will always have.
LEMMA LockStep ==
    ASSUME RoomForAll, FreshInv, LockInv, [Next]_vars
    PROVE  LockInv'
<1>t. ClockOK /\ PlacesOK
  BY DEF FreshInv
<1>n. None \notin Session /\ "unmade" \notin Session
  BY DEF RoomForAll
<1>c. DOMAIN cache \subseteq Key /\ \A k \in DOMAIN cache : cache[k].lock \in Locks
  BY <1>t DEF PlacesOK, Entry
<1>1. ASSUME NEW t \in Tip, NewTip(t)
      PROVE  LockInv'
  <2>1. cache' = cache /\ owner' = owner /\ call' = call /\ now \in Nat /\ now' = now + 1
    BY <1>1, <1>t DEF NewTip, ClockOK
  <2>2. \A at \in 0 .. now : at \in 0 .. now'
    BY <2>1
  <2> QED
    BY <2>1, <2>2 DEF LockInv, HoldsLock
<1>2. ASSUME NEW s \in Session, NEW k \in Key, Estimatefee(s, k)
      PROVE  LockInv'
  <2>0. now' = now
    BY <1>2 DEF Estimatefee
  <2>1. CASE MakeLock(s, k)
    <3>1. PICK l \in Locks \ Made : /\ owner' = [owner EXCEPT ![l] = None]
                                    /\ cache' \in Stored(k, [hash |-> None, fee |-> -1, lock |-> l])
                                    /\ call' = [call EXCEPT ![s] = Waiting(k, l)]
      <4>1. Locks \ Made # {}
        BY <2>1 DEF MakeLock, Made
      <4> QED
        BY <4>1, <2>1 DEF MakeLock
    <3>2. cache' = [x \in DOMAIN cache \cup {k} |->
                       IF x = k THEN [hash |-> None, fee |-> -1, lock |-> l] ELSE cache[x]]
      BY <3>1, <1>c, NothingForgotten
    <3>3. k \notin DOMAIN cache
      BY <2>1 DEF MakeLock, Cached
    <3>4. owner[l] = "unmade"
      BY <3>1 DEF Made
    <3>5. HoldsLock(s)'
      BY <3>1, <3>2, <1>t DEF HoldsLock, PlacesOK
    <3>6. ASSUME NEW t \in Session, t # s
          PROVE  HoldsLock(t)'
      <4>1. call'[t] = call[t]
        BY <3>1, <3>6, <1>t DEF PlacesOK
      <4>2. \A x \in DOMAIN cache : x \in DOMAIN cache' /\ cache'[x] = cache[x]
        BY <3>2, <3>3
      <4>3. \A x \in DOMAIN cache : owner[cache[x].lock] = t => owner'[cache[x].lock] = t
        BY <3>1, <3>4, <1>n, <1>c, <1>t DEF ClockOK
      <4> QED
        BY <4>1, <4>2, <4>3, <2>0 DEF HoldsLock, LockInv
    <3> QED
      BY <3>5, <3>6 DEF LockInv
  <2>2. CASE Cached(k) /\ call' = [call EXCEPT ![s] = IF cache[k].hash = tip THEN Idle ELSE Waiting(k, cache[k].lock)]
             /\ UNCHANGED <<cache, owner>>
    BY <2>0, <2>2, <1>t DEF LockInv, HoldsLock, PlacesOK, Cached
  <2> QED
    BY <1>2, <2>1, <2>2 DEF Estimatefee
<1>3. ASSUME NEW s \in Session, Enter(s)
      PROVE  LockInv'
  <2>0. now' = now /\ cache' = cache /\ now \in Nat /\ tip \in Tip
    BY <1>3, <1>t DEF Enter, ClockOK
  <2>1. PICK k \in DOMAIN cache : call[s] = Waiting(k, cache[k].lock)
    BY <1>3, PlaceOf DEF LockInv, HoldsLock, Enter
  <2>2. call[s].key = k /\ call[s].lock = cache[k].lock /\ Cached(k)
    BY <2>1 DEF Waiting, Cached
  <2>3. owner[cache[k].lock] = None
    BY <1>3, <2>2 DEF Enter
  <2>4. CASE call' = [call EXCEPT ![s] = Idle] /\ UNCHANGED owner
    BY <2>0, <2>4, <1>t DEF LockInv, HoldsLock, PlacesOK
  <2>5. CASE /\ call' = [call EXCEPT ![s] = Asking(k, cache[k].lock, cache[k].lock, tip, now)]
             /\ owner' = [owner EXCEPT ![cache[k].lock] = s]
    <3>1. HoldsLock(s)'
      BY <2>0, <2>1, <2>5, <1>c, <1>t DEF HoldsLock, PlacesOK, ClockOK
    <3>2. ASSUME NEW t \in Session, t # s
          PROVE  HoldsLock(t)'
      <4>1. call'[t] = call[t]
        BY <2>5, <3>2, <1>t DEF PlacesOK
      <4>2. \A x \in DOMAIN cache : owner[cache[x].lock] = t => owner'[cache[x].lock] = t
        BY <2>3, <2>5, <1>n, <1>c, <1>t DEF ClockOK
      <4> QED
        BY <4>1, <4>2, <2>0 DEF HoldsLock, LockInv
    <3> QED
      BY <3>1, <3>2 DEF LockInv
  <2> QED
    BY <1>3, <2>2, <2>4, <2>5 DEF Enter
<1>4. ASSUME NEW s \in Session, Answer(s) \/ Fail(s)
      PROVE  LockInv'
  <2>0. now' = now
    BY <1>4 DEF Answer, Fail
  <2>1. PICK k \in DOMAIN cache, hash \in Tip, at \in 0 .. now :
          /\ call[s] = Asking(k, cache[k].lock, cache[k].lock, hash, at)
          /\ owner[cache[k].lock] = s
    BY <1>4, PlaceOf DEF LockInv, HoldsLock, Answer, Fail
  <2>2. /\ call[s].key = k /\ call[s].lock = cache[k].lock /\ call[s].held = cache[k].lock
    BY <2>1 DEF Asking
  <2>3. owner' = [owner EXCEPT ![cache[k].lock] = None] /\ call' = [call EXCEPT ![s] = Idle]
    BY <1>4, <2>2 DEF Answer, Fail, FailRelease
  <2>4. DOMAIN cache' = DOMAIN cache /\ \A x \in DOMAIN cache : cache'[x].lock = cache[x].lock
    <3>1. CASE Answer(s)
      <4>1. PICK fee \in call[s].at .. now : cache' \in Stored(k, Labelled(call[s], fee))
        BY <3>1, <2>2 DEF Answer
      <4>2. cache' = [x \in DOMAIN cache \cup {k} |-> IF x = k THEN Labelled(call[s], fee) ELSE cache[x]]
        BY <4>1, <1>c, NothingForgotten
      <4> QED
        BY <4>2, <2>2 DEF Labelled
    <3>2. CASE Fail(s)
      BY <3>2 DEF Fail
    <3> QED
      BY <1>4, <3>1, <3>2
  <2>5. HoldsLock(s)'
    BY <2>3, <1>t DEF HoldsLock, PlacesOK
  <2>6. ASSUME NEW t \in Session, t # s
        PROVE  HoldsLock(t)'
    <3>1. call'[t] = call[t]
      BY <2>3, <2>6, <1>t DEF PlacesOK
    <3>2. \A x \in DOMAIN cache : owner[cache[x].lock] = t => owner'[cache[x].lock] = t
      BY <2>1, <2>3, <2>6, <1>c, <1>t DEF ClockOK
    <3>3. CASE call[t] = Idle
      BY <3>1, <3>3 DEF HoldsLock
    <3>4. ASSUME NEW x \in DOMAIN cache, call[t] = Waiting(x, cache[x].lock)
          PROVE  HoldsLock(t)'
      BY <3>1, <3>4, <2>4 DEF HoldsLock
    <3>5. ASSUME NEW x \in DOMAIN cache, NEW h \in Tip, NEW a \in 0 .. now,
                 call[t] = Asking(x, cache[x].lock, cache[x].lock, h, a), owner[cache[x].lock] = t
          PROVE  HoldsLock(t)'
      BY <3>1, <3>2, <3>5, <2>0, <2>4 DEF HoldsLock
    <3> QED
      BY <3>3, <3>4, <3>5 DEF LockInv, HoldsLock
  <2> QED
    BY <2>5, <2>6 DEF LockInv
<1>5. CASE UNCHANGED vars
  BY <1>5 DEF vars, LockInv, HoldsLock
<1> QED
  BY <1>1, <1>2, <1>3, <1>4, <1>5 DEF Next

\* Sessions share fresh estimates: with room for every key one session at a time asks the
\* daemon for a key, and what it is told is kept under the right block (estimatefee).
THEOREM FeesAreShared ==
    ASSUME RoomForAll
    PROVE  Spec => []EstimatesShared
<1>1. Init => FreshInv /\ LockInv
  BY DEF Init, FreshInv, ClockOK, PlacesOK, LabelsOK, LockInv, HoldsLock
<1>2. FreshInv /\ LockInv /\ [Next]_vars => FreshInv' /\ LockInv'
  BY FreshStep, LockStep
<1>3. FreshInv /\ LockInv => EstimatesShared
  <2> SUFFICES ASSUME FreshInv, LockInv PROVE EstimatesShared
    OBVIOUS
  <2>1. CachedFeeFresh
    BY DEF FreshInv, LabelsOK, CachedFeeFresh
  <2>2. ASSUME NEW s \in Session, call[s].pc = "asking"
        PROVE  call[s].key \in DOMAIN cache /\ owner[cache[call[s].key].lock] = s
    BY <2>2, PlaceOf DEF LockInv, HoldsLock
  <2>3. OneRequestPerKey
    BY <2>2 DEF OneRequestPerKey
  <2> QED
    BY <2>1, <2>3 DEF EstimatesShared
<1> QED
  BY <1>1, <1>2, <1>3, PTL DEF Spec

-----------------------------------------------------------------------------
(* The handshake.                                                           *)

\* A non-empty set of natural numbers has a least one.
LEMMA LeastNumber ==
    ASSUME NEW T \in SUBSET Nat, T # {}
    PROVE  \E n \in T : \A m \in Nat : m < n => m \notin T
<1>1. \E n \in T : \A m \in T : ~(<<m, n>> \in OpToRel(<, Nat))
  BY NatLessThanWellFounded, WFMin
<1> QED
  BY <1>1 DEF OpToRel

-----------------------------------------------------------------------------
(* The order of versions.                                                   *)

\* Of two versions at most one comes before the other.
LEMMA LessIsAsymmetric ==
    ASSUME NEW a \in Hs!Tuples, NEW b \in Hs!Tuples, Hs!Less(a, b)
    PROVE  ~Hs!Less(b, a)
<1> SUFFICES ASSUME Hs!Less(b, a) PROVE FALSE
  OBVIOUS
<1>1. PICK i \in 1 .. Len(a) + 1 : /\ \A j \in 1 .. i - 1 : j <= Len(b) /\ a[j] = b[j]
                                   /\ i <= Len(b)
                                   /\ i <= Len(a) => a[i] < b[i]
  BY DEF Hs!Less
<1>2. PICK k \in 1 .. Len(b) + 1 : /\ \A j \in 1 .. k - 1 : j <= Len(a) /\ b[j] = a[j]
                                   /\ k <= Len(a)
                                   /\ k <= Len(b) => b[k] < a[k]
  BY DEF Hs!Less
<1>3. Len(a) \in Nat /\ Len(b) \in Nat
  BY DEF Hs!Tuples
<1>4. \A j \in 1 .. Len(a) : a[j] \in Int
  BY DEF Hs!Tuples
<1>5. \A j \in 1 .. Len(b) : b[j] \in Int
  BY DEF Hs!Tuples
<1>6. CASE i < k
  BY <1>1, <1>2, <1>3, <1>4, <1>5, <1>6
<1>7. CASE k < i
  BY <1>1, <1>2, <1>3, <1>4, <1>5, <1>7
<1>8. CASE i = k
  BY <1>1, <1>2, <1>3, <1>4, <1>5, <1>8
<1> QED
  BY <1>1, <1>2, <1>3, <1>6, <1>7, <1>8

\* A version comes after the first of two that are in order, or before the second: what
\* it and the second begin with in common is at least what decides between the two, or
\* else the first difference places it.
LEMMA LessDivides ==
    ASSUME NEW a \in Hs!Tuples, NEW b \in Hs!Tuples, NEW c \in Hs!Tuples, Hs!Less(a, c)
    PROVE  Hs!Less(a, b) \/ Hs!Less(b, c)
<1>1. PICK i \in 1 .. Len(a) + 1 : /\ \A j \in 1 .. i - 1 : j <= Len(c) /\ a[j] = c[j]
                                   /\ i <= Len(c)
                                   /\ i <= Len(a) => a[i] < c[i]
  BY DEF Hs!Less
<1>2. Len(a) \in Nat /\ Len(b) \in Nat /\ Len(c) \in Nat
  BY DEF Hs!Tuples
<1>3. /\ \A j \in 1 .. Len(a) : a[j] \in Int
      /\ \A j \in 1 .. Len(b) : b[j] \in Int
      /\ \A j \in 1 .. Len(c) : c[j] \in Int
  BY DEF Hs!Tuples
<1> DEFINE T == { j \in Nat : j \in 1 .. i /\ (j <= Len(b) => b[j] # c[j]) }
<1>4. CASE T = {}
  <2>1. \A j \in 1 .. i : j <= Len(b) /\ b[j] = c[j]
    BY <1>1, <1>2, <1>4
  <2>2. i <= Len(b) /\ \A j \in 1 .. i - 1 : j <= Len(b) /\ a[j] = b[j]
    BY <1>1, <1>2, <2>1
  <2>3. i <= Len(a) => a[i] < b[i]
    BY <1>1, <2>1
  <2>4. Hs!Less(a, b)
    BY <2>2, <2>3 DEF Hs!Less
  <2> QED
    BY <2>4
<1>5. CASE T # {}
  <2>1. PICK k \in T : \A m \in Nat : m < k => m \notin T
    <3> HIDE DEF T
    <3> QED
      BY <1>5, LeastNumber, T \in SUBSET Nat DEF T
  <2>2. k \in 1 .. i /\ k <= Len(c) /\ (k <= Len(b) => b[k] # c[k])
    BY <1>1, <1>2
  <2>3. \A j \in 1 .. k - 1 : j <= Len(b) /\ b[j] = c[j]
    BY <1>2, <2>1, <2>2
  <2>4. \A j \in 1 .. k - 1 : j <= Len(c) /\ a[j] = c[j]
    BY <1>1, <1>2, <2>2
  <2> HIDE DEF T
  <2>5. CASE k > Len(b) \/ b[k] < c[k]
    <3>1. k \in 1 .. Len(b) + 1
      BY <1>2, <2>2, <2>3, k - 1 \in 1 .. k - 1 \/ k = 1
    <3>2. \A j \in 1 .. k - 1 : j <= Len(c) /\ b[j] = c[j]
      BY <2>3, <2>4
    <3>3. k <= Len(b) => b[k] < c[k]
      BY <1>2, <2>2, <2>5
    <3>4. Hs!Less(b, c)
      BY <2>2, <3>1, <3>2, <3>3 DEF Hs!Less
    <3> QED
      BY <3>4
  <2>6. CASE k <= Len(b) /\ ~(b[k] < c[k])
    <3>1. b[k] > c[k]
      BY <1>2, <1>3, <2>2, <2>6
    <3>2. k <= Len(a) => a[k] < b[k]
      BY <1>1, <1>2, <1>3, <2>2, <2>6, <3>1
    <3>3. \A j \in 1 .. k - 1 : j <= Len(b) /\ a[j] = b[j]
      BY <2>3, <2>4
    <3>4. k \in 1 .. Len(a) + 1
      BY <1>1, <1>2, <2>2
    <3>5. Hs!Less(a, b)
      BY <2>6, <3>2, <3>3, <3>4 DEF Hs!Less
    <3> QED
      BY <3>5
  <2> QED
    BY <1>2, <2>2, <2>5, <2>6
<1> QED
  BY <1>4, <1>5

-----------------------------------------------------------------------------
(* The version that is settled.                                             *)

\* Of a request: both ends are versions, or the smallest the server speaks.
Servers == Version \cup {PROTOCOL_MIN, PROTOCOL_MAX}

LEMMA RequestEnds ==
    ASSUME Hs!HandshakeAssumption, NEW req \in Hs!Requests
    PROVE  /\ req.min \in Servers /\ req.max \in Servers /\ Servers \subseteq Hs!Tuples
           /\ req # Hs!Unasked
<1>1. Servers \subseteq Hs!Tuples
  BY DEF Hs!HandshakeAssumption, Servers
<1> DEFINE Ranges == {[form |-> "range", min |-> v, max |-> w] : v \in Version, w \in Version}
           Nothing == [form |-> "none", min |-> PROTOCOL_MIN, max |-> PROTOCOL_MIN]
<1>2. req.form # "not yet" /\ req.min \in Servers /\ req.max \in Servers
  <2>1. req = Nothing \/ req \in Ranges
    BY DEF Hs!Requests
  <2>2. CASE req = Nothing
    BY <2>2 DEF Servers
  <2>3. CASE req \in Ranges
    <3>1. PICK v \in Version, w \in Version : req = [form |-> "range", min |-> v, max |-> w]
      BY <2>3
    <3> QED
      BY <3>1 DEF Servers
  <2> HIDE DEF Ranges, Nothing
  <2> QED
    BY <2>1, <2>2, <2>3
<1>3. Hs!Unasked.form = "not yet"
  BY DEF Hs!Unasked
<1> QED
  BY <1>1, <1>2, <1>3

\* What is settled lies in the server's range and in the client's, and nothing that does
\* comes after it.
LEMMA SettledIsHighest ==
    ASSUME Hs!HandshakeAssumption, NEW req \in Hs!Requests,
           Hs!protocol_version(req) # Hs!Refused
    PROVE  LET v == Hs!protocol_version(req)
           IN  /\ v \in Servers
               /\ Hs!Within(v, PROTOCOL_MIN, PROTOCOL_MAX) /\ Hs!Within(v, req.min, req.max)
               /\ \A w \in Servers : Hs!Within(w, PROTOCOL_MIN, PROTOCOL_MAX) /\ Hs!Within(w, req.min, req.max)
                                        => ~Hs!Less(v, w)
<1> DEFINE v == Hs!Lesser(req.max, PROTOCOL_MAX)
<1>1. /\ req.min \in Hs!Tuples /\ req.max \in Hs!Tuples /\ req.max \in Servers
      /\ PROTOCOL_MIN \in Hs!Tuples /\ PROTOCOL_MAX \in Hs!Tuples /\ PROTOCOL_MAX \in Servers
  BY RequestEnds DEF Servers
<1>2. Hs!protocol_version(req) = v /\ ~Hs!Less(v, Hs!Greater(req.min, PROTOCOL_MIN))
  BY DEF Hs!protocol_version
<1>3. v \in {req.max, PROTOCOL_MAX} /\ ~Hs!Less(req.max, v) /\ ~Hs!Less(PROTOCOL_MAX, v)
  BY <1>1, LessIsAsymmetric DEF Hs!Lesser
<1>4. v \in Hs!Tuples /\ v \in Servers
  BY <1>1, <1>3
<1> HIDE DEF v
<1>5. ~Hs!Less(v, PROTOCOL_MIN) /\ ~Hs!Less(v, req.min)
  <2>1. CASE Hs!Less(req.min, PROTOCOL_MIN)
    <3>1. ~Hs!Less(v, PROTOCOL_MIN)
      BY <1>2, <2>1 DEF Hs!Greater
    <3>2. ~Hs!Less(v, req.min)
      <4> SUFFICES ASSUME Hs!Less(v, req.min) PROVE FALSE
        OBVIOUS
      <4>1. Hs!Less(v, PROTOCOL_MIN) \/ Hs!Less(PROTOCOL_MIN, req.min)
        BY <1>1, <1>4, LessDivides
      <4> QED
        BY <1>1, <2>1, <3>1, <4>1, LessIsAsymmetric
    <3> QED
      BY <3>1, <3>2
  <2>2. CASE ~Hs!Less(req.min, PROTOCOL_MIN)
    <3>1. ~Hs!Less(v, req.min)
      BY <1>2, <2>2 DEF Hs!Greater
    <3>2. ~Hs!Less(v, PROTOCOL_MIN)
      BY <1>1, <1>4, <2>2, <3>1, LessDivides
    <3> QED
      BY <3>1, <3>2
  <2> QED
    BY <2>1, <2>2
<1>6. \A w \in Servers : ~Hs!Less(PROTOCOL_MAX, w) /\ ~Hs!Less(req.max, w) => ~Hs!Less(v, w)
  BY <1>3
<1> QED
  BY <1>2, <1>3, <1>4, <1>5, <1>6 DEF Hs!Within

\* A later version answers every method that an earlier one does.
LEMMA MethodsGrow ==
    ASSUME Hs!HandshakeAssumption, NEW c, NEW v \in Hs!Tuples, ~Hs!Less(v, PROTOCOL_MIN)
    PROVE  Hs!set_request_handlers(c, PROTOCOL_MIN) \subseteq Hs!set_request_handlers(c, v)
<1>1. ASSUME NEW w \in Hs!Tuples, ~Hs!Less(PROTOCOL_MIN, w) PROVE ~Hs!Less(v, w)
  BY <1>1, LessDivides DEF Hs!HandshakeAssumption
<1>2. <<1, 4, 2>> \in Hs!Tuples /\ <<1, 4, 3>> \in Hs!Tuples
  BY DEF Hs!Tuples
<1>3. ~Hs!Less(PROTOCOL_MIN, <<1, 4, 2>>) => ~Hs!Less(v, <<1, 4, 2>>)
  BY <1>1, <1>2
<1>4. ~Hs!Less(PROTOCOL_MIN, <<1, 4, 3>>) => ~Hs!Less(v, <<1, 4, 3>>)
  BY <1>1, <1>2
<1>5. Hs!ClassMethods(c, PROTOCOL_MIN) \subseteq Hs!ClassMethods(c, v)
  BY <1>4 DEF Hs!ClassMethods
<1> QED
  BY <1>3, <1>5 DEF Hs!set_request_handlers

\* Until server.version came, the session speaks the smallest version; a session that
\* goes on after it speaks the version that was settled.
HandshakeInv ==
    /\ ~sv_seen => /\ asked = Hs!Unasked /\ protocol_tuple = PROTOCOL_MIN
                   /\ handlers = Hs!set_request_handlers(class, PROTOCOL_MIN)
    /\ asked # Hs!Unasked /\ open = "open" =>
         /\ asked \in Hs!Requests /\ Hs!protocol_version(asked) # Hs!Refused
         /\ protocol_tuple = Hs!protocol_version(asked)

LEMMA HandshakeStep ==
    ASSUME Hs!HandshakeAssumption, HandshakeInv, Hs!Next
    PROVE  HandshakeInv' /\ Hs!VersionSettledOnce /\ Hs!MethodsNeverWithdrawn
<1>1. ASSUME NEW name \in Hs!Names, NEW req \in Hs!Requests, Hs!server_version(name, req)
      PROVE  HandshakeInv' /\ Hs!VersionSettledOnce /\ Hs!MethodsNeverWithdrawn
  <2>1. ~sv_seen /\ sv_seen' /\ class' = class /\ open = "open"
    BY <1>1 DEF Hs!server_version, Hs!FirstTime
  <2>2. Hs!VersionSettledOnce
    BY <2>1 DEF Hs!VersionSettledOnce
  <2>3. asked = Hs!Unasked /\ handlers = Hs!set_request_handlers(class, PROTOCOL_MIN)
    BY <2>1 DEF HandshakeInv
  <2>4. CASE name = "unsupported"
    <3>1. open' = "closed" /\ UNCHANGED <<asked, protocol_tuple, handlers>>
      BY <1>1, <2>4 DEF Hs!server_version
    <3> QED
      BY <2>1, <2>2, <3>1 DEF HandshakeInv, Hs!MethodsNeverWithdrawn
  <2>5. CASE name # "unsupported" /\ Hs!protocol_version(req) = Hs!Refused
    <3>1. open' # "open" /\ UNCHANGED <<protocol_tuple, handlers>>
      BY <1>1, <2>5 DEF Hs!server_version
    <3> QED
      BY <2>1, <2>2, <3>1 DEF HandshakeInv, Hs!MethodsNeverWithdrawn
  <2>6. CASE name # "unsupported" /\ Hs!protocol_version(req) # Hs!Refused
    <3> DEFINE v == Hs!protocol_version(req)
    <3>1. asked' = req /\ protocol_tuple' = v /\ handlers' = Hs!set_request_handlers(class, v)
      BY <1>1, <2>6 DEF Hs!server_version
    <3>2. v \in Hs!Tuples /\ ~Hs!Less(v, PROTOCOL_MIN)
      BY <2>6, SettledIsHighest, RequestEnds DEF Hs!Within
    <3> HIDE DEF v
    <3>3. Hs!MethodsNeverWithdrawn
      BY <2>3, <3>1, <3>2, MethodsGrow DEF Hs!MethodsNeverWithdrawn
    <3>4. HandshakeInv'
      BY <2>1, <2>6, <3>1 DEF HandshakeInv, v
    <3> QED
      BY <2>2, <3>3, <3>4
  <2> QED
    BY <2>4, <2>5, <2>6
<1>2. CASE Hs!crash_old_client \/ Hs!handle_request \/ Hs!connection_lost
  <2>1. open' = "closed" /\ UNCHANGED <<class, sv_seen, asked, protocol_tuple, handlers>>
    BY <1>2 DEF Hs!crash_old_client, Hs!handle_request, Hs!connection_lost
  <2> QED
    BY <2>1 DEF HandshakeInv, Hs!VersionSettledOnce, Hs!MethodsNeverWithdrawn
<1> QED
  BY <1>1, <1>2 DEF Hs!Next

\* server_version, set_request_handlers: whatever the versions of server and clients are
\* and whatever range a client asks for, the handshake settles the highest version that
\* both speak, once, and no method is lost by it.
THEOREM HighestVersionSettled ==
    ASSUME Hs!HandshakeAssumption
    PROVE  Hs!Spec => VersionNegotiated
<1>1. Hs!Init => HandshakeInv
  BY DEF Hs!Init, HandshakeInv
<1>2. HandshakeInv /\ [Hs!Next]_(Hs!vars) => HandshakeInv'
  <2> SUFFICES ASSUME HandshakeInv, [Hs!Next]_(Hs!vars) PROVE HandshakeInv'
    OBVIOUS
  <2>1. CASE UNCHANGED Hs!vars
    BY <2>1 DEF Hs!vars, HandshakeInv
  <2> QED
    BY <2>1, HandshakeStep
<1>3. HandshakeInv => Hs!HighestCommonVersion
  <2> SUFFICES ASSUME HandshakeInv, open = "open", asked # Hs!Unasked
               PROVE  /\ protocol_tuple \in Hs!CommonVersions
                      /\ \A w \in Hs!CommonVersions : ~Hs!Less(protocol_tuple, w)
    BY DEF Hs!HighestCommonVersion
  <2>1. /\ asked \in Hs!Requests /\ Hs!protocol_version(asked) # Hs!Refused
        /\ protocol_tuple = Hs!protocol_version(asked)
    BY DEF HandshakeInv
  <2> QED
    BY <2>1, SettledIsHighest DEF Hs!CommonVersions, Servers
<1>4. HandshakeInv' => Hs!HighestCommonVersion'
  BY <1>3, PTL
<1>5. HandshakeInv /\ HandshakeInv' /\ [Hs!Next]_(Hs!vars)
        => [Hs!HighestCommonVersion' /\ Hs!VersionSettledOnce /\ Hs!MethodsNeverWithdrawn]_(Hs!vars)
  BY <1>4, HandshakeStep
<1> QED
  BY <1>1, <1>2, <1>5, PTL DEF Hs!Spec, VersionNegotiated, Hs!VersionNegotiated

=============================================================================
