----------------------------- MODULE Prefetcher -----------------------------
(***************************************************************************)
(* The prefetcher's task and the block processor's loop, and what ties     *)
(* them: two events, a semaphore, the queue of blocks and the requests for *)
(* a forced reorganisation.  What the processor does with a block is in    *)
(* module BlockProcessor; here it is only its chain.                       *)
(*                                                                         *)
(* Blocks up to height Fork are common to the chains of the daemon, those  *)
(* above are of branch "a" or "b".  The cache is measured in blocks.       *)
(***************************************************************************)
EXTENDS Integers, Sequences

CONSTANTS
    Fork, MaxHeight,     \* heights
    MinCache,            \* min_cache_size
    Start, DaemonStart,  \* heights of database and daemon at the start
    MaxForced,           \* bound: forced reorganisations
    MaxFailovers         \* bound: failovers to another daemon

PrefetcherAssumption ==
    /\ Fork \in Nat /\ MaxHeight \in Nat /\ MinCache \in Nat \ {0}
    /\ Start \in 0 .. MaxHeight /\ DaemonStart \in 0 .. MaxHeight /\ MaxForced \in Nat
    /\ MaxFailovers \in Nat

VARIABLES
    branch, daemon_height,     \* External: the daemon's best chain
    cached_height,
    blocks, fetched_height,    \* prefetcher
    refill_event, blocks_event,
    semaphore,                 \* who holds it: "prefetcher", "processor" or "free"
    pf, seen, hashes,          \* where _prefetch_blocks is; daemon_height and hex_hashes
    bp, chain, batch,          \* where the processor is; its chain; blocks taken
    caught_up_event,
    reorg_count,
    requests, owed,            \* requests accepted; one waits to be carried out
    failovers

daemonVars == <<branch, daemon_height, failovers>>
fetchVars == <<pf, seen, hashes>>
forceVars == <<requests, owed>>
vars == <<daemonVars, cached_height, blocks, fetched_height, refill_event, blocks_event,
          semaphore, fetchVars, bp, chain, batch, caught_up_event, reorg_count, forceVars>>

Block(h, b) == <<h, IF h <= Fork THEN "a" ELSE b>>
Best(h) == Block(h, branch)
height == Len(chain)

Init ==
    /\ branch \in {"a", "b"} /\ daemon_height = DaemonStart /\ cached_height = DaemonStart
    /\ blocks = <<>> /\ fetched_height = Start
    /\ refill_event = TRUE /\ blocks_event = FALSE /\ semaphore = "free"
    /\ pf = "wait" /\ seen = 0 /\ hashes = <<>>
    /\ bp = "top" /\ chain = [h \in 1 .. Start |-> Block(h, "a")] /\ batch = <<>>
    /\ caught_up_event = FALSE /\ reorg_count = 0
    /\ requests = 0 /\ owed = FALSE /\ failovers = 0

-----------------------------------------------------------------------------
(* The prefetcher.  Each step ends at an await.                             *)

\* main_loop, and the daemon's height.
AskHeight ==
    /\ pf = "wait" /\ refill_event
    /\ cached_height' = daemon_height /\ seen' = daemon_height
    /\ pf' = "acquire"
    /\ UNCHANGED <<daemonVars, blocks, fetched_height, refill_event, blocks_event, semaphore, hashes,
                   bp, chain, batch, caught_up_event, reorg_count, forceVars>>

\* The loop: how many blocks are wanted.  The height used is the one asked for.
Begin ==
    /\ pf = "acquire" /\ semaphore = "free" /\ semaphore' = "prefetcher"
    /\ pf' = "hashes"
    /\ UNCHANGED <<daemonVars, cached_height, blocks, fetched_height, refill_event, blocks_event, seen, hashes,
                   bp, chain, batch, caught_up_event, reorg_count, forceVars>>

Room == MinCache
Wanted == IF seen - fetched_height < Room THEN seen - fetched_height ELSE Room

\* Nothing is wanted: caught up, and asked again after a pause.
NothingToFetch ==
    /\ pf = "hashes" /\ Len(blocks) < MinCache /\ Wanted <= 0
    /\ semaphore' = "free" /\ pf' = "wait"
    /\ UNCHANGED <<daemonVars, cached_height, blocks, fetched_height, refill_event, blocks_event, seen, hashes,
                   bp, chain, batch, caught_up_event, reorg_count, forceVars>>

\* block_hex_hashes; the daemon's chain may change before raw_blocks.
FetchHashes ==
    /\ pf = "hashes" /\ Len(blocks) < MinCache /\ Wanted > 0
    /\ IF fetched_height + Wanted <= daemon_height
       THEN /\ hashes' = [i \in 1 .. Wanted |-> Best(fetched_height + i)]
            /\ pf' = "blocks" /\ UNCHANGED semaphore
       ELSE /\ pf' = "wait" /\ semaphore' = "free" /\ UNCHANGED hashes    \* DaemonError
    /\ UNCHANGED <<daemonVars, cached_height, seen, blocks, fetched_height, refill_event, blocks_event,
                   bp, chain, batch, caught_up_event, reorg_count, forceVars>>

\* raw_blocks asks a daemon that does not know a block (DaemonError).
FetchFails ==
    /\ pf = "blocks"
    /\ \E i \in 1 .. Len(hashes) : hashes[i][1] > daemon_height \/ hashes[i] # Best(hashes[i][1])
    /\ pf' = "wait" /\ semaphore' = "free" /\ hashes' = <<>>
    /\ UNCHANGED <<daemonVars, cached_height, seen, blocks, fetched_height, refill_event, blocks_event,
                   bp, chain, batch, caught_up_event, reorg_count, forceVars>>

\* raw_blocks, the rest of the loop's body, and its end if the cache is full.
FetchBlocks ==
    /\ pf = "blocks"
    /\ blocks' = blocks \o hashes /\ fetched_height' = fetched_height + Len(hashes)
    /\ blocks_event' = TRUE /\ hashes' = <<>>
    /\ IF Len(blocks') < MinCache
       THEN pf' = "hashes" /\ UNCHANGED <<semaphore, refill_event>>
       ELSE pf' = "wait" /\ semaphore' = "free" /\ refill_event' = FALSE
    /\ UNCHANGED <<daemonVars, cached_height, seen, bp, chain, batch, caught_up_event, reorg_count,
                   forceVars>>

-----------------------------------------------------------------------------
(* The processor's loop.                                                    *)

\* Looked at at the top of the loop only.
CaughtUp == height = cached_height

Top ==
    /\ bp = "top" /\ bp' = "wait"
    /\ caught_up_event' = (caught_up_event \/ CaughtUp)
    /\ UNCHANGED <<daemonVars, cached_height, blocks, fetched_height, refill_event, blocks_event,
                   semaphore, fetchVars, chain, batch, reorg_count, forceVars>>

\* get_prefetched_blocks
Taken == /\ batch' = blocks /\ blocks' = <<>> /\ refill_event' = TRUE

\* A request comes first; the blocks otherwise.
TakeBlocks ==
    /\ bp = "wait" /\ blocks_event /\ blocks_event' = FALSE
    /\ IF reorg_count > 0
       THEN /\ bp' = "forced" /\ owed' = FALSE /\ UNCHANGED <<blocks, batch, refill_event>>
       ELSE /\ UNCHANGED owed /\ bp' = "advance" /\ Taken
    /\ UNCHANGED <<daemonVars, cached_height, fetched_height, semaphore, fetchVars, chain,
                   caught_up_event, reorg_count, requests>>

\* hprevs: a block's predecessor.
Prev(b) == Block(b[1] - 1, b[2])
TipOf(c) == IF c = <<>> THEN Block(0, "a") ELSE c[Len(c)]
Follows(c) == /\ Prev(batch[1]) = TipOf(c)
Chained == \A i \in 2 .. Len(batch) : Prev(batch[i]) = batch[i - 1]

\* check_and_advance_blocks.
Advance ==
    /\ bp = "advance" /\ batch' = <<>>
    /\ IF batch = <<>> THEN bp' = "top" /\ UNCHANGED chain
       ELSE IF ~Follows(chain)
       THEN bp' = "reorg" /\ UNCHANGED chain
       ELSE IF ~Chained
       THEN bp' = "reset" /\ UNCHANGED chain
       ELSE bp' = "top" /\ chain' = chain \o batch
    /\ UNCHANGED <<daemonVars, cached_height, blocks, fetched_height, refill_event, blocks_event,
                   semaphore, fetchVars, caught_up_event, reorg_count, forceVars>>

\* calc_reorg_range asks the daemon; the blocks that differ are backed up, and
\* the tip always.  A daemon that is behind raises a DaemonError, which nobody
\* handles.
Agreed == {0} \cup { h \in 1 .. height - 1 : h <= daemon_height /\ chain[h] = Best(h) }

Common == CHOOSE h \in Agreed : \A i \in Agreed : i <= h
Backup(h) == chain' = SubSeq(chain, 1, h)
ReorgChain ==
    /\ bp \in {"reorg", "forced"}
    /\ IF bp = "forced"
       THEN bp' = "forced reset" /\ Backup(IF reorg_count < height THEN height - reorg_count ELSE 0)
       ELSE IF height - 1 > daemon_height
       THEN bp' = "failed" /\ UNCHANGED chain
       ELSE bp' = "reset" /\ Backup(Common)
    /\ UNCHANGED <<daemonVars, cached_height, blocks, fetched_height, refill_event, blocks_event,
                   semaphore, fetchVars, batch, caught_up_event, reorg_count, forceVars>>

ResetUnder == semaphore = "free"

\* reset_height, up to its question for the daemon's height.
ResetHeight ==
    /\ bp \in {"reset", "forced reset"} /\ ResetUnder
    /\ blocks' = <<>> /\ fetched_height' = height /\ refill_event' = TRUE
    /\ bp' = IF bp = "reset" THEN "reset done" ELSE "forced done"
    /\ UNCHANGED <<daemonVars, cached_height, blocks_event, semaphore, fetchVars, chain, batch,
                   caught_up_event, reorg_count, forceVars>>

\* The daemon's height, and the end of the loop's body.
ResetDone ==
    /\ bp \in {"reset done", "forced done"} /\ bp' = "top"
    /\ cached_height' = daemon_height
    /\ reorg_count' = IF bp = "forced done" THEN 0 ELSE reorg_count
    /\ UNCHANGED <<daemonVars, blocks, fetched_height, refill_event, blocks_event, semaphore,
                   fetchVars, chain, batch, caught_up_event, forceVars>>

\* Mutant of WakeProcessor: the processor is not woken.
WakeProcessorNot == UNCHANGED blocks_event

WakeProcessor == blocks_event' = TRUE

\* force_chain_reorg.
ForceChainReorg ==
    /\ requests < MaxForced /\ caught_up_event
    /\ reorg_count' = 1 /\ WakeProcessor /\ requests' = requests + 1 /\ owed' = TRUE
    /\ UNCHANGED <<daemonVars, cached_height, blocks, fetched_height, refill_event, semaphore,
                   fetchVars, bp, chain, batch, caught_up_event>>

-----------------------------------------------------------------------------
\* External: a longer chain, of either branch.
NewBest(h, b) ==
    /\ h > daemon_height /\ daemon_height' = h /\ branch' = b
    /\ UNCHANGED <<failovers, cached_height, blocks, fetched_height, refill_event, blocks_event, semaphore,
                   fetchVars, bp, chain, batch, caught_up_event, reorg_count, forceVars>>

\* The client fails over to a daemon that may be behind, or on the other branch.
Failover(h, b) ==
    /\ failovers < MaxFailovers /\ failovers' = failovers + 1
    /\ daemon_height' = h /\ branch' = b
    /\ UNCHANGED <<cached_height, blocks, fetched_height, refill_event, blocks_event, semaphore,
                   fetchVars, bp, chain, batch, caught_up_event, reorg_count, forceVars>>

Prefetch == AskHeight \/ Begin \/ NothingToFetch \/ FetchHashes \/ FetchFails \/ FetchBlocks
Process == Top \/ TakeBlocks \/ Advance \/ ReorgChain \/ ResetHeight \/ ResetDone

Next == Prefetch \/ Process \/ ForceChainReorg
        \/ \E h \in 1 .. MaxHeight, b \in {"a", "b"} : NewBest(h, b) \/ Failover(h, b)

\* The daemon answers, threads end, the event loop runs both tasks, and the
\* semaphore is given to those who wait for it in their order.
Spec == /\ Init /\ [][Next]_vars
        /\ WF_vars(Prefetch) /\ WF_vars(Process)
        /\ SF_vars(Begin) /\ SF_vars(ResetHeight)

-----------------------------------------------------------------------------
\* Blocks wait in the order of the chain: whenever the processor is ready to
\* take them, they start at the height after its own.
QueueFollowsChain ==
    bp \in {"top", "wait"} =>
        /\ fetched_height = height + Len(blocks)
        /\ \A i \in 1 .. Len(blocks) : blocks[i][1] = height + i

\* The processor gets to the daemon's best block, whatever reorganisations and
\* resets come before.
ReachesBest ==
    \A h \in 1 .. MaxHeight : []((daemon_height = h) => <>(daemon_height # h \/ TipOf(chain) = Best(h)))

\* "Sets caught_up_event when first caught up."
CatchesUp == (height = daemon_height) ~> (caught_up_event \/ height # daemon_height)

\* "Returns True if a reorg is queued": a request that was accepted is carried
\* out after it was made.
ForcedDone == owed ~> ~owed

\* The server follows the daemon and its operator: no event is lost between the two
\* loops (_process_prefetched_blocks, main_loop).
LoopsProgress == ReachesBest /\ CatchesUp /\ ForcedDone
=============================================================================
