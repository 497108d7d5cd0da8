------------------------------ MODULE MCNetwork ------------------------------
(***************************************************************************)
(* What waits for others: the prefetcher and the daemon client, callers for *)
(* fee estimates and the padded transport.  They share no state; `part'     *)
(* says which one a behaviour is about, the others stay as they began.      *)
(***************************************************************************)
EXTENDS Integers, Sequences, FiniteSets

CONSTANTS
    Parts,
    Fork, MaxHeight, MinCache, Start, DaemonStart, MaxForced, MaxFailovers,   \* those of Prefetcher
    MIN_PACKET_SIZE, Sizes, MaxMessages                                       \* those of Transport

VARIABLES
    part,
    branch, daemon_height, cached_height, blocks, fetched_height, refill_event, blocks_event,
    semaphore, pf, seen, hashes, bp, chain, batch, caught_up_event, reorg_count, requests, owed,
    failovers,
    status, url_index, task, url, retry, accepted, mined, losses, changes,
    tip, first, now, cache, owner, call,
    written, wire, sbuffer, packet, has_data_evt, due, can_send, closing, poll

prefetcher == <<branch, daemon_height, cached_height, blocks, fetched_height, refill_event,
                blocks_event, semaphore, pf, seen, hashes, bp, chain, batch, caught_up_event,
                reorg_count, requests, owed, failovers>>
daemon == <<status, url_index, task, url, retry, accepted, mined, losses, changes>>
fees == <<tip, first, now, cache, owner, call>>
transport == <<written, wire, sbuffer, packet, has_data_evt, due, can_send, closing, poll>>

Pf == INSTANCE Prefetcher
\* With a failover to a daemon on another branch.
Failing == INSTANCE Prefetcher WITH Start <- 2, DaemonStart <- 3, MaxFailovers <- 1

Dm == INSTANCE Daemon WITH
    N <- 2, Request <- {"r1", "r2"}, max_workqueue <- 1, max_retry <- 2, MaxLosses <- 1,
    MaxChanges <- 1

\* A cache that forgets, so that locks are made anew.
Fee == INSTANCE EstimateFee WITH
    Session <- {"s1", "s2"}, Key <- {"k1", "k2"}, Tip <- {"A", "B"}, maxsize <- 1,
    MaxTime <- 2, MaxLocks <- 4

Tp == INSTANCE Transport

ASSUME NetworkAssumption ==
    /\ Pf!PrefetcherAssumption /\ Failing!PrefetcherAssumption /\ Dm!DaemonAssumption
    /\ Fee!EstimateFeeAssumption /\ Tp!TransportAssumption

-----------------------------------------------------------------------------
Init ==
    /\ part \in Parts
    /\ IF part = "failover" THEN Failing!Init ELSE Pf!Init
    /\ part \notin {"prefetcher", "failover"} => branch = "a"
    /\ Dm!Init /\ (part # "daemon" => \A u \in Dm!Url : status[u] = "up")
    /\ Fee!Init /\ (part # "fees" => tip = "A")
    /\ Tp!Init

Next ==
    /\ UNCHANGED part
    /\ \/ /\ \/ part = "prefetcher" /\ Pf!Next
             \/ part = "failover" /\ Failing!Next
          /\ UNCHANGED <<daemon, fees, transport>>
       \/ /\ part = "daemon" /\ Dm!Next
          /\ UNCHANGED <<prefetcher, fees, transport>>
       \/ /\ part = "fees" /\ Fee!Next
          /\ UNCHANGED <<prefetcher, daemon, transport>>
       \/ /\ part = "transport" /\ Tp!Next
          /\ UNCHANGED <<prefetcher, daemon, fees>>

all == <<part, prefetcher, daemon, fees, transport>>

\* The fairness of each part, see there.
Fairness ==
    /\ WF_prefetcher(part = "prefetcher" /\ Pf!Prefetch)
    /\ WF_prefetcher(part = "prefetcher" /\ Pf!Process)
    /\ SF_prefetcher(part = "prefetcher" /\ Pf!Begin)
    /\ SF_prefetcher(part = "prefetcher" /\ Pf!ResetHeight)
    /\ \A r \in {"r1", "r2"} : WF_daemon(part = "daemon" /\ Dm!Work(r))
    /\ \A s \in {"s1", "s2"} :
          /\ SF_fees(part = "fees" /\ Fee!Enter(s))
          /\ WF_fees(part = "fees" /\ (Fee!Answer(s) \/ Fee!Fail(s)))
    /\ WF_transport(part = "transport" /\ Tp!Poll)
    /\ WF_transport(part = "transport" /\ Tp!SecondPasses)

Spec == Init /\ [][Next]_all /\ Fairness

-----------------------------------------------------------------------------
\* Prefetcher, _process_prefetched_blocks: blocks wait in the order of the chain,
\* also after a failover to another branch; the processor gets to the best
\* block, declares itself caught up and carries out what force_chain_reorg
\* accepted.
ServerFollows ==
    /\ [](CASE part = "prefetcher" -> Pf!QueueFollowsChain
           [] part = "failover" -> Failing!QueueFollowsChain
           [] OTHER -> TRUE)
    /\ part = "prefetcher" => Pf!LoopsProgress

\* Daemon._send: a request is answered if one of the daemons works for good.
RequestsAnswered == part = "daemon" => Dm!RequestsAnswered

\* estimatefee: no caller waits for ever, though the cache forgets locks.
EveryCallEnds == part = "fees" => Fee!EveryCallEnds

\* PaddedRSTransport: every message is sent, once and in order, in packets of
\* the sizes they are padded to.
MessagesDelivered == Tp!MessagesDelivered
=============================================================================
