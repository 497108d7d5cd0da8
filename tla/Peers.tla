------------------------------- MODULE Peers -------------------------------
(***************************************************************************)
(* Peer discovery: the peers class PeerManager knows, the monitoring task  *)
(* of each, their verification, and the requests of others to be added.    *)
(*                                                                         *)
(* A peer is a host name or an IP address.  Messages of the verification   *)
(* are reduced to its outcome, times to a small clock that starts after    *)
(* STALE_SECS.  A peer that was dropped is noted again only after its old  *)
(* monitoring task ended.                                                  *)
(***************************************************************************)
EXTENDS Integers, FiniteSets

CONSTANTS
    Peer,           \* hosts
    IpOf,           \* [Peer -> IP address it connects to], a Peer if that is one
    Domain,         \* [Peer -> key of the rate limit for adding peers]
    NoIp,           \* ip_addr of a peer never connected to
    STALE_SECS, PEER_ADD_PAUSE, Day,
    TryLimitGood, TryLimitNew,
    MaxTime,        \* bound on the clock
    MayAdd,         \* do others ask to be added
    Overlap,        \* are several peers verified at a time
    force_proxy     \* are all connections made by way of a proxy

\* There are finitely many hosts, and a host that is an address is its own.
PeersAssumption ==
    /\ IsFiniteSet(Peer) /\ \A p \in Peer : IpOf[p] \in Peer => IpOf[IpOf[p]] = IpOf[p]
    /\ STALE_SECS \in Nat /\ PEER_ADD_PAUSE \in Nat /\ Day \in Nat /\ MaxTime \in Nat
    /\ TryLimitGood \in Nat /\ TryLimitNew \in Nat
    /\ MayAdd \in BOOLEAN /\ Overlap \in BOOLEAN /\ force_proxy \in BOOLEAN

VARIABLES
    peers, monitor,    \* the known peers; [Peer -> where its task is]
    ip_addr, try_count, last_good, bad, retry_event,
    blacklist, down,   \* blacklisted, unreachable
    proxy,             \* was a proxy found
    now,
    recent_peer_adds, added  \* rate limit; time of the last accepted request
                             \* (0: never)

known == <<peers, monitor, ip_addr, try_count, last_good, bad, retry_event>>
vars == <<known, proxy, blacklist, down, now, recent_peer_adds, added>>

Start == STALE_SECS + PEER_ADD_PAUSE + 1
Domains == { Domain[p] : p \in Peer }
is_ip(p) == IpOf[p] = p

Init ==
    /\ peers = {} /\ monitor = [p \in Peer |-> "none"]
    /\ ip_addr = [p \in Peer |-> NoIp] /\ try_count = [p \in Peer |-> 0]
    /\ last_good = [p \in Peer |-> 0] /\ bad = {} /\ retry_event = {}
    /\ proxy = FALSE /\ blacklist = {} /\ down = {} /\ now = Start
    /\ recent_peer_adds = [d \in Domains |-> 0] /\ added = [d \in Domains |-> 0]

-----------------------------------------------------------------------------
(* Which peers are the same.                                                *)

\* Mutant of matches: addresses are not compared.
matchesByHost(p, S) == { q \in S : q = p }

matches(p, S) == { q \in S : q = p \/ q = ip_addr[p] \/ ip_addr[q] = p }

recent_good == { p \in peers : last_good[p] > now - STALE_SECS /\ p \notin bad /\ p \notin blacklist }
bucket(p) == ip_addr[p]

\* _note_peers: the new ones of S are added, at most limit of them, and their
\* tasks spawned; a known one whose ports changed is tried again.
Noted(S, limit) ==
    { N \in SUBSET { p \in S : matches(p, peers) = {} /\ monitor[p] = "none" } :
      Cardinality(N) <= limit }

Forget(N, f, value) == [p \in Peer |-> IF p \in N THEN value ELSE f[p]]

-----------------------------------------------------------------------------
(* The monitoring task of a peer.                                           *)

AddPeers(N) ==
    /\ N # {} /\ peers' = peers \cup N
    /\ monitor' = Forget(N, monitor, "try") /\ ip_addr' = Forget(N, ip_addr, NoIp)
    /\ try_count' = Forget(N, try_count, 0) /\ last_good' = Forget(N, last_good, 0)
    /\ bad' = bad \ N /\ retry_event' = retry_event \ N

\* Coin defaults, or an administrator's add_peer.
ImportPeers ==
    /\ \E N \in Noted(Peer, Cardinality(Peer)) : AddPeers(N)
    /\ UNCHANGED <<proxy, blacklist, down, now, recent_peer_adds, added>>

\* The rest of _should_drop_peer after a failed attempt.
TryLimit(p, B) == IF last_good[p] # 0 /\ p \notin B THEN TryLimitGood ELSE TryLimitNew
Tries(p) == try_count[p] + 1

Failed(p, tries, B) ==
    /\ try_count' = [try_count EXCEPT ![p] = tries]
    /\ bad' = B
    /\ peers' = IF tries >= TryLimit(p, B) THEN peers \ {p} ELSE peers
    /\ monitor' = [monitor EXCEPT ![p] = IF tries >= TryLimit(p, B) THEN "none" ELSE "wait"]

\* No attempt is made without the proxy, and none is counted out.
NoProxy(p) ==
    /\ monitor[p] = "try" /\ force_proxy /\ ~proxy
    /\ try_count' = [try_count EXCEPT ![p] = IF @ < TryLimitGood THEN @ + 1 ELSE @]
    /\ monitor' = [monitor EXCEPT ![p] = "wait"]
    /\ UNCHANGED <<peers, ip_addr, last_good, bad, retry_event, proxy, blacklist, down, now,
                   recent_peer_adds, added>>

Unreachable(p) ==
    /\ monitor[p] = "try" /\ (force_proxy => proxy) /\ p \in down
    /\ Failed(p, Tries(p), bad)
    /\ UNCHANGED <<ip_addr, last_good, retry_event, proxy, blacklist, down, now, recent_peer_adds, added>>

\* Another recently good peer is in the same bucket.
Crowded(p, ip) == \E q \in recent_good \ {p} : bucket(q) = ip

\* A connection: the address is stored, then blacklist and bucket are looked at
\* before the first await.
Connect(p) ==
    /\ monitor[p] = "try" /\ (force_proxy => proxy) /\ p \notin down
    /\ Overlap \/ \A q \in Peer : monitor[q] # "verify"
    /\ ip_addr' = [ip_addr EXCEPT ![p] = IpOf[p]]
    /\ IF p \in blacklist \/ Crowded(p, IpOf[p])
       THEN Failed(p, Tries(p), bad \cup {p})
       ELSE /\ monitor' = [monitor EXCEPT ![p] = "verify"]
            /\ UNCHANGED <<peers, try_count, bad>>
    /\ UNCHANGED <<last_good, retry_event, proxy, blacklist, down, now, recent_peer_adds, added>>

\* Version, header, features or peers are not what they should be (bad), or the
\* peer replies with an error or is lost.
VerifyFails(p, B) ==
    /\ monitor[p] = "verify"
    /\ Failed(p, Tries(p), B)
    /\ UNCHANGED <<ip_addr, last_good, retry_event, proxy, blacklist, down, now, recent_peer_adds, added>>

\* Peers given by IP address go if there are others of that address.
Evicted(M) == IF Cardinality(M) > 1 THEN { q \in M : is_ip(q) } ELSE {}

\* "Force the peer's monitoring task to exit"
Woken(E) == E

\* "Trim this data structure"
Trimmed == [d \in Domains |-> IF recent_peer_adds[d] + PEER_ADD_PAUSE < now
                              THEN recent_peer_adds[d] ELSE 0]

\* The peer is good; N are new among the peers it reported.
VerifyGood(p, N) ==
    /\ monitor[p] = "verify" /\ p \notin down
    /\ LET gone == Evicted(matches(p, peers \cup N))
       IN /\ peers' = (peers \cup N) \ gone
          /\ retry_event' = (retry_event \ N) \cup Woken(gone)
    /\ monitor' = [q \in Peer |-> IF q = p THEN "wait" ELSE IF q \in N THEN "try" ELSE monitor[q]]
    /\ try_count' = Forget(N \cup {p}, try_count, 0)
    /\ last_good' = [Forget(N, last_good, 0) EXCEPT ![p] = now]
    /\ ip_addr' = Forget(N, ip_addr, NoIp) /\ bad' = bad \ N
    /\ recent_peer_adds' = Trimmed
    /\ UNCHANGED <<proxy, blacklist, down, now, added>>

\* Mutant of Monitored: the task does not look whether its peer was dropped.
MonitoredAlways(p) == TRUE

Monitored(p) == p \in peers

\* The pause is over, or the event ends it; a task whose peer was dropped exits.
WakeUp(p) ==
    /\ monitor[p] = "wait"
    /\ monitor' = [monitor EXCEPT ![p] = IF Monitored(p) THEN "try" ELSE "none"]
    /\ retry_event' = retry_event \ {p}
    /\ UNCHANGED <<peers, ip_addr, try_count, last_good, bad, proxy, blacklist, down, now,
                   recent_peer_adds, added>>

-----------------------------------------------------------------------------
(* Requests and the environment.                                            *)

\* The time of a request is recorded before it is decided upon.
OnAddPeer(p, permit) ==
    LET d == Domain[p] IN
    /\ MayAdd
    /\ recent_peer_adds' = [recent_peer_adds EXCEPT ![d] = now]
    /\ IF recent_peer_adds[d] + PEER_ADD_PAUSE < now /\ permit
       THEN /\ added' = [added EXCEPT ![d] = now]
            /\ \/ \E N \in Noted({p}, 1) : AddPeers(N)
               \/ /\ Noted({p}, 1) = {{}}         \* known: try it if its ports changed
                  /\ \E E \in {{}, matches(p, peers)} : retry_event' = retry_event \cup E
                  /\ UNCHANGED <<peers, monitor, ip_addr, try_count, last_good, bad>>
       ELSE UNCHANGED <<known, added>>
    /\ UNCHANGED <<proxy, blacklist, down, now>>

\* The blacklist names addresses: with a server all its names are on it.
Blacklists == { B \in SUBSET Peer : \A p, q \in Peer : IpOf[p] = IpOf[q] => (p \in B <=> q \in B) }

\* External: the blacklist is downloaded; peers it names are tried again.
RefreshBlacklist(B) ==
    /\ B # blacklist /\ blacklist' = B
    /\ retry_event' = retry_event \cup (peers \cap B)
    /\ UNCHANGED <<peers, monitor, ip_addr, try_count, last_good, bad, proxy, down, now,
                   recent_peer_adds, added>>

GoesDown(p) == /\ p \notin down /\ down' = down \cup {p}
               /\ UNCHANGED <<known, proxy, blacklist, now, recent_peer_adds, added>>

\* _detect_proxy finds one; it is kept for good.
DetectProxy == /\ force_proxy /\ ~proxy /\ proxy' = TRUE
               /\ UNCHANGED <<known, blacklist, down, now, recent_peer_adds, added>>

Tick == /\ now < Start + MaxTime /\ now' = now + 1
        /\ UNCHANGED <<known, proxy, blacklist, down, recent_peer_adds, added>>

Monitor(p) ==
    \/ NoProxy(p) \/ Unreachable(p) \/ Connect(p) \/ WakeUp(p)
    \/ \E B \in {bad, bad \cup {p}} : VerifyFails(p, B)
    \/ \E N \in Noted(Peer \ {p}, 2) : VerifyGood(p, N)

Next ==
    \/ ImportPeers \/ DetectProxy \/ Tick
    \/ \E p \in Peer : Monitor(p) \/ GoesDown(p) \/ \E permit \in BOOLEAN : OnAddPeer(p, permit)
    \/ \E B \in Blacklists : RefreshBlacklist(B)

\* Pauses and requests end (they have timeouts).
Spec == Init /\ [][Next]_vars /\ \A p \in Peer : WF_vars(Monitor(p))

-----------------------------------------------------------------------------
\* "Peers have one entry per hostname": when a peer was verified, the address it
\* was reached at is not kept as a peer beside it, however notes, verifications
\* and evictions follow each other.
OneEntryPerServer ==
    \A p \in peers : last_good[p] # 0 => ip_addr[p] \notin peers \ {p}

\* "forbid many servers from similar IPs": of the peers that are reported to
\* clients no two have the same address.
OnePeerPerBucket ==
    \A p, q \in recent_good : p # q => bucket(p) # bucket(q)

\* One server is one peer, by name and by address (_note_peers, _verify_peer).
PeersDistinct == OneEntryPerServer /\ OnePeerPerBucket

\* Every monitoring task belongs to a known peer, or is on its way out: a peer
\* that was evicted stops being tried.
EvictedStop == \A p \in Peer : (p \notin peers /\ monitor[p] # "none") ~> (p \in peers \/ monitor[p] = "none")

\* A peer that stays unreachable is forgotten (_should_drop_peer).
UnreachableForgotten == \A p \in Peer : <>[](p \in down) => []<>(p \notin peers)

\* Neither tasks without a peer nor peers without hope are kept (_monitor_peer).
TasksEnd == EvictedStop /\ UnreachableForgotten

\* "Rate limit peer adds by domain to one every 10 minutes".  This does not
\* hold (README, section 4).
RateLimited == [][\A d \in Domains : added'[d] # added[d] => added[d] + PEER_ADD_PAUSE < now]_vars

\* "We return all peers we've connected to in the last day."  This does not hold
\* (README, section 4).
LastDayReported == \A p \in peers : (last_good[p] # 0 /\ last_good[p] > now - Day
                                     /\ p \notin bad /\ p \notin blacklist) => p \in recent_good
=============================================================================
