----------------------------- MODULE PeersProofs -----------------------------
(***************************************************************************)
(* Theorems about peers and sessions, for all values of the constants.     *)
(* That a server is not kept under its name and its address holds however  *)
(* its verifications overlap; that no two reported peers share an address  *)
(* needs that one peer is verified at a time, as the FIXME of _verify_peer *)
(* says.  GroupsKept holds for any finite set of sessions, in any groups,  *)
(* and any costs.                                                          *)
(***************************************************************************)
EXTENDS MCPeers, FiniteSetTheorems, WellFoundedInduction, TLAPS

-----------------------------------------------------------------------------
(* Peers.                                                                   *)

PeersTyped ==
    /\ peers \subseteq Peer
    /\ monitor \in [Peer -> {"none", "try", "wait", "verify"}]
    /\ ip_addr \in [Peer -> {NoIp} \cup { IpOf[p] : p \in Peer }]
    /\ last_good \in [Peer -> Int]
    /\ now \in Int /\ now >= Vf!Start
    /\ blacklist \in Vf!Blacklists

\* The stored address is the peer's own, and once it was connected to it is stored.
AddressInv ==
    \A p \in Peer :
        /\ ip_addr[p] \in {NoIp, IpOf[p]}
        /\ last_good[p] # 0 \/ monitor[p] = "verify" => ip_addr[p] = IpOf[p]

EntryInv == PeersTyped /\ AddressInv /\ Vf!OneEntryPerServer

\* Recently good, whether blacklisted or not: a blacklist may be lifted.
Fresh == { p \in peers : last_good[p] > now - STALE_SECS /\ p \notin bad }

BucketInv == \A p, q \in Fresh : p # q => IpOf[p] # IpOf[q]

\* While a peer is verified no other one is, and none of its address is fresh.
VerifyInv ==
    \A p \in Peer : monitor[p] = "verify" =>
        /\ \A q \in Peer : monitor[q] = "verify" => q = p
        /\ \A q \in Fresh : q # p => IpOf[q] # IpOf[p]

DistinctInv == EntryInv /\ BucketInv /\ VerifyInv

-----------------------------------------------------------------------------
\* New peers are none of the known ones, by name or by stored address.
LEMMA NotedAreNew ==
    ASSUME NEW S \in SUBSET Peer, NEW limit, NEW N \in Vf!Noted(S, limit)
    PROVE  /\ N \subseteq S /\ N \cap peers = {}
           /\ \A n \in N : monitor[n] = "none"
           /\ \A n \in N, q \in peers : ip_addr[q] # n
  BY DEF Vf!Noted, Vf!matches

\* The operators on finite sets are those of the library.
LEMMA CountsAgree ==
    /\ \A S : Vf!Cardinality(S) = Cardinality(S)
    /\ \A S : Vf!IsFiniteSet(S) <=> IsFiniteSet(S)
BY DEF Vf!Cardinality, Cardinality, Vf!IsFiniteSet, IsFiniteSet

\* A peer reached by its address is evicted with it, if another of its names is known.
LEMMA AddressesEvicted ==
    ASSUME NEW M, IsFiniteSet(M), NEW p \in M, NEW q \in M, p # q, Vf!is_ip(q)
    PROVE  q \in Vf!Evicted(M)
<1>1. Cardinality({p, q}) <= Cardinality(M)
  BY FS_Subset
<1>2. Cardinality({p, q}) = 2
  <2>1. IsFiniteSet({q}) /\ Cardinality({q}) = 1 /\ p \notin {q}
    BY FS_Singleton
  <2>2. Cardinality({q} \cup {p}) = Cardinality({q}) + 1
    BY <2>1, FS_AddElement
  <2>3. {q} \cup {p} = {p, q}
    OBVIOUS
  <2> QED
    BY <2>1, <2>2, <2>3
<1>3. Cardinality(M) \in Nat
  BY FS_CardinalityType
<1> QED
  BY <1>1, <1>2, <1>3, CountsAgree DEF Vf!Evicted

-----------------------------------------------------------------------------
\* What a step may do to the state that the invariants are about, for the steps that
\* only drop peers, find them bad, or let them wait.
Losing ==
    /\ peers' \subseteq peers /\ bad \subseteq bad'
    /\ monitor' \in [Peer -> {"none", "try", "wait", "verify"}]
    /\ \A p \in Peer : monitor'[p] = "verify" => monitor[p] = "verify"
    /\ last_good' = last_good /\ now' \in Int /\ now' >= now
    /\ ip_addr' = ip_addr /\ blacklist' \in Vf!Blacklists

LEMMA FailedLoses ==
    ASSUME PeersTyped, NEW p \in Peer, NEW tries, NEW B, bad \subseteq B, Vf!Failed(p, tries, B)
    PROVE  /\ peers' \subseteq peers /\ bad \subseteq bad'
           /\ monitor' \in [Peer -> {"none", "try", "wait", "verify"}]
           /\ \A q \in Peer : monitor'[q] = "verify" => monitor[q] = "verify"
           /\ monitor'[p] # "verify"
  BY DEF Vf!Failed, PeersTyped

LEMMA LosingSteps ==
    ASSUME Vf!PeersAssumption, PeersTyped,
           \/ Vf!DetectProxy \/ Vf!Tick \/ \E B \in Vf!Blacklists : Vf!RefreshBlacklist(B)
           \/ \E p \in Peer :
                \/ Vf!GoesDown(p) \/ Vf!NoProxy(p) \/ Vf!Unreachable(p) \/ Vf!WakeUp(p)
                \/ \E B \in {bad, bad \cup {p}} : Vf!VerifyFails(p, B)
           \/ UNCHANGED Vf!vars
    PROVE  Losing
<1>1. now \in Int /\ blacklist \in Vf!Blacklists /\ monitor \in [Peer -> {"none", "try", "wait", "verify"}]
  BY DEF PeersTyped
<1>2. CASE Vf!DetectProxy \/ Vf!Tick
  BY <1>1, <1>2 DEF Vf!DetectProxy, Vf!Tick, Losing, Vf!known
<1>3. CASE \E B \in Vf!Blacklists : Vf!RefreshBlacklist(B)
  BY <1>1, <1>3 DEF Vf!RefreshBlacklist, Losing
<1>4. ASSUME NEW p \in Peer, Vf!GoesDown(p) \/ Vf!NoProxy(p) \/ Vf!WakeUp(p)
      PROVE  Losing
  BY <1>1, <1>4 DEF Vf!GoesDown, Vf!NoProxy, Vf!WakeUp, Losing, Vf!known
<1>5. ASSUME NEW p \in Peer, Vf!Unreachable(p)
      PROVE  Losing
  BY <1>1, <1>5, FailedLoses DEF Vf!Unreachable, Losing
<1>6. ASSUME NEW p \in Peer, NEW B \in {bad, bad \cup {p}}, Vf!VerifyFails(p, B)
      PROVE  Losing
  BY <1>1, <1>6, FailedLoses DEF Vf!VerifyFails, Losing
<1>7. CASE UNCHANGED Vf!vars
  BY <1>1, <1>7 DEF Vf!vars, Vf!known, Losing
<1> QED
  BY <1>2, <1>3, <1>4, <1>5, <1>6, <1>7

LEMMA LosingKeepsEntries ==
    ASSUME Vf!PeersAssumption, EntryInv, Losing
    PROVE  EntryInv'
<1>1. PeersTyped'
  <2>1. now \in Int /\ now >= Vf!Start /\ now' \in Int /\ now' >= now /\ Vf!Start \in Int
    BY DEF EntryInv, PeersTyped, Losing, Vf!Start, Vf!PeersAssumption
  <2>2. now' >= Vf!Start
    BY <2>1
  <2> QED
    BY <2>1, <2>2 DEF EntryInv, PeersTyped, Losing, Vf!Start
<1>2. AddressInv'
  BY DEF EntryInv, AddressInv, Losing
<1>3. Vf!OneEntryPerServer'
  BY DEF EntryInv, PeersTyped, Vf!OneEntryPerServer, Losing
<1> QED
  BY <1>1, <1>2, <1>3 DEF EntryInv

\* _note_peers: what is new was never connected to, and is no other's address.
LEMMA AddingKeepsEntries ==
    ASSUME EntryInv, NEW S \in SUBSET Peer, NEW limit, NEW N \in Vf!Noted(S, limit),
           Vf!AddPeers(N), UNCHANGED <<now, blacklist>>
    PROVE  EntryInv'
<1>1. /\ N \subseteq Peer /\ N \cap peers = {}
      /\ \A n \in N, q \in peers : ip_addr[q] # n
  BY NotedAreNew
<1>2. PeersTyped'
  BY <1>1 DEF EntryInv, PeersTyped, Vf!AddPeers, Vf!Forget, Vf!Start
<1>3. AddressInv'
  BY <1>1 DEF EntryInv, PeersTyped, AddressInv, Vf!AddPeers, Vf!Forget
<1>4. Vf!OneEntryPerServer'
  BY <1>1 DEF EntryInv, PeersTyped, Vf!OneEntryPerServer, Vf!AddPeers, Vf!Forget
<1> QED
  BY <1>2, <1>3, <1>4 DEF EntryInv

\* Connect changes what is known of p only, and gives it the address it has.
LEMMA ConnectKeepsEntries ==
    ASSUME EntryInv, NEW p \in Peer, Vf!Connect(p)
    PROVE  EntryInv'
<1>1. /\ peers' \subseteq peers /\ UNCHANGED <<last_good, now, blacklist>>
      /\ ip_addr' = [ip_addr EXCEPT ![p] = IpOf[p]]
      /\ monitor' \in [Peer -> {"none", "try", "wait", "verify"}]
      /\ \A q \in Peer : q # p => monitor'[q] = monitor[q]
  BY DEF Vf!Connect, Vf!Failed, EntryInv, PeersTyped
<1>2. PeersTyped'
  BY <1>1 DEF EntryInv, PeersTyped, Vf!Start
<1>3. AddressInv'
  BY <1>1 DEF EntryInv, PeersTyped, AddressInv
<1>4. Vf!OneEntryPerServer'
  BY <1>1 DEF EntryInv, PeersTyped, AddressInv, Vf!OneEntryPerServer
<1> QED
  BY <1>2, <1>3, <1>4 DEF EntryInv

\* _verify_peer at its end: the peer is good from now on.
LEMMA GoodKeepsEntries ==
    ASSUME Vf!PeersAssumption, EntryInv,
           NEW p \in Peer, NEW N \in Vf!Noted(Peer \ {p}, 2), Vf!VerifyGood(p, N)
    PROVE  EntryInv'
<1> DEFINE M == Vf!matches(p, peers \cup N)
<1>1. /\ N \subseteq Peer \ {p} /\ N \cap peers = {}
      /\ \A n \in N, q \in peers : ip_addr[q] # n
  BY DEF Vf!Noted, Vf!matches
<1>2. /\ peers' = (peers \cup N) \ Vf!Evicted(M) /\ UNCHANGED <<now, blacklist>>
      /\ monitor' = [q \in Peer |-> IF q = p THEN "wait" ELSE IF q \in N THEN "try" ELSE monitor[q]]
      /\ last_good' = [Vf!Forget(N, last_good, 0) EXCEPT ![p] = now]
      /\ ip_addr' = Vf!Forget(N, ip_addr, NoIp)
      /\ monitor[p] = "verify"
  BY DEF Vf!VerifyGood
<1>3. /\ peers \subseteq Peer
      /\ \A q \in Peer : last_good'[q] = IF q = p THEN now ELSE IF q \in N THEN 0 ELSE last_good[q]
      /\ \A q \in Peer : ip_addr'[q] = IF q \in N THEN NoIp ELSE ip_addr[q]
  BY <1>2 DEF Vf!Forget, EntryInv, PeersTyped
<1>4. ip_addr[p] = IpOf[p]
  BY <1>2 DEF EntryInv, AddressInv
<1>5. PeersTyped'
  BY <1>1, <1>2 DEF EntryInv, PeersTyped, Vf!Forget, Vf!Start
<1>6. AddressInv'
  BY <1>1, <1>2, <1>3, <1>4 DEF EntryInv, PeersTyped, AddressInv
<1>7. ASSUME NEW q \in peers', last_good'[q] # 0
      PROVE  ip_addr'[q] \notin peers' \ {q}
  <2>1. q \in peers \cup N /\ q \in Peer
    BY <1>1, <1>2, <1>3
  <2>2. CASE q = p
    <3>1. ASSUME IpOf[p] \in peers' \ {p}
          PROVE  FALSE
      <4>1. IpOf[p] \in M /\ p \in M /\ Vf!is_ip(IpOf[p])
        BY <1>1, <1>2, <1>3, <1>4, <2>1, <2>2, <3>1 DEF Vf!matches, Vf!PeersAssumption, Vf!is_ip
      <4>2. IsFiniteSet(M)
        <5>1. IsFiniteSet(Peer)
          BY CountsAgree, Zenon DEF Vf!PeersAssumption
        <5>2. M \subseteq Peer
          BY <1>1, <1>3 DEF Vf!matches
        <5> QED
          BY <5>1, <5>2, FS_Subset
      <4>3. IpOf[p] \in Vf!Evicted(M)
        BY <4>1, <4>2, <3>1, AddressesEvicted
      <4> QED
        BY <1>2, <3>1, <4>3
    <3> QED
      BY <1>1, <1>3, <1>4, <2>2, <3>1
  <2>3. CASE q # p
    <3>1. q \in peers /\ last_good[q] # 0 /\ q \notin N
      BY <1>1, <1>3, <1>7, <2>1, <2>3
    <3>2. ip_addr[q] \notin peers \ {q} /\ ip_addr[q] \notin N
      BY <1>1, <3>1 DEF EntryInv, Vf!OneEntryPerServer
    <3> QED
      BY <1>2, <1>3, <2>1, <3>1, <3>2
  <2> QED
    BY <2>2, <2>3
<1>8. Vf!OneEntryPerServer'
  BY <1>7 DEF Vf!OneEntryPerServer
<1> QED
  BY <1>5, <1>6, <1>8 DEF EntryInv

-----------------------------------------------------------------------------
\* The steps of Next, by what they do.
LEMMA StepsSorted ==
    ASSUME Vf!PeersAssumption, PeersTyped, [Vf!Next]_(Vf!vars)
    PROVE  \/ Losing
           \/ \E S \in SUBSET Peer : \E limit : \E N \in Vf!Noted(S, limit) :
                 Vf!AddPeers(N) /\ UNCHANGED <<now, blacklist>>
           \/ \E p \in Peer : Vf!Connect(p)
           \/ \E p \in Peer : \E N \in Vf!Noted(Peer \ {p}, 2) : Vf!VerifyGood(p, N)
<1>1. ASSUME Vf!ImportPeers
      PROVE  \E N \in Vf!Noted(Peer, Vf!Cardinality(Peer)) : Vf!AddPeers(N) /\ UNCHANGED <<now, blacklist>>
  BY <1>1 DEF Vf!ImportPeers
<1>2. ASSUME NEW p \in Peer, NEW permit \in BOOLEAN, Vf!OnAddPeer(p, permit)
      PROVE  Losing \/ \E N \in Vf!Noted({p}, 1) : Vf!AddPeers(N) /\ UNCHANGED <<now, blacklist>>
  <2>1. UNCHANGED <<now, blacklist>>
    BY <1>2 DEF Vf!OnAddPeer
  <2>2. \/ \E N \in Vf!Noted({p}, 1) : Vf!AddPeers(N)
        \/ UNCHANGED <<peers, monitor, ip_addr, try_count, last_good, bad>>
    BY <1>2 DEF Vf!OnAddPeer, Vf!known
  <2>3. now \in Int /\ blacklist \in Vf!Blacklists /\ monitor \in [Peer -> {"none", "try", "wait", "verify"}]
    BY DEF PeersTyped
  <2> QED
    BY <2>1, <2>2, <2>3 DEF Losing
<1>3. ASSUME NEW p \in Peer, Vf!Monitor(p)
      PROVE  \/ Vf!Connect(p)
             \/ \E N \in Vf!Noted(Peer \ {p}, 2) : Vf!VerifyGood(p, N)
             \/ Vf!NoProxy(p) \/ Vf!Unreachable(p) \/ Vf!WakeUp(p)
             \/ \E B \in {bad, bad \cup {p}} : Vf!VerifyFails(p, B)
  BY <1>3 DEF Vf!Monitor
<1>4. Peer \in SUBSET Peer /\ \A p \in Peer : {p} \in SUBSET Peer
  OBVIOUS
<1> QED
  BY <1>1, <1>2, <1>3, <1>4, LosingSteps DEF Vf!Next

LEMMA EntriesKept ==
    ASSUME Vf!PeersAssumption, EntryInv, [Vf!Next]_(Vf!vars)
    PROVE  EntryInv'
<1>1. PeersTyped
  BY DEF EntryInv
<1> QED
  BY <1>1, StepsSorted, LosingKeepsEntries, AddingKeepsEntries, ConnectKeepsEntries, GoodKeepsEntries

LEMMA EntriesInit ==
    ASSUME Vf!PeersAssumption, Vf!Init
    PROVE  EntryInv
<1>1. PeersTyped
  BY DEF Vf!Init, PeersTyped, Vf!Start, Vf!Blacklists, Vf!PeersAssumption
<1>2. AddressInv /\ Vf!OneEntryPerServer
  BY DEF Vf!Init, AddressInv, Vf!OneEntryPerServer
<1> QED
  BY <1>1, <1>2 DEF EntryInv

\* A server is not kept under its name and its address, however verifications overlap and
\* whether or not connections go by a proxy (_note_peers, _verify_peer).
THEOREM OneEntryKept ==
    ASSUME Vf!PeersAssumption
    PROVE  Vf!Spec => []Vf!OneEntryPerServer
<1>1. Vf!Init => EntryInv
  BY EntriesInit
<1>2. EntryInv /\ [Vf!Next]_(Vf!vars) => EntryInv'
  BY EntriesKept
<1>3. EntryInv => Vf!OneEntryPerServer
  BY DEF EntryInv
<1> QED
  BY <1>1, <1>2, <1>3, PTL DEF Vf!Spec

-----------------------------------------------------------------------------
\* A fresh peer was connected to.
LEMMA FreshConnected ==
    ASSUME Vf!PeersAssumption, EntryInv, NEW p \in Fresh
    PROVE  p \in Peer /\ ip_addr[p] = IpOf[p]
<1>1. p \in Peer /\ last_good[p] > now - STALE_SECS /\ last_good[p] \in Int /\ now \in Int /\ now >= Vf!Start
  BY DEF Fresh, EntryInv, PeersTyped
<1>2. last_good[p] # 0
  BY <1>1 DEF Vf!Start, Vf!PeersAssumption
<1> QED
  BY <1>1, <1>2 DEF EntryInv, AddressInv

\* Fewer fresh peers and fewer verifications.
LEMMA FewerKeepDistinct ==
    ASSUME BucketInv, VerifyInv, Fresh' \subseteq Fresh,
           \A p \in Peer : monitor'[p] = "verify" => monitor[p] = "verify"
    PROVE  BucketInv' /\ VerifyInv'
  BY DEF BucketInv, VerifyInv

LEMMA LosingKeepsDistinct ==
    ASSUME Vf!PeersAssumption, DistinctInv, Losing
    PROVE  BucketInv' /\ VerifyInv'
<1>1. Fresh' \subseteq Fresh
  <2> SUFFICES ASSUME NEW q \in Fresh' PROVE q \in Fresh
    OBVIOUS
  <2>1. q \in peers' /\ last_good'[q] > now' - STALE_SECS /\ q \notin bad'
    BY DEF Fresh
  <2>2. q \in peers /\ q \notin bad /\ last_good'[q] = last_good[q] /\ last_good[q] \in Int
    BY <2>1 DEF Losing, DistinctInv, EntryInv, PeersTyped
  <2>3. now \in Int /\ now' \in Int /\ now' >= now /\ STALE_SECS \in Int
    BY DEF Losing, DistinctInv, EntryInv, PeersTyped, Vf!PeersAssumption
  <2>4. last_good[q] > now - STALE_SECS
    BY <2>1, <2>2, <2>3
  <2> QED
    BY <2>2, <2>4 DEF Fresh
<1> QED
  BY <1>1, FewerKeepDistinct DEF DistinctInv, Losing

LEMMA AddingKeepsDistinct ==
    ASSUME Vf!PeersAssumption, DistinctInv, NEW S \in SUBSET Peer, NEW limit,
           NEW N \in Vf!Noted(S, limit), Vf!AddPeers(N), UNCHANGED <<now, blacklist>>
    PROVE  BucketInv' /\ VerifyInv'
<1>1. N \subseteq Peer
  BY NotedAreNew
<1>2. 0 <= now - STALE_SECS
  <2>1. now \in Int /\ now >= Vf!Start
    BY DEF DistinctInv, EntryInv, PeersTyped
  <2> QED
    BY <2>1 DEF Vf!Start, Vf!PeersAssumption
<1>3. Fresh' \subseteq Fresh
  <2> SUFFICES ASSUME NEW q \in Fresh' PROVE q \in Fresh
    OBVIOUS
  <2>1. q \in peers' /\ last_good'[q] > now - STALE_SECS /\ q \notin bad'
    BY DEF Fresh
  <2>2. q \in Peer /\ last_good'[q] = IF q \in N THEN 0 ELSE last_good[q]
    BY <1>1, <2>1 DEF Vf!AddPeers, Vf!Forget, DistinctInv, EntryInv, PeersTyped
  <2>3. q \notin N
    <3>1. now - STALE_SECS \in Int
      BY DEF DistinctInv, EntryInv, PeersTyped, Vf!PeersAssumption
    <3> QED
      BY <1>2, <2>1, <2>2, <3>1
  <2> QED
    BY <2>1, <2>2, <2>3 DEF Fresh, Vf!AddPeers
<1>4. \A p \in Peer : monitor'[p] = "verify" => monitor[p] = "verify"
  BY <1>1 DEF Vf!AddPeers, Vf!Forget
<1> QED
  BY <1>3, <1>4, FewerKeepDistinct DEF DistinctInv

\* A peer is verified when no other one is, and no recently good one has its address:
\* the blacklisted ones have another, for its address is not on the list.
LEMMA ConnectKeepsDistinct ==
    ASSUME Vf!PeersAssumption, ~Overlap, DistinctInv, NEW p \in Peer, Vf!Connect(p)
    PROVE  BucketInv' /\ VerifyInv'
<1>1. Fresh' \subseteq Fresh
  BY DEF Vf!Connect, Vf!Failed, Fresh
<1>2. monitor \in [Peer -> {"none", "try", "wait", "verify"}] /\ blacklist \in Vf!Blacklists
  BY DEF DistinctInv, EntryInv, PeersTyped
<1>3. CASE p \in blacklist \/ Vf!Crowded(p, IpOf[p])
  <2>1. \A q \in Peer : monitor'[q] = "verify" => monitor[q] = "verify"
    BY <1>2, <1>3 DEF Vf!Connect, Vf!Failed
  <2> QED
    BY <1>1, <2>1, FewerKeepDistinct DEF DistinctInv
<1>4. CASE p \notin blacklist /\ ~Vf!Crowded(p, IpOf[p])
  <2>1. \A q \in Fresh : q # p => IpOf[q] # IpOf[p]
    <3> SUFFICES ASSUME NEW q \in Fresh, q # p, IpOf[q] = IpOf[p] PROVE FALSE
      OBVIOUS
    <3>1. q \in Peer /\ ip_addr[q] = IpOf[q]
      BY FreshConnected DEF DistinctInv
    <3>2. q \notin blacklist
      BY <1>2, <1>4, <3>1 DEF Vf!Blacklists
    <3>3. q \in Vf!recent_good
      BY <3>2 DEF Vf!recent_good, Fresh
    <3> QED
      BY <1>4, <3>1, <3>3 DEF Vf!Crowded, Vf!bucket
  <2>2. \A q \in Peer : monitor'[q] = "verify" => q = p
    BY <1>2, <1>4 DEF Vf!Connect
  <2>3. VerifyInv'
    BY <1>1, <2>1, <2>2 DEF VerifyInv
  <2>4. BucketInv'
    BY <1>1 DEF BucketInv, DistinctInv
  <2> QED
    BY <2>3, <2>4
<1> QED
  BY <1>3, <1>4

\* What was found at Connect still holds at the end of the verification.
LEMMA GoodKeepsDistinct ==
    ASSUME Vf!PeersAssumption, DistinctInv,
           NEW p \in Peer, NEW N \in Vf!Noted(Peer \ {p}, 2), Vf!VerifyGood(p, N)
    PROVE  BucketInv' /\ VerifyInv'
<1>1. N \subseteq Peer \ {p}
  BY DEF Vf!Noted
<1>2. 0 <= now - STALE_SECS /\ now - STALE_SECS \in Int
  <2>1. now \in Int /\ now >= Vf!Start
    BY DEF DistinctInv, EntryInv, PeersTyped
  <2> QED
    BY <2>1 DEF Vf!Start, Vf!PeersAssumption
<1>3. Fresh' \subseteq Fresh \cup {p}
  <2> SUFFICES ASSUME NEW q \in Fresh', q # p PROVE q \in Fresh
    OBVIOUS
  <2>1. q \in peers' /\ last_good'[q] > now - STALE_SECS /\ q \notin bad'
    BY DEF Fresh, Vf!VerifyGood
  <2>2. q \in peers \cup N /\ bad' = bad \ N
    BY <2>1 DEF Vf!VerifyGood
  <2>3. last_good'[q] = IF q \in N THEN 0 ELSE last_good[q]
    BY <1>1, <2>2 DEF Vf!VerifyGood, Vf!Forget, DistinctInv, EntryInv, PeersTyped
  <2>4. q \notin N
    BY <1>2, <2>1, <2>3
  <2> QED
    BY <2>1, <2>2, <2>3, <2>4 DEF Fresh
<1>4. /\ monitor[p] = "verify"
      /\ \A q \in Peer : monitor'[q] = "verify" => q # p /\ monitor[q] = "verify"
  BY DEF Vf!VerifyGood
<1>5. VerifyInv'
  BY <1>4 DEF VerifyInv, DistinctInv
<1>6. \A q \in Fresh : q # p => IpOf[q] # IpOf[p]
  BY <1>4 DEF VerifyInv, DistinctInv
<1>7. BucketInv'
  BY <1>3, <1>6 DEF BucketInv, DistinctInv
<1> QED
  BY <1>5, <1>7

\* One server is one peer, by name and by address, when peers are verified one at a time:
\* no two reported peers share a bucket, however blacklists come and go (_verify_peer).
THEOREM PeersStayDistinct ==
    ASSUME Vf!PeersAssumption, ~Overlap
    PROVE  Vf!Spec => []PeersDistinct
<1>1. Vf!Init => DistinctInv
  <2> SUFFICES ASSUME Vf!Init PROVE DistinctInv
    OBVIOUS
  <2>1. BucketInv /\ VerifyInv
    BY DEF Vf!Init, BucketInv, VerifyInv, Fresh
  <2> QED
    BY <2>1, EntriesInit DEF DistinctInv
<1>2. DistinctInv /\ [Vf!Next]_(Vf!vars) => DistinctInv'
  <2> SUFFICES ASSUME DistinctInv, [Vf!Next]_(Vf!vars) PROVE DistinctInv'
    OBVIOUS
  <2>1. EntryInv /\ PeersTyped
    BY DEF DistinctInv, EntryInv
  <2>2. EntryInv'
    BY <2>1, EntriesKept
  <2>3. BucketInv' /\ VerifyInv'
    BY <2>1, StepsSorted, LosingKeepsDistinct, AddingKeepsDistinct, ConnectKeepsDistinct,
       GoodKeepsDistinct
  <2> QED
    BY <2>2, <2>3 DEF DistinctInv
<1>3. DistinctInv => Vf!PeersDistinct
  <2> SUFFICES ASSUME DistinctInv PROVE Vf!PeersDistinct
    OBVIOUS
  <2>1. \A p \in Vf!recent_good : p \in Fresh /\ Vf!bucket(p) = IpOf[p]
    BY FreshConnected DEF Vf!recent_good, Fresh, Vf!bucket, DistinctInv
  <2> QED
    BY <2>1 DEF Vf!PeersDistinct, Vf!OnePeerPerBucket, DistinctInv, EntryInv, BucketInv
<1>4. DistinctInv => PeersDistinct
  BY <1>3 DEF PeersDistinct, Vf!PeersDistinct, Vf!OneEntryPerServer, Asking!OneEntryPerServer
<1> QED
  BY <1>1, <1>2, <1>4, PTL DEF Vf!Spec

-----------------------------------------------------------------------------
(* Sums.  MapThenSumSet is defined by a recursion that takes the elements   *)
(* of a set in a fixed but unknown order; the lemmas say that the order     *)
(* does not matter.  Each is proved by looking at a smallest counterexample. *)

\* The sum of f over S.
Sum(f, S) == MapThenSumSet(LAMBDA s : f[s], S)

Pick(s) == CHOOSE x \in s : TRUE

\* g is the function that the recursion defines on the subsets of S.
Sums(f, S, g) ==
    g = [s \in SUBSET S |-> IF s = {} THEN 0 ELSE f[Pick(s)] + g[s \ {Pick(s)}]]

\* A non-empty set of finite sets has a member that none of the others is within.
LEMMA SmallestSet ==
    ASSUME NEW S, IsFiniteSet(S), NEW T \in SUBSET (SUBSET S), T # {}
    PROVE  \E s \in T : \A t \in T : t \subseteq s => t = s
<1>1. IsWellFoundedOn(StrictSubsetOrdering(S), SUBSET S)
  BY FS_StrictSubsetOrderingWellFounded, FS_FiniteSubsetsOfFinite
<1>2. \E s \in T : \A t \in T : ~(<<t, s>> \in StrictSubsetOrdering(S))
  BY <1>1, WFMin
<1> QED
  BY <1>2 DEF StrictSubsetOrdering

\* Two functions that satisfy the recursion agree where both are defined.
LEMMA SumsUnique ==
    ASSUME NEW f, NEW S, IsFiniteSet(S), NEW A \in SUBSET S, NEW B \in SUBSET S,
           NEW g, NEW h, Sums(f, A, g), Sums(f, B, h)
    PROVE  \A s \in SUBSET (A \cap B) : g[s] = h[s]
<1> DEFINE T == { s \in SUBSET (A \cap B) : g[s] # h[s] }
<1> SUFFICES ASSUME T # {} PROVE FALSE
  OBVIOUS
<1>1. T \in SUBSET (SUBSET S)
  OBVIOUS
<1>2. \E s \in T : \A t \in T : t \subseteq s => t = s
  <2> HIDE DEF T
  <2> QED
    BY <1>1, SmallestSet
<1> PICK s \in T : \A t \in T : t \subseteq s => t = s
  BY <1>2
<1>3. s \in SUBSET A /\ s \in SUBSET B /\ g[s] # h[s]
  OBVIOUS
<1>4. s # {}
  BY <1>3 DEF Sums
<1>5. Pick(s) \in s
  BY <1>4 DEF Pick
<1> DEFINE r == s \ {Pick(s)}
<1>6. g[s] = f[Pick(s)] + g[r] /\ h[s] = f[Pick(s)] + h[r]
  BY <1>3, <1>4 DEF Sums
<1>7. r \notin T
  BY <1>5
<1>8. g[r] = h[r]
  BY <1>7, <1>3
<1> QED
  BY <1>3, <1>6, <1>8

\* The recursion defines a function.
LEMMA SumsExist ==
    ASSUME NEW f, NEW S, IsFiniteSet(S)
    PROVE  \E g : Sums(f, S, g)
<1> DEFINE T == { s \in SUBSET S : ~ \E g : Sums(f, s, g) }
<1> SUFFICES ASSUME T # {} PROVE FALSE
  OBVIOUS
<1>0. T \in SUBSET (SUBSET S)
  OBVIOUS
<1>1. \E s \in T : \A t \in T : t \subseteq s => t = s
  <2> HIDE DEF T
  <2> QED
    BY <1>0, SmallestSet
<1> PICK s \in T : \A t \in T : t \subseteq s => t = s
  BY <1>1
<1>2. s \in SUBSET S /\ ~ \E g : Sums(f, s, g)
  OBVIOUS
<1>3. \A t \in SUBSET s : t # s => \E g : Sums(f, t, g)
  BY <1>1
<1> DEFINE G(t) == CHOOSE g : Sums(f, t, g)
           V(t) == IF t = {} THEN 0 ELSE f[Pick(t)] + G(t \ {Pick(t)})[t \ {Pick(t)}]
           h == [t \in SUBSET s |-> V(t)]
<1>4. ASSUME NEW t \in SUBSET s, t # s
      PROVE  Sums(f, t, G(t))
  BY <1>3, <1>4
<1>5. ASSUME NEW t \in SUBSET s, t # s
      PROVE  G(t)[t] = V(t)
  <2>1. CASE t = {}
    <3>1. Sums(f, t, G(t)) /\ t \in SUBSET t
      BY <1>4, <1>5
    <3> HIDE DEF G
    <3>2. G(t)[t] = 0
      BY <2>1, <3>1 DEF Sums
    <3> QED
      BY <2>1, <3>2
  <2>2. CASE t # {}
    <3> DEFINE r == t \ {Pick(t)}
    <3>1. Pick(t) \in t
      BY <2>2 DEF Pick
    <3>2. r \in SUBSET s /\ r # s /\ r \in SUBSET (t \cap r)
      BY <1>5, <3>1
    <3>3. Sums(f, t, G(t)) /\ Sums(f, r, G(r))
      BY <1>4, <1>5, <3>2
    <3>4. G(t)[t] = f[Pick(t)] + G(t)[r]
      BY <2>2, <3>3 DEF Sums
    <3>5. t \in SUBSET S /\ r \in SUBSET S
      BY <1>2, <1>5
    <3> HIDE DEF r, G
    <3>6. G(t)[r] = G(r)[r]
      BY <3>2, <3>3, <3>5, SumsUnique
    <3> QED
      BY <2>2, <3>4, <3>6 DEF r
  <2> QED
    BY <2>1, <2>2
<1>6. ASSUME NEW t \in SUBSET s
      PROVE  h[t] = IF t = {} THEN 0 ELSE f[Pick(t)] + h[t \ {Pick(t)}]
  <2>1. CASE t = {}
    BY <2>1
  <2>2. CASE t # {}
    <3> DEFINE r == t \ {Pick(t)}
    <3>1. Pick(t) \in t
      BY <2>2 DEF Pick
    <3>2. r \in SUBSET s /\ r # s
      BY <1>6, <3>1
    <3>3. h[r] = V(r) /\ h[t] = V(t)
      BY <1>6, <3>2
    <3>4. V(r) = G(r)[r]
      BY <1>5, <3>2
    <3>5. V(t) = f[Pick(t)] + G(r)[r]
      BY <2>2
    <3> QED
      BY <2>2, <3>3, <3>4, <3>5
  <2> QED
    BY <2>1, <2>2
<1>7. Sums(f, s, h)
  <2>1. h = [t \in SUBSET s |-> h[t]]
    OBVIOUS
  <2> HIDE DEF h
  <2> QED
    BY <1>6, <2>1 DEF Sums
<1> QED
  BY <1>2, <1>7

\* A function that satisfies the recursion gives the sum.
LEMMA SumIs ==
    ASSUME NEW f, NEW S, IsFiniteSet(S)
    PROVE  \E g : Sums(f, S, g) /\ Sum(f, S) = g[S]
<1> DEFINE F == CHOOSE g : g = [s \in SUBSET S |-> IF s = {} THEN 0 ELSE f[Pick(s)] + g[s \ {Pick(s)}]]
<1>1. Sum(f, S) = F[S]
  BY DEF Sum, MapThenSumSet, MapThenFoldSet, Pick
<1>2. Sums(f, S, F)
  <2>1. F = CHOOSE g : Sums(f, S, g)
    BY DEF Sums
  <2>2. \E g : Sums(f, S, g)
    BY SumsExist
  <2> HIDE DEF F
  <2> QED
    BY <2>1, <2>2
<1> QED
  BY <1>1, <1>2

\* The same function gives the sums over all subsets.
LEMMA SumOfSubset ==
    ASSUME NEW f, NEW S, IsFiniteSet(S), NEW g, Sums(f, S, g), NEW s \in SUBSET S
    PROVE  Sum(f, s) = g[s]
<1>1. IsFiniteSet(s)
  BY FS_Subset
<1>2. PICK h : Sums(f, s, h) /\ Sum(f, s) = h[s]
  BY <1>1, SumIs
<1>3. S \in SUBSET S /\ s \in SUBSET S /\ s \in SUBSET (S \cap s)
  OBVIOUS
<1>4. g[s] = h[s]
  BY <1>2, <1>3, SumsUnique
<1> QED
  BY <1>2, <1>4

-----------------------------------------------------------------------------
\* The sum over nothing.
LEMMA SumEmpty ==
    ASSUME NEW f
    PROVE  Sum(f, {}) = 0
<1>1. PICK g : Sums(f, {}, g) /\ Sum(f, {}) = g[{}]
  BY FS_EmptySet, SumIs
<1> QED
  BY <1>1 DEF Sums

\* The recursion, for sums.
LEMMA SumPick ==
    ASSUME NEW f, NEW S, IsFiniteSet(S), S # {}
    PROVE  Pick(S) \in S /\ Sum(f, S) = f[Pick(S)] + Sum(f, S \ {Pick(S)})
<1>1. PICK g : Sums(f, S, g) /\ Sum(f, S) = g[S]
  BY SumIs
<1>2. Sum(f, S \ {Pick(S)}) = g[S \ {Pick(S)}]
  BY <1>1, SumOfSubset
<1>3. g[S] = f[Pick(S)] + g[S \ {Pick(S)}]
  BY <1>1 DEF Sums
<1> QED
  BY <1>1, <1>2, <1>3 DEF Pick

\* Sums of integers are integers.
LEMMA SumInt ==
    ASSUME NEW S, IsFiniteSet(S), NEW f, \A x \in S : f[x] \in Int
    PROVE  Sum(f, S) \in Int
<1> DEFINE T == { s \in SUBSET S : Sum(f, s) \notin Int }
<1> SUFFICES ASSUME T # {} PROVE FALSE
  OBVIOUS
<1>1. T \in SUBSET (SUBSET S)
  OBVIOUS
<1>2. \E s \in T : \A t \in T : t \subseteq s => t = s
  <2> HIDE DEF T
  <2> QED
    BY <1>1, SmallestSet
<1> PICK s \in T : \A t \in T : t \subseteq s => t = s
  BY <1>2
<1> DEFINE zero == Sum(f, {})
<1>z. zero \in Int
  <2>1. Sum(f, {}) = 0
    BY SumEmpty
  <2> QED
    BY <2>1
<1>3. s # {}
  <2>1. Sum(f, s) \notin Int
    OBVIOUS
  <2> QED
    BY <1>z, <2>1
<1>4. Pick(s) \in s /\ Sum(f, s) = f[Pick(s)] + Sum(f, s \ {Pick(s)})
  BY <1>3, FS_Subset, SumPick
<1>5. Sum(f, s \ {Pick(s)}) \in Int
  BY <1>4
<1> QED
  BY <1>4, <1>5

\* An element may be taken out of a sum, whichever it is.
LEMMA SumRemove ==
    ASSUME NEW S, IsFiniteSet(S), NEW f, \A x \in S : f[x] \in Int, NEW e \in S
    PROVE  Sum(f, S) = f[e] + Sum(f, S \ {e})
<1> DEFINE Wrong(s) == \E x \in s : Sum(f, s) # f[x] + Sum(f, s \ {x})
           T == { s \in SUBSET S : Wrong(s) }
<1> SUFFICES ASSUME T # {} PROVE FALSE
  OBVIOUS
<1>1. T \in SUBSET (SUBSET S)
  OBVIOUS
<1>2. \E s \in T : \A t \in T : t \subseteq s => t = s
  <2> HIDE DEF T
  <2> QED
    BY <1>1, SmallestSet
<1> PICK s \in T : \A t \in T : t \subseteq s => t = s
  BY <1>2
<1> PICK x \in s : Sum(f, s) # f[x] + Sum(f, s \ {x})
  OBVIOUS
<1> DEFINE y == Pick(s)
           r == s \ {x, y}
<1>3. IsFiniteSet(s) /\ s \in SUBSET S /\ s # {}
  BY FS_Subset
<1>4. y \in s /\ Sum(f, s) = f[y] + Sum(f, s \ {y})
  BY <1>3, SumPick
<1>5. x # y
  BY <1>4
<1>6. Sum(f, s \ {y}) = f[x] + Sum(f, (s \ {y}) \ {x})
  <2>1. (s \ {y}) \notin T /\ x \in s \ {y} /\ (s \ {y}) \in SUBSET S
    BY <1>4, <1>5
  <2> QED
    BY <2>1
<1>7. Sum(f, s \ {x}) = f[y] + Sum(f, (s \ {x}) \ {y})
  <2>1. (s \ {x}) \notin T /\ y \in s \ {x} /\ (s \ {x}) \in SUBSET S
    BY <1>4, <1>5
  <2> QED
    BY <2>1
<1>8. (s \ {y}) \ {x} = r /\ (s \ {x}) \ {y} = r
  OBVIOUS
<1>9. Sum(f, r) \in Int
  <2>1. IsFiniteSet(r) /\ r \in SUBSET S
    BY <1>3, FS_Subset
  <2> QED
    BY <2>1, SumInt
<1>10. f[x] \in Int /\ f[y] \in Int
  BY <1>3, <1>4
<1> HIDE DEF y, r, T
<1>11. Sum(f, s) = f[y] + (f[x] + Sum(f, r)) /\ Sum(f, s \ {x}) = f[y] + Sum(f, r)
  BY <1>4, <1>6, <1>7, <1>8
<1>12. Sum(f, s) = f[x] + Sum(f, s \ {x})
  BY <1>9, <1>10, <1>11
<1> QED
  BY <1>12

\* An element may be added to a sum.
LEMMA SumAdd ==
    ASSUME NEW S, IsFiniteSet(S), NEW f, NEW e, \A x \in S \cup {e} : f[x] \in Int, e \notin S
    PROVE  Sum(f, S \cup {e}) = Sum(f, S) + f[e]
<1>1. IsFiniteSet(S \cup {e}) /\ (S \cup {e}) \ {e} = S
  BY FS_AddElement
<1>2. Sum(f, S \cup {e}) = f[e] + Sum(f, S)
  BY <1>1, SumRemove
<1>3. Sum(f, S) \in Int
  BY SumInt
<1> QED
  BY <1>2, <1>3

\* The sum depends on the values on the set only.
LEMMA SumSame ==
    ASSUME NEW S, IsFiniteSet(S), NEW f, NEW g, \A x \in S : f[x] = g[x]
    PROVE  Sum(f, S) = Sum(g, S)
<1> DEFINE T == { s \in SUBSET S : Sum(f, s) # Sum(g, s) }
<1> SUFFICES ASSUME T # {} PROVE FALSE
  OBVIOUS
<1>1. T \in SUBSET (SUBSET S)
  OBVIOUS
<1>2. \E s \in T : \A t \in T : t \subseteq s => t = s
  <2> HIDE DEF T
  <2> QED
    BY <1>1, SmallestSet
<1> PICK s \in T : \A t \in T : t \subseteq s => t = s
  BY <1>2
<1>3. s # {}
  BY SumEmpty
<1>4. /\ Pick(s) \in s /\ Sum(f, s) = f[Pick(s)] + Sum(f, s \ {Pick(s)})
      /\ Sum(g, s) = g[Pick(s)] + Sum(g, s \ {Pick(s)})
  BY <1>3, FS_Subset, SumPick
<1>5. Sum(f, s \ {Pick(s)}) = Sum(g, s \ {Pick(s)})
  BY <1>4
<1> QED
  BY <1>4, <1>5

\* A sum of natural numbers is one.
LEMMA SumNat ==
    ASSUME NEW S, IsFiniteSet(S), NEW f, \A x \in S : f[x] \in Nat
    PROVE  Sum(f, S) \in Nat
<1> DEFINE T == { s \in SUBSET S : Sum(f, s) \notin Nat }
<1> SUFFICES ASSUME T # {} PROVE FALSE
  OBVIOUS
<1>1. T \in SUBSET (SUBSET S)
  OBVIOUS
<1>2. \E s \in T : \A t \in T : t \subseteq s => t = s
  <2> HIDE DEF T
  <2> QED
    BY <1>1, SmallestSet
<1> PICK s \in T : \A t \in T : t \subseteq s => t = s
  BY <1>2
<1>3. s # {}
  BY SumEmpty
<1>4. Pick(s) \in s /\ Sum(f, s) = f[Pick(s)] + Sum(f, s \ {Pick(s)})
  BY <1>3, FS_Subset, SumPick
<1>5. Sum(f, s \ {Pick(s)}) \in Nat
  BY <1>4
<1> QED
  BY <1>4, <1>5

-----------------------------------------------------------------------------
(* The accounts.                                                            *)

AccountsTyped ==
    /\ phase \in [Session -> {"none", "open", "closing", "lost"}]
    /\ cost \in [Session -> Nat] /\ spent \in [Groups -> Nat] /\ recalcs \in Nat
    /\ DOMAIN session_groups \subseteq Groups
    /\ session_groups \in [DOMAIN session_groups -> [sessions : SUBSET Session, retained_cost : Nat]]

Members(g) == { s \in sessions : GroupOf[s] = g }

\* A group consists of the sessions of its name; what is not registered has none.
MembersInv == \A g \in Groups : _session_group(g).sessions = Members(g)

AccountsInv == AccountsTyped /\ MembersInv /\ CostKept

\* The account of a group, as the sum of what it retained and of its sessions' costs.
Account(g) == _session_group(g).retained_cost + Sum(cost, _session_group(g).sessions)

FiniteSessions == IsFiniteSet(Session)

AccountsAreCosts == CostKept <=> \A g \in Groups : spent[g] - recalcs * Refund <= Account(g)

LEMMA AccountIsCost == AccountsAreCosts
  BY DEF AccountsAreCosts, CostKept, GroupCost, SessionCost, Account, Sum

LEMMA AccountIsCostNext == AccountsAreCosts'
  BY AccountIsCost, PTL

\* What a group has is typed, registered or not, and the sum of its costs a number.
LEMMA GroupTyped ==
    ASSUME FiniteSessions, AccountsTyped, NEW g
    PROVE  /\ _session_group(g) \in [sessions : SUBSET Session, retained_cost : Nat]
           /\ _session_group(g).retained_cost \in Nat
           /\ _session_group(g).sessions \in SUBSET Session
           /\ IsFiniteSet(_session_group(g).sessions)
           /\ Sum(cost, _session_group(g).sessions) \in Nat
<1>1. _session_group(g) \in [sessions : SUBSET Session, retained_cost : Nat]
  BY DEF AccountsTyped, _session_group
<1> DEFINE S == _session_group(g).sessions
<1>2. S \in SUBSET Session /\ _session_group(g).retained_cost \in Nat
  BY <1>1
<1> HIDE DEF S
<1>3. IsFiniteSet(S)
  BY <1>2, FS_Subset DEF FiniteSessions
<1>4. Sum(cost, S) \in Nat
  BY <1>2, <1>3, SumNat DEF AccountsTyped
<1> QED
  BY <1>1, <1>2, <1>3, <1>4 DEF S

\* What was charged to each group and not refunded is in its account.
CostInv == \A g \in Groups : spent[g] - recalcs * Refund <= Account(g)

LEMMA CostInvIsCostKept == CostKept <=> CostInv
  BY AccountIsCost DEF AccountsAreCosts, CostInv

LEMMA CostKeptNext == CostInv' => CostKept'
  BY CostInvIsCostKept, PTL

LEMMA AccountOf ==
    ASSUME NEW g
    PROVE  /\ Account(g) = _session_group(g).retained_cost + Sum(cost, _session_group(g).sessions)
           /\ Account(g)' = _session_group(g)'.retained_cost + Sum(cost', _session_group(g)'.sessions)
  BY DEF Account

\* A connection is charged when its session joins its group.
LEMMA AddSessionStep ==
    ASSUME SessionsAssumption, FiniteSessions, AccountsInv, NEW s \in Session, AddSession(s)
    PROVE  AccountsInv'
<1>0. AccountsTyped /\ MembersInv /\ CostInv
  BY CostInvIsCostKept DEF AccountsInv
<1>1. phase' = [phase EXCEPT ![s] = "open"] /\ phase[s] = "none"
  BY DEF AddSession
<1>2. cost' = [cost EXCEPT ![s] = ConnectionCost] /\ ConnectionCost \in Nat /\ recalcs' = recalcs
  BY DEF AddSession, SessionsAssumption
<1>3. spent' = [g \in Groups |-> IF g = GroupOf[s] THEN spent[g] + ConnectionCost ELSE spent[g]]
  BY DEF AddSession, Charge
<1>4. \A g \in Groups : _session_group(g)' = IF g # GroupOf[s] THEN _session_group(g)
                             ELSE [sessions |-> _session_group(g).sessions \cup {s},
                                   retained_cost |-> _session_group(g).retained_cost]
  <2>1. \A g \in Groups : _session_group(g)' = IF g # GroupOf[s] THEN _session_group(g)
                               ELSE [_session_group(g) EXCEPT !.sessions = @ \cup {s}]
    BY DEF AddSession, _session_group, Groups
  <2>2. \A g \in Groups : _session_group(g) \in [sessions : SUBSET Session, retained_cost : Nat]
    BY <1>0, GroupTyped
  <2> QED
    BY <2>1, <2>2
<1>5. AccountsTyped'
  <2>1. \A g \in Groups : _session_group(g) \in [sessions : SUBSET Session, retained_cost : Nat]
    BY <1>0 DEF AccountsTyped, _session_group
  <2>2. GroupOf[s] # Exempt => GroupOf[s] \in Groups
    BY DEF Groups
  <2>3. /\ DOMAIN session_groups' \subseteq Groups
        /\ session_groups' \in [DOMAIN session_groups' -> [sessions : SUBSET Session, retained_cost : Nat]]
    BY <1>0, <2>1, <2>2 DEF AddSession, AccountsTyped
  <2>4. spent' \in [Groups -> Nat]
    BY <1>0, <1>2, <1>3 DEF AccountsTyped
  <2> QED
    BY <1>0, <1>1, <1>2, <2>3, <2>4 DEF AccountsTyped
<1>6. \A g \in Groups : Members(g)' = IF g = GroupOf[s] THEN Members(g) \cup {s} ELSE Members(g)
  BY <1>0, <1>1 DEF AccountsTyped, Members, sessions
<1>7. MembersInv'
  <2> SUFFICES ASSUME NEW g \in Groups PROVE _session_group(g)'.sessions = Members(g)'
    BY DEF MembersInv, Groups
  <2>1. _session_group(g).sessions = Members(g)
    BY <1>0 DEF MembersInv
  <2>2. _session_group(g)'.sessions = IF g = GroupOf[s] THEN _session_group(g).sessions \cup {s}
                                      ELSE _session_group(g).sessions
    BY <1>4
  <2> QED
    BY <1>6, <2>1, <2>2
<1>8. CostInv'
  <2> SUFFICES ASSUME NEW g \in Groups PROVE spent'[g] - recalcs' * Refund <= Account(g)'
    BY DEF CostInv
  <2> DEFINE S == _session_group(g).sessions
  <2>1. /\ S \in SUBSET Session /\ IsFiniteSet(S) /\ Sum(cost, S) \in Nat
        /\ _session_group(g).retained_cost \in Nat
    BY <1>0, GroupTyped
  <2>2. s \notin S
    BY <1>0, <1>1 DEF MembersInv, Members, sessions
  <2>3. Sum(cost', S) = Sum(cost, S)
    <3>1. \A x \in S : cost'[x] = cost[x]
      BY <1>0, <1>2, <2>1, <2>2 DEF AccountsTyped
    <3> QED
      BY <2>1, <3>1, SumSame
  <2>4. spent[g] \in Nat /\ recalcs * Refund \in Nat /\ spent[g] - recalcs * Refund <= Account(g)
    BY <1>0 DEF AccountsTyped, SessionsAssumption, CostInv
  <2>5. CASE g # GroupOf[s]
    BY <1>2, <1>3, <1>4, <2>3, <2>4, <2>5, AccountOf
  <2>6. CASE g = GroupOf[s]
    <3>1. Sum(cost', S \cup {s}) = Sum(cost, S) + ConnectionCost
      <4>1. \A x \in S \cup {s} : cost'[x] \in Int
        BY <1>0, <1>2, <2>1 DEF AccountsTyped
      <4>2. cost'[s] = ConnectionCost
        BY <1>0, <1>2 DEF AccountsTyped
      <4> QED
        BY <2>1, <2>2, <2>3, <4>1, <4>2, SumAdd
    <3>2. _session_group(g)'.sessions = S \cup {s}
          /\ _session_group(g)'.retained_cost = _session_group(g).retained_cost
      BY <1>4, <2>6
    <3> HIDE DEF S
    <3>3. /\ Account(g) = _session_group(g).retained_cost + Sum(cost, S)
          /\ Account(g)' = _session_group(g).retained_cost + Sum(cost', S \cup {s})
      BY <3>2, AccountOf DEF S
    <3>5. Account(g)' = Account(g) + ConnectionCost /\ Account(g) \in Nat
      BY <1>2, <2>1, <3>1, <3>3
    <3>4. spent'[g] = spent[g] + ConnectionCost
      BY <1>3, <2>6
    <3> QED
      BY <1>2, <2>4, <3>4, <3>5
  <2> QED
    BY <2>5, <2>6
<1> QED
  BY <1>5, <1>7, <1>8, CostKeptNext DEF AccountsInv

\* Steps that leave the accounts alone: a session changes its phase, but stays.
LEMMA AccountsKept ==
    ASSUME AccountsInv, UNCHANGED accounts, phase' \in [Session -> {"none", "open", "closing", "lost"}],
           \A s \in Session : phase'[s] = "none" <=> phase[s] = "none"
    PROVE  AccountsInv'
<1>0. AccountsTyped /\ MembersInv /\ CostInv
  BY CostInvIsCostKept DEF AccountsInv
<1>1. AccountsTyped'
  BY <1>0 DEF AccountsTyped, accounts
<1>2. \A g : _session_group(g)' = _session_group(g) /\ Members(g)' = Members(g)
  BY DEF _session_group, Members, sessions, accounts
<1>3. MembersInv'
  BY <1>0, <1>2 DEF MembersInv
<1>4. \A g : Account(g)' = Account(g)
  BY <1>2, AccountOf DEF accounts
<1>5. CostInv'
  BY <1>0, <1>4 DEF CostInv, accounts
<1> QED
  BY <1>1, <1>3, <1>5, CostKeptNext DEF AccountsInv

\* A request is charged to its session and to the group it is in.
LEMMA BumpCostStep ==
    ASSUME SessionsAssumption, FiniteSessions, AccountsInv, NEW s \in Session, BumpCost(s)
    PROVE  AccountsInv'
<1>0. AccountsTyped /\ MembersInv /\ CostInv
  BY CostInvIsCostKept DEF AccountsInv
<1>1. /\ phase[s] = "open" /\ phase' \in {phase, [phase EXCEPT ![s] = "closing"]}
      /\ cost' = [cost EXCEPT ![s] = @ + 1] /\ UNCHANGED <<session_groups, recalcs>>
      /\ spent' = [g \in Groups |-> IF g = GroupOf[s] THEN spent[g] + 1 ELSE spent[g]]
  BY DEF BumpCost, Charge
<1>2. AccountsTyped'
  BY <1>0, <1>1 DEF AccountsTyped
<1>3. \A g : _session_group(g)' = _session_group(g) /\ Members(g)' = Members(g)
  BY <1>0, <1>1 DEF _session_group, Members, sessions, AccountsTyped
<1>4. MembersInv'
  BY <1>0, <1>3 DEF MembersInv
<1>5. CostInv'
  <2> SUFFICES ASSUME NEW g \in Groups PROVE spent'[g] - recalcs' * Refund <= Account(g)'
    BY DEF CostInv
  <2> DEFINE S == _session_group(g).sessions
             retained == _session_group(g).retained_cost
  <2>1. S \in SUBSET Session /\ IsFiniteSet(S) /\ Sum(cost, S) \in Nat /\ retained \in Nat
    BY <1>0, GroupTyped
  <2>2. S = Members(g)
    BY <1>0 DEF MembersInv
  <2>3. Account(g) = retained + Sum(cost, S) /\ Account(g)' = retained + Sum(cost', S)
    BY <1>3, AccountOf
  <2>4. spent[g] \in Nat /\ recalcs * Refund \in Nat /\ spent[g] - recalcs * Refund <= Account(g)
    BY <1>0 DEF AccountsTyped, SessionsAssumption, CostInv
  <2> HIDE DEF S, retained
  <2>5. CASE g # GroupOf[s]
    <3>1. \A x \in S : cost'[x] = cost[x]
      BY <1>0, <1>1, <2>1, <2>2, <2>5 DEF AccountsTyped, Members
    <3>2. Sum(cost', S) = Sum(cost, S)
      BY <2>1, <3>1, SumSame
    <3> QED
      BY <1>1, <2>3, <2>4, <2>5, <3>2
  <2>6. CASE g = GroupOf[s]
    <3>1. s \in S
      BY <1>1, <2>2, <2>6 DEF Members, sessions
    <3>2. \A x \in S : cost[x] \in Int /\ cost'[x] \in Int
      BY <1>0, <1>2, <2>1 DEF AccountsTyped
    <3>3. Sum(cost, S) = cost[s] + Sum(cost, S \ {s})
      BY <2>1, <3>1, <3>2, SumRemove
    <3>4. Sum(cost', S) = cost'[s] + Sum(cost', S \ {s})
      BY <2>1, <3>1, <3>2, SumRemove
    <3>5. Sum(cost', S \ {s}) = Sum(cost, S \ {s})
      <4>1. IsFiniteSet(S \ {s})
        BY <2>1, FS_Subset
      <4>2. \A x \in S \ {s} : cost'[x] = cost[x]
        BY <1>0, <1>1, <2>1 DEF AccountsTyped
      <4> QED
        BY <4>1, <4>2, SumSame
    <3>6. Sum(cost, S \ {s}) \in Nat
      <4>1. IsFiniteSet(S \ {s})
        BY <2>1, FS_Subset
      <4>2. \A x \in S \ {s} : cost[x] \in Nat
        BY <1>0, <2>1 DEF AccountsTyped
      <4> QED
        BY <4>1, <4>2, SumNat
    <3>7. cost'[s] = cost[s] + 1 /\ cost[s] \in Nat
      BY <1>0, <1>1 DEF AccountsTyped
    <3>8. Account(g)' = Account(g) + 1 /\ Account(g) \in Nat
      BY <2>1, <2>3, <3>3, <3>4, <3>5, <3>6, <3>7
    <3>9. spent'[g] = spent[g] + 1 /\ recalcs' = recalcs
      BY <1>1, <2>6
    <3> QED
      BY <2>4, <3>8, <3>9
  <2> QED
    BY <2>5, <2>6
<1> QED
  BY <1>2, <1>4, <1>5, CostKeptNext DEF AccountsInv

\* A session that goes leaves its cost to its group (remove_session).
LEMMA RemoveSessionStep ==
    ASSUME SessionsAssumption, FiniteSessions, AccountsInv, NEW s \in Session, RemoveSession(s)
    PROVE  AccountsInv'
<1>0. AccountsTyped /\ MembersInv /\ CostInv
  BY CostInvIsCostKept DEF AccountsInv
<1>1. /\ phase[s] = "lost" /\ phase' = [phase EXCEPT ![s] = "none"]
      /\ cost' = [cost EXCEPT ![s] = 0] /\ UNCHANGED <<spent, recalcs>>
      /\ session_groups' = [g \in DOMAIN session_groups |->
           IF g # GroupOf[s] THEN session_groups[g]
           ELSE [sessions |-> session_groups[g].sessions \ {s},
                 retained_cost |-> session_groups[g].retained_cost + cost[s]]]
  BY DEF RemoveSession, Retained
<1>2. cost[s] \in Nat /\ cost' \in [Session -> Nat] /\ cost'[s] = 0
  BY <1>0, <1>1 DEF AccountsTyped
<1>3. AccountsTyped'
  <2>1. \A g \in DOMAIN session_groups :
           session_groups'[g] \in [sessions : SUBSET Session, retained_cost : Nat]
    BY <1>0, <1>1, <1>2 DEF AccountsTyped
  <2>2. DOMAIN session_groups' = DOMAIN session_groups
        /\ session_groups' \in [DOMAIN session_groups -> [sessions : SUBSET Session, retained_cost : Nat]]
    BY <1>1, <2>1
  <2> QED
    BY <1>0, <1>1, <1>2, <2>2 DEF AccountsTyped
<1>4. \A g \in Groups : Members(g)' = IF g = GroupOf[s] THEN Members(g) \ {s} ELSE Members(g)
  BY <1>0, <1>1 DEF AccountsTyped, Members, sessions
<1>5. \A g \in Groups : g = GroupOf[s] => g \in DOMAIN session_groups
  <2> SUFFICES ASSUME NEW g \in Groups, g = GroupOf[s] PROVE g \in DOMAIN session_groups
    OBVIOUS
  <2>1. s \in _session_group(g).sessions
    BY <1>0, <1>1 DEF MembersInv, Members, sessions
  <2> QED
    BY <2>1 DEF _session_group
<1>6. \A g \in Groups : _session_group(g)' = IF g # GroupOf[s] THEN _session_group(g)
                             ELSE [sessions |-> _session_group(g).sessions \ {s},
                                   retained_cost |-> _session_group(g).retained_cost + cost[s]]
  BY <1>1, <1>5 DEF _session_group
<1>7. MembersInv'
  <2> SUFFICES ASSUME NEW g \in Groups PROVE _session_group(g)'.sessions = Members(g)'
    BY DEF MembersInv, Groups
  <2>1. _session_group(g).sessions = Members(g)
    BY <1>0 DEF MembersInv
  <2>2. _session_group(g)'.sessions = IF g = GroupOf[s] THEN _session_group(g).sessions \ {s}
                                      ELSE _session_group(g).sessions
    BY <1>6
  <2> QED
    BY <1>4, <2>1, <2>2
<1>8. CostInv'
  <2> SUFFICES ASSUME NEW g \in Groups PROVE Account(g)' = Account(g)
    BY <1>0, <1>1 DEF CostInv
  <2> DEFINE S == _session_group(g).sessions
             retained == _session_group(g).retained_cost
  <2>1. S \in SUBSET Session /\ IsFiniteSet(S) /\ retained \in Nat
    BY <1>0, GroupTyped
  <2>2. S = Members(g)
    BY <1>0 DEF MembersInv
  <2>3. Account(g) = retained + Sum(cost, S)
    BY AccountOf
  <2>4. Sum(cost', S \ {s}) = Sum(cost, S \ {s})
    <3>1. IsFiniteSet(S \ {s})
      BY <2>1, FS_Subset
    <3>2. \A x \in S \ {s} : cost'[x] = cost[x]
      BY <1>0, <1>1, <2>1 DEF AccountsTyped
    <3> QED
      BY <3>1, <3>2, SumSame
  <2>5. CASE g # GroupOf[s]
    <3>1. Account(g)' = retained + Sum(cost', S)
      BY <1>6, <2>5, AccountOf
    <3>2. S \ {s} = S
      BY <2>2, <2>5 DEF Members
    <3> QED
      BY <2>3, <2>4, <3>1, <3>2
  <2>6. CASE g = GroupOf[s]
    <3>1. _session_group(g)'.sessions = S \ {s} /\ _session_group(g)'.retained_cost = retained + cost[s]
      BY <1>6, <2>6
    <3> HIDE DEF S, retained
    <3>2. Account(g)' = (retained + cost[s]) + Sum(cost', S \ {s})
      BY <3>1, AccountOf
    <3>3. s \in S /\ \A x \in S : cost[x] \in Int
      BY <1>0, <1>1, <2>1, <2>2, <2>6 DEF Members, sessions, AccountsTyped
    <3>4. Sum(cost, S) = cost[s] + Sum(cost, S \ {s})
      BY <2>1, <3>3, SumRemove
    <3>5. Sum(cost, S \ {s}) \in Int
      <4>1. IsFiniteSet(S \ {s})
        BY <2>1, FS_Subset
      <4> QED
        BY <3>3, <4>1, SumInt
    <3> QED
      BY <1>2, <2>1, <2>3, <2>4, <3>2, <3>4, <3>5
  <2> QED
    BY <2>5, <2>6
<1> QED
  BY <1>3, <1>7, <1>8, CostKeptNext DEF AccountsInv

\* Each refund takes at most Refund from what a group retained; a group without sessions
\* and costs is forgotten.
LEMMA RecalcStep ==
    ASSUME SessionsAssumption, FiniteSessions, AccountsInv, RecalcConcurrency
    PROVE  AccountsInv'
<1>0. AccountsTyped /\ MembersInv /\ CostInv
  BY CostInvIsCostKept DEF AccountsInv
<1> DEFINE Less(g) == IF session_groups[g].retained_cost > Refund
                      THEN session_groups[g].retained_cost - Refund ELSE 0
           reduced == [g \in DOMAIN session_groups |->
                         [session_groups[g] EXCEPT !.retained_cost = IF @ > Refund THEN @ - Refund ELSE 0]]
<1>1. /\ UNCHANGED <<phase, cost, spent>> /\ recalcs' = recalcs + 1
      /\ session_groups' = [g \in { h \in DOMAIN reduced : ~Dead(reduced[h]) } |-> reduced[g]]
  BY DEF RecalcConcurrency
<1>2. \A g \in DOMAIN session_groups :
         /\ reduced[g] = [sessions |-> session_groups[g].sessions, retained_cost |-> Less(g)]
         /\ reduced[g] \in [sessions : SUBSET Session, retained_cost : Nat]
  <2> SUFFICES ASSUME NEW g \in DOMAIN session_groups
               PROVE  /\ reduced[g] = [sessions |-> session_groups[g].sessions, retained_cost |-> Less(g)]
                      /\ reduced[g] \in [sessions : SUBSET Session, retained_cost : Nat]
    OBVIOUS
  <2>1. session_groups[g] \in [sessions : SUBSET Session, retained_cost : Nat]
    BY <1>0 DEF AccountsTyped
  <2>2. reduced[g] = [session_groups[g] EXCEPT !.retained_cost = IF @ > Refund THEN @ - Refund ELSE 0]
    OBVIOUS
  <2> HIDE DEF reduced
  <2>3. Less(g) \in Nat
    BY <2>1 DEF SessionsAssumption
  <2>4. reduced[g] = [sessions |-> session_groups[g].sessions, retained_cost |-> Less(g)]
    BY <2>1, <2>2
  <2> QED
    BY <2>1, <2>3, <2>4
<1>3. DOMAIN reduced = DOMAIN session_groups
  OBVIOUS
<1> HIDE DEF reduced
<1>4. AccountsTyped'
  BY <1>0, <1>1, <1>2, <1>3 DEF AccountsTyped
<1>5. \A g \in Groups :
         /\ _session_group(g)'.sessions = _session_group(g).sessions
         /\ _session_group(g)'.retained_cost = IF _session_group(g).retained_cost > Refund
                                               THEN _session_group(g).retained_cost - Refund ELSE 0
  <2> SUFFICES ASSUME NEW g \in Groups
               PROVE  /\ _session_group(g)'.sessions = _session_group(g).sessions
                      /\ _session_group(g)'.retained_cost = IF _session_group(g).retained_cost > Refund
                                               THEN _session_group(g).retained_cost - Refund ELSE 0
    OBVIOUS
  <2>1. CASE g \notin DOMAIN session_groups
    BY <1>1, <1>3, <2>1 DEF _session_group, SessionsAssumption
  <2>2. CASE g \in DOMAIN session_groups /\ Dead(reduced[g])
    <3>1. _session_group(g)' = [sessions |-> {}, retained_cost |-> 0]
      BY <1>1, <2>2 DEF _session_group
    <3>2. reduced[g].retained_cost = 0 /\ reduced[g].sessions = {}
      BY <2>2 DEF Dead
    <3>3. reduced[g] = [sessions |-> session_groups[g].sessions, retained_cost |-> Less(g)]
      BY <1>2, <2>2
    <3> HIDE DEF Less
    <3>4. session_groups[g].sessions = {} /\ Less(g) = 0
      BY <3>2, <3>3
    <3>5. _session_group(g) = session_groups[g]
      BY <2>2 DEF _session_group
    <3> QED
      BY <3>1, <3>4, <3>5 DEF Less
  <2>3. CASE g \in DOMAIN session_groups /\ ~Dead(reduced[g])
    <3>1. _session_group(g)' = reduced[g]
      BY <1>1, <1>3, <2>3 DEF _session_group
    <3>2. reduced[g] = [sessions |-> session_groups[g].sessions, retained_cost |-> Less(g)]
      BY <1>2, <2>3
    <3>3. _session_group(g) = session_groups[g]
      BY <2>3 DEF _session_group
    <3> QED
      BY <3>1, <3>2, <3>3
  <2> QED
    BY <2>1, <2>2, <2>3
<1>6. MembersInv'
  BY <1>0, <1>1, <1>5 DEF MembersInv, Members, sessions
<1>7. CostInv'
  <2> SUFFICES ASSUME NEW g \in Groups PROVE spent[g] - (recalcs + 1) * Refund <= Account(g)'
    BY <1>1 DEF CostInv
  <2> DEFINE retained == _session_group(g).retained_cost
             total == Sum(cost, _session_group(g).sessions)
  <2>1. retained \in Nat /\ total \in Nat
    BY <1>0, GroupTyped
  <2>2. spent[g] \in Nat /\ recalcs \in Nat /\ Refund \in Nat
    BY <1>0 DEF AccountsTyped, SessionsAssumption
  <2>3. spent[g] - recalcs * Refund <= retained + total
    BY <1>0, AccountOf DEF CostInv
  <2>4. Account(g)' = (IF retained > Refund THEN retained - Refund ELSE 0) + total
    BY <1>1, <1>5, AccountOf
  <2> HIDE DEF retained, total
  <2>5. (recalcs + 1) * Refund = recalcs * Refund + Refund /\ recalcs * Refund \in Nat
    BY <2>2
  <2> QED
    BY <2>1, <2>2, <2>3, <2>4, <2>5
<1> QED
  BY <1>4, <1>6, <1>7, CostKeptNext DEF AccountsInv

\* Costs follow the address and not the connection, for any finite set of sessions in any
\* groups, all costs, limits and refunds (_session_group, remove_session).
THEOREM CostsFollowAddress ==
    ASSUME SessionsAssumption, FiniteSessions
    PROVE  Spec => []GroupsKept
<1>1. Init => AccountsInv
  <2> SUFFICES ASSUME Init PROVE AccountsInv
    OBVIOUS
  <2>1. AccountsTyped
    BY DEF Init, AccountsTyped
  <2>2. \A g : _session_group(g) = [sessions |-> {}, retained_cost |-> 0]
    BY DEF Init, _session_group
  <2>3. MembersInv
    BY <2>2 DEF MembersInv, Members, sessions, Init
  <2>4. \A g \in Groups : Account(g) = 0 /\ spent[g] - recalcs * Refund = 0
    <3>1. \A g : Account(g) = 0 + Sum(cost, {})
      BY <2>2, AccountOf
    <3>2. Sum(cost, {}) = 0
      BY SumEmpty
    <3>3. recalcs * Refund = 0 /\ \A g \in Groups : spent[g] = 0
      BY DEF Init, SessionsAssumption
    <3> QED
      BY <3>1, <3>2, <3>3
  <2>5. CostInv
    BY <2>4 DEF CostInv
  <2> QED
    BY <2>1, <2>3, <2>5, CostInvIsCostKept DEF AccountsInv
<1>2. AccountsInv /\ [Next]_vars => AccountsInv'
  <2> SUFFICES ASSUME AccountsInv, [Next]_vars PROVE AccountsInv'
    OBVIOUS
  <2>1. ASSUME NEW s \in Session, AddSession(s) PROVE AccountsInv'
    BY <2>1, AddSessionStep
  <2>2. ASSUME NEW s \in Session, BumpCost(s) PROVE AccountsInv'
    BY <2>2, BumpCostStep
  <2>3. ASSUME NEW s \in Session, RemoveSession(s) PROVE AccountsInv'
    BY <2>3, RemoveSessionStep
  <2>4. CASE RecalcConcurrency
    BY <2>4, RecalcStep
  <2>5. ASSUME UNCHANGED accounts, UNCHANGED phase PROVE AccountsInv'
    BY <2>5, AccountsKept DEF AccountsInv, AccountsTyped
  <2>6. ASSUME NEW s \in Session, LoseConnection(s) PROVE AccountsInv'
    BY <2>6, AccountsKept DEF LoseConnection, AccountsInv, AccountsTyped
  <2>7. ASSUME NEW S, Close(S), UNCHANGED accounts PROVE AccountsInv'
    BY <2>7, AccountsKept DEF Close, AccountsInv, AccountsTyped
  <2>8. ASSUME NEW s \in Session, FallSilent(s) PROVE AccountsInv'
    BY <2>5, <2>8 DEF FallSilent
  <2>9. CASE ClearStaleSessions \/ \E S \in References : RpcDisconnect(S)
    BY <2>7, <2>9 DEF ClearStaleSessions, RpcDisconnect
  <2>10. CASE Manage \/ UNCHANGED vars
    BY <2>5, <2>10 DEF Manage, Wake, Look, Stopped, StartExternalServers, vars
  <2> QED
    BY <2>1, <2>2, <2>3, <2>4, <2>6, <2>8, <2>9, <2>10 DEF Next
<1>3. AccountsInv => GroupsKept
  <2> SUFFICES ASSUME AccountsInv PROVE OneGroupPerName
    BY DEF AccountsInv, GroupsKept
  <2> SUFFICES ASSUME NEW s \in sessions, GroupOf[s] # Exempt
               PROVE  GroupOf[s] \in DOMAIN session_groups /\ s \in session_groups[GroupOf[s]].sessions
    BY DEF OneGroupPerName
  <2>1. GroupOf[s] \in Groups
    BY DEF Groups, sessions
  <2>2. s \in _session_group(GroupOf[s]).sessions
    BY <2>1 DEF AccountsInv, MembersInv, Members
  <2> QED
    BY <2>2 DEF _session_group
<1> QED
  BY <1>1, <1>2, <1>3, PTL DEF Spec

=============================================================================
