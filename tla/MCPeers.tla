------------------------------- MODULE MCPeers -------------------------------
(***************************************************************************)
(* The other ends of the server's connections: peers, and the accounts and  *)
(* listening sockets of sessions.  They share no state; `part' says which   *)
(* one a behaviour is about, the other stays as it began.                   *)
(***************************************************************************)
EXTENDS Sessions

CONSTANTS
    Parts,
    Peer, IpOf, Domain, NoIp, STALE_SECS, PEER_ADD_PAUSE, Day, TryLimitGood, TryLimitNew,
    MaxTime, MayAdd, Overlap, force_proxy    \* those of Peers, for the verification

VARIABLES
    part,
    peers, monitor, ip_addr, try_count, last_good, bad, retry_event, blacklist, down, proxy,
    now, recent_peer_adds, added

peering == <<peers, monitor, ip_addr, try_count, last_good, bad, retry_event, blacklist, down,
             proxy, now, recent_peer_adds, added>>

\* A host name and a bare address of one server, and another name of it: one
\* peer verified at a time, peers that ask to be added, and overlapping tasks.
MCIpOf == [p \in {"name", "alias", "ip"} |-> "ip"]
MCDomain == [p \in {"name", "alias", "ip"} |-> IF p = "ip" THEN "ip_addr" ELSE "domain"]
Vf == INSTANCE Peers
Asking == INSTANCE Peers WITH
    Peer <- {"name", "ip"}, TryLimitGood <- 2, TryLimitNew <- 1, MaxTime <- 0, MayAdd <- TRUE,
    Overlap <- TRUE, force_proxy <- TRUE
Monitored == INSTANCE Peers WITH
    Peer <- {"name", "ip"}, TryLimitGood <- 3, TryLimitNew <- 2, MaxTime <- 0, MayAdd <- FALSE,
    Overlap <- TRUE, force_proxy <- FALSE

\* Two sessions of one group and one of a private address.
MCGroupOf == [s \in Session |-> IF s = "s3" THEN Exempt ELSE "g"]

ASSUME PeeringAssumption ==
    /\ Vf!PeersAssumption /\ Asking!PeersAssumption /\ Monitored!PeersAssumption
    /\ SessionsAssumption

-----------------------------------------------------------------------------
PeeringInit ==
    /\ part \in Parts
    /\ IF part = "peers" THEN Vf!Init ELSE Monitored!Init
    /\ Init

PeeringNext ==
    /\ UNCHANGED part
    /\ \/ part = "peers" /\ Vf!Next /\ UNCHANGED vars
       \/ part = "peer requests" /\ Asking!Next /\ UNCHANGED vars
       \/ part = "peer tasks" /\ Monitored!Next /\ UNCHANGED vars
       \/ part = "sessions" /\ Next /\ UNCHANGED peering

\* The fairness of Peers and of Sessions, see there.
PeeringFairness ==
    /\ \A p \in {"name", "ip"} : WF_peering(part = "peer tasks" /\ Monitored!Monitor(p))
    /\ WF_vars(part = "sessions" /\ Manage)
    /\ \A s \in Session :
          /\ WF_vars(part = "sessions" /\ RemoveSession(s))
          /\ WF_vars(part = "sessions" /\ phase[s] = "closing" /\ LoseConnection(s))

Peering == PeeringInit /\ [][PeeringNext]_<<part, peering, vars>> /\ PeeringFairness

-----------------------------------------------------------------------------
(* GroupsKept is that of Sessions.                                          *)

\* PeerManager: one server is one peer, by name and by address.
PeersDistinct ==
    CASE part = "peers" -> Vf!PeersDistinct
      [] part = "peer requests" -> Asking!OneEntryPerServer
      [] OTHER -> TRUE

\* _monitor_peer: neither tasks of evicted peers nor unreachable peers are kept.
TasksEnd == part = "peer tasks" => Monitored!TasksEnd

\* _manage_servers: the servers listen as the number of sessions says.
ServersFollowLimit == part = "sessions" => ListeningFollowsLimit
=============================================================================
