------------------------------ MODULE Sessions ------------------------------
(***************************************************************************)
(* The life of client sessions in class SessionManager: connections are    *)
(* accepted while the servers listen, sessions are charged, grouped by     *)
(* address, disconnected and removed, and _manage_servers stops and        *)
(* resumes listening as their number reaches its limits.                   *)
(*                                                                         *)
(* Costs are small integers.  What aiorpcx does (accepting, closing, the   *)
(* hard limit) is external and modelled from its use here.                 *)
(***************************************************************************)
EXTENDS Integers, FiniteSets, FiniteSetsExt

CONSTANTS
    Session,      \* possible sessions
    GroupOf,      \* [Session -> group name or Exempt]
    Exempt,       \* private addresses are in no group
    max_sessions,
    ConnectionCost, HardLimit, Refund,
    MaxSpent,     \* bound on the cost charged to a group
    MaxRecalcs,   \* bound on periodic recalculations
    ListenFails   \* may a server fail to listen

SessionsAssumption ==
    /\ max_sessions \in Nat \ {0} /\ ConnectionCost \in Nat /\ HardLimit \in Nat
    /\ Refund \in Nat /\ MaxSpent \in Nat /\ MaxRecalcs \in Nat /\ ListenFails \in BOOLEAN

VARIABLES
    phase,          \* [Session -> none, open, closing or lost]
    cost,           \* [Session -> Nat]
    idle,           \* sessions that have not sent anything lately
    session_groups, \* [known group names -> [sessions, retained_cost]]
    session_event, listening, paused,
    manager,        \* where _manage_servers is
    spent, recalcs  \* charged to a group so far; refunds so far

accounts == <<cost, session_groups, spent, recalcs>>
servers == <<session_event, listening, paused, manager>>
vars == <<phase, idle, accounts, servers>>

Groups == { GroupOf[s] : s \in Session } \ {Exempt}
sessions == { s \in Session : phase[s] # "none" }
low_watermark == (max_sessions * 19) \div 20

Init ==
    /\ phase = [s \in Session |-> "none"] /\ cost = [s \in Session |-> 0] /\ idle = {}
    /\ session_groups = <<>>
    /\ session_event = FALSE /\ listening = TRUE /\ paused = FALSE /\ manager = "wait"
    /\ spent = [g \in Groups |-> 0] /\ recalcs = 0

-----------------------------------------------------------------------------
(* Costs.                                                                   *)

SessionCost(group) == MapThenSumSet(LAMBDA s : cost[s], group.sessions)
GroupCost(group) == group.retained_cost + SessionCost(group)

\* What a session pays for the others of its group.
extra_cost(s) == IF GroupOf[s] \in DOMAIN session_groups
                 THEN GroupCost(session_groups[GroupOf[s]]) - cost[s] ELSE 0

Charge(s, amount) ==
    spent' = [g \in Groups |-> IF g = GroupOf[s] THEN spent[g] + amount ELSE spent[g]]
Affordable(s, amount) == GroupOf[s] \in Groups => spent[GroupOf[s]] + amount <= MaxSpent

-----------------------------------------------------------------------------
(* Sessions.                                                                *)

\* _session_group finds or creates the group.
_session_group(name) == IF name \in DOMAIN session_groups THEN session_groups[name]
                        ELSE [sessions |-> {}, retained_cost |-> 0]

\* A new session's __init__ runs to its end: add_session, then its cost.
AddSession(s) ==
    /\ phase[s] = "none" /\ listening /\ Affordable(s, ConnectionCost)
    /\ phase' = [phase EXCEPT ![s] = "open"]
    /\ cost' = [cost EXCEPT ![s] = ConnectionCost] /\ Charge(s, ConnectionCost)
    /\ session_event' = TRUE
    /\ session_groups' = [g \in DOMAIN session_groups \cup ({GroupOf[s]} \ {Exempt}) |->
         IF g # GroupOf[s] THEN session_groups[g]
         ELSE [_session_group(g) EXCEPT !.sessions = @ \cup {s}]]
    /\ UNCHANGED <<idle, recalcs, listening, paused, manager>>

\* A request is charged; a session that costs too much is disconnected.
BumpCost(s) ==
    /\ phase[s] = "open" /\ Affordable(s, 1) /\ cost[s] < MaxSpent
    /\ cost' = [cost EXCEPT ![s] = @ + 1] /\ Charge(s, 1) /\ idle' = idle \ {s}
    /\ phase' = IF cost[s] + 1 + extra_cost(s) >= HardLimit
                THEN [phase EXCEPT ![s] = "closing"] ELSE phase
    /\ UNCHANGED <<session_groups, recalcs, servers>>

\* Time passes without a message; a stale session is closed.
FallSilent(s) ==
    /\ phase[s] = "open" /\ s \notin idle /\ idle' = idle \cup {s}
    /\ UNCHANGED <<phase, accounts, servers>>

Close(S) == phase' = [s \in Session |-> IF s \in S /\ phase[s] = "open" THEN "closing" ELSE phase[s]]

ClearStaleSessions ==
    /\ idle # {} /\ Close(idle)
    /\ UNCHANGED <<idle, accounts, servers>>

\* rpc_disconnect of a session, of a group or of all.
RpcDisconnect(S) ==
    /\ S # {} /\ Close(S)
    /\ UNCHANGED <<idle, accounts, servers>>
References == { {s} : s \in sessions } \cup {sessions}
              \cup { session_groups[g].sessions : g \in DOMAIN session_groups }

\* The client goes away, or a session that is being closed is gone.
LoseConnection(s) ==
    /\ phase[s] \in {"open", "closing"} /\ phase' = [phase EXCEPT ![s] = "lost"]
    /\ UNCHANGED <<idle, accounts, servers>>

\* Mutant of Retained: a session that goes takes its cost along.
RetainedNot(group, s) == group.retained_cost

Retained(group, s) == group.retained_cost + cost[s]

\* connection_lost, after the tasks of the session were cancelled.
RemoveSession(s) ==
    /\ phase[s] = "lost" /\ phase' = [phase EXCEPT ![s] = "none"]
    /\ session_event' = TRUE /\ idle' = idle \ {s}
    /\ session_groups' = [g \in DOMAIN session_groups |->
         IF g # GroupOf[s] THEN session_groups[g]
         ELSE [sessions |-> session_groups[g].sessions \ {s},
               retained_cost |-> Retained(session_groups[g], s)]]
    /\ cost' = [cost EXCEPT ![s] = 0]
    /\ UNCHANGED <<spent, recalcs, listening, paused, manager>>

Dead(group) == group.retained_cost = 0 /\ group.sessions = {}

RecalcConcurrency ==
    /\ recalcs < MaxRecalcs /\ recalcs' = recalcs + 1
    /\ LET reduced == [g \in DOMAIN session_groups |->
                        [session_groups[g] EXCEPT !.retained_cost = IF @ > Refund THEN @ - Refund ELSE 0]]
       IN session_groups' = [g \in { h \in DOMAIN reduced : ~Dead(reduced[h]) } |-> reduced[g]]
    /\ UNCHANGED <<phase, cost, idle, spent, servers>>

-----------------------------------------------------------------------------
(* _manage_servers.                                                         *)

Wake ==
    /\ manager = "wait" /\ session_event /\ session_event' = FALSE
    /\ manager' = "look"
    /\ UNCHANGED <<phase, idle, accounts, listening, paused>>

Full == ~paused /\ Cardinality(sessions) >= max_sessions
Resumable == paused /\ Cardinality(sessions) <= low_watermark

Look ==
    /\ manager = "look"
    /\ \/ Full /\ manager' = "stop" /\ listening' = FALSE
       \/ ~Full /\ Resumable /\ manager' = "start" /\ UNCHANGED listening
       \/ ~Full /\ ~Resumable /\ manager' = "wait" /\ UNCHANGED listening
    /\ UNCHANGED <<phase, idle, accounts, session_event, paused>>

\* Mutant of Stopped: paused, and back to waiting for an event that was cleared.
StoppedForgetful ==
    /\ manager = "stop" /\ paused' = TRUE
    /\ session_event' = FALSE /\ manager' = "wait"
    /\ UNCHANGED <<phase, idle, accounts, listening>>

\* wait_closed returns; sessions may have gone meanwhile.
Stopped ==
    /\ manager = "stop" /\ paused' = TRUE
    /\ manager' = IF Cardinality(sessions) <= low_watermark THEN "start" ELSE "wait"
    /\ UNCHANGED <<phase, idle, accounts, session_event, listening>>

\* A server that cannot listen is logged; paused is cleared all the same.
StartExternalServers(ok) ==
    /\ manager = "start" /\ manager' = "wait"
    /\ listening' = ok /\ paused' = FALSE
    /\ UNCHANGED <<phase, idle, accounts, session_event>>

Manage == Wake \/ Look \/ Stopped \/ \E ok \in {TRUE, ~ListenFails} : StartExternalServers(ok)

Next ==
    \/ \E s \in Session : AddSession(s) \/ BumpCost(s) \/ FallSilent(s) \/ LoseConnection(s)
                          \/ RemoveSession(s)
    \/ \E S \in References : RpcDisconnect(S)
    \/ ClearStaleSessions \/ RecalcConcurrency \/ Manage

\* The event loop runs every task that is ready, and closing ends after
\* force_after seconds.
Spec == /\ Init /\ [][Next]_vars /\ WF_vars(Manage)
        /\ \A s \in Session : /\ WF_vars(RemoveSession(s))
                              /\ WF_vars(phase[s] = "closing" /\ LoseConnection(s))

-----------------------------------------------------------------------------
\* A client cannot shed its cost by reconnecting or by letting others of its
\* group disconnect: what was charged to a group and not refunded is still the
\* cost of the group (remove_session, _recalc_concurrency).
CostKept ==
    \A g \in Groups :
        LET group == _session_group(g)
        IN spent[g] - recalcs * Refund <= GroupCost(group)

\* Every session is in the group that is registered under its name, so that the
\* sessions of one address see each other's cost.
OneGroupPerName ==
    \A s \in sessions : GroupOf[s] # Exempt =>
        GroupOf[s] \in DOMAIN session_groups /\ s \in session_groups[GroupOf[s]].sessions

\* Costs follow the address, not the connection (_session_group, remove_session).
GroupsKept == CostKept /\ OneGroupPerName

\* The servers do not stay closed while there is room: each change of the number
\* of sessions wakes _manage_servers, also one during the stopping or starting.
ListensAgain == []<>(listening \/ Cardinality(sessions) > low_watermark)

\* Nor do they go on listening when the limit was reached and stays reached.
StopsWhenFull == []<>(~listening \/ Cardinality(sessions) < max_sessions)

\* The servers listen as the number of sessions says (_manage_servers).
ListeningFollowsLimit == ListensAgain /\ StopsWhenFull
=============================================================================
