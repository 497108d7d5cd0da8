------------------------------- MODULE Daemon -------------------------------
(***************************************************************************)
(* The client of the coin daemons (class Daemon): every request is a task  *)
(* that posts, waits and retries for itself; the URL in use is shared.     *)
(* Requests are broadcasts of a transaction, the one kind that is not      *)
(* idempotent; what they do is what _send does with any request.           *)
(***************************************************************************)
EXTENDS Integers, FiniteSets

CONSTANTS
    N,               \* number of URLs
    Request,
    max_workqueue,   \* requests posted at a time
    max_retry,       \* in units of init_retry
    MaxLosses,       \* bound: answers lost while the daemon works
    MaxChanges       \* bound: changes of what daemons do

DaemonAssumption ==
    /\ N \in Nat \ {0} /\ max_workqueue \in Nat \ {0} /\ max_retry \in Nat \ {0}
    /\ MaxLosses \in Nat /\ MaxChanges \in Nat

Url == 0 .. N - 1

VARIABLES
    status,          \* External: [Url -> "up", "warming" or "down"]
    url_index,
    task,            \* [Request -> where _send is]
    url, retry,      \* [Request -> URL posted to], [Request -> pause]
    accepted, mined, \* External: transactions the network accepted, confirmed
    losses, changes

vars == <<status, url_index, task, url, retry, accepted, mined, losses, changes>>

Init ==
    /\ status \in [Url -> {"up", "down"}] /\ url_index = 0
    /\ task = [r \in Request |-> "idle"]
    /\ url = [r \in Request |-> 0] /\ retry = [r \in Request |-> 0]
    /\ accepted = {} /\ mined = {} /\ losses = 0 /\ changes = 0

-----------------------------------------------------------------------------
(* A request.                                                               *)

Send(r) ==
    /\ task[r] = "idle"
    /\ task' = [task EXCEPT ![r] = "ready"] /\ retry' = [retry EXCEPT ![r] = 1]
    /\ UNCHANGED <<status, url_index, url, accepted, mined, losses, changes>>

InFlight == { r \in Request : task[r] \in {"posted", "ok reply", "error reply", "warming reply"} }

\* _send_data, up to the answer.
Post(r) ==
    /\ task[r] = "ready" /\ Cardinality(InFlight) < max_workqueue
    /\ task' = [task EXCEPT ![r] = "posted"] /\ url' = [url EXCEPT ![r] = url_index]
    /\ UNCHANGED <<status, url_index, retry, accepted, mined, losses, changes>>

\* External: the daemon refuses what is already in the chain.
Execute(r) ==
    /\ task[r] = "posted"
    /\ \/ /\ status[url[r]] = "warming"
          /\ task' = [task EXCEPT ![r] = "warming reply"] /\ UNCHANGED accepted
       \/ /\ status[url[r]] = "up"
          /\ task' = [task EXCEPT ![r] = IF r \in mined THEN "error reply" ELSE "ok reply"]
          /\ accepted' = accepted \cup {r}
    /\ UNCHANGED <<status, url_index, url, retry, mined, losses, changes>>

\* The processor takes a result, or raises a DaemonError to the caller.
Receive(r) ==
    /\ task[r] \in {"ok reply", "error reply"}
    /\ task' = [task EXCEPT ![r] = IF @ = "ok reply" THEN "ok" ELSE "error"]
    /\ UNCHANGED <<status, url_index, url, retry, accepted, mined, losses, changes>>

\* Mutant of failover: the index stays at the last URL.
failoverToLast == IF url_index + 1 < N THEN url_index + 1 ELSE url_index

failover == (url_index + 1) % N

\* log_error
LogError(r) ==
    IF retry[r] = max_retry /\ N > 1
    THEN url_index' = failover /\ retry' = [retry EXCEPT ![r] = 0]
    ELSE UNCHANGED <<url_index, retry>>

\* A timeout, a lost connection, no JSON, or a daemon that is warming up.
Fail(r) ==
    /\ r \in InFlight
    /\ \/ (task[r] = "warming reply" \/ status[url[r]] = "down") /\ UNCHANGED losses
       \/ task[r] # "warming reply" /\ status[url[r]] # "down"
          /\ losses < MaxLosses /\ losses' = losses + 1
    /\ LogError(r)
    /\ task' = [task EXCEPT ![r] = "asleep"]
    /\ UNCHANGED <<status, url, accepted, mined, changes>>

Least(a, b) == IF a < b THEN a ELSE b

Wake(r) ==
    /\ task[r] = "asleep"
    /\ retry' = [retry EXCEPT ![r] = IF @ = 0 THEN 1 ELSE Least(max_retry, 2 * @)]
    /\ task' = [task EXCEPT ![r] = "ready"]
    /\ UNCHANGED <<status, url_index, url, accepted, mined, losses, changes>>

-----------------------------------------------------------------------------
(* External: daemons come and go, transactions are confirmed.               *)

StatusChange(u, s) ==
    /\ changes < MaxChanges /\ changes' = changes + 1
    /\ status[u] # s /\ status' = [status EXCEPT ![u] = s]
    /\ UNCHANGED <<url_index, task, url, retry, accepted, mined, losses>>

Mine == /\ accepted \ mined # {} /\ mined' = accepted
        /\ UNCHANGED <<status, url_index, task, url, retry, accepted, losses, changes>>

Work(r) == Post(r) \/ Execute(r) \/ Receive(r) \/ Fail(r) \/ Wake(r)

Next ==
    \/ \E r \in Request : Send(r) \/ Work(r)
    \/ \E u \in Url, s \in {"up", "warming", "down"} : StatusChange(u, s)
    \/ Mine

\* Timers fire, and the event loop runs every task that can go on.
Spec == Init /\ [][Next]_vars /\ \A r \in Request : WF_vars(Work(r))

-----------------------------------------------------------------------------
\* "Handles temporary connection issues": every request is answered if one of
\* the daemons works for good, wherever in the list that daemon is.
RequestsAnswered ==
    (\E u \in Url : <>[](status[u] = "up"))
        => \A r \in Request : task[r] = "ready" ~> task[r] \in {"ok", "error"}

\* A client is told that its transaction "was rejected by network rules" only
\* if the network did not accept it.  This does not hold (README, section 4).
RejectedNotAccepted == \A r \in Request : task[r] = "error" => r \notin accepted
=============================================================================
