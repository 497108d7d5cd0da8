----------------------------- MODULE EstimateFee -----------------------------
(***************************************************************************)
(* ElectrumX.estimatefee (server/session.py): the fee estimates of the       *)
(* daemon, cached by the session manager per (target, mode) and labelled     *)
(* with the block processor's tip.  A lock per key, kept in the cache entry, *)
(* makes the sessions that miss wait for the one that asks the daemon; the   *)
(* cache forgets entries when it is full, locks that are held included.      *)
(*                                                                          *)
(* An estimate is represented by the time the daemon computed it; time is    *)
(* counted in changes of the tip.                                            *)
(***************************************************************************)
EXTENDS Integers, FiniteSets

CONSTANTS
    Session,   \* sessions, each with one call at a time
    Key,       \* (number, mode)
    Tip,       \* block hashes
    maxsize,   \* of estimatefee_cache
    MaxTime,   \* changes of the tip
    MaxLocks   \* locks made

EstimateFeeAssumption == maxsize \in Nat \ {0} /\ MaxTime \in Nat /\ MaxLocks \in Nat

None == "None"

VARIABLES
    tip,      \* session_mgr.bp.tip
    first,    \* when each block first was the tip (-1: never)
    now,      \* the time
    cache,    \* key -> [hash, fee, lock], for the keys in the cache
    owner,    \* lock -> the session that holds it, or None
    call      \* session -> its call: where it is, and its local variables

vars == <<tip, first, now, cache, owner, call>>

Idle == [pc |-> "idle"]
Waiting(k, l) == [pc |-> "waiting", key |-> k, lock |-> l]
Asking(k, l, held, hash, at) ==
    [pc |-> "asking", key |-> k, lock |-> l, held |-> held, hash |-> hash, at |-> at]

Locks == 1 .. MaxLocks
Made == {l \in Locks : owner[l] # "unmade"}

Init == /\ tip \in Tip /\ now = 0
        /\ first = [t \in Tip |-> IF t = tip THEN 0 ELSE -1]
        /\ cache = <<>>
        /\ owner = [l \in Locks |-> "unmade"]
        /\ call = [s \in Session |-> Idle]

Cached(k) == k \in DOMAIN cache

\* The entries after one is stored: a new key makes a full cache forget another.
Stored(k, entry) ==
    LET keys == DOMAIN cache \cup {k}
        Of(x) == IF x = k THEN entry ELSE cache[x]
    IN  IF Cardinality(keys) <= maxsize THEN {[x \in keys |-> Of(x)]}
        ELSE {[x \in keys \ {y} |-> Of(x)] : y \in keys \ {k}}

----------------------------------------------------------------------------
\* Another block is the tip, perhaps one that was the tip before a reorganisation.
NewTip(t) ==
    /\ t # tip /\ now < MaxTime
    /\ tip' = t /\ now' = now + 1
    /\ first' = IF first[t] = -1 THEN [first EXCEPT ![t] = now + 1] ELSE first
    /\ UNCHANGED <<cache, owner, call>>

\* "create lock now, store it, and only then await on it"
MakeLock(s, k) ==
    /\ ~Cached(k) /\ Made # Locks
    /\ LET l == CHOOSE l \in Locks \ Made : TRUE
       IN  /\ owner' = [owner EXCEPT ![l] = None]
           /\ cache' \in Stored(k, [hash |-> None, fee |-> -1, lock |-> l])
           /\ call' = [call EXCEPT ![s] = Waiting(k, l)]

\* A call that finds the estimate for the tip returns it at once.
Estimatefee(s, k) ==
    /\ call[s] = Idle
    /\ \/ MakeLock(s, k)
       \/ /\ Cached(k)
          /\ call' = [call EXCEPT ![s] = IF cache[k].hash = tip THEN Idle ELSE Waiting(k, cache[k].lock)]
          /\ UNCHANGED <<cache, owner>>
    /\ UNCHANGED <<tip, first, now>>

\* With the lock the cache is looked at again: the session before may have filled it.
\* The entry may also have been forgotten and made anew, with another lock.
Enter(s) ==
    /\ call[s].pc = "waiting" /\ owner[call[s].lock] = None
    /\ LET k == call[s].key
           held == call[s].lock
       IN  IF Cached(k) /\ cache[k].hash = tip
           THEN call' = [call EXCEPT ![s] = Idle] /\ UNCHANGED owner
           ELSE /\ call' = [call EXCEPT ![s] =
                      Asking(k, IF Cached(k) THEN cache[k].lock ELSE held, held, tip, now)]
                /\ owner' = [owner EXCEPT ![held] = s]
    /\ UNCHANGED <<tip, first, now, cache>>

\* Mutant of Labelled: the tip is read when the answer is there.
LabelledNow(c, fee) == [hash |-> tip, fee |-> fee, lock |-> c.lock]

\* The entry for an answer, labelled with the tip read before the daemon was asked.
Labelled(c, fee) == [hash |-> c.hash, fee |-> fee, lock |-> c.lock]

\* The daemon's answer, computed at some time since it was asked.
Answer(s) ==
    /\ call[s].pc = "asking"
    /\ \E fee \in call[s].at .. now : cache' \in Stored(call[s].key, Labelled(call[s], fee))
    /\ owner' = [owner EXCEPT ![call[s].held] = None]
    /\ call' = [call EXCEPT ![s] = Idle]
    /\ UNCHANGED <<tip, first, now>>

\* Mutant of FailRelease: the lock is not released when the request raises.
FailKeeps(s) == owner' = owner

\* async with releases the lock.
FailRelease(s) == owner' = [owner EXCEPT ![call[s].held] = None]

\* The daemon refuses, or the session is closed.
Fail(s) ==
    /\ call[s].pc = "asking"
    /\ FailRelease(s)
    /\ call' = [call EXCEPT ![s] = Idle]
    /\ UNCHANGED <<tip, first, now, cache>>

Next == \/ \E t \in Tip : NewTip(t)
        \/ \E s \in Session : Enter(s) \/ Answer(s) \/ Fail(s) \/ \E k \in Key : Estimatefee(s, k)

\* A free lock goes to its waiters in turn, and the daemon answers or the request fails.
Fairness == \A s \in Session : SF_vars(Enter(s)) /\ WF_vars(Answer(s) \/ Fail(s))

Spec == Init /\ [][Next]_vars /\ Fairness

----------------------------------------------------------------------------
\* An estimate under the label of a block is no older than the block: a session that
\* finds it for the tip is never given one made before the tip was known.
CachedFeeFresh == \A k \in DOMAIN cache : cache[k].hash # None => cache[k].fee >= first[cache[k].hash]

\* While the cache forgets nothing, one session at a time asks the daemon for a key:
\* those that come meanwhile wait for its answer.
OneRequestPerKey ==
    \A s, t \in Session :
        call[s].pc = "asking" /\ call[t].pc = "asking" /\ call[s].key = call[t].key => s = t

\* Sessions share fresh estimates: one asks for all, and what it is told is kept under
\* the right block (estimatefee).
EstimatesShared == CachedFeeFresh /\ OneRequestPerKey

\* No caller waits for ever, whatever happened to the callers before it or to the entry
\* whose lock it waits for.
EveryCallEnds == \A s \in Session : call[s].pc = "waiting" ~> call[s].pc = "idle"
=============================================================================
