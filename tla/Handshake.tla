----------------------------- MODULE Handshake -----------------------------
(***************************************************************************)
(* The handshake of an ElectrumX session (server/session.py): server.version *)
(* and the protocol version it settles (util.protocol_version), the methods  *)
(* each session class answers, and the requests a client that has not said   *)
(* who it is may make.  A version is a tuple of numbers in Python's order,    *)
(* where a tuple comes before its extensions.                                *)
(***************************************************************************)
EXTENDS Integers, Sequences, SequencesExt, FiniteSetsExt

CONSTANTS
    Version,      \* versions a client may ask for, and (0, ) for one that is no version
    Class,        \* session classes: "ElectrumX", "Dash", "SmartCash", "NameIndex"
    PROTOCOL_MIN, PROTOCOL_MAX,
    CrashVer,     \* coin.CRASH_CLIENT_VER, <<>> for None
    DropUnknown   \* env.drop_client_unknown

Tuples == Seq(Int) \ {<<>>}

HandshakeAssumption ==
    Version \subseteq Tuples /\ PROTOCOL_MIN \in Tuples /\ PROTOCOL_MAX \in Tuples

VARIABLES
    class,          \* the session's class
    open,           \* "open", "crashing" (in crash_old_client) or "closed"
    client,         \* self.client: "unknown", or the version the client gives as its name
    sv_seen,
    asked,          \* what server.version asked for: the versions of the client
    protocol_tuple,
    handlers        \* request_handlers: the methods answered, beside those of every session

vars == <<class, open, client, sv_seen, asked, protocol_tuple, handlers>>

Less(a, b) == \E i \in 1 .. Len(a) + 1 :
                  /\ \A j \in 1 .. i - 1 : j <= Len(b) /\ a[j] = b[j]
                  /\ i <= Len(b)
                  /\ i <= Len(a) => a[i] < b[i]
Lesser(a, b) == IF Less(b, a) THEN b ELSE a
Greater(a, b) == IF Less(a, b) THEN b ELSE a

NoVersion == <<0>>
Refused == <<>>

\* A client asks for nothing, one version or a range.
Requests == {[form |-> "none", min |-> PROTOCOL_MIN, max |-> PROTOCOL_MIN]}
            \cup {[form |-> "range", min |-> a, max |-> b] : a \in Version, b \in Version}

\* Mutant of protocol_version: the client's smallest version is not compared.
VersionBelowMin(r) ==
    LET result == Lesser(r.max, PROTOCOL_MAX)
    IN  IF Less(result, PROTOCOL_MIN) \/ result = NoVersion THEN Refused ELSE result

protocol_version(r) ==
    LET result == Lesser(r.max, PROTOCOL_MAX)
    IN  IF Less(result, Greater(r.min, PROTOCOL_MIN)) \/ result = NoVersion THEN Refused ELSE result

\* The methods that the subclasses add.
ClassMethods(c, ptuple) ==
    CASE c = "Dash" -> {"masternode", "protx"}
      [] c = "SmartCash" -> {"masternode", "protx", "smartrewards"}
      [] c = "NameIndex" -> IF ~Less(ptuple, <<1, 4, 3>>) THEN {"name.get_value_proof"} ELSE {}
      [] OTHER -> {}

\* set_request_handlers makes a new table; the subclass adds to it.
set_request_handlers(c, ptuple) ==
    (IF ~Less(ptuple, <<1, 4, 2>>) THEN {"scripthash.unsubscribe"} ELSE {}) \cup ClassMethods(c, ptuple)

Unasked == [form |-> "not yet", min |-> NoVersion, max |-> NoVersion]

Init == /\ class \in Class /\ open = "open" /\ client = "unknown" /\ sv_seen = FALSE
        /\ asked = Unasked /\ protocol_tuple = PROTOCOL_MIN
        /\ handlers = set_request_handlers(class, PROTOCOL_MIN)

----------------------------------------------------------------------------
Names == {"", "unknown", "old", "new", "unsupported"}

\* is_old_client: the name is a version up to CRASH_CLIENT_VER.
IsOld(name) == name = "old"

\* "server.version already sent"
FirstTime == ~sv_seen

\* server_version up to crash_old_client, which awaits twice for an old client.  A name
\* that DROP_CLIENT matches closes the session.
server_version(name, r) ==
    /\ open = "open" /\ FirstTime
    /\ sv_seen' = TRUE
    /\ IF name = "unsupported"
       THEN open' = "closed" /\ UNCHANGED <<client, asked, protocol_tuple, handlers>>
       ELSE /\ client' = IF name = "" THEN client ELSE name
            /\ asked' = r
            /\ LET ptuple == protocol_version(r)
               IN  IF ptuple = Refused
                   THEN /\ open' = IF CrashVer # <<>> /\ IsOld(client') THEN "crashing" ELSE "closed"
                        /\ UNCHANGED <<protocol_tuple, handlers>>
                   ELSE /\ protocol_tuple' = ptuple
                        /\ handlers' = set_request_handlers(class, ptuple)
                        /\ UNCHANGED open
    /\ UNCHANGED class

\* The notifications are sent; the version is then refused.
crash_old_client ==
    /\ open = "crashing" /\ open' = "closed"
    /\ UNCHANGED <<class, client, sv_seen, asked, protocol_tuple, handlers>>

\* handle_request of any other method closes the session of a client that is not known.
Unknown == DropUnknown /\ client = "unknown"
handle_request ==
    /\ open # "closed" /\ Unknown
    /\ open' = "closed"
    /\ UNCHANGED <<class, client, sv_seen, asked, protocol_tuple, handlers>>

\* The client hangs up.
connection_lost ==
    /\ open # "closed" /\ open' = "closed"
    /\ UNCHANGED <<class, client, sv_seen, asked, protocol_tuple, handlers>>

Next == \/ \E name \in Names, r \in Requests : server_version(name, r)
        \/ crash_old_client \/ handle_request \/ connection_lost

Spec == Init /\ [][Next]_vars

----------------------------------------------------------------------------
Within(v, low, high) == ~Less(v, low) /\ ~Less(high, v)
CommonVersions == {v \in Version \cup {PROTOCOL_MIN, PROTOCOL_MAX} :
                     /\ Within(v, PROTOCOL_MIN, PROTOCOL_MAX) /\ Within(v, asked.min, asked.max)}

\* "Find the highest common protocol version": a session that goes on after
\* server.version speaks the highest version that both sides accept, whatever the range
\* asked for, reversed or without a smallest version.
HighestCommonVersion ==
    open = "open" /\ asked # Unasked =>
        protocol_tuple \in CommonVersions /\ \A v \in CommonVersions : ~Less(protocol_tuple, v)

\* The version and with it the answers of a session change once, by its first server.version.
VersionSettledOnce == sv_seen => UNCHANGED <<protocol_tuple, handlers, asked>>

\* Settling the version takes no method away that the session answered before.
MethodsNeverWithdrawn == handlers \subseteq handlers'

\* The handshake settles the highest common version, once, and adds to what the session
\* answers (server_version, set_request_handlers).
VersionNegotiated == [][HighestCommonVersion' /\ VersionSettledOnce /\ MethodsNeverWithdrawn]_vars
=============================================================================
