------------------------------ MODULE MCClients ------------------------------
(***************************************************************************)
(* What a client of the server sees: the notifications of its              *)
(* subscriptions, the protocol version it agrees on and fee estimates.      *)
(* They share no state; `part' says which one a behaviour is about, the     *)
(* others stay as they began.                                               *)
(***************************************************************************)
EXTENDS EstimateFee, Sequences, TLC

CONSTANTS
    Parts, t1, t2,
    Txs, MaxHeight, MaxChanges, Tasks, Limit, Overlap, EqualHeights, NoValue,   \* those of Subscriptions
    Version, Class, PROTOCOL_MIN, PROTOCOL_MAX, CrashVer, DropUnknown           \* those of Handshake

VARIABLES
    part,
    chain, mempool, bp_touched, bp_pc, highest, mp, waiting, ns, history_cache, hsub_results,
    notified_height, tasks, subs, subscribe_headers, mempool_status, client, changes,
    class, open, client_name, sv_seen, asked, protocol_tuple, handlers

subscriptions == <<chain, mempool, bp_touched, bp_pc, highest, mp, waiting, ns, history_cache,
                   hsub_results, notified_height, tasks, subs, subscribe_headers,
                   mempool_status, client, changes>>
handshake == <<class, open, client_name, sv_seen, asked, protocol_tuple, handlers>>

\* Two interchangeable tasks.
TaskSymmetry == Permutations({t1, t2})

Sb == INSTANCE Subscriptions WITH None <- NoValue

Hs == INSTANCE Handshake WITH client <- client_name

\* Versions below, at, between and above the server's, shorter and longer.
MCVersion == {<<0>>, <<1>>, <<1, 2>>, <<1, 4>>, <<1, 4, 0>>, <<1, 4, 1>>, <<1, 4, 2>>,
              <<1, 4, 2, 5>>, <<1, 4, 3>>, <<1, 4, 3, 0>>, <<1, 5>>, <<2>>}
MCMin == <<1, 4>>
MCMax == <<1, 4, 3>>
MCCrashVer == <<3, 2, 3>>

ASSUME ClientsAssumption == Sb!SubscriptionsAssumption /\ Hs!HandshakeAssumption /\ EstimateFeeAssumption

-----------------------------------------------------------------------------
ClientsInit ==
    /\ part \in Parts
    /\ Sb!Init
    /\ Hs!Init /\ (part # "handshake" => class = CHOOSE c \in Class : TRUE)
    /\ Init /\ (part # "fees" => tip = "A")

ClientsNext ==
    /\ UNCHANGED part
    /\ \/ part = "subscriptions" /\ Sb!Next /\ UNCHANGED <<handshake, vars>>
       \/ part = "handshake" /\ Hs!Next /\ UNCHANGED <<subscriptions, vars>>
       \/ part = "fees" /\ Next /\ UNCHANGED <<subscriptions, handshake>>

Clients == ClientsInit /\ [][ClientsNext]_<<part, subscriptions, handshake, vars>>

-----------------------------------------------------------------------------
(* EstimatesShared is that of EstimateFee.                                  *)

\* _notify_sessions, hashX_subscribe: once all notifications are delivered, a
\* client and the caches it is served from agree with the chain.
ClientsUpToDate == Sb!ClientsUpToDate

\* server_version: a session that goes on speaks the highest version that both
\* sides accept, settled once, without losing a method.
VersionNegotiated == Hs!VersionNegotiated
=============================================================================
