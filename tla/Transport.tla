------------------------------ MODULE Transport ------------------------------
(***************************************************************************)
(* PaddedRSTransport (server/transport.py): messages wait in a buffer until *)
(* there are enough of them or a second has passed, and leave as packets    *)
(* padded to a power of two.                                                *)
(*                                                                          *)
(* A message is its size; the buffer, the bytes of messages written and not *)
(* sent, is a sequence of messages, each of which ends with a newline.      *)
(* _force_send is never set.  Pausing, resuming and closing are those of    *)
(* the asyncio transport.                                                   *)
(***************************************************************************)
EXTENDS Integers, Sequences

CONSTANTS
    MIN_PACKET_SIZE,
    Sizes,         \* sizes of framed messages
    MaxMessages    \* bound: messages written

TransportAssumption ==
    MIN_PACKET_SIZE \in Nat \ {0} /\ Sizes \subseteq Nat \ {0} /\ MaxMessages \in Nat

VARIABLES
    written, wire,  \* messages accepted by write, messages handed to the socket
    sbuffer,        \* _sbuffer
    packet,         \* the last packet: [size, payload]
    has_data_evt,   \* _sbuffer_has_data_evt
    due,            \* has a second passed since _last_send
    can_send, closing,
    poll            \* where _poll_sbuffer is

socket == <<can_send, closing>>
vars == <<written, wire, sbuffer, packet, has_data_evt, due, can_send, closing, poll>>

Init ==
    /\ written = <<>> /\ wire = <<>> /\ sbuffer = <<>> /\ packet = [size |-> 0, payload |-> 0]
    /\ has_data_evt = FALSE /\ due = FALSE /\ can_send = TRUE /\ closing = FALSE
    /\ poll = "can_send"       \* connection_made

-----------------------------------------------------------------------------
Size(buf) ==
    LET UpTo[n \in 0 .. Len(buf)] == IF n = 0 THEN 0 ELSE UpTo[n - 1] + buf[n]
    IN  UpTo[Len(buf)]
Higher(m, n) == IF m > n THEN m ELSE n
bit_length[n \in Nat] == IF n = 0 THEN 0 ELSE 1 + bit_length[n \div 2]

\* For a payload of n bytes: the next power of two, and its half.
total_lsize[n \in Nat] == Higher(MIN_PACKET_SIZE, 2^bit_length[n])
total_ssize[n \in Nat] == Higher(MIN_PACKET_SIZE, total_lsize[n] \div 2)

\* The messages that end within a packet of that size (rfind of a newline), 0 if none does.
Fitting(buf, size) ==
    LET ends == {k \in 1 .. Len(buf) : Size(SubSeq(buf, 1, k)) <= size}
    IN  IF ends = {} THEN 0 ELSE CHOOSE k \in ends : \A n \in ends : n <= k

\* Either all messages, or those that fit if that wastes less.
Packet(buf) ==
    LET payload == Size(buf)
        k == Fitting(buf, total_ssize[payload])
        fits == Size(SubSeq(buf, 1, k))
    IN  IF k = 0 \/ total_lsize[payload] - payload <= total_ssize[payload] - fits
        THEN [count |-> Len(buf), size |-> total_lsize[payload], payload |-> payload]
        ELSE [count |-> k, size |-> total_ssize[payload], payload |-> fits]

Left(buf, count) == SubSeq(buf, count + 1, Len(buf))

\* Mutant of ClearsEvent: cleared by every packet.
ClearsAlways(left) == TRUE

ClearsEvent(left) == left = <<>>

\* _maybe_consume_sbuffer, on the buffer and the event as the caller leaves them.
MaybeConsume(buf, evt) ==
    IF can_send /\ ~closing /\ buf # <<>> /\ (Size(buf) >= MIN_PACKET_SIZE \/ due)
    THEN \E p \in {Packet(buf)} :
             /\ packet' = [size |-> p.size, payload |-> p.payload]
             /\ wire' = wire \o SubSeq(buf, 1, p.count)
             /\ sbuffer' = Left(buf, p.count)
             /\ due' = FALSE
             /\ has_data_evt' = (evt /\ ~ClearsEvent(Left(buf, p.count)))
    ELSE sbuffer' = buf /\ has_data_evt' = evt /\ UNCHANGED <<packet, wire, due>>

\* A write waits until it can send, which may be over again when it runs (waiters
\* of an event that was set run though it was cleared); nothing is kept for a
\* closing connection.
Write(m) ==
    /\ Len(written) < MaxMessages /\ ~closing
    /\ written' = Append(written, m)
    /\ MaybeConsume(Append(sbuffer, m), TRUE)
    /\ poll' = IF poll = "has_data" THEN "woken" ELSE poll
    /\ UNCHANGED socket

-----------------------------------------------------------------------------
(* _poll_sbuffer.  A wait for an event that is set goes on at once.         *)

PollEnds ==
    /\ poll \in {"can_send", "sleep"} /\ closing /\ poll' = "done"
    /\ UNCHANGED <<written, wire, sbuffer, packet, has_data_evt, due, socket>>

PollCanSend ==
    /\ poll = "can_send" /\ ~closing /\ can_send
    /\ poll' = "has_data"
    /\ UNCHANGED <<written, wire, sbuffer, packet, has_data_evt, due, socket>>

PollHasData ==
    /\ poll = "woken" \/ (poll = "has_data" /\ has_data_evt)
    /\ MaybeConsume(sbuffer, has_data_evt)
    /\ poll' = IF sbuffer' # <<>> THEN "sleep" ELSE "can_send"
    /\ UNCHANGED <<written, socket>>

\* The sleep was chosen by an earlier _last_send: it may end before the second.
PollWakes ==
    /\ poll = "sleep" /\ ~closing /\ poll' = "can_send"
    /\ UNCHANGED <<written, wire, sbuffer, packet, has_data_evt, due, socket>>

Poll == PollEnds \/ PollCanSend \/ PollHasData \/ PollWakes

SecondPasses ==
    /\ ~due /\ due' = TRUE
    /\ UNCHANGED <<written, wire, sbuffer, packet, has_data_evt, socket, poll>>

\* pause_writing and resume_writing.
PauseWriting ==
    /\ can_send /\ ~closing /\ can_send' = FALSE
    /\ UNCHANGED <<written, wire, sbuffer, packet, has_data_evt, due, closing, poll>>

ResumeWriting ==
    /\ ~can_send /\ can_send' = TRUE
    /\ poll' = IF poll = "can_send" /\ ~closing THEN "has_data" ELSE poll
    /\ UNCHANGED <<written, wire, sbuffer, packet, has_data_evt, due, closing>>

Close ==
    /\ ~closing /\ closing' = TRUE
    /\ UNCHANGED <<written, wire, sbuffer, packet, has_data_evt, due, can_send, poll>>

Next == \/ \E m \in Sizes : Write(m)
        \/ Poll \/ SecondPasses \/ PauseWriting \/ ResumeWriting \/ Close

\* The event loop runs the task when it can go on, and time passes.
Spec == Init /\ [][Next]_vars /\ WF_vars(Poll) /\ WF_vars(SecondPasses)

-----------------------------------------------------------------------------
\* Deferring some messages to a later packet neither loses, repeats nor reorders
\* one (_maybe_consume_sbuffer deletes what it sent).
NothingLost == wire \o sbuffer = written

\* "~uniform-size TCP packets": a packet's size is a power of two and at least
\* the smallest, and its messages fit.
PacketsUniform ==
    packet.size # 0 =>
        /\ packet.size >= MIN_PACKET_SIZE /\ \E k \in 0 .. packet.size : 2^k = packet.size
        /\ packet.payload <= packet.size

\* What was written is sent although no more follows, once the socket takes data:
\* no message waits for an event that nobody sets again (_poll_sbuffer).
EverySent ==
    <>[](can_send \/ closing) =>
        \A n \in 1 .. MaxMessages : Len(written) >= n ~> (Len(wire) >= n \/ closing)

\* A connection carries every message, in packets of uniform sizes
\* (_maybe_consume_sbuffer, _poll_sbuffer).
MessagesDelivered == [](NothingLost /\ PacketsUniform) /\ EverySent
=============================================================================
