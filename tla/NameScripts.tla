---------------------------- MODULE NameScripts ----------------------------
(***************************************************************************)
(* Names and addresses found in output scripts: Script.get_ops and          *)
(* push_data (lib/script.py), NameMixin and NameIndexMixin with the name    *)
(* operations of Namecoin, Xaya and Emercoin (lib/coins.py), and the         *)
(* histories that BlockProcessor and NameIndexBlockProcessor add for the     *)
(* outputs of a chain (server/block_processor.py).                           *)
(*                                                                          *)
(* A script is a sequence of bytes.  A hashX is a truncated SHA-256 of a     *)
(* script and is taken as injective: the script stands for it.               *)
(***************************************************************************)
EXTENDS Integers, Sequences, SequencesExt, FiniteSetsExt

CONSTANTS
    Coins,     \* the coins with name operations that are looked at
    Outputs,   \* Outputs[c]: outputs wallets of coin c make, as records of what they mean
    MaxOuts    \* outputs in the chain

VARIABLES
    coin,      \* env.coin
    outs,      \* the outputs of the chain so far
    history    \* hashX -> the outputs (by position) its history holds, in order

vars == <<coin, outs, history>>

----------------------------------------------------------------------------
(* lib/script.py *)

OP_PUSHDATA1 == 76
OP_PUSHDATA2 == 77
OP_PUSHDATA4 == 78
OP_1 == 81
OP_2 == 82
OP_3 == 83
OP_RETURN == 106
OP_2DROP == 109
OP_DROP == 117

\* The little-endian number in the w bytes of s from position i.
LE(s, i, w) == FoldFunction(+, 0, [k \in 0 .. w - 1 |-> s[i + k] * 256^k])

\* How many bytes after the opcode at position n hold the length of its data.
LengthBytes(op) == CASE op = OP_PUSHDATA1 -> 1 [] op = OP_PUSHDATA2 -> 2
                     [] op = OP_PUSHDATA4 -> 4 [] OTHER -> 0

DataAt(s, n) == n + 1 + LengthBytes(s[n])

DataLen(s, n) == CASE s[n] > OP_PUSHDATA4 -> 0
                   [] s[n] < OP_PUSHDATA1 -> s[n]
                   [] OTHER -> LE(s, n + 1, LengthBytes(s[n]))

\* The reads of the length and of the data stay inside the script.
Complete(s, n) == DataAt(s, n) - 1 <= Len(s) /\ DataAt(s, n) - 1 + DataLen(s, n) <= Len(s)

\* get_ops appends an int for an opcode and an (op, data) tuple for a push.
IsPush(o) == o.push

OpAt(s, n) == [op |-> s[n], push |-> s[n] <= OP_PUSHDATA4,
               data |-> SubSeq(s, DataAt(s, n), DataAt(s, n) + DataLen(s, n) - 1)]

get_ops(s) ==
    LET from[n \in 1 .. Len(s) + 1] ==
            IF n > Len(s) THEN [ok |-> TRUE, ops |-> <<>>]
            ELSE IF ~Complete(s, n) THEN [ok |-> FALSE, ops |-> <<>>]
            ELSE LET rest == from[DataAt(s, n) + DataLen(s, n)]
                 IN  [rest EXCEPT !.ops = <<OpAt(s, n)>> \o @]
    IN  from[1]

Bytes(v, w) == [k \in 1 .. w |-> (v \div 256^(k - 1)) % 256]

push_data(data) ==
    LET n == Len(data)
    IN  CASE n < OP_PUSHDATA1 -> <<n>> \o data
          [] n \in OP_PUSHDATA1 .. 255 -> <<OP_PUSHDATA1, n>> \o data
          [] n \in 256 .. 65535 -> <<OP_PUSHDATA2>> \o Bytes(n, 2) \o data
          [] OTHER -> <<OP_PUSHDATA4>> \o Bytes(n, 4) \o data

----------------------------------------------------------------------------
(* The templates of lib/coins.py: an opcode, -1 for ignored data, -2 for     *)
(* several, and a named placeholder.                                         *)

Code(op) == [t |-> "op", op |-> op]
Skipped == [t |-> "data", op |-> -1]
Multiple == [t |-> "many", op |-> -2]
Named == [t |-> "name", op |-> -1]

NamecoinOps == << <<Code(OP_1), Skipped, Code(OP_2DROP)>>,
                  <<Code(OP_2), Named, Skipped, Skipped, Code(OP_2DROP), Code(OP_2DROP)>>,
                  <<Code(OP_3), Named, Skipped, Code(OP_2DROP), Code(OP_DROP)>> >>

XayaOps == << <<Code(OP_1), Named, Skipped, Code(OP_2DROP), Code(OP_DROP)>>,
              <<Code(OP_2), Named, Skipped, Code(OP_2DROP), Code(OP_DROP)>> >>

\* The placeholder for the days is named too; nothing reads it.
EmercoinOps == << <<Code(OP_1), Code(OP_DROP), Named, Skipped, Code(OP_2DROP), Multiple>>,
                  <<Code(OP_2), Code(OP_DROP), Named, Skipped, Code(OP_2DROP), Multiple>>,
                  <<Code(OP_3), Code(OP_DROP), Named, Code(OP_DROP)>> >>

NAME_OPERATIONS(c) == CASE c = "namecoin" -> NamecoinOps [] c = "xaya" -> XayaOps [] c = "emercoin" -> EmercoinOps

OP_NAME_UPDATE(c) == IF c = "namecoin" THEN OP_3 ELSE OP_2

_match_ops(ops, template) ==
    /\ Len(ops) = Len(template)
    /\ \A i \in DOMAIN ops : \/ template[i].t = "op" /\ ~IsPush(ops[i]) /\ ops[i].op = template[i].op
                             \/ template[i].t # "op" /\ IsPush(ops[i])

_read_data_placeholders_count(opcodes) ==
    CHOOSE n \in 0 .. Len(opcodes) : /\ \A i \in 1 .. n : IsPush(opcodes[i])
                                     /\ n < Len(opcodes) => ~IsPush(opcodes[n + 1])

_add_data_placeholders_to_template(opcodes) ==
    LET num_dp == _read_data_placeholders_count(opcodes)
    IN  [i \in 1 .. num_dp |-> Skipped]
        \o [i \in 1 .. num_dp \div 2 |-> Code(OP_2DROP)]
        \o [i \in 1 .. num_dp % 2 |-> Code(OP_DROP)]

\* The template for these ops: several placeholders become as many as the ops have there.
Template(pops, ops) ==
    FlattenSeq([i \in DOMAIN pops |->
        IF pops[i] = Multiple
        THEN _add_data_placeholders_to_template(SubSeq(ops, i, Len(ops)))
        ELSE <<pops[i]>>])

\* ops[:n]
Front_(ops, n) == SubSeq(ops, 1, IF n < Len(ops) THEN n ELSE Len(ops))

\* Mutant of find_end_position_of_name: the length byte of OP_PUSHDATA1 is counted as data.
EndWithoutLengthByte(s, length) ==
    LET end[i \in 0 .. length] ==
            IF i = 0 THEN 1
            ELSE LET n == end[i - 1]
                 IN  (IF s[n] = OP_PUSHDATA1 THEN n + 1 ELSE DataAt(s, n)) + DataLen(s, n)
    IN  end[length]

\* Where the address script starts.
find_end_position_of_name(s, length) ==
    LET end[i \in 0 .. length] ==
            IF i = 0 THEN 1 ELSE DataAt(s, end[i - 1]) + DataLen(s, end[i - 1])
    IN  end[length]

NoName == [found |-> FALSE, name |-> <<>>]

\* Positions of the named placeholders in the template.
NamedIndex(template) == {i \in DOMAIN template : template[i].t = "name"}

\* The name, if the script has a prefix that holds one, and the address script after it.
interpret_name_prefix(s, possible_ops) ==
    LET parsed == get_ops(s)
        matching == {k \in DOMAIN possible_ops :
            LET template == Template(possible_ops[k], parsed.ops)
            IN  _match_ops(Front_(parsed.ops, Len(template)), template)}
    IN  IF ~parsed.ok \/ matching = {}
        THEN [named |-> NoName, address |-> s]
        ELSE LET template == Template(possible_ops[Min(matching)], parsed.ops)
                 at == NamedIndex(template)
             IN  [named |-> IF at = {} THEN NoName
                            ELSE [found |-> TRUE, name |-> parsed.ops[Min(at)].data],
                  address |-> SubSeq(s, find_end_position_of_name(s, Len(template)), Len(s))]

build_name_index_script(c, name) ==
    <<OP_NAME_UPDATE(c)>> \o push_data(name) \o push_data(<<>>) \o <<OP_2DROP, OP_DROP, OP_RETURN>>

\* Coin.hashX_from_script: the hash of the whole script.
CoinHashX(s) == s

hashX_from_script(c, s) == CoinHashX(interpret_name_prefix(s, NAME_OPERATIONS(c)).address)

HasNameIndex(c) == c \in {"namecoin", "xaya"}

\* The set with the name's hashX, empty for None.
name_hashX_from_script(c, s) ==
    LET named == interpret_name_prefix(s, NAME_OPERATIONS(c)).named
    IN  IF HasNameIndex(c) /\ named.found
        THEN {CoinHashX(build_name_index_script(c, named.name))} ELSE {}

----------------------------------------------------------------------------
(* The history of the chain *)

Of(hashX) == IF hashX \in DOMAIN history THEN history[hashX] ELSE <<>>

is_unspendable(s) == (Len(s) >= 1 /\ s[1] = OP_RETURN) \/ (Len(s) >= 2 /\ s[1] = 0 /\ s[2] = OP_RETURN)

Init == coin \in Coins /\ outs = <<>> /\ history = <<>>

\* advance_txs of a transaction with this output: the address first, then the name.
Advance(out) ==
    /\ Len(outs) < MaxOuts
    /\ outs' = Append(outs, out)
    /\ LET s == out.script
           hashXs == (IF is_unspendable(s) THEN {} ELSE {hashX_from_script(coin, s)})
                     \cup name_hashX_from_script(coin, s)
       IN  history' = [h \in DOMAIN history \cup hashXs |->
                         IF h \in hashXs THEN Append(Of(h), Len(outs) + 1) ELSE Of(h)]
    /\ UNCHANGED coin

Next == \E out \in Outputs[coin] : Advance(out)

Spec == Init /\ [][Next]_vars

----------------------------------------------------------------------------
Positions(Test(_)) == SelectSeq([i \in DOMAIN outs |-> i], LAMBDA i : Test(outs[i]))

\* The hashX under which the server looks a name up (session.py, query).
LookupName(name) == name_hashX_from_script(coin, build_name_index_script(coin, name))

\* interpret_name_prefix and build_name_index_script: whatever the operation and
\* however its pushes are encoded, an output that names something is in the history
\* that a query for the name reads, in order, and no other output is.
NameHistoryComplete ==
    HasNameIndex(coin) =>
        \A name \in {outs[i].name : i \in DOMAIN outs} :
            \E h \in LookupName(name) :
                Of(h) = Positions(LAMBDA o : o.named /\ ~o.truncated /\ o.name = name)

\* hashX_from_script: the outputs of an address are in its history with or without a
\* name prefix; the prefix is cut where it ends, for every way of pushing its data.
AddressHistoryComplete ==
    \A i \in DOMAIN outs :
        ~outs[i].truncated /\ ~is_unspendable(outs[i].script) =>
            Of(CoinHashX(outs[i].address))
              = Positions(LAMBDA o : ~o.truncated /\ ~is_unspendable(o.script) /\ o.address = outs[i].address)

\* Whatever name operation an output carries, the histories of its name and of
\* its address are complete (advance_txs of NameIndexBlockProcessor).
HistoriesComplete == NameHistoryComplete /\ AddressHistoryComplete
=============================================================================
