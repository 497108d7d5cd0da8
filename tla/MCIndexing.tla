----------------------------- MODULE MCIndexing -----------------------------
(***************************************************************************)
(* Ways of building the index other than BlockProcessor's, and the files    *)
(* below it: names, blocks in lexical order, Decred's votes, header files   *)
(* and the upgrade of old databases.  They share no state; `part' says which*)
(* one a behaviour is about, the others stay as they began.                 *)
(***************************************************************************)
EXTENDS Upgrade, SequencesExt, TLC

CONSTANTS
    Parts, A, B, C, null, Hole,
    Tx, MaxBlockTxs,        \* transactions, and how many a block in lexical order has
    MaxHeight, MaxFetch,    \* Decred's chain and batches
    file_size, MaxFiles, BASIC_HEADER_SIZE, ExpandedHeight, ExpandedSize, Sizes, MaxHeaders
                            \* the files of headers, MaxHeaders bounds their height

VARIABLES
    part,
    coin, outs, names,
    ltor_chain, utxos, ltor_undo, ltor_history, touched, failed,
    best, tip, trees, hashes, blocks, fetched,
    STATIC_BLOCK_HEADERS, headers_file, headers_offsets_file, chain, flush, stage

name_scripts == <<coin, outs, names>>
ltor == <<ltor_chain, utxos, ltor_undo, ltor_history, touched, failed>>
decred == <<best, tip, trees, hashes, blocks, fetched>>
headers == <<STATIC_BLOCK_HEADERS, headers_file, headers_offsets_file, chain, flush, stage>>

-----------------------------------------------------------------------------
(* Name outputs at the lengths where a push changes its form.                *)

\* The opcodes and pushes of NameScripts.
Script == INSTANCE NameScripts WITH Coins <- {}, Outputs <- <<>>, MaxOuts <- 0, history <- names

Data(n, b) == [i \in 1 .. n |-> b]

\* A push with the smallest form and with longer ones.
PushAs(form, d) == CASE form = "short" -> Script!push_data(d)
                     [] form = "one" -> <<Script!OP_PUSHDATA1, Len(d)>> \o d
                     [] form = "two" -> <<Script!OP_PUSHDATA2>> \o Script!Bytes(Len(d), 2) \o d
                     [] form = "four" -> <<Script!OP_PUSHDATA4>> \o Script!Bytes(Len(d), 4) \o d

P2PKH == <<118, 169, 1, 9, 136, 172>>
P2PK == <<1, 9, 172>>
Broken == <<3, 9>>     \* a push that runs past the end

Names == {<<>>, <<Script!OP_2DROP>>, Data(75, 1), Data(76, 1)}
Forms(name) == IF Len(name) = 1 THEN {"short", "one", "two", "four"} ELSE {"short"}
Addresses == {P2PKH, P2PK}
Values == {<<>>, <<5>>}

Output(prefix, named, name, address) ==
    [script |-> prefix \o address, named |-> named, name |-> name, address |-> address,
     truncated |-> address = Broken]

Plain == {Output(<<>>, FALSE, <<>>, a) : a \in {P2PKH, P2PK, Broken}}
         \cup {Output(<<Script!OP_1>>, FALSE, <<>>, P2PK), Output(<<Script!OP_RETURN>>, FALSE, <<>>, P2PK)}

Update(op, name, form, v, a) ==
    Output(<<op>> \o PushAs(form, name) \o Script!push_data(v) \o <<Script!OP_2DROP, Script!OP_DROP>>, TRUE, name, a)

\* OP_1 and OP_RETURN in front of a key are no name operation: the script is the address.
Whole(o) == [o EXCEPT !.address = o.script]

Namecoin ==
    {Output(<<Script!OP_1>> \o Script!push_data(v) \o <<Script!OP_2DROP>>, FALSE, <<>>, a) : v \in Values, a \in Addresses}
    \cup {Output(<<Script!OP_2>> \o Script!push_data(name) \o Script!push_data(v) \o Script!push_data(<<6>>) \o <<Script!OP_2DROP, Script!OP_2DROP>>,
                 TRUE, name, P2PKH) : name \in Names, v \in Values}
    \cup UNION {{Update(Script!OP_3, name, f, <<5>>, a) : f \in Forms(name), a \in Addresses \cup {Broken}} : name \in Names}

Xaya == UNION {{Update(op, name, f, v, P2PKH) : op \in {Script!OP_1, Script!OP_2}, f \in Forms(name), v \in Values} : name \in Names}

Drops(n) == [i \in 1 .. n \div 2 |-> Script!OP_2DROP] \o [i \in 1 .. n % 2 |-> Script!OP_DROP]

Emercoin ==
    UNION {{Output(<<op, Script!OP_DROP>> \o PushAs(f, name) \o <<1, 4, Script!OP_2DROP>>
                   \o FlattenSeq([i \in 1 .. n |-> Script!push_data(<<i>>)]) \o Drops(n), TRUE, name, a) :
               op \in {Script!OP_1, Script!OP_2}, f \in Forms(name), n \in 0 .. 3, a \in Addresses \ {P2PK}} : name \in Names}
    \cup {Output(<<Script!OP_3, Script!OP_DROP>> \o Script!push_data(name) \o <<Script!OP_DROP>>, TRUE, name, P2PK) : name \in Names}

MCOutputs == [c \in {"namecoin", "xaya", "emercoin"} |->
                {Whole(o) : o \in Plain}
                \cup CASE c = "namecoin" -> Namecoin [] c = "xaya" -> Xaya [] c = "emercoin" -> Emercoin]

Nms == INSTANCE NameScripts WITH
    Coins <- DOMAIN MCOutputs, Outputs <- MCOutputs, MaxOuts <- 2, history <- names

-----------------------------------------------------------------------------
\* Two generation transactions; t1 and t2 form a chain, t3 joins both ends
\* with a coin of its own and an output that is never saved.
MCTx == ("c1" :> [ins |-> <<>>, outs |-> <<A, B>>]) @@
        ("c2" :> [ins |-> <<>>, outs |-> <<A>>]) @@
        ("t1" :> [ins |-> <<<<"c1", 1>>>>, outs |-> <<C, null, A>>]) @@
        ("t2" :> [ins |-> <<<<"t1", 1>>, <<"c1", 2>>>>, outs |-> <<B>>]) @@
        ("t3" :> [ins |-> <<<<"t2", 1>>, <<"c2", 1>>>>, outs |-> <<null>>])

Ltor == INSTANCE LTOR WITH
    Unspendable <- null,
    chain <- ltor_chain, undo <- ltor_undo, history <- ltor_history

\* Reorganisations that find the server caught up, and any.
Dcr == INSTANCE Decred WITH Races <- FALSE
DcrRaces == INSTANCE Decred WITH MaxHeight <- 4, MaxFetch <- 2, Races <- TRUE

\* A coin whose headers have the sizes that it tells.
Hdr == INSTANCE Headers WITH Undeclared <- {}, MaxHeight <- MaxHeaders

ASSUME IndexingAssumption ==
    /\ Hdr!HeadersAssumption
    /\ Ltor!LTORAssumption /\ Dcr!DecredAssumption /\ DcrRaces!DecredAssumption /\ UpgradeAssumption

-----------------------------------------------------------------------------
IndexingInit ==
    /\ part \in Parts
    /\ Nms!Init /\ (part # "names" => coin = "namecoin")
    /\ Ltor!Init
    /\ Dcr!Init
    /\ Hdr!Init /\ (part # "headers" => ~STATIC_BLOCK_HEADERS)
    /\ Init /\ (part # "upgrade" => u = h /\ \A p \in Prefix : u[p] = "none" /\ hist[p] = 0)

IndexingNext ==
    /\ UNCHANGED part
    /\ \/ part = "names" /\ Nms!Next /\ UNCHANGED <<ltor, decred, headers, vars>>
       \/ part = "ltor" /\ Ltor!Next /\ UNCHANGED <<name_scripts, decred, headers, vars>>
       \/ part = "decred" /\ Dcr!Next /\ UNCHANGED <<name_scripts, ltor, headers, vars>>
       \/ part = "decred races" /\ DcrRaces!Next /\ UNCHANGED <<name_scripts, ltor, headers, vars>>
       \/ part = "headers" /\ Hdr!Next /\ UNCHANGED <<name_scripts, ltor, decred, vars>>
       \/ part = "upgrade" /\ Next /\ UNCHANGED <<name_scripts, ltor, decred, headers>>

indexing == <<part, name_scripts, ltor, decred, headers, vars>>

\* The fairness of each part, see there.
Indexing == /\ IndexingInit /\ [][IndexingNext]_indexing
            /\ WF_decred(part = "decred races" /\ DcrRaces!Work)

-----------------------------------------------------------------------------
(* RowsOnce is that of Upgrade.                                             *)

\* NameIndexBlockProcessor: names and addresses are found in the histories.
HistoriesComplete == Nms!HistoriesComplete

\* LTORBlockProcessor: the index is that of the chain, whatever the order of
\* the transactions of a block, forward and back.
IndexMatchesChain == Ltor!IndexMatchesChain

\* DecredDaemon, DecredBlockProcessor: the regular transactions of a block
\* are indexed exactly if the next block votes for it.
TreesFollowVotes == part = "decred" => Dcr!TreesFollowVotes

\* DecredDaemon, DecredBlockProcessor: the server ends up just below the
\* daemon's tip.
CatchesUp == part = "decred races" => DcrRaces!CatchesUp

\* LogicalFile, flush_fs, read_headers, fs_block_hashes: headers read as they
\* were written, one by one and in ranges, whole and truncated.
HeadersRight == Hdr!HeadersRight
=============================================================================
