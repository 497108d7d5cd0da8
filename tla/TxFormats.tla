----------------------------- MODULE TxFormats -----------------------------
(***************************************************************************)
(* The transaction readers of lib/tx.py.  They differ in the fields around *)
(* the inputs and outputs, in how a witness is announced, and in which     *)
(* bytes the transaction id covers.  A hash is the bytes hashed.           *)
(***************************************************************************)
EXTENDS Wire

TxIn == <<Fixed(32), Fixed(4), VarBytes, Fixed(4)>>
TxOut == <<Fixed(8), VarBytes>>

TxInDcr == <<Fixed(32), Fixed(4), Fixed(1), Fixed(4)>>
TxOutDcr == <<Fixed(8), Fixed(2), VarBytes>>

ZERO == 0
MINUS_1 == 2 ^ 20                              \* stands for 0xffffffff
is_generation(i) == i[2] = MINUS_1 /\ i[1] = ZERO

-----------------------------------------------------------------------------
(* Fields between the version and the inputs, and after the lock time.      *)

Around(head, tail) == [head |-> head, tail |-> tail]
When(c, schema) == IF c THEN schema ELSE <<>>

TxPlain(v)          == Around(<<>>, <<>>)
TxTime(v)           == Around(<<Fixed(4)>>, <<>>)
TxVerge(v)          == Around(<<Fixed(4)>>, <<>>)
TxTrezarcoin(v)     == Around(<<Fixed(4)>>, When(v >= 2, <<VarBytes>>))
TxNavCoin(v)        == Around(<<Fixed(4)>>, When(v >= 2, <<VarBytes>>))
TxBlackcoin(v)      == Around(When(v < 2, <<Fixed(4)>>), <<>>)
TxElectra(v)        == Around(When(v # 7, <<Fixed(4)>>), <<>>)
TxSimplicity(v)     == Around(When(v < 3, <<Fixed(4)>>), <<>>)
TxReddcoin(v)       == Around(<<>>, When(v > 1, <<Fixed(4)>>))
TxECCoin(v)         == Around(<<Fixed(4)>>, When(v > 1, <<Skip(32)>>))
TxBitcoinDiamond(v) == Around(When(v = 12, <<Fixed(32)>>), <<>>)

Format(kind, v) ==
    CASE kind \in {"plain", "segwit", "litecoin", "zcoin"} -> TxPlain(v)
      [] kind \in {"time", "timesegwit", "tokenpay"} -> TxTime(v)
      [] kind = "verge"      -> TxVerge(v)
      [] kind = "trezarcoin" -> TxTrezarcoin(v)
      [] kind = "navcoin"    -> TxNavCoin(v)
      [] kind = "blackcoin"  -> TxBlackcoin(v)
      [] kind = "electra"    -> TxElectra(v)
      [] kind = "simplicity" -> TxSimplicity(v)
      [] kind = "reddcoin"   -> TxReddcoin(v)
      [] kind = "eccoin"     -> TxECCoin(v)
      [] kind \in {"diamond", "diamondsegwit"} -> TxBitcoinDiamond(v)

SegWitKinds == {"segwit", "litecoin", "timesegwit", "navcoin", "diamondsegwit"}

-----------------------------------------------------------------------------
(* A read transaction: its parts, the bytes of its two hashes, its vsize.   *)

Result(r, version, ins, outs, locktime, hashed, whashed, vsize) ==
    [ok |-> r.ok, pos |-> r.pos, version |-> version, inputs |-> ins, outputs |-> outs,
     locktime |-> locktime, txid |-> hashed, wtxid |-> whashed, vsize |-> vsize, extra |-> <<>>]

Failed(r) == Result(Lost(r), 0, <<>>, <<>>, 0, <<>>, <<>>, 0)

\* _read_inputs of the coins that rewrite an input: a Sigma spend of Zcoin mimics a
\* generation input; an anonymous input of TokenPay is one.
SIGMA == 196
ANON == 185
AnonInput(i) == i[3].w >= 99 /\ i[3].v = ANON

\* Mutant of Inputs: a Sigma spend is kept as it is.
InputsNoSigma(kind, ins) == ins

Inputs(kind, ins) ==
    [n \in DOMAIN ins |->
        IF kind = "zcoin" /\ ~is_generation(ins[n]) /\ ins[n][3].v = SIGMA
        THEN <<ZERO, MINUS_1, ins[n][3], ins[n][4]>> ELSE ins[n]]

\* script[0] of an empty script raises an IndexError.
Indexable(kind, ins) ==
    kind = "zcoin" => \A n \in DOMAIN ins : is_generation(ins[n]) \/ ins[n][3].w > 0

Spends(kind, i) == ~(is_generation(i) \/ (kind = "tokenpay" /\ AnonInput(i)))

read_tx(kind, b, start) ==
    LET r0 == Read(At(b, start), <<Fixed(4)>>)
        version == r0.v[1]
        f == Format(kind, version)
        r == Read(r0, f.head \o <<Vec(TxIn), Vec(TxOut), Fixed(4)>> \o f.tail)
        n == Len(f.head)
    IN IF ~r0.ok \/ ~r.ok \/ ~Indexable(kind, r.v[n + 2]) THEN Failed(r0)
       ELSE Result(r, version, Inputs(kind, r.v[n + 2]), r.v[n + 3], r.v[n + 4],
                   Span(r, start), Span(r, start), Size(b))

Witness == <<Vec(<<VarBytes>>)>>

\* The byte at the marker's place; the first byte of a count is 0 only for 0.
Peeked(b, r) == IF More(r) THEN Next1(r).v ELSE 1

\* Mutant of Stripped: the whole transaction is hashed.
StrippedNot(b, start, versioned, body, bodied, tail, r) == Span(r, start)

\* The bytes of the transaction id: version, inputs and outputs, and what follows
\* the witness.
Stripped(b, start, versioned, body, bodied, tail, r) ==
    SubSeq(b, start, versioned.pos - 1) \o SubSeq(b, body, bodied.pos - 1) \o Span(r, tail)

\* Litecoin: the flag says whether there is a witness and an MWEB part.
HasWitness(kind, flag) == kind # "litecoin" \/ flag % 2 = 1
HasMweb(kind, flag) == kind = "litecoin" /\ (flag \div 8) % 2 = 1
Skipped(kind, flag) == kind = "litecoin" /\ flag = 0

read_tx_segwit(kind, b, start) ==
    LET r0 == Read(At(b, start), <<Fixed(4)>>)
        version == r0.v[1]
        f == Format(kind, version)
        marked == Read(r0, f.head \o <<Fixed(1), Fixed(1)>>)
        flag == Last(marked.v)
        versioned == Read(r0, f.head)
        bodied == Read([marked EXCEPT !.v = <<>>], <<Vec(TxIn), Vec(TxOut)>>)
        witnessed == Read(bodied, When(HasWitness(kind, flag), <<Times(Len(bodied.v[1]), Witness)>>))
        mweb == Read(witnessed, When(HasMweb(kind, flag), <<Fixed(1)>>))
        tailed == Read([mweb EXCEPT !.v = <<>>], <<Fixed(4)>> \o f.tail)
    IN IF ~r0.ok THEN Failed(r0)
       ELSE IF Peeked(b, versioned) # 0 THEN read_tx(kind, b, start)
       ELSE IF ~marked.ok \/ Skipped(kind, flag) \/ ~bodied.ok \/ ~mweb.ok THEN Failed(r0)
       ELSE IF HasMweb(kind, flag) /\ Last(mweb.v) # 0 THEN Failed(r0)
       ELSE IF ~tailed.ok THEN Failed(r0)
       ELSE Result(tailed, version, bodied.v[1], bodied.v[2], tailed.v[1],
                   Stripped(b, start, versioned, marked.pos, bodied, mweb.pos, tailed),
                   Span(tailed, mweb.pos),
                   (3 * Size(SubSeq(b, marked.pos, bodied.pos - 1)) + Size(b)) \div 4)

\* The classes that have a _read_tx_parts of their own, with the fields of their coin.
read_tx_litecoin(b, start) == read_tx_segwit("litecoin", b, start)
read_tx_time_segwit(b, start) == read_tx_segwit("timesegwit", b, start)
read_tx_navcoin(b, start) == read_tx_segwit("navcoin", b, start)
read_tx_diamond_segwit(b, start) == read_tx_segwit("diamondsegwit", b, start)

-----------------------------------------------------------------------------
(* Decred: the witness follows, and the id hashes the prefix under a header *)
(* that says there is none.                                                 *)

WitnessDcr == <<Fixed(8), Fixed(4), Fixed(4), VarBytes>>

NoWitnessHeader(version) == Field(4, 65536 + (version % 65536))

read_tx_decred(b, start) ==
    LET prefix == Read(At(b, start), <<Fixed(4), Vec(TxInDcr), Vec(TxOutDcr), Fixed(4), Fixed(4)>>)
        r == Read(prefix, <<Vec(WitnessDcr)>>)
        hashed == NoWitnessHeader(prefix.v[1]) \o SubSeq(b, start + 1, prefix.pos - 1)
    IN IF ~r.ok \/ Len(r.v[6]) # Len(r.v[2]) THEN Failed(prefix)
       ELSE Result(r, r.v[1], r.v[2], r.v[3], r.v[4], hashed, hashed, Size(Span(r, start)))

(* PIVX: version and type share the first field; a Sapling part follows.    *)

\* A type with a version below 3 is a large version.
TypedVersion(header) ==
    LET type == header \div 65536
        low == IF type # 0 THEN header % 65536 ELSE header
    IN IF type # 0 /\ low < 3 THEN [version |-> header, type |-> 0]
       ELSE [version |-> low, type |-> type]

PivxSapling(r, type) ==
    LET spends == Read(r, <<VarInt, Skip(8), VarInt>>)
        outputs == Read(SkipCounted(spends, 384), <<VarInt>>)
    IN Read(SkipCounted(outputs, 948), <<Skip(64)>> \o When(type > 0, <<Skip(2)>>))

read_tx_pivx(b, start) ==
    LET r == Read(At(b, start), <<Fixed(4), Vec(TxIn), Vec(TxOut), Fixed(4)>>)
        h == TypedVersion(r.v[1])
        end == IF h.version >= 3 THEN PivxSapling(r, h.type) ELSE r
    IN IF ~r.ok \/ ~end.ok THEN Failed(r)
       ELSE Result(end, h.version, r.v[2], r.v[3], r.v[4], Span(end, start), Span(end, start), Size(b))

-----------------------------------------------------------------------------
(* Block headers whose length is found by reading.                          *)

\* The coinbase of the parent chain, for its length only.
SkipTx(kind, r) == IF kind \in SegWitKinds THEN read_tx_segwit(kind, r.b, r.pos)
                   ELSE read_tx(kind, r.b, r.pos)
Behind(tx, r) == [r EXCEPT !.pos = tx.pos, !.ok = tx.ok]

\* A merkle branch of the length just read, and its index.
Branch(r) == Read(SkipCounted(r, 32), <<Skip(4)>>)

\* Mutant of read_auxpow: one merkle branch only.
read_auxpow_short(kind, r) ==
    Read(Branch(Read(Behind(SkipTx(kind, r), r), <<Skip(32), VarInt>>)), <<Skip(4), Skip(80)>>)

\* The parent chain's coinbase, two merkle branches and the parent header.
read_auxpow(kind, r) ==
    LET first == Branch(Read(Behind(SkipTx(kind, r), r), <<Skip(32), VarInt>>))
    IN Read(Branch(Read(first, <<VarInt>>)), <<Skip(80)>>)

VERSION_AUXPOW(version) == (version \div 256) % 2 = 1
MM_FLAG(algo) == (algo \div 128) % 2 = 1

read_header_auxpow(kind, b, size) ==
    LET r == Read(At(b, 1), <<Skip(size)>>)
    IN IF VERSION_AUXPOW(b[1].v) THEN read_auxpow(kind, r) ELSE r

read_header_solution(b, size) ==
    LET r == Read(At(b, 1), <<Skip(size), VarInt>>)
    IN IF r.ok THEN Read(r, <<Skip(Last(r.v))>>) ELSE r

read_header_xaya(kind, b, size) ==
    LET r == Read(At(b, 1), <<Skip(size), Fixed(1), Fixed(4)>>)
    IN IF ~r.ok THEN r
       ELSE IF MM_FLAG(r.v[1]) THEN read_auxpow(kind, r) ELSE Read(r, <<Skip(size)>>)

read_header_atom(b, size, forked) == Read(At(b, 1), <<Skip(size)>> \o When(forked, <<Skip(4)>>))
=============================================================================
