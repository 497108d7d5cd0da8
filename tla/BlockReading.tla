---------------------------- MODULE BlockReading ----------------------------
(***************************************************************************)
(* How a raw block (Coin.block, lib/coins.py) or a raw mempool transaction *)
(* (MemPool._fetch_and_accept) is read: the header, the count, and one     *)
(* transaction after another, each reader leaving the cursor where the     *)
(* next begins.  The sender writes with the serializers of the repository  *)
(* where it has one (Tx.serialize, DashTx.serialize, CTransaction) and     *)
(* with the node's format as the reader of that coin assumes it elsewhere. *)
(***************************************************************************)
EXTENDS SpecialTx, ZcashTx

CONSTANTS Kinds,                \* the transaction formats that take part
          Samples(_),           \* the transactions of a format
          Headers(_)            \* the headers of a format

VARIABLES kind, hdr, txs, mode, binary, pos, seen, due, left, phase

vars == <<kind, hdr, txs, mode, binary, pos, seen, due, left, phase>>

-----------------------------------------------------------------------------
(* What the node sends.                                                     *)

TxInput(i) == Field(32, i[1]) \o Field(4, i[2]) \o pack_varbytes(i[3]) \o Field(4, i[4])
TxOutput(o) == Field(8, o[1]) \o pack_varbytes(o[2])
TxInputDcr(i) == Field(32, i[1]) \o Field(4, i[2]) \o Field(1, i[3]) \o Field(4, i[4])
TxOutputDcr(o) == Field(8, o[1]) \o Field(2, o[2]) \o pack_varbytes(o[3])

\* A transaction without its witness; before and after are the fields of its coin.
Tx(t) == Field(4, t.version) \o Concat(Each(t.before, LAMBDA f : Field(f.w, f.v)))
         \o Vector(Each(t.ins, TxInput)) \o Vector(Each(t.outs, TxOutput))
         \o Field(4, t.locktime) \o Concat(Each(t.after, LAMBDA f : f))

\* With one: a marker, a flag, and the witness before the lock time.
TxSegWit(t) ==
    Field(4, t.version) \o Concat(Each(t.before, LAMBDA f : Field(f.w, f.v)))
    \o Field(1, 0) \o Field(1, t.flag)
    \o Vector(Each(t.ins, TxInput)) \o Vector(Each(t.outs, TxOutput))
    \o Concat(Each(t.witness, LAMBDA stack : Vector(Each(stack, pack_varbytes))))
    \o (IF t.flag \div 8 = 1 THEN Field(1, t.mweb) ELSE <<>>)
    \o Field(4, t.locktime) \o Concat(Each(t.after, LAMBDA f : f))

TxDcr(t) == Field(4, t.version) \o Vector(Each(t.ins, TxInputDcr)) \o Vector(Each(t.outs, TxOutputDcr))
            \o Field(4, t.locktime) \o Field(4, t.expiry)

WitnessDcrs(t) == Vector(Each(t.witness, LAMBDA w : Field(8, w[1]) \o Field(4, w[2]) \o Field(4, w[3])
                                                  \o pack_varbytes(w[4])))

\* DashTx.serialize: version and type share four bytes.
DashTx(coin, t) ==
    LET extra == IF t.type \in SPEC_TX_HANDLERS(coin)
                 THEN Serialize(WriteLayout(coin, t.type, t.extra["version"], t.extra["type"]), t.extra)
                 ELSE Field(t.extra.w, t.extra.v)
    IN Field(4, t.version + 65536 * t.type)
       \o Vector(Each(t.ins, TxInput)) \o Vector(Each(t.outs, TxOutput)) \o Field(4, t.locktime)
       \o (IF t.type # 0 THEN pack_varint(Size(extra)) \o extra ELSE <<>>)

Wire(k, t) == CASE k = "zcash"          -> CTransaction(t)
                [] k \in {"dash", "axe"} -> DashTx(k, t)
                [] k = "decred"          -> TxDcr(t) \o WitnessDcrs(t)
                [] OTHER -> IF t.flag = 0 THEN Tx(t) ELSE TxSegWit(t)

\* A header: its first bytes, and what some coins put behind them.
Basic(h) == Field(4, h.version) \o Field(h.size - 4, h.id)
AuxPow(k, h) == Wire(k, h.parent) \o Field(32, h.id)
                \o pack_varint(h.branch) \o Concat([n \in 1 .. h.branch |-> Field(32, n)]) \o Field(4, 0)
                \o pack_varint(h.chain) \o Concat([n \in 1 .. h.chain |-> Field(32, n)]) \o Field(4, 0)
                \o Field(80, h.id)
Header(k, h) == CASE h.form = "static"   -> Basic(h)
                  [] h.form = "auxpow"   -> Basic(h) \o (IF h.merged THEN AuxPow(k, h) ELSE <<>>)
                  [] h.form = "solution" -> Basic(h) \o pack_varbytes(h.solution)
                  [] h.form = "xaya"     -> Basic(h) \o Field(1, h.algo) \o Field(4, 0)
                                            \o (IF h.merged THEN AuxPow(k, h) ELSE Basic(h))
                  [] h.form = "atom"     -> Basic(h) \o (IF h.forked THEN Field(4, 0) ELSE <<>>)
                  [] h.form = "mtp"      -> Basic(h) \o (IF h.mtp THEN Field(100, 0) ELSE <<>>)

\* Decred's blocks have a second list, of stake transactions.
Lists(k) == IF k = "decred" THEN 2 ELSE 1
RawTxs(k, ts) == LET raw == Each(ts, LAMBDA t : Wire(k, t))
                 IN IF Lists(k) = 2 THEN Vector(Front(raw)) \o Vector(<<Last(raw)>>) ELSE Vector(raw)

\* genesis_block: the header and a count of 0.
genesis_block(k, h) == Header(k, h) \o pack_varint(0)

\* A block of Litecoin holds no transaction with MWEB data, nor one without inputs.
MwOnly(k, t) == k = "litecoin" /\ (t.mweb # 0 \/ t.ins = <<>>)

-----------------------------------------------------------------------------
(* Coin.block.                                                              *)

\* static_header_len, is_mtp, is_merged_block and the read_header of each coin.
block_header(k, h, b) ==
    CASE h.form = "static"   -> Read(At(b, 1), <<Skip(h.size)>>)
      [] h.form = "auxpow"   -> read_header_auxpow(k, b, h.size)
      [] h.form = "solution" -> read_header_solution(b, h.size)
      [] h.form = "xaya"     -> read_header_xaya(k, b, h.size)
      [] h.form = "atom"     -> read_header_atom(b, h.size, h.forked)
      [] h.form = "mtp"      -> Read(At(b, 1), <<Skip(IF (b[1].v \div 4096) % 2 = 1 THEN h.size + 100 ELSE h.size)>>)

Init ==
    /\ kind \in Kinds
    /\ mode \in {"genesis", "block", "mempool"}
    /\ hdr \in Headers(kind)
    /\ \/ mode = "genesis" /\ txs = <<>> /\ binary = genesis_block(kind, hdr)
       \/ /\ mode = "block"
          /\ txs \in { <<t, u>> : t \in Samples(kind), u \in Samples(kind) }
          /\ \A n \in DOMAIN txs : ~MwOnly(kind, txs[n])
          /\ binary = Header(kind, hdr) \o RawTxs(kind, txs)
       \/ /\ mode = "mempool" /\ hdr = CHOOSE h \in Headers(kind) : TRUE
          /\ txs \in { <<t>> : t \in Samples(kind) } /\ binary = Wire(kind, txs[1])
    /\ pos = 1 /\ seen = <<>> /\ due = 0 /\ left = 1
    /\ phase = IF mode = "mempool" THEN "tx" ELSE "header"

\* Decred.block and FairCoin.block do not read the transactions of block 0.
NoTxs == mode = "genesis" /\ kind = "decred"

ReadHeader ==
    /\ phase = "header"
    /\ \E r \in {block_header(kind, hdr, binary)} :
          pos' = r.pos /\ phase' = IF ~r.ok THEN "lost" ELSE IF NoTxs THEN "done" ELSE "count"
    /\ due' = Lists(kind)
    /\ UNCHANGED <<kind, hdr, txs, mode, binary, seen, left>>

\* What follows with that many transactions and lists left.
Following(txs_left, lists_left) ==
    IF txs_left > 0 THEN "tx" ELSE IF lists_left > 0 THEN "count" ELSE "done"

\* Once for each list of transactions.
ReadCount ==
    /\ phase = "count"
    /\ LET r == read_varint(At(binary, pos))
       IN IF ~r.ok THEN phase' = "lost" /\ UNCHANGED <<pos, due, left>>
          ELSE /\ pos' = r.pos /\ due' = due - 1 /\ left' = r.v[1]
               /\ phase' = Following(left', due')
    /\ UNCHANGED <<kind, hdr, txs, mode, binary, seen>>

ReadTransaction ==
    LET n == Len(seen) + 1
    IN CASE kind = "zcash"          -> read_tx_zcash(binary, pos, txs[n])
         [] kind \in {"dash", "axe"} -> read_tx_special(kind, binary, pos)
         [] kind = "decred"          -> read_tx_decred(binary, pos)
         [] kind = "pivx"            -> read_tx_pivx(binary, pos)
         [] kind = "segwit"          -> read_tx_segwit(kind, binary, pos)
         [] kind = "litecoin"        -> read_tx_litecoin(binary, pos)
         [] kind = "timesegwit"      -> read_tx_time_segwit(binary, pos)
         [] kind = "navcoin"         -> read_tx_navcoin(binary, pos)
         [] kind = "diamondsegwit"   -> read_tx_diamond_segwit(binary, pos)
         [] OTHER                    -> read_tx(kind, binary, pos)

ReadTx ==
    /\ phase = "tx"
    /\ \E r \in {ReadTransaction} :
          IF ~r.ok THEN phase' = "lost" /\ UNCHANGED <<pos, seen, left>>
          ELSE /\ pos' = r.pos /\ seen' = Append(seen, r) /\ left' = left - 1
               /\ phase' = Following(left', due)
    /\ UNCHANGED <<kind, hdr, txs, mode, binary, due>>

Finished == phase \in {"done", "lost"} /\ UNCHANGED vars

Next == ReadHeader \/ ReadCount \/ ReadTx \/ Finished

Spec == Init /\ [][Next]_vars

-----------------------------------------------------------------------------
(* Properties.                                                              *)

Read_ == DOMAIN seen

\* SkipTxDeserialize: a Litecoin transaction of the mempool with MWEB data, or without
\* any regular input or output.
MayBeSkipped == mode = "mempool" /\ MwOnly(kind, txs[1])

\* Every block the node sends is read to its end, whatever its header, and so is every
\* mempool transaction that is not one to skip: no reader loses its place
\* (Coin.block, read_tx_block, the assertions of _read_nbytes and read_tx).
ReadToTheEnd ==
    /\ phase = "lost" => MayBeSkipped
    /\ phase = "done" => Len(seen) = Len(txs) /\ (mode # "genesis" => pos = Len(binary) + 1)

\* The transactions are read in order, each with the outputs and the lock time it has,
\* and what the indexer takes for spent (is_generation) is what it does spend.
Outputs(t) == IF kind = "zcash" THEN Each(t.vout, LAMBDA o : <<o.value, o.script>>) ELSE t.outs
Spent(t) == IF kind = "zcash" THEN { <<i.hash, i.n>> : i \in ToSet(t.vin) }
            ELSE { <<i[1], i[2]>> : i \in ToSet(t.ins) \ t.minted }
PartsKept ==
    \A n \in Read_ :
        /\ seen[n].outputs = Outputs(txs[n]) /\ seen[n].locktime = txs[n].locktime
        /\ { <<i[1], i[2]>> : i \in { j \in ToSet(seen[n].inputs) : Spends(kind, j) } } = Spent(txs[n])

\* The transaction id does not depend on the witness: it is the hash of the
\* transaction as a node without segregated witness would send it.
TxidOfStripped ==
    \A n \in Read_ : kind \notin {"zcash", "dash", "axe", "decred"} => seen[n].txid = Tx(txs[n])

\* Decred: the id hashes the serialization under the version that says there is no witness.
TxidOfPrefix ==
    kind = "decred" => \A n \in Read_ : seen[n].txid = Field(4, 65536 + txs[n].version) \o Tail(TxDcr(txs[n]))

\* The special payload comes back as it was: every field under its own name.
PayloadKept ==
    \A n \in Read_ : kind \in {"dash", "axe"} /\ txs[n].type \in SPEC_TX_HANDLERS(kind) =>
        \A m \in DOMAIN seen[n].extra : txs[n].extra[seen[n].extra[m][1]] = seen[n].extra[m][2]

\* What was read is what was written: inputs, outputs, lock time and payload.
ContentKept == PartsKept /\ PayloadKept

\* Ids do not depend on the witness (read_tx_and_hash of each reader).
TxidRight == TxidOfStripped /\ TxidOfPrefix

\* Zcash: what a transaction does, without what only authorizes it.
Effects(t) == [t EXCEPT !.vin = Each(@, LAMBDA i : [i EXCEPT !.script = 0]),
                        !.spends = Each(@, LAMBDA s : [s EXCEPT !.zkproof = 0, !.sig = 0]),
                        !.outputs = Each(@, LAMBDA o : [o EXCEPT !.zkproof = 0]),
                        !.actions = Each(@, LAMBDA a : [a EXCEPT !.sig = 0]),
                        !.proofs = 0, !.binding = 0, !.obinding = 0]

\* From version 5 two transactions have one id exactly when they do the same: the id
\* can not be changed by changing signatures or proofs, and nothing else escapes it.
TxidCommits ==
    kind = "zcash" /\ Len(seen) = 2 /\ isNu5V5(txs[1]) /\ isNu5V5(txs[2]) =>
        (seen[1].txid = seen[2].txid <=> Effects(txs[1]) = Effects(txs[2]))

\* Together with the authorizing digest the id covers the whole transaction.
DigestsCommit ==
    kind = "zcash" /\ Len(seen) = 2 /\ isNu5V5(txs[1]) /\ isNu5V5(txs[2])
    /\ seen[1].txid = seen[2].txid /\ auth_digest(txs[1]) = auth_digest(txs[2]) => txs[1] = txs[2]

\* The two digests of version 5 commit to the effects and to the whole (zip244.py).
DigestsRight == TxidCommits /\ DigestsCommit

\* The witness id hashes the transaction with its witness, as
\* https://bitcoincore.org/en/segwit_wallet_dev/#transaction-serialization says.
\* This does not hold (README, section 4).
WtxidOfWhole == kind = "segwit" => \A n \in Read_ : seen[n].wtxid = Wire(kind, txs[n])

\* The vsize of a mempool transaction is its weight in units of four, rounded up: three
\* times the size without witness and once the whole size.  This does not hold (README,
\* section 4).
VsizeOfWeight ==
    kind = "segwit" /\ mode = "mempool" /\ phase = "done" =>
        seen[1].vsize = (3 * Size(Tx(txs[1])) + Size(binary) + 3) \div 4
=============================================================================
