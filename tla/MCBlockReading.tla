--------------------------- MODULE MCBlockReading ---------------------------
(* Sample transactions and headers: one of each case a reader distinguishes, *)
(* with scripts and witnesses at the lengths where a count changes its width. *)
EXTENDS BlockReading

Coinbase == <<ZERO, MINUS_1, Blob(2, 1), 0>>
Spend(n, w) == <<7, n, Blob(w, 5), 1>>
Sigma == <<7, 1, Blob(30, SIGMA), 1>>
Anon == <<7, 1, Blob(99, ANON), 1>>
ShortAnon == <<7, 2, Blob(98, ANON), 1>>

Plain_(v, before, ins, after) ==
    [version |-> v, before |-> before, ins |-> ins, outs |-> <<<<5, Blob(25, v)>>>>, locktime |-> 3,
     after |-> after, flag |-> 0, witness |-> <<>>, mweb |-> 0,
     minted |-> {Coinbase, Sigma, Anon} \cap ToSet(ins)]

Bodies == { <<Coinbase>>, <<Spend(0, 252)>>, <<Spend(0, 253), Spend(1, 0)>> }

Time == <<[w |-> 4, v |-> 9]>>
Text(w) == pack_varbytes(Blob(w, 2))

\* The fields each coin has at each version.
Before(k, v) == IF \/ k \in {"time", "timesegwit", "tokenpay", "verge", "trezarcoin", "navcoin", "eccoin"}
                   \/ (k = "blackcoin" /\ v < 2) \/ (k = "electra" /\ v # 7) \/ (k = "simplicity" /\ v < 3)
                THEN Time
                ELSE IF k \in {"diamond", "diamondsegwit"} /\ v = 12 THEN <<[w |-> 32, v |-> 4]>> ELSE <<>>
After(k, v) == CASE k \in {"trezarcoin", "navcoin"} /\ v >= 2 -> {<<Text(0)>>, <<Text(253)>>}
                 [] k = "reddcoin" /\ v > 1 -> {<<Field(4, 9)>>}
                 [] k = "eccoin" /\ v > 1 -> {<<Field(32, 9)>>}
                 [] OTHER -> {<<>>}
Versions(k) == CASE k \in {"diamond", "diamondsegwit"} -> {1, 12}
                 [] k = "electra" -> {1, 7}
                 [] k = "simplicity" -> {2, 3}
                 [] OTHER -> {1, 2}

\* Transactions of Sapling, with and without spends and outputs, and a special one.
PivxTail(s, o) == <<Field(1, 1), Field(8, 2), pack_varint(s), Concat([n \in 1 .. s |-> Field(384, n)]),
                    pack_varint(o), Concat([n \in 1 .. o |-> Field(948, n)]), Field(64, 1)>>
Pivx == { Plain_(v, <<>>, <<Spend(0, 20)>>, <<>>) : v \in {1, 2} }
        \cup { Plain_(3, <<>>, <<Spend(0, 20)>>, PivxTail(s, o)) : s \in {0, 2}, o \in {0, 1} }
        \cup { Plain_(3 + 65536, <<>>, <<Spend(0, 20)>>, Append(PivxTail(0, 1), Field(2, 0))) }

WithWitness(t, flag, w, mweb) ==
    [t EXCEPT !.flag = flag, !.mweb = mweb,
              !.witness = IF flag % 2 = 1 THEN [n \in DOMAIN t.ins |-> <<Blob(w, n)>>] ELSE <<>>]

PlainTxs(k) == UNION { { Plain_(v, Before(k, v), ins, a) : ins \in Bodies, a \in After(k, v) } : v \in Versions(k) }

\* A zero flag behind the marker is Litecoin's transaction without inputs and outputs.
Stripped_ == [Plain_(2, <<>>, <<>>, <<>>) EXCEPT !.outs = <<>>]

Dcr(v, n) == [version |-> v, ins |-> [i \in 1 .. n |-> <<7, i, 0, 1>>], outs |-> <<<<5, 0, Blob(25, 1)>>>>,
              locktime |-> 1, expiry |-> 2, minted |-> {},
              witness |-> [i \in 1 .. n |-> <<4, 5, 6, Blob(253 * (2 - n), 1)>>]]

\* Special transactions: every field has a value of its own.
Fields == <<"version", "type", "mode", "hash", "index", "ipAddress", "port", "KeyIdOwner", "PubKeyOperator",
            "KeyIdVoting", "operatorReward", "inputsHash", "platformNodeID", "platformP2PPort",
            "platformHTTPPort", "proTxHash", "reason", "height", "merkleRootMNList", "merkleRootQuorums",
            "bestCLHeightDiff", "bestCLSignature", "assetLockedAmount", "pubKey", "regTxHash",
            "hashPrevSubTx", "creditFee", "newPubKey">>
Texts == <<"scriptPayout", "scriptOperatorPayout", "userName">>
Sigs(type) == IF type \in {1, 3} THEN Blob(96, 1) ELSE 96
Extra(type, v, ntype) ==
    [f \in ToSet(Fields) \cup ToSet(Texts) \cup {"payloadSig"} |->
        CASE f = "version" -> v [] f = "type" -> ntype
          [] f = "payloadSig" -> Sigs(type)
          [] f \in ToSet(Texts) -> Blob(25, 3)
          [] OTHER -> 50 + CHOOSE n \in DOMAIN Fields : Fields[n] = f]
Special(v, type, extra) ==
    [version |-> v, type |-> type, ins |-> <<Spend(0, 20)>>, outs |-> <<<<5, Blob(25, 1)>>>>,
     locktime |-> 0, extra |-> extra, minted |-> {}]
SpecialTxs(k) ==
    { Special(3, type, Extra(type, v, ntype)) : type \in SPEC_TX_HANDLERS(k), v \in 1 .. 3, ntype \in {0, 1} }
    \cup { Special(3, 20, Blob(40, 2)), Special(2, 0, Blob(0, 0)), Special(65536 + 2, 0, Blob(0, 0)) }

\* What serialize and read_tx_extra disagree on.
Regular(k, t) == k = "dash" /\ t.type \in {1, 2} /\ t.extra["version"] >= 2 => t.extra["type"] = 1

\* A Zcash transaction and its variations.
Zin(n, w) == [hash |-> 7, n |-> n, script |-> Blob(w, n), sequence |-> 1]
Zout(v) == [value |-> v, script |-> Blob(25, v)]
SpendD(x, y) == [cv |-> 1, anchor |-> 2, nullifier |-> x, rk |-> 3, zkproof |-> y, sig |-> y]
OutD(x, y) == [cv |-> 1, cmu |-> 2, ephemeralKey |-> 3, enc |-> x, out |-> 5, zkproof |-> y]
Act(x, y) == [cv |-> 1, nullifier |-> x, rk |-> 3, cmx |-> 4, ephemeralKey |-> 5, enc |-> 6, out |-> 7, sig |-> y]
JS == [old |-> 1, new |-> 2, parts |-> 3, zkproof |-> 4, cipher |-> 5]
Z(over, version, group) ==
    [over |-> over, version |-> version, group |-> group, branch |-> 1, locktime |-> 3, expiry |-> 4, balance |-> 5,
     vin |-> <<Zin(0, 253)>>, vout |-> <<Zout(5)>>, spends |-> <<>>, outputs |-> <<>>, joinsplits |-> <<>>,
     anchor |-> 1, binding |-> 2, actions |-> <<>>, flags |-> 3, obalance |-> 4, oanchor |-> 5,
     proofs |-> Blob(253, 1), obinding |-> 6, jspub |-> 7, jssig |-> 8]
V5 == Z(TRUE, 5, ZIP225_VERSION_GROUP_ID)
V5Full == [V5 EXCEPT !.spends = <<SpendD(1, 1), SpendD(2, 2)>>, !.outputs = <<OutD(1, 1)>>, !.actions = <<Act(1, 1)>>]
Zcash4 == { Z(FALSE, 1, 0), Z(TRUE, 3, OVERWINTER_VERSION_GROUP_ID) }
          \cup { [Z(FALSE, 2, 0) EXCEPT !.joinsplits = [n \in 1 .. j |-> JS]] : j \in 0 .. 2 }
          \cup { [Z(TRUE, 4, SAPLING_VERSION_GROUP_ID)
                    EXCEPT !.spends = SubSeq(V5Full.spends, 1, s), !.outputs = SubSeq(V5Full.outputs, 1, o),
                           !.joinsplits = SubSeq(<<JS>>, 1, j)] : s \in {0, 2}, o \in {0, 1}, j \in {0, 1} }
Zcash5 == { V5, [V5 EXCEPT !.spends = <<SpendD(1, 1)>>], [V5 EXCEPT !.outputs = <<OutD(1, 1)>>],
            [V5 EXCEPT !.actions = <<Act(1, 1)>>], [V5 EXCEPT !.vin = <<>>, !.vout = <<>>], V5Full,
            [V5Full EXCEPT !.vin = <<Zin(1, 253)>>], [V5Full EXCEPT !.vin[1].script = Blob(3, 9)],
            [V5Full EXCEPT !.vin[1].sequence = 2], [V5Full EXCEPT !.vout = <<Zout(6)>>],
            [V5Full EXCEPT !.spends[1].zkproof = 9], [V5Full EXCEPT !.spends[1].sig = 9],
            [V5Full EXCEPT !.spends[1].nullifier = 9], [V5Full EXCEPT !.outputs[1].zkproof = 9],
            [V5Full EXCEPT !.outputs[1].enc = 9], [V5Full EXCEPT !.actions[1].sig = 9],
            [V5Full EXCEPT !.actions[1].nullifier = 9], [V5Full EXCEPT !.proofs = Blob(3, 9)],
            [V5Full EXCEPT !.binding = 9], [V5Full EXCEPT !.obinding = 9], [V5Full EXCEPT !.anchor = 9],
            [V5Full EXCEPT !.oanchor = 9], [V5Full EXCEPT !.balance = 9], [V5Full EXCEPT !.flags = 9],
            [V5Full EXCEPT !.locktime = 9], [V5Full EXCEPT !.expiry = 9], [V5Full EXCEPT !.branch = 9] }

AllSamples(k) ==
    CASE k = "pivx" -> Pivx
      [] k = "decred" -> { Dcr(1, 1), Dcr(1, 2) }
      [] k \in {"dash", "axe"} -> SpecialTxs(k)
      [] k = "zcash" -> Zcash4 \cup Zcash5
      [] k = "zcoin" -> { t \in PlainTxs(k) : \A i \in ToSet(t.ins) : i[3].w > 0 }
                        \cup { Plain_(1, <<>>, <<Sigma, Spend(0, 3)>>, <<>>) }
      [] k = "tokenpay" -> PlainTxs(k) \cup { Plain_(1, Time, <<Anon, ShortAnon>>, <<>>) }
      [] k = "litecoin" -> PlainTxs(k) \cup { WithWitness(t, f, 2, m) : t \in PlainTxs(k), f \in {1, 8, 9}, m \in {0, 1} }
                           \cup {Stripped_}
      [] k \in SegWitKinds -> PlainTxs(k) \cup { WithWitness(t, 1, w, 0) : t \in PlainTxs(k), w \in {0, 252, 253} }
      [] OTHER -> PlainTxs(k)

MCSamples(k) == { t \in AllSamples(k) : k \in {"dash", "axe"} => Regular(k, t) }

Hdr(form, version, size) == [form |-> form, version |-> version, size |-> size, id |-> 1]
Merged(form, k, version, n, m, merged) ==
    [form |-> form, version |-> version, size |-> 80, id |-> 1, branch |-> n, chain |-> m, merged |-> merged,
     algo |-> version, parent |-> Plain_(1, Before(k, 1), <<Coinbase>>, <<>>)]
AuxHeaders(k) == { Merged("auxpow", k, 2, 0, 0, FALSE) } \cup { Merged("auxpow", k, 258, n, 1, TRUE) : n \in {0, 2} }
MCHeaders(k) ==
    CASE k = "zcash" -> { [form |-> "solution", version |-> 4, size |-> 140, id |-> 1, solution |-> Blob(1344, 1)] }
      [] k = "decred" -> { Hdr("static", 1, 180) }
      [] k = "pivx" -> { Hdr("static", 1, 80), Hdr("static", 4, 112) }
      [] k = "zcoin" -> { [form |-> "mtp", version |-> 1 + x * 4096, size |-> 80, id |-> 1, mtp |-> x = 1] : x \in {0, 1} }
      [] k = "timesegwit" -> AuxHeaders(k)
      [] k = "plain" -> AuxHeaders(k) \cup { [form |-> "solution", version |-> 1, size |-> 80, id |-> 1,
                                              solution |-> Blob(w, 1)] : w \in {0, 5} }
      [] k = "segwit" -> AuxHeaders(k) \cup { Hdr("static", 1, 80), Merged("xaya", k, 128 + 2, 1, 0, TRUE),
                                              Merged("xaya", k, 2, 0, 0, FALSE) }
                         \cup { [form |-> "atom", version |-> 1, size |-> 80, id |-> 1, forked |-> f] : f \in BOOLEAN }
      [] OTHER -> { Hdr("static", 1, 80) }
=============================================================================
