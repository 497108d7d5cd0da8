------------------------------ MODULE ZcashTx ------------------------------
(***************************************************************************)
(* Zcash transactions twice: CTransaction.serialize writes them            *)
(* (lib/zcash/mininode.py) and DeserializerZcash.read_tx finds its way     *)
(* through them by arithmetic on the counts.  From version 5 the id is a   *)
(* tree of digests (lib/zcash/zip244.py) from which proofs, signatures and *)
(* scripts are left out; a second digest covers those.                     *)
(*                                                                         *)
(* A transaction is a record: over, version, group, branch, locktime,      *)
(* expiry, balance, vin, vout, spends, outputs, joinsplits (sequences of   *)
(* records of the parts), anchor, binding, actions, flags, obalance,       *)
(* oanchor, proofs (a blob), obinding, jspub, jssig.                       *)
(***************************************************************************)
EXTENDS TxFormats

OVERWINTER_VERSION_GROUP_ID == 3
SAPLING_VERSION_GROUP_ID == 4
ZIP225_VERSION_GROUP_ID == 5
OVERWINTERED == 2 ^ 30            \* stands for bit 31 of the header

header(t) == (IF t.over THEN OVERWINTERED ELSE 0) + t.version

isOverwinterV3(t) == t.over /\ t.group = OVERWINTER_VERSION_GROUP_ID /\ t.version = 3
isSaplingV4(t) == t.over /\ t.group = SAPLING_VERSION_GROUP_ID /\ t.version = 4
isNu5V5(t) == t.over /\ t.group = ZIP225_VERSION_GROUP_ID /\ t.version = 5

Each(s, op(_)) == [n \in DOMAIN s |-> op(s[n])]

-----------------------------------------------------------------------------
(* serialize of CTransaction and its parts.                                 *)

COutPoint(i) == Field(32, i.hash) \o Field(4, i.n)
CTxIn(i) == COutPoint(i) \o pack_varbytes(i.script) \o Field(4, i.sequence)
CTxOut(o) == Field(8, o.value) \o pack_varbytes(o.script)

Groth16Proof(x) == Field(192, x.zkproof)
Signature(x) == Field(64, x)

SpendDescription(s) == Field(32, s.cv) \o Field(32, s.anchor) \o Field(32, s.nullifier)
                       \o Field(32, s.rk) \o Groth16Proof(s) \o Signature(s.sig)
SpendDescriptionV5(s) == Field(32, s.cv) \o Field(32, s.nullifier) \o Field(32, s.rk)

OutputDescriptionV5(o) == Field(32, o.cv) \o Field(32, o.cmu) \o Field(32, o.ephemeralKey)
                          \o Field(580, o.enc) \o Field(80, o.out)
OutputDescription(o) == OutputDescriptionV5(o) \o Groth16Proof(o)

\* A proof of PHGR13 (ZCProof) has 296 bytes, one of Groth16 192.
ZC_NOTECIPHERTEXT_SIZE == 1 + 8 + 32 + 32 + 512 + 16
JSDescription(j, groth16) ==
    Field(8, j.old) \o Field(8, j.new) \o Concat([n \in 1 .. 9 |-> Field(32, j.parts)])
    \o Field(IF groth16 THEN 192 ELSE 296, j.zkproof)
    \o Concat([n \in 1 .. 2 |-> Field(ZC_NOTECIPHERTEXT_SIZE, j.cipher)])

SaplingBundle(t) ==
    LET has_sapling == Len(t.spends) + Len(t.outputs) > 0
    IN Vector(Each(t.spends, SpendDescriptionV5)) \o Vector(Each(t.outputs, OutputDescriptionV5))
       \o (IF has_sapling THEN Field(8, t.balance) ELSE <<>>)
       \o (IF Len(t.spends) > 0 THEN Field(32, t.anchor) ELSE <<>>)
       \o Concat(Each(t.spends, Groth16Proof))
       \o Concat(Each(t.spends, LAMBDA s : Signature(s.sig)))
       \o Concat(Each(t.outputs, Groth16Proof))
       \o (IF has_sapling THEN Signature(t.binding) ELSE <<>>)

OrchardAction(a) ==
    Concat([n \in 1 .. 5 |-> Field(32, <<a.cv, a.nullifier, a.rk, a.cmx, a.ephemeralKey>>[n])])
    \o Field(580, a.enc) \o Field(80, a.out)

OrchardBundle(t) ==
    Vector(Each(t.actions, OrchardAction))
    \o IF t.actions = <<>> THEN <<>>
       ELSE Field(1, t.flags) \o Field(8, t.obalance) \o Field(32, t.oanchor)
            \o pack_varbytes(t.proofs) \o Concat(Each(t.actions, LAMBDA a : Signature(a.sig)))
            \o Signature(t.obinding)

CTransactionV5(t) ==
    Concat([n \in 1 .. 5 |-> Field(4, <<header(t), t.group, t.branch, t.locktime, t.expiry>>[n])])
    \o Vector(Each(t.vin, CTxIn)) \o Vector(Each(t.vout, CTxOut))
    \o SaplingBundle(t) \o OrchardBundle(t)

CTransactionV4(t) ==
    Field(4, header(t)) \o (IF t.over THEN Field(4, t.group) ELSE <<>>)
    \o Vector(Each(t.vin, CTxIn)) \o Vector(Each(t.vout, CTxOut)) \o Field(4, t.locktime)
    \o (IF isOverwinterV3(t) \/ isSaplingV4(t) THEN Field(4, t.expiry) ELSE <<>>)
    \o (IF isSaplingV4(t)
        THEN Field(8, t.balance) \o Vector(Each(t.spends, SpendDescription))
             \o Vector(Each(t.outputs, OutputDescription))
        ELSE <<>>)
    \o (IF t.version >= 2
        THEN Vector(Each(t.joinsplits, LAMBDA j : JSDescription(j, isSaplingV4(t))))
             \o (IF t.joinsplits # <<>> THEN Field(32, t.jspub) \o Field(64, t.jssig) ELSE <<>>)
        ELSE <<>>)
    \o (IF isSaplingV4(t) /\ t.spends \o t.outputs # <<>> THEN Signature(t.binding) ELSE <<>>)

CTransaction(t) == IF isNu5V5(t) THEN CTransactionV5(t) ELSE CTransactionV4(t)

-----------------------------------------------------------------------------
(* The digests of version 5.                                                *)

Digest(person, parts) == <<person, parts>>

transparent_digest(t) ==
    Digest("TxIdTranspa",
           IF t.vin = <<>> /\ t.vout = <<>> THEN <<>>
           ELSE <<Digest("Prevout", Concat(Each(t.vin, COutPoint))),
                  Digest("Sequenc", Each(t.vin, LAMBDA i : i.sequence)),
                  Digest("Outputs", Concat(Each(t.vout, CTxOut)))>>)

sapling_spends_digest(t) ==
    Digest("SSpends",
           IF t.spends = <<>> THEN <<>>
           ELSE <<Digest("SSpendC", Each(t.spends, LAMBDA s : s.nullifier)),
                  Digest("SSpendN", Each(t.spends, LAMBDA s : <<s.cv, t.anchor, s.rk>>))>>)

\* The memo is the middle of a ciphertext; together the three cover all of it.
sapling_outputs_digest(t) ==
    Digest("SOutput",
           IF t.outputs = <<>> THEN <<>>
           ELSE <<Digest("SOutC", Each(t.outputs, LAMBDA o : <<o.cmu, o.ephemeralKey, "enc52", o.enc>>)),
                  Digest("SOutM", Each(t.outputs, LAMBDA o : <<"memo", o.enc>>)),
                  Digest("SOutN", Each(t.outputs, LAMBDA o : <<o.cv, "enc564", o.enc, o.out>>))>>)

sapling_digest(t) ==
    Digest("Sapling", IF t.spends = <<>> /\ t.outputs = <<>> THEN <<>>
                      ELSE <<sapling_spends_digest(t), sapling_outputs_digest(t), t.balance>>)

orchard_digest(t) ==
    Digest("Orchard",
           IF t.actions = <<>> THEN <<>>
           ELSE <<Digest("OrcActC", Each(t.actions, LAMBDA a : <<a.nullifier, a.cmx, a.ephemeralKey, a.enc>>)),
                  Digest("OrcActM", Each(t.actions, LAMBDA a : <<"memo", a.enc>>)),
                  Digest("OrcActN", Each(t.actions, LAMBDA a : <<a.cv, a.rk, a.enc, a.out>>)),
                  t.flags, t.obalance, t.oanchor>>)

header_digest(t) == Digest("Headers", <<header(t), t.group, t.branch, t.locktime, t.expiry>>)

\* Mutant of txid_digest: the lock time and the other header fields are left out.
txid_digest_headless(t) ==
    Digest(<<"ZcashTxHash", t.branch>>, <<transparent_digest(t), sapling_digest(t), orchard_digest(t)>>)

txid_digest(t) ==
    Digest(<<"ZcashTxHash", t.branch>>,
           <<header_digest(t), transparent_digest(t), sapling_digest(t), orchard_digest(t)>>)

transparent_auth_digest(t) == Digest("ZTxAuthTran", Each(t.vin, LAMBDA i : i.script))

sapling_auth_digest(t) ==
    Digest("ZTxAuthSapl", IF t.spends = <<>> /\ t.outputs = <<>> THEN <<>>
                          ELSE <<Each(t.spends, LAMBDA s : s.zkproof), Each(t.spends, LAMBDA s : s.sig),
                                 Each(t.outputs, LAMBDA o : o.zkproof), t.binding>>)

orchard_auth_digest(t) ==
    Digest("ZTxAuthOrch", IF t.actions = <<>> THEN <<>>
                          ELSE <<t.proofs, Each(t.actions, LAMBDA a : a.sig), t.obinding>>)

auth_digest(t) == Digest(<<"ZTxAuthHash", t.branch>>,
                         <<transparent_auth_digest(t), sapling_auth_digest(t), orchard_auth_digest(t)>>)

-----------------------------------------------------------------------------
(* DeserializerZcash.read_tx.                                               *)

JoinSplitSize(version) == 1506 + (IF version = 4 THEN 192 ELSE 296)

\* Spends and outputs; a transaction of another version has none.
SaplingV4(r, version) ==
    IF version # 4 THEN [r EXCEPT !.v = <<0, 0>>]
    ELSE LET spends == Read([r EXCEPT !.v = <<>>], <<Skip(8), VarInt>>)
         IN SkipCounted(Read(SkipCounted(spends, 384), <<VarInt>>), 948)

JoinSplits(count, version) ==
    Read(count, When(Last(count.v) > 0,
                     <<Skip(Last(count.v) * JoinSplitSize(version)), Skip(32), Skip(64)>>))

ShieldedV4(sapling, version) ==
    LET joined == IF version < 2 THEN sapling ELSE JoinSplits(read_varint(sapling), version)
        has_shielded == sapling.v[1] > 0 \/ sapling.v[2] > 0
    IN Read(joined, When(version = 4 /\ has_shielded, <<Skip(64)>>))

ReadZcashV4(r0, version) ==
    LET r == Read(r0, <<Vec(TxIn), Vec(TxOut), Fixed(4)>> \o When(version \in {3, 4}, <<Skip(4)>>))
    IN <<r, ShieldedV4(SaplingV4(r, version), version)>>

SaplingV5(r, spends, outputs) ==
    Read(r, <<Skip(756 * outputs)>>
            \o When(spends + outputs > 0, <<Skip(8)>>)
            \o When(spends > 0, <<Skip(32)>>)
            \o <<Skip(192 * spends), Skip(64 * spends), Skip(192 * outputs)>>
            \o When(spends + outputs > 0, <<Skip(64)>>) \o <<VarInt>>)

OrchardV5(r, actions) ==
    LET proofs == Read(r, <<Skip(820 * actions)>>
                          \o When(actions > 0, <<Skip(1), Skip(8), Skip(32), VarInt>>))
    IN Read(proofs, When(actions > 0, <<Skip(Last(proofs.v)), Skip(64 * actions), Skip(64)>>))

ReadZcashV5(r0) ==
    LET r == Read(r0, <<Fixed(4), Fixed(4), Skip(4), Vec(TxIn), Vec(TxOut), VarInt>>)
        o == Read(SkipCounted(r, 96), <<VarInt>>)
        sapling == SaplingV5(o, Last(r.v), Last(o.v))
    IN <<r, OrchardV5(sapling, Last(sapling.v))>>

\* From version 5 the lock time follows the branch id.
LockTimeV5(r) == r.v[2]

\* zcash_txid_v5 reads the bytes again as a CTransaction; that gives t back.
ZcashResult(b, start, t, version, v5, parts, end) ==
    LET txid == IF version < 5 THEN Span(end, start) ELSE txid_digest(t)
    IN IF v5 THEN Result(end, version, parts.v[3], parts.v[4], LockTimeV5(parts), txid, txid, Size(b))
       ELSE Result(end, version, parts.v[1], parts.v[2], parts.v[3], txid, txid, Size(b))

ReadGrouped(b, start, t, grouped, over, version) ==
    LET v5 == over /\ Last(grouped.v) = ZIP225_VERSION_GROUP_ID /\ version = 5
        body == [grouped EXCEPT !.v = <<>>]
        p == IF v5 THEN ReadZcashV5(body) ELSE ReadZcashV4(body, version)
    IN IF ~grouped.ok \/ ~p[2].ok THEN Failed(grouped)
       ELSE ZcashResult(b, start, t, version, v5, p[1], p[2])

read_tx_zcash(b, start, t) ==
    LET r0 == Read(At(b, start), <<Fixed(4)>>)
        over == r0.v[1] >= OVERWINTERED
    IN IF ~r0.ok THEN Failed(r0)
       ELSE ReadGrouped(b, start, t, IF over THEN Read(r0, <<Fixed(4)>>) ELSE r0,
                        over, r0.v[1] % OVERWINTERED)
=============================================================================
