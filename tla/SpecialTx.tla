----------------------------- MODULE SpecialTx -----------------------------
(***************************************************************************)
(* The special transactions of Dash and Axe (lib/tx_dash.py,               *)
(* lib/tx_axe.py): an extra payload of its own layout for each type.  Each *)
(* class has a serialize and a read_tx_extra; both are given here as the   *)
(* list of fields they write and read.  An object is the function from     *)
(* field names to values.                                                  *)
(***************************************************************************)
EXTENDS TxFormats, FiniteSets

\* A layout is a sequence of <<name, schema item>>.
F(name, w) == <<name, Fixed(w)>>
B(name) == <<name, VarBytes>>
N(name) == <<name, VarInt>>

Outpoint == <<F("hash", 32), F("index", 4)>>

ProRegTx ==
    <<F("version", 2), F("type", 2), F("mode", 2)>> \o Outpoint \o
    <<F("ipAddress", 16), F("port", 2), F("KeyIdOwner", 20), F("PubKeyOperator", 48),
      F("KeyIdVoting", 20), F("operatorReward", 2), B("scriptPayout"), F("inputsHash", 32)>>

ProUpServTx(v) ==
    <<F("version", 2)>> \o When(v >= 2, <<F("type", 2)>>) \o
    <<F("proTxHash", 32), F("ipAddress", 16), F("port", 2), B("scriptOperatorPayout"), F("inputsHash", 32)>>

ProUpRegTx == <<F("version", 2), F("proTxHash", 32), F("mode", 2), F("PubKeyOperator", 48),
                F("KeyIdVoting", 20), B("scriptPayout"), F("inputsHash", 32), B("payloadSig")>>
ProUpRevTx == <<F("version", 2), F("proTxHash", 32), F("reason", 2), F("inputsHash", 32),
                F("payloadSig", 96)>>
CbTx(v) == <<F("version", 2), F("height", 4), F("merkleRootMNList", 32)>>
           \o When(v > 1, <<F("merkleRootQuorums", 32)>>)
           \o When(v > 2, <<N("bestCLHeightDiff"), F("bestCLSignature", 96), F("assetLockedAmount", 8)>>)

SubTxRegister == <<F("version", 2), B("userName"), F("pubKey", 48), F("payloadSig", 96)>>
SubTxTopup == <<F("version", 2), F("regTxHash", 32)>>
SubTxResetKey == <<F("version", 2), F("regTxHash", 32), F("hashPrevSubTx", 32), F("creditFee", 8),
                   F("newPubKey", 48), F("payloadSig", 96)>>
SubTxCloseAccount == <<F("version", 2), F("regTxHash", 32), F("hashPrevSubTx", 32),
                       F("creditFee", 8), F("payloadSig", 96)>>

SPEC_TX_HANDLERS(coin) == 1 .. 5 \cup (IF coin = "axe" THEN 8 .. 11 ELSE {})

\* Axe has the first versions of these types, and some of its own; read_tx_extra
\* reads what serialize writes.
AxeLayout(type, v) == CASE type = 1  -> ProRegTx \o <<B("payloadSig")>>
                        [] type = 2  -> ProUpServTx(1) \o <<F("payloadSig", 96)>>
                        [] type = 3  -> ProUpRegTx
                        [] type = 4  -> ProUpRevTx
                        [] type = 5  -> IF v > 1 THEN CbTx(2) ELSE CbTx(1)
                        [] type = 8  -> SubTxRegister
                        [] type = 9  -> SubTxTopup
                        [] type = 10 -> SubTxResetKey
                        [] type = 11 -> SubTxCloseAccount

DashLayout(type, v, platform) == CASE type = 1 -> ProRegTx \o platform \o <<B("payloadSig")>>
                                   [] type = 2 -> ProUpServTx(v) \o platform \o <<F("payloadSig", 96)>>
                                   [] type = 3 -> ProUpRegTx
                                   [] type = 4 -> ProUpRevTx
                                   [] type = 5 -> CbTx(v)

Platform == <<F("platformNodeID", 20), F("platformP2PPort", 2), F("platformHTTPPort", 2)>>

ReadPlatform(v, ntype) == When(v >= 2 /\ ntype = 1, Platform)

\* serialize: a node of type 0 has an empty platformNodeID, and two ports of 0.
WritePlatform(v, ntype) ==
    When(v >= 2, IF ntype = 1 THEN Platform ELSE <<F("platformP2PPort", 2), F("platformHTTPPort", 2)>>)

ReadLayout(coin, type, v, ntype) ==
    IF coin = "axe" THEN AxeLayout(type, v) ELSE DashLayout(type, v, ReadPlatform(v, ntype))

WriteLayout(coin, type, v, ntype) ==
    IF coin = "axe" THEN AxeLayout(type, v) ELSE DashLayout(type, v, WritePlatform(v, ntype))

Schema(layout) == [n \in DOMAIN layout |-> layout[n][2]]
Object(layout, values) == [n \in DOMAIN layout |-> <<layout[n][1], values[n]>>]

Serialize(layout, value) ==
    Concat([n \in DOMAIN layout |->
        LET it == layout[n][2] IN
        CASE it.k = "fixed"    -> Field(it.w, value[layout[n][1]])
          [] it.k = "varint"   -> pack_varint(value[layout[n][1]])
          [] it.k = "varbytes" -> pack_varbytes(value[layout[n][1]])])

-----------------------------------------------------------------------------
(* Where the payload's own version and type are: its first two fields.      *)

read_tx_special(coin, b, start) ==
    LET r == Read(At(b, start), <<Fixed(4), Vec(TxIn), Vec(TxOut), Fixed(4)>>)
        h == TypedVersion(r.v[1])
        sized == read_varint([r EXCEPT !.v = <<>>])
        size == sized.v[1]
        handled == h.type \in SPEC_TX_HANDLERS(coin)
        v == sized.b[sized.pos].v
        ntype == IF h.type = 1 \/ (h.type = 2 /\ v >= 2 /\ coin = "dash")
                 THEN sized.b[sized.pos + 1].v ELSE 0
        layout == ReadLayout(coin, h.type, v, ntype)
        extra == IF handled THEN Read([sized EXCEPT !.v = <<>>], Schema(layout))
                 ELSE Read([sized EXCEPT !.v = <<>>], <<Skip(size)>>)
        end == IF h.type = 0 THEN r ELSE extra
    IN IF ~r.ok \/ (h.type # 0 /\ (~sized.ok \/ ~extra.ok)) THEN Failed(r)
       ELSE IF h.type # 0 /\ Size(SubSeq(b, sized.pos, extra.pos - 1)) # size THEN Failed(r)
       ELSE [Result(end, h.version, r.v[2], r.v[3], r.v[4], Span(end, start), Span(end, start), Size(b))
             EXCEPT !.extra = IF h.type # 0 /\ handled THEN Object(layout, extra.v) ELSE <<>>]
=============================================================================
