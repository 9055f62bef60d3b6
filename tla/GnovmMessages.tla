--------------------------- MODULE GnovmMessages ---------------------------
(***************************************************************************)
(* The messages of x/gnovm in bytes: for every message its decoder         *)
(* (Unmarshal), its encoder (MarshalToSizedBuffer) and its size (Size),    *)
(* which the generator writes independently of each other, over the        *)
(* primitives of WireFormat.                                               *)
(***************************************************************************)
EXTENDS WireFormat, SequencesExt

CONSTANT
    NumberOf    \* for the texts math.Int reads as a number: its decimal digits, none for zero

\* The digits of a number spell it, and as it has 256 bits at most it has
\* fewer than 128 of them; a zero is spelled "0".
ASSUME NumberAssumption ==
    /\ \A s \in DOMAIN NumberOf :
          /\ s \in Seq(0..255) /\ s # <<>> /\ Len(NumberOf[s]) < 128
          /\ NumberOf[s] # <<>> =>
                NumberOf[s] \in DOMAIN NumberOf /\ NumberOf[NumberOf[s]] = NumberOf[s]
    /\ <<48>> \in DOMAIN NumberOf /\ NumberOf[<<48>>] = <<>>

-----------------------------------------------------------------------------
(* Decoders.  A table lists the fields 1..n of a message, each with its    *)
(* name and the branch Unmarshal has for it: a string or bytes field, a    *)
(* repeated string, an embedded message, a repeated message, a uint64.     *)

Text(n)     == [name |-> n, type |-> "text"]
Strings(n)  == [name |-> n, type |-> "strings"]
Msg(n, of)  == [name |-> n, type |-> "msg", of |-> of]
Msgs(n, of) == [name |-> n, type |-> "msgs", of |-> of]
Uint(n)     == [name |-> n, type |-> "uint"]

\* cosmos.base.v1beta1.Coin of the SDK; the amount is a math.Int, held by value.
Amount     == Text("amount")
CoinFields == <<Text("denom"), Amount>>

ParamsFields ==
    << Text("sysnames_pkgpath"), Text("chain_domain"), Text("default_deposit"),
       Text("storage_price"), Text("storage_fee_collector") >>
ModuleFields       == <<Text("authority")>>
KVPairFields       == <<Text("key"), Text("value")>>
GenesisStateFields == <<Msg("params", "Params"), Text("realm_params"), Msgs("state", "KVPair")>>

MsgUpdateParamsFields         == <<Text("authority"), Msg("params", "Params")>>
MsgUpdateParamsResponseFields == <<>>
MsgAddPackageFields ==
    <<Text("creator"), Msgs("send", "Coin"), Msgs("max_deposit", "Coin"), Text("package")>>
MsgAddPackageResponseFields   == <<>>
MsgCallFields ==
    << Text("caller"), Msgs("send", "Coin"), Msgs("max_deposit", "Coin"),
       Text("pkg_path"), Text("function"), Strings("args") >>
MsgCallResponseFields == <<Text("result")>>
MsgRunFields ==
    <<Text("caller"), Msgs("send", "Coin"), Msgs("max_deposit", "Coin"), Text("pkg")>>
MsgRunResponseFields  == <<Text("result")>>

QueryParamsRequestFields        == <<>>
QueryParamsResponseFields       == <<Msg("params", "Params")>>
QueryInfoRequestFields          == <<Text("pkg_path")>>
QueryInfoResponseFields         == <<Text("result")>>
QueryRealmStorageRequestFields  == <<Text("pkg_path")>>
QueryRealmStorageResponseFields == <<Text("result")>>
QueryEvalRequestFields          == <<Text("pkg_path"), Text("expr"), Uint("max_gas")>>
QueryEvalResponseFields         == <<Text("result")>>
QueryRenderRequestFields        == <<Text("pkg_path"), Strings("args")>>

Fields ==
    [ Coin |-> CoinFields, Params |-> ParamsFields, Module |-> ModuleFields,
      KVPair |-> KVPairFields, GenesisState |-> GenesisStateFields,
      MsgUpdateParams |-> MsgUpdateParamsFields,
      MsgUpdateParamsResponse |-> MsgUpdateParamsResponseFields,
      MsgAddPackage |-> MsgAddPackageFields,
      MsgAddPackageResponse |-> MsgAddPackageResponseFields,
      MsgCall |-> MsgCallFields, MsgCallResponse |-> MsgCallResponseFields,
      MsgRun |-> MsgRunFields, MsgRunResponse |-> MsgRunResponseFields,
      QueryParamsRequest |-> QueryParamsRequestFields,
      QueryParamsResponse |-> QueryParamsResponseFields,
      QueryInfoRequest |-> QueryInfoRequestFields,
      QueryInfoResponse |-> QueryInfoResponseFields,
      QueryRealmStorageRequest |-> QueryRealmStorageRequestFields,
      QueryRealmStorageResponse |-> QueryRealmStorageResponseFields,
      QueryEvalRequest |-> QueryEvalRequestFields,
      QueryEvalResponse |-> QueryEvalResponseFields,
      QueryRenderRequest |-> QueryRenderRequestFields ]

\* The zero value Unmarshal starts from.  A message in a message has texts only.
FieldNames(kind) == {f.name : f \in ToSet(Fields[kind])}
Zero(f) ==
    CASE f.type = "uint" -> 0
      [] f.type = "msg"  -> [n \in FieldNames(f.of) |-> <<>>]
      [] OTHER           -> <<>>
New(kind) ==
    [n \in FieldNames(kind) |-> Zero(CHOOSE f \in ToSet(Fields[kind]) : f.name = n)]

(* Faulty variant: a repeated string keeps its last element only. *)
StoreOnce(f, old, v) ==
    CASE f.type = "msgs" -> Append(old, v) [] f.type = "strings" -> <<v>> [] OTHER -> v

\* What a decoded value does to its field: a singular field keeps the last
\* one, a repeated field keeps them all.  An embedded message was decoded
\* into the value already there.
Store(f, old, v) == IF f.type \in {"strings", "msgs"} THEN Append(old, v) ELSE v

(* Faulty variant: one byte too many passes. *)
PastEndByOne(b, post) == post > Len(b) + 1

\* postIndex > l
PastEnd(b, post) == post > Len(b)

\* The field at offset i: what is to be stored, and the offset behind it.  A
\* tag that names no field of the message is read again, from where it began,
\* to be skipped with its value.
Stores(f, v, next) == [err |-> "None", stores |-> << <<f, v>> >>, next |-> next]
Skips(b, past) ==
    IF ~Ok(past) THEN past
    ELSE IF PastEnd(b, past.next) THEN Failed("UnexpectedEOF")
    ELSE [err |-> "None", stores |-> <<>>, next |-> past.next]
\* The amount decodes its text: no text leaves it as it is.
StoresText(f, s, next) ==
    IF f # Amount THEN Stores(f, s, next)
    ELSE IF s = <<>> THEN [err |-> "None", stores |-> <<>>, next |-> next]
    ELSE IF s \notin DOMAIN NumberOf THEN Failed("NotANumber")
    ELSE Stores(f, NumberOf[s], next)
Number(f, r) == IF ~Ok(r) THEN r ELSE Stores(f, r.val, r.next)
Delimited(f, b, post) ==
    LET data == Slice(b, post.next, post.val)
    IN  IF ~Ok(post) THEN post
        ELSE IF PastEnd(b, post.val) THEN Failed("UnexpectedEOF")
        ELSE IF ~Ok(data) THEN data
        ELSE StoresText(f, data.msg, post.val)
Declared(f, b, tag) ==
    IF WireType(tag.val) # (IF f.type = "uint" THEN 0 ELSE 2) THEN Failed("WrongWireType")
    ELSE IF f.type = "uint" THEN Number(f, ReadVarint(b, tag.next))
    ELSE Delimited(f, b, ReadLength(b, tag.next))
Tagged(kind, b, i, tag) ==
    LET num == FieldNum(tag.val)
    IN  IF ~Ok(tag) THEN tag
        ELSE IF WireType(tag.val) = 4 THEN Failed("EndGroup")
        ELSE IF num <= 0 THEN Failed("IllegalTag")
        ELSE IF num \in DOMAIN Fields[kind] THEN Declared(Fields[kind][num], b, tag)
        ELSE Skips(b, Skip(b, i))
FieldAt(kind, b, i) == Tagged(kind, b, i, ReadVarint(b, i))

\* The loop of Unmarshal: what the fields from an offset on store, in order,
\* up to the first error.  Behind the loop Unmarshal looks once more whether
\* the last field r went past the end.
StoredWith(r, rest) == [stores |-> r.stores \o rest.stores, err |-> rest.err]
GoOn(b, r, from) ==
    IF ~Ok(r) THEN [stores |-> <<>>, err |-> r.err]
    ELSE IF r.next > Len(b) THEN [stores |-> r.stores, err |-> "UnexpectedEOF"]
    ELSE StoredWith(r, from[r.next])
Loop(kind, b) ==
    LET from[i \in 0..Len(b)] ==
          IF i = Len(b) THEN [stores |-> <<>>, err |-> "None"]
          ELSE GoOn(b, FieldAt(kind, b, i), from)
    IN  from[0]

\* Unmarshal of a message that holds no other, into m.
Held(m, f, v) == [m EXCEPT ![f.name] = Store(f, @, v)]
HoldTexts(m, loop) ==
    LET after[k \in 0..Len(loop.stores)] ==
          IF k = 0 THEN m ELSE Held(after[k - 1], loop.stores[k][1], loop.stores[k][2])
    IN  IF Ok(loop) THEN Done(after[Len(loop.stores)]) ELSE Failed(loop.err)
UnmarshalTexts(kind, m, b) == HoldTexts(m, Loop(kind, b))

\* The value of a field that held old: bytes and numbers as they are, an
\* embedded message decoded into the one already there.
Decoded(f, old, v) ==
    IF f.type \notin {"msg", "msgs"} THEN Done(v)
    ELSE UnmarshalTexts(f.of, IF f.type = "msg" THEN old ELSE New(f.of), v)

\* The message after one more value: the first error ends it.
HeldIf(m, f, r) == IF Ok(r) THEN Done(Held(m, f, r.msg)) ELSE r
HoldOne(last, f, v) ==
    IF Ok(last) THEN HeldIf(last.msg, f, Decoded(f, last.msg[f.name], v)) ELSE last
Hold(kind, loop) ==
    LET after[k \in 0..Len(loop.stores)] ==
          IF k = 0 THEN Done(New(kind))
          ELSE HoldOne(after[k - 1], loop.stores[k][1], loop.stores[k][2])
        result == after[Len(loop.stores)]
    IN  IF Ok(result) /\ ~Ok(loop) THEN Failed(loop.err) ELSE result

\* Unmarshal: the message, or the first error.
Unmarshal(kind, b) == Hold(kind, Loop(kind, b))

-----------------------------------------------------------------------------
(* Encoders.  Fields leave in the order of their numbers; a text, list or  *)
(* number without content is left out, an embedded message never is.       *)

PutText(num, s)         == IF s = <<>> THEN <<>> ELSE Put(num, s)
PutStrings(num, l)      == FlattenSeq([k \in DOMAIN l |-> Put(num, l[k])])
PutUint(num, v)         == IF v = 0 THEN <<>> ELSE <<num * 8>> \o EncodeVarint(v, <<>>)

\* math.Int writes a zero as "0", one that was never set too.
Digits(n)    == IF n = <<>> THEN <<48>> ELSE n
CoinBytes(m) == PutText(1, m.denom) \o Put(2, Digits(m.amount))
PutCoins(num, l) == PutStrings(num, [k \in DOMAIN l |-> CoinBytes(l[k])])

ParamsBytes(m) ==
    PutText(1, m.sysnames_pkgpath) \o PutText(2, m.chain_domain) \o PutText(3, m.default_deposit)
    \o PutText(4, m.storage_price) \o PutText(5, m.storage_fee_collector)
ModuleBytes(m) == PutText(1, m.authority)
KVPairBytes(m) == PutText(1, m.key) \o PutText(2, m.value)
PutPairs(num, l) == PutStrings(num, [k \in DOMAIN l |-> KVPairBytes(l[k])])
GenesisStateBytes(m) ==
    Put(1, ParamsBytes(m.params)) \o PutText(2, m.realm_params) \o PutPairs(3, m.state)

MsgUpdateParamsBytes(m)         == PutText(1, m.authority) \o Put(2, ParamsBytes(m.params))
MsgUpdateParamsResponseBytes(m) == <<>>
MsgAddPackageBytes(m) ==
    PutText(1, m.creator) \o PutCoins(2, m.send)
    \o PutCoins(3, m.max_deposit) \o PutText(4, m.package)
MsgAddPackageResponseBytes(m)   == <<>>
MsgCallBytes(m) ==
    PutText(1, m.caller) \o PutCoins(2, m.send) \o PutCoins(3, m.max_deposit)
    \o PutText(4, m.pkg_path) \o PutText(5, m.function) \o PutStrings(6, m.args)
MsgCallResponseBytes(m) == PutText(1, m.result)
MsgRunBytes(m) ==
    PutText(1, m.caller) \o PutCoins(2, m.send) \o PutCoins(3, m.max_deposit)
    \o PutText(4, m.pkg)
MsgRunResponseBytes(m)  == PutText(1, m.result)

QueryParamsRequestBytes(m)        == <<>>
QueryParamsResponseBytes(m)       == Put(1, ParamsBytes(m.params))
QueryInfoRequestBytes(m)          == PutText(1, m.pkg_path)
QueryInfoResponseBytes(m)         == PutText(1, m.result)
QueryRealmStorageRequestBytes(m)  == PutText(1, m.pkg_path)
QueryRealmStorageResponseBytes(m) == PutText(1, m.result)
QueryEvalRequestBytes(m) ==
    PutText(1, m.pkg_path) \o PutText(2, m.expr) \o PutUint(3, m.max_gas)
QueryEvalResponseBytes(m)         == PutText(1, m.result)
QueryRenderRequestBytes(m)        == PutText(1, m.pkg_path) \o PutStrings(2, m.args)

-----------------------------------------------------------------------------
(* Sizes. *)

TextSize(s)             == IF Len(s) > 0 THEN FieldSize(Len(s)) ELSE 0
UintSize(v)             == IF v # 0 THEN 1 + Sov(v) ELSE 0

\* The loop over the elements of a repeated field, by their sizes.
ListSize(sizes) ==
    LET sum[k \in 0..Len(sizes)] == IF k = 0 THEN 0 ELSE sum[k - 1] + FieldSize(sizes[k])
    IN  sum[Len(sizes)]
StringsSize(l)          == ListSize([k \in DOMAIN l |-> Len(l[k])])

CoinSize(m)  == TextSize(m.denom) + FieldSize(Len(Digits(m.amount)))
CoinsSize(l) == ListSize([k \in DOMAIN l |-> CoinSize(l[k])])

ParamsSize(m) ==
    TextSize(m.sysnames_pkgpath) + TextSize(m.chain_domain) + TextSize(m.default_deposit)
    + TextSize(m.storage_price) + TextSize(m.storage_fee_collector)
ModuleSize(m) == TextSize(m.authority)
KVPairSize(m) == TextSize(m.key) + TextSize(m.value)
PairsSize(l) == ListSize([k \in DOMAIN l |-> KVPairSize(l[k])])
GenesisStateSize(m) ==
    FieldSize(ParamsSize(m.params)) + TextSize(m.realm_params) + PairsSize(m.state)

MsgUpdateParamsSize(m)         == TextSize(m.authority) + FieldSize(ParamsSize(m.params))
MsgUpdateParamsResponseSize(m) == 0
MsgAddPackageSize(m) ==
    TextSize(m.creator) + CoinsSize(m.send) + CoinsSize(m.max_deposit)
    + TextSize(m.package)
MsgAddPackageResponseSize(m)   == 0
MsgCallSize(m) ==
    TextSize(m.caller) + CoinsSize(m.send) + CoinsSize(m.max_deposit)
    + TextSize(m.pkg_path) + TextSize(m.function) + StringsSize(m.args)
MsgCallResponseSize(m) == TextSize(m.result)
MsgRunSize(m) ==
    TextSize(m.caller) + CoinsSize(m.send) + CoinsSize(m.max_deposit)
    + TextSize(m.pkg)
MsgRunResponseSize(m)  == TextSize(m.result)

QueryParamsRequestSize(m)        == 0
QueryParamsResponseSize(m)       == FieldSize(ParamsSize(m.params))
QueryInfoRequestSize(m)          == TextSize(m.pkg_path)
QueryInfoResponseSize(m)         == TextSize(m.result)
QueryRealmStorageRequestSize(m)  == TextSize(m.pkg_path)
QueryRealmStorageResponseSize(m) == TextSize(m.result)
QueryEvalRequestSize(m)          == TextSize(m.pkg_path) + TextSize(m.expr) + UintSize(m.max_gas)
QueryEvalResponseSize(m)         == TextSize(m.result)
QueryRenderRequestSize(m)        == TextSize(m.pkg_path) + StringsSize(m.args)

-----------------------------------------------------------------------------
(* Marshal, by the message's own encoder and Size. *)

BytesOf(kind, m) ==
    CASE kind = "Coin"                      -> CoinBytes(m)
      [] kind = "Params"                    -> ParamsBytes(m)
      [] kind = "Module"                    -> ModuleBytes(m)
      [] kind = "KVPair"                    -> KVPairBytes(m)
      [] kind = "GenesisState"              -> GenesisStateBytes(m)
      [] kind = "MsgUpdateParams"           -> MsgUpdateParamsBytes(m)
      [] kind = "MsgUpdateParamsResponse"   -> MsgUpdateParamsResponseBytes(m)
      [] kind = "MsgAddPackage"             -> MsgAddPackageBytes(m)
      [] kind = "MsgAddPackageResponse"     -> MsgAddPackageResponseBytes(m)
      [] kind = "MsgCall"                   -> MsgCallBytes(m)
      [] kind = "MsgCallResponse"           -> MsgCallResponseBytes(m)
      [] kind = "MsgRun"                    -> MsgRunBytes(m)
      [] kind = "MsgRunResponse"            -> MsgRunResponseBytes(m)
      [] kind = "QueryParamsRequest"        -> QueryParamsRequestBytes(m)
      [] kind = "QueryParamsResponse"       -> QueryParamsResponseBytes(m)
      [] kind = "QueryInfoRequest"          -> QueryInfoRequestBytes(m)
      [] kind = "QueryInfoResponse"         -> QueryInfoResponseBytes(m)
      [] kind = "QueryRealmStorageRequest"  -> QueryRealmStorageRequestBytes(m)
      [] kind = "QueryRealmStorageResponse" -> QueryRealmStorageResponseBytes(m)
      [] kind = "QueryEvalRequest"          -> QueryEvalRequestBytes(m)
      [] kind = "QueryEvalResponse"         -> QueryEvalResponseBytes(m)
      [] kind = "QueryRenderRequest"        -> QueryRenderRequestBytes(m)

SizeOf(kind, m) ==
    CASE kind = "Coin"                      -> CoinSize(m)
      [] kind = "Params"                    -> ParamsSize(m)
      [] kind = "Module"                    -> ModuleSize(m)
      [] kind = "KVPair"                    -> KVPairSize(m)
      [] kind = "GenesisState"              -> GenesisStateSize(m)
      [] kind = "MsgUpdateParams"           -> MsgUpdateParamsSize(m)
      [] kind = "MsgUpdateParamsResponse"   -> MsgUpdateParamsResponseSize(m)
      [] kind = "MsgAddPackage"             -> MsgAddPackageSize(m)
      [] kind = "MsgAddPackageResponse"     -> MsgAddPackageResponseSize(m)
      [] kind = "MsgCall"                   -> MsgCallSize(m)
      [] kind = "MsgCallResponse"           -> MsgCallResponseSize(m)
      [] kind = "MsgRun"                    -> MsgRunSize(m)
      [] kind = "MsgRunResponse"            -> MsgRunResponseSize(m)
      [] kind = "QueryParamsRequest"        -> QueryParamsRequestSize(m)
      [] kind = "QueryParamsResponse"       -> QueryParamsResponseSize(m)
      [] kind = "QueryInfoRequest"          -> QueryInfoRequestSize(m)
      [] kind = "QueryInfoResponse"         -> QueryInfoResponseSize(m)
      [] kind = "QueryRealmStorageRequest"  -> QueryRealmStorageRequestSize(m)
      [] kind = "QueryRealmStorageResponse" -> QueryRealmStorageResponseSize(m)
      [] kind = "QueryEvalRequest"          -> QueryEvalRequestSize(m)
      [] kind = "QueryEvalResponse"         -> QueryEvalResponseSize(m)
      [] kind = "QueryRenderRequest"        -> QueryRenderRequestSize(m)

Marshal(kind, m) == Marshalled(BytesOf(kind, m), SizeOf(kind, m))

(* Faulty variant: the collector is not compared. *)
ParamsEqualTexts(p, q) ==
    /\ p.sysnames_pkgpath = q.sysnames_pkgpath
    /\ p.chain_domain = q.chain_domain
    /\ p.default_deposit = q.default_deposit
    /\ p.storage_price = q.storage_price

\* Params.Equal, of two values (that = nil is not asked).
ParamsEqual(p, q) ==
    /\ p.sysnames_pkgpath = q.sysnames_pkgpath
    /\ p.chain_domain = q.chain_domain
    /\ p.default_deposit = q.default_deposit
    /\ p.storage_price = q.storage_price
    /\ p.storage_fee_collector = q.storage_fee_collector
=============================================================================
