----------------------------- MODULE GnovmWire -----------------------------
(***************************************************************************)
(* Messages of x/gnovm arriving at the node.  A sender, written by anyone  *)
(* in any language, assembles a message field by field, in every way       *)
(* protobuf allows: fields repeated or out of order, empty fields sent     *)
(* nevertheless, fields of a newer schema, varints longer than needed,     *)
(* tags that reach a field number by overflow.  It may also make a mistake *)
(* that has to be refused, or send bytes of no meaning.  expect is what    *)
(* the protobuf rules say the receiver holds.                              *)
(***************************************************************************)
EXTENDS GnovmMessages

CONSTANTS
    Kinds,      \* the messages of this instance
    Texts,      \* contents of a string or bytes field
    Uints,      \* contents of a uint64 field
    Bytes,      \* single bytes of no meaning
    MaxFields,  \* bound: fields sent per message
    MaxOdd,     \* bound: fields of them with an unusual tag or count
    MaxJunk,    \* bound: bytes of no meaning per message
    JunkWithin  \* bound: the length up to which they are sent

ASSUME SenderAssumption ==
    /\ Kinds \subseteq DOMAIN Fields \ {"Coin"}     \* a coin is not sent alone
    /\ Texts \subseteq Seq(0..255) /\ Bytes \subseteq 0..255
    /\ Uints \subseteq 0 .. Uint64 - 1
    /\ \A s \in Texts : Len(s) + 1 + Groups < Half   \* it fits, with tag and length

VARIABLES
    kind,   \* the message being sent
    wire,   \* its bytes so far
    expect, \* what they mean: a message, or the error they must give
    seen,   \* the length of wire after each field -> the message meant there
    odd,    \* fields sent with an unusual tag or count
    junk    \* bytes of no meaning sent

vars == <<kind, wire, expect, seen, odd, junk>>

Init ==
    /\ kind \in Kinds
    /\ wire = <<>> /\ expect = Done(New(kind))
    /\ seen = [n \in {0} |-> New(kind)]
    /\ odd = 0 /\ junk = 0

-----------------------------------------------------------------------------
(* What a field means, by the protobuf rules: the last singular value      *)
(* counts, elements accumulate, and two values of an embedded message      *)
(* merge, field by field.                                                  *)

Merged(p, q) == [n \in DOMAIN p |-> IF q[n] = <<>> THEN p[n] ELSE q[n]]
Meant(f, old, v) ==
    CASE f.type \in {"text", "uint"}    -> v
      [] f.type \in {"strings", "msgs"} -> old \o <<v>>
      [] f.type = "msg"                 -> Merged(old, v)

\* The contents a field is sent with: every text or number, or an element or
\* embedded message with one field sent, num, as the text s.
Contents(f) ==
    CASE f.type \in {"text", "strings"} -> Texts
      [] f.type = "uint"                -> Uints
      [] OTHER -> [num : DOMAIN Fields[f.of], s : Texts]

\* What such contents are in bytes, and what they mean; the text of an amount
\* may be none of a number.
Inner(f, v) == Fields[f.of][v.num]
Body(f, v)  == IF f.type \in {"msg", "msgs"} THEN PutText(v.num, v.s) ELSE v
NoNumber(f, v) ==
    f.type \in {"msg", "msgs"} /\ Inner(f, v) = Amount /\ v.s \notin DOMAIN NumberOf \cup {<<>>}
Says(f, v) ==
    IF f.type \notin {"msg", "msgs"} THEN v
    ELSE [New(f.of) EXCEPT ![Inner(f, v).name] =
             IF Inner(f, v) = Amount /\ v.s # <<>> THEN NumberOf[v.s] ELSE v.s]

\* A varint of the same value in one byte more, and one whose last byte
\* carries a bit the receiver's word has no place for.
Longer(s)  == [k \in DOMAIN s |-> IF k = Len(s) THEN s[k] + 128 ELSE s[k]] \o <<0>>
Wrapped(s) == [k \in 1..Groups |->
                  LET byte == IF k <= Len(s) THEN s[k] % 128 ELSE 0
                  IN  IF k < Groups THEN byte + 128 ELSE byte + 2]
Unusual(s) == {Wrapped(s)} \cup (IF Len(s) < Groups THEN {Longer(s)} ELSE {})

\* A tag of wire type wt and a count (a length, or the value of a uint64), as
\* an encoder writes them, and the unusual ways: also the tag of a number that
\* is cut to num.
Plain(num, wt, n) == VarintBytes(num * 8 + wt) \o VarintBytes(n)
Odd(num, wt, n) ==
    LET tag == VarintBytes(num * 8 + wt)  count == VarintBytes(n)
    IN  {t \o count : t \in Unusual(tag) \cup {VarintBytes((num + FieldUint) * 8 + wt)}}
        \cup {tag \o c : c \in Unusual(count)}

\* Fields no message has: one of every wire type, a group with a field and a
\* group in it, and a text that looks like a known field.
Foreign == 15
ForeignFields ==
    LET tag(wt) == Foreign * 8 + wt
    IN  { <<tag(0), 128, 1>>, <<tag(1), 10, 0, 0, 0, 0, 0, 0, 10>>, <<tag(2), 2, 10, 0>>,
          <<tag(3), tag(3), tag(4), 8, 1, tag(4)>>, <<tag(5), 10, 1, 8, 128>> }

Arrives(bytes, result) ==
    /\ Len(wire) + Len(bytes) < Half        \* the length of a slice is an int
    /\ wire' = wire \o bytes
    /\ expect' = result
    /\ seen' = IF Ok(result)
               THEN [n \in DOMAIN seen \cup {Len(wire')} |->
                       IF n \in DOMAIN seen THEN seen[n] ELSE result.msg]
               ELSE seen
    /\ UNCHANGED <<kind, junk>>

Open == junk = 0 /\ Ok(expect) /\ Cardinality(DOMAIN seen) <= MaxFields

-----------------------------------------------------------------------------
(* The sender. *)

\* A field the message declares; result is the message meant then, or the
\* mistake in what the field holds.
Sends(num, wt, count, body, result) ==
    /\ Open
    /\ \/ Arrives(Plain(num, wt, count) \o body, result) /\ UNCHANGED odd
       \/ /\ odd < MaxOdd /\ odd' = odd + 1
          /\ \E head \in Odd(num, wt, count) : Arrives(head \o body, result)
SendsData(num, data, result) == Sends(num, 2, Len(data), data, result)
SendField(num, v) ==
    LET f      == Fields[kind][num]
        result == IF NoNumber(f, v) THEN Failed("NotANumber")
                  ELSE Done([expect.msg EXCEPT ![f.name] = Meant(f, @, Says(f, v))])
    IN  IF f.type = "uint" THEN Sends(num, 0, v, <<>>, result)
        ELSE SendsData(num, Body(f, v), result)

\* A field of a schema this node does not know.
SendForeign ==
    /\ Open
    /\ \E bytes \in ForeignFields : Arrives(bytes, expect)
    /\ UNCHANGED odd

\* A field the message declares, with another wire type.
SendWrongType(num) ==
    LET f == Fields[kind][num] IN
    /\ Open
    /\ \E bytes \in { <<num * 8 + wt, 0>> : wt \in {0, 1, 2, 3, 5} \ {IF f.type = "uint" THEN 0 ELSE 2} } :
          Arrives(bytes, Failed("WrongWireType"))
    /\ UNCHANGED odd

\* An end of a group that never began; a field number 0; a negative length;
\* a varint without an end; a group in which a second one ends; a wire type
\* there is none of.
SendRefused ==
    /\ Open
    /\ \E r \in { << <<8 + 4>>, "EndGroup">>, << <<2, 0>>, "IllegalTag">>,
                  << <<Foreign * 8 + 2>> \o [k \in 1..Groups |-> IF k < Groups THEN 255 ELSE 1],
                     "InvalidLength">>,
                  << [k \in 1..Groups |-> 128], "IntOverflow">>,
                  << <<Foreign * 8 + 6, 0>>, "IllegalWireType">> } :
          Arrives(r[1], Failed(r[2]))
    /\ UNCHANGED odd

\* A byte of no meaning: whatever follows it has none either.
SendJunk(byte) ==
    /\ junk < MaxJunk /\ Len(wire) < JunkWithin
    /\ wire' = Append(wire, byte) /\ junk' = junk + 1
    /\ expect' = Failed("Unknown")
    /\ UNCHANGED <<kind, seen, odd>>

Next ==
    \/ \E num \in DOMAIN Fields[kind] :
          \/ \E v \in Contents(Fields[kind][num]) : SendField(num, v)
          \/ SendWrongType(num)
    \/ SendForeign
    \/ SendRefused
    \/ \E byte \in Bytes : SendJunk(byte)

Spec == Init /\ [][Next]_vars

-----------------------------------------------------------------------------
(* Properties. *)

\* However the fields are spelled, ordered and repeated, and whatever a newer
\* schema put between them, Unmarshal returns the message they mean by the
\* protobuf rules, or the error of the first mistake.
DecodesAsMeant == junk = 0 => Unmarshal(kind, wire) = expect

\* Where the last field began: shorter cuts were cuts of the message before.
LastField == IF wire = <<>> THEN 0 ELSE Max(DOMAIN seen \ {Len(wire)})

\* A message cut short is never taken for another one: Unmarshal runs out of
\* input, unless the cut falls between two fields, and then it returns what
\* had been said by then.
CutIsNoticed ==
    junk = 0 /\ Ok(expect) =>
        \A n \in LastField..(Len(wire) - 1) : \A cut \in {SubSeq(wire, 1, n)} :
            Unmarshal(kind, cut) =
                IF n \in DOMAIN seen THEN Done(seen[n]) ELSE Failed("UnexpectedEOF")

\* No bytes make Unmarshal read outside its input.
ReadsInside == Unmarshal(kind, wire).err # "Panic"

\* The messages that hold coins.
WithCoins == {"Coin"} \cup
    {k \in DOMAIN Fields : \E f \in ToSet(Fields[k]) : f.type = "msgs" /\ f.of = "Coin"}

\* What Unmarshal accepts Marshal can write again, as far as its Size is a
\* length a slice can have: the size fits, and the bytes decode to the same
\* message.  They are no more than were read, but for the tag and the length
\* of an embedded message, which is written even if none was read; coins may
\* take more than that, as their amount is written in full even if it was not
\* sent, or not in decimal.
AcceptedIsRewritable ==
    Len(wire) + 2 < Half => \A r \in {Unmarshal(kind, wire)} : Ok(r) =>
        /\ kind \notin WithCoins => SizeOf(kind, r.msg) <= Len(wire) + 2
        /\ SizeOf(kind, r.msg) < Half =>
              \E again \in {Marshal(kind, r.msg)} :
                 Ok(again) /\ Len(again.msg) = SizeOf(kind, r.msg) /\ Unmarshal(kind, again.msg) = r

\* Params.Equal holds exactly of the values that are stored as the same bytes
\* (the parameters are kept in the store as their encoding).
EqualIsSameBytes ==
    kind = "Params" /\ Ok(expect) =>
        \A n \in DOMAIN seen :
            ParamsEqual(expect.msg, seen[n]) <=>
                Marshal("Params", expect.msg) = Marshal("Params", seen[n])
=============================================================================
