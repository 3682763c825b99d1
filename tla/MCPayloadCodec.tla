--------------------------- MODULE MCPayloadCodec ---------------------------
(* Instances of PayloadCodec for TLC: payloads a signer builds, and CBOR   *)
(* as this and other encoders might write it.                              *)
EXTENDS PayloadCodec, TLC

H == Bstr(Hash32)
Fixed == 1 :> H @@ 2 :> Uint(0)
With(k, v) == <<"payload", Fixed @@ k :> v>>

RECURSIVE Nested(_)
Nested(d) == IF d = 0 THEN Uint(0) ELSE Map(<< <<1, Nested(d - 1)>> >>)

(* Extension maps: of up to three entries under two keys, in any order and *)
(* with a key twice, and maps nested up to four deep.                      *)
Leaves == {Uint(0), Bstr("b"), Map(<<>>), Map(<< <<2, Uint(0)>>, <<1, Uint(0)>> >>)}
Extensions ==
  {Map(s) : s \in UNION {[1..n -> {1, 2} \X Leaves] : n \in 0..2}}
    \cup {Map([i \in 1..3 |-> <<i, Uint(0)>>]), Map([i \in 1..4 |-> <<i, Uint(0)>>])}
    \cup {Nested(d) : d \in 1..4}

Optional == {3, 4, 5, 6, 8, 10}
FieldOf(k) == IF FieldType(k) = "uint" THEN Uint(1) ELSE H

SignerPayloads ==
  {<<"payload", Fixed @@ [k \in ks |-> FieldOf(k)]>> : ks \in SUBSET Optional}
    \cup {With(7, e) : e \in Extensions}
    \cup {<<"payload", Fixed @@ 7 :> e @@ 8 :> H>> : e \in Extensions}

(* CBOR: every pair of entries, heads of both widths, every value allowed  *)
(* or not under each key.                                                  *)
Heads == {Item(v, w) : v \in {Uint(1), Uint(9), H, Bstr("31 bytes")}, w \in Widths}
  \cup {Other, Text, Simple}
  \cup {Short(Array(<<i>>)) : i \in {Short(Uint(1)), Simple, Other}}
RECURSIVE AsWritten(_)
AsWritten(v) ==
  IF Type(v) = "map"
  THEN Short(Map([i \in DOMAIN Content(v) |->
         <<Short(Uint(Content(v)[i][1])), AsWritten(Content(v)[i][2])>>]))
  ELSE Short(v)
Start == << <<Short(Uint(1)), Short(H)>>, <<Short(Uint(2)), Short(Uint(8))>> >>
Third == {<<Item(Uint(k), w), h>> : k \in Fields \cup {9, 100}, w \in Widths, h \in Heads}

CallerWires ==
  {Short(Map(Start \o <<p>>)) : p \in Third}
    \cup {Short(Map(<<p>> \o Start)) : p \in Third}
    \cup {Short(Map(<<Start[1], <<Short(Uint(2)), h>> >>)) : h \in Heads}
    \cup {Item(Map(s), w) : s \in {Start, SubSeq(Start, 1, 1), <<Start[2], Start[1]>>}, w \in Widths}
    \cup {Short(Map(Start \o << <<Short(Uint(7)), AsWritten(e)>> >>)) : e \in Extensions}
    \cup {Short(Map(Start \o << <<Short(Uint(7)), AsWritten(e)>>, <<Short(Uint(8)), Short(H)>> >>))
            : e \in Extensions}
ByteStrings == {Hash32, "31 bytes", "b"}
=============================================================================
