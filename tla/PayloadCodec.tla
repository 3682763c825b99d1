---------------------------- MODULE PayloadCodec ----------------------------
(* cbor.rs: the encoder and the decoder of payloads, and the re-encoding   *)
(* test by which the verifier recognises deterministic CBOR. A payload is  *)
(* built by a signer, or decoded from the CBOR a caller of the bindings    *)
(* hands over, and its encoding is then read by the verifier.              *)
EXTENDS Naturals, Sequences, FiniteSets

CONSTANTS
  Payloads,    \* what a signer may build
  Wires,       \* what a caller, or the network, may hand over as CBOR
  Bytes,       \* byte strings
  MaxNesting,  \* how deep the values under the fields of either nest
  MaxDepth,    \* MAX_CBOR_DEPTH
  MaxEntries   \* MAX_MAP_ENTRIES

Error == <<"error">>

(* A value of the extension map: an unsigned integer, a byte string, a map *)
(* given as a sequence of <<key, value>>, or an array.                     *)
Uint(n)  == <<"uint", n>>
Bstr(b)  == <<"bstr", b>>
Map(ps)  == <<"map", ps>>
Array(s) == <<"array", s>>
Type(v) == v[1]
Content(v) == v[2]

(* The values that nest at most d deep, level by level: what is made of    *)
(* the values in S, and that of nothing at the bottom.                     *)
ValueOver(S) ==
  ({"uint"} \X Nat) \cup ({"bstr"} \X Bytes)
    \cup ({"map"} \X Seq(Nat \X S)) \cup ({"array"} \X Seq(S))
Value[d \in 0..MaxNesting] == ValueOver(IF d = 0 THEN {} ELSE Value[d - 1])

(* CBOR is the same tree with the width of each head: "short", or "long"   *)
(* for a head wider than its number needs. Two kinds are only ever skipped: *)
(* "text", text, negative integers, and a last number or string that the   *)
(* end of the bytes cuts off; and "simple", true, null and the simple      *)
(* values without a name. "other" is refused everywhere: false, undefined, *)
(* floats and simple values of two bytes. Tags are left out.               *)
Item(v, width) == <<Type(v), Content(v), width>>
Short(v) == Item(v, "short")
Text == <<"text", 0, "short">>
Simple == <<"simple", 0, "short">>
Other == <<"other", 0, "short">>
Widths == {"short", "long"}

ItemOver(S) ==
  ({"uint"} \X Nat \X Widths) \cup ({"bstr"} \X Bytes \X Widths)
    \cup ({"map"} \X Seq(S \X S) \X Widths) \cup ({"array"} \X Seq(S) \X Widths)
    \cup {Text, Simple, Other}
ItemTree[d \in 0..MaxNesting] == ItemOver(IF d = 0 THEN {} ELSE ItemTree[d - 1])

(* A function defined level by level: its values one level down.           *)
Below(f, d) == IF d = 0 THEN <<>> ELSE f[d - 1]

(* A payload maps the key of every field it has to the field's value.      *)
Hash32 == "32 bytes"
Fields == {1, 2, 3, 4, 5, 6, 7, 8, 10}
Predicates == 0..8
FieldType(k) == CASE k \in {1, 3, 5, 6, 8} -> "hash" [] k = 2 -> "predicate"
                  [] k = 4 -> "uint" [] k = 7 -> "map" [] k = 10 -> "bstr"

(* VeraxPayload, and the CBOR that a payload is encoded as.                *)
FieldValue(k) ==
  CASE FieldType(k) = "hash" -> {Bstr(Hash32)}
    [] FieldType(k) = "predicate" -> {"uint"} \X Predicates
    [] FieldType(k) = "uint" -> {"uint"} \X Nat
    [] FieldType(k) = "bstr" -> {"bstr"} \X Bytes
    [] FieldType(k) = "map"  -> {v \in Value[MaxNesting] : Type(v) = "map"}
IsPayload(p) ==
  /\ p = <<"payload", Content(p)>>
  /\ {1, 2} \subseteq DOMAIN Content(p) /\ DOMAIN Content(p) \subseteq Fields
  /\ Content(p) = [k \in DOMAIN Content(p) |-> Content(p)[k]]
  /\ \A k \in DOMAIN Content(p) : Content(p)[k] \in FieldValue(k)
PayloadItem == ItemOver(ItemTree[MaxNesting])

ASSUME CodecAssumption ==
  /\ MaxDepth \in Nat /\ MaxEntries \in Nat /\ MaxNesting \in Nat /\ Hash32 \in Bytes
  /\ \A p \in Payloads : IsPayload(p)
  /\ Wires \subseteq PayloadItem

----------------------------------------------------------------------------
(* The encoder *)

(* The members of a set in order, given the members before each of them.   *)
Ranked(before) ==
  [k \in 1..Cardinality(DOMAIN before) |->
     CHOOSE x \in DOMAIN before : Cardinality(before[x]) = k - 1]

Unsorted(ps) == ps
(* sort_by_key is stable.                                                  *)
SortedByKey(ps) ==
  LET before == [j \in DOMAIN ps |-> {i \in DOMAIN ps :
                   ps[i][1] < ps[j][1] \/ (ps[i][1] = ps[j][1] /\ i < j)}]
  IN [k \in DOMAIN ps |-> ps[Ranked(before)[k]]]

(* Each level's encoder is made of the one below.                          *)
encode_entries(inner, ps) ==
  Short(Map([i \in DOMAIN ps |-> <<Short(Uint(ps[i][1])), inner[ps[i][2]]>>]))
Encoder(inner, d) ==
  [v \in Value[d] |->
     CASE Type(v) \in {"uint", "bstr"} -> Short(v)
       [] Type(v) = "map"   -> encode_entries(inner, SortedByKey(Content(v)))
       [] Type(v) = "array" ->
            Short(Array([i \in DOMAIN Content(v) |-> inner[Content(v)[i]]]))]
encode_value[d \in 0..MaxNesting] == Encoder(Below(encode_value, d), d)

(* The fields in the order in which they are pushed, the extension map     *)
(* last, the absent ones and an empty extension map left out; then they    *)
(* are sorted.                                                             *)
Pushed(f) ==
  LET keys == {k \in DOMAIN f : ~(k = 7 /\ f[k] = Map(<<>>))}
      before == [k \in keys |-> {j \in keys : j # 7 /\ (k = 7 \/ j < k)}]
  IN [i \in 1..Cardinality(keys) |-> <<Ranked(before)[i], f[Ranked(before)[i]]>>]
Entries(f) == SortedByKey(Pushed(f))
encode_payload(p) == encode_entries(encode_value[MaxNesting], Entries(Content(p)))

----------------------------------------------------------------------------
(* The decoder: a value, or Error *)

check_shortest_encoding(i) == i[3] = "short"

decode_head(i, type) ==
  IF Type(i) = type /\ check_shortest_encoding(i) THEN <<type, Content(i)>> ELSE Error
decode_uint(i) == decode_head(i, "uint")
decode_bstr(i) == decode_head(i, "bstr")

FewerEntries(n) == n < MaxEntries
bounded_usize(n) == n <= MaxEntries

(* decode_map_len, then the bound: the map's items, or Error.              *)
map_items(i) ==
  LET m == decode_head(i, "map")
  IN IF m # Error /\ bounded_usize(Len(Content(m))) THEN m ELSE Error

(* Nested maps are taken in the order they come in, whatever it is; a map  *)
(* adds to the depth as a value and again as a map. inner reads the values *)
(* one level down.                                                         *)
decode_map_value_depth(inner, i, depth) ==
  IF depth > MaxDepth \/ map_items(i) = Error THEN Error
  ELSE LET ps == Content(i)
           keys == [j \in DOMAIN ps |-> decode_uint(ps[j][1])]
           vals == [j \in DOMAIN ps |-> inner[ps[j][2]][depth + 1]]
       IN IF \E j \in DOMAIN ps : Error \in {keys[j], vals[j]} THEN Error
          ELSE Map([j \in DOMAIN ps |-> <<Content(keys[j]), vals[j]>>])

ValueReader(inner, d) ==
  [i \in ItemTree[d] |-> [depth \in Nat |->
     IF depth > MaxDepth THEN Error
     ELSE CASE Type(i) = "uint" -> decode_uint(i)
            [] Type(i) = "bstr" -> decode_bstr(i)
            [] Type(i) = "map"  -> decode_map_value_depth(inner, i, depth + 1)
            [] OTHER            -> Error]]
decode_any_value_depth[d \in 0..MaxNesting] ==
  ValueReader(Below(decode_any_value_depth, d), d)

ValidPredicate(v) == v = Error \/ Content(v) \in Predicates

decode_field(k, i) ==
  CASE FieldType(k) = "hash" ->
         IF decode_bstr(i) = Bstr(Hash32) THEN Bstr(Hash32) ELSE Error
    [] FieldType(k) = "predicate" ->
         IF ValidPredicate(decode_uint(i)) THEN decode_uint(i) ELSE Error
    [] FieldType(k) = "uint" -> decode_uint(i)
    [] FieldType(k) = "bstr" -> decode_bstr(i)
    [] FieldType(k) = "map"  ->
         decode_map_value_depth(Below(decode_any_value_depth, MaxNesting), i, 0)

(* skip_value: what is under a key from 100 on is passed over, heads of any*)
(* width, arrays, text, true and null included. The items skipped, by depth.*)
Skipped(inner, d) ==
  [depth \in Nat |-> {i \in ItemTree[d] :
     /\ depth <= MaxDepth /\ Type(i) # "other"
     /\ Type(i) = "array" => \A j \in DOMAIN Content(i) : Content(i)[j] \in inner[depth + 1]
     /\ Type(i) = "map" =>
          \A j \in DOMAIN Content(i), part \in {1, 2} : Content(i)[j][part] \in inner[depth + 1]}]
skip_value_depth[d \in 0..MaxNesting] == Skipped(Below(skip_value_depth, d), d)

Ascending(keys) == \A j \in DOMAIN keys : keys[j] > IF j = 1 THEN 0 ELSE keys[j - 1]

decode_payload(i) ==
  IF map_items(i) = Error THEN Error
  ELSE LET ps == Content(i)
           heads == [j \in DOMAIN ps |-> decode_uint(ps[j][1])]
           key == [j \in DOMAIN ps |-> Content(heads[j])]
           Read(j) == IF key[j] \in Fields THEN decode_field(key[j], ps[j][2])
                      ELSE IF key[j] >= 100 /\ ps[j][2] \in skip_value_depth[MaxNesting][0]
                      THEN ps[j][2]
                      ELSE Error
           present == {key[j] : j \in DOMAIN ps} \cap Fields
       IN IF \/ \E j \in DOMAIN ps : heads[j] = Error
             \/ ~Ascending(key)
             \/ \E j \in DOMAIN ps : Read(j) = Error
             \/ ~({1, 2} \subseteq present)
          THEN Error
          ELSE <<"payload", [k \in present |-> Read(CHOOSE j \in DOMAIN ps : key[j] = k)]>>

is_strictly_deterministic(i) ==
  decode_payload(i) # Error /\ encode_payload(decode_payload(i)) = i

----------------------------------------------------------------------------
(* The way of a payload *)

VARIABLES
  stage,    \* "built", "handed", "sent", "refused" or "judged"
  payload,  \* what is signed, Error when nothing has been
  wire,     \* the CBOR, Error when there is none yet
  read,     \* what the verifier decodes
  accepted

vars == <<stage, payload, wire, read, accepted>>

Init ==
  /\ read = Error /\ accepted = FALSE
  /\ \/ stage = "built" /\ payload \in Payloads /\ wire = Error
     \/ stage = "handed" /\ payload = Error /\ wire \in Wires

(* The bindings decode the CBOR they are given and sign the result.        *)
Import ==
  /\ stage = "handed"
  /\ stage' = IF decode_payload(wire) = Error THEN "refused" ELSE "built"
  /\ payload' = decode_payload(wire)
  /\ UNCHANGED <<wire, read, accepted>>

Sign ==
  /\ stage = "built" /\ stage' = "sent" /\ wire' = encode_payload(payload)
  /\ UNCHANGED <<payload, read, accepted>>

(* Bytes that no signer of this library encoded.                           *)
Forward == stage = "handed" /\ stage' = "sent" /\ UNCHANGED <<payload, wire, read, accepted>>

Verify ==
  /\ stage = "sent" /\ stage' = "judged"
  /\ accepted' = is_strictly_deterministic(wire) /\ read' = decode_payload(wire)
  /\ UNCHANGED <<payload, wire>>

Next == Import \/ Sign \/ Forward \/ Verify
Spec == Init /\ [][Next]_vars

----------------------------------------------------------------------------
(* Properties *)

Judged == stage = "judged"

(* Every variable keeps its type: what is read is a payload with the two   *)
(* required fields and a known predicate.                                  *)
TypeOK ==
  /\ stage \in {"built", "handed", "sent", "refused", "judged"}
  /\ accepted \in BOOLEAN
  /\ read # Error =>
       /\ {1, 2} \subseteq DOMAIN Content(read) /\ DOMAIN Content(read) \subseteq Fields
       /\ \A k \in DOMAIN Content(read) : FieldType(k) = "hash" => Content(read)[k] = Bstr(Hash32)
       /\ Content(Content(read)[2]) \in Predicates

(* cbor.rs:7-18, rules 1 to 6 at every depth: only plain values, shortest  *)
(* heads, keys in order.                                                   *)
CanonicalOver(S) ==
  LET Scalar(type, C) == {type} \X C \X {"short"}
      Ordered == {ps \in Seq(Scalar("uint", Nat) \X S) : \A j, k \in DOMAIN ps :
                    j < k => Content(ps[j][1]) <= Content(ps[k][1])}
  IN Scalar("uint", Nat) \cup Scalar("bstr", Bytes) \cup ({"map"} \X Ordered \X {"short"})
Canonical[d \in 0..MaxNesting] == CanonicalOver(IF d = 0 THEN {} ELSE Canonical[d - 1])

(* What the re-encoding test accepts is canonical throughout, also where   *)
(* the decoder itself looks at nothing: the order of a nested map's keys.  *)
AcceptedIsCanonical == Judged /\ accepted => wire \in CanonicalOver(Canonical[MaxNesting])

(* What the decoder can give back: no map inside MaxDepth / 2 others or    *)
(* with more than MaxEntries entries, no array, keys in order.             *)
MapFits(inner, v, depth) ==
  /\ depth <= MaxDepth /\ Len(Content(v)) <= MaxEntries
  /\ \A j \in DOMAIN Content(v) : Content(v)[j][2] \in inner[depth + 1]
FitsOver(inner, d) ==
  [depth \in Nat |-> {v \in Value[d] :
     depth <= MaxDepth /\ Type(v) # "array" /\ (Type(v) = "map" => MapFits(inner, v, depth + 1))}]
Fits[d \in 0..MaxNesting] == FitsOver(Below(Fits, d), d)

InOrder(ps) == \A j, k \in DOMAIN ps : j < k => ps[j][1] <= ps[k][1]
SortedOver(S) ==
  ({"uint"} \X Nat) \cup ({"bstr"} \X Bytes) \cup ({"map"} \X {ps \in Seq(Nat \X S) : InOrder(ps)})
Sorted[d \in 0..MaxNesting] == SortedOver(IF d = 0 THEN {} ELSE Sorted[d - 1])

Readable(p) ==
  LET f == Content(p)
  IN /\ Cardinality(DOMAIN f) <= MaxEntries
     /\ 7 \in DOMAIN f => /\ f[7] # Map(<<>>) /\ f[7] \in Sorted[MaxNesting]
                          /\ MapFits(Below(Fits, MaxNesting), f[7], 0)

(* A signer's payload within the decoder's limits is accepted and read     *)
(* back field by field.                                                    *)
SignedIsReadBack ==
  Judged /\ payload # Error /\ Readable(payload) => accepted /\ read = payload

(* Whatever CBOR without tags the bindings decode, with long heads, nulls  *)
(* and text in what they skip, unknown keys, nested maps in any order, they *)
(* sign a payload that verifies, and that decodes to itself from then on.  *)
ImportedVerifies ==
  Judged /\ payload # Error /\ payload \in {decode_payload(w) : w \in Wires} =>
    accepted /\ encode_payload(read) = wire

=============================================================================
