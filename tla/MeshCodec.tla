------------------------------ MODULE MeshCodec ------------------------------
(***************************************************************************)
(* How a mesh message crosses the serial line: encodeMeshMessage and       *)
(* decodeMeshMessage of Serial_Adapter.cpp over nanopb's encoder and       *)
(* decoder (pb_encode.c, pb_decode.c, pb_common.c) for the one message of  *)
(* mesh.proto.                                                             *)
(*                                                                         *)
(* The encoder takes a step per field of the descriptor, the decoder a     *)
(* step per tag on the wire.  Bytes are bytes: GroupBits is 7, and lengths *)
(* and tags are laid out as on the device.  Only the widths of the         *)
(* integers are parameters, because TLC cannot count to 2^64: an uint32_t  *)
(* has WordGroups groups and RestBits bits, an uint64_t WideGroups groups  *)
(* and one bit (4, 4 and 9 on the device).  Of nanopb the module keeps the *)
(* branches that a descriptor of STATIC fields of the types UVARINT,       *)
(* SVARINT, FIXED_LENGTH_BYTES and (optional, with a has_ flag) BYTES can  *)
(* reach: no submessages, arrays, oneofs, callbacks, extensions, defaults. *)
(*                                                                         *)
(* The server's side is external: it sends any sequence of well-formed     *)
(* protobuf fields, in any order, repeated or unknown to this version of   *)
(* the message, and the line may end a frame early.                        *)
(***************************************************************************)
EXTENDS Integers, Sequences, SequencesExt, FiniteSetsExt

CONSTANTS
  GroupBits,    \* payload bits of a varint byte
  WordGroups,   \* full groups of an uint32_t
  RestBits,     \* its remaining bits
  WideGroups,   \* full groups of an uint64_t, which has one bit more
  ShortBits,    \* bits of an uint16_t
  MacLen, DataLen, KeyLen,  \* lengths of the byte fields
  CopyLen,      \* data bytes that decodeMeshMessage copies
  RelayCap,     \* MAX_PAYLOAD, the buffer of onMeshDataImpl
  EnrollCap,    \* the buffer of relayEnrollmentToServer
  OwnMac,       \* what readOwnMac reads
  MeshMessage,  \* messages that encodeMeshMessage may have to forward
  NewNode,      \* <<MAC, public key>> of nodes that ask to be enrolled
  ServerField,  \* fields the server sends
  WideNumber,   \* numbers below 2^63 for which the varint algorithms are compared
  MaxFields     \* bound on the fields of one frame

Pow(n) == 2 ^ n
Cont == Pow(GroupBits)                       \* 0x80, the continuation bit
WordBits == WordGroups * GroupBits + RestBits
WideBits == WideGroups * GroupBits + 1
Zeros(n) == [i \in 1 .. n |-> 0]

\* What the constants have to be (assumed where they get their values).
WidthAssumption ==
  /\ GroupBits = 7
  /\ WordGroups \in Nat \ {0} /\ RestBits \in 2 .. (GroupBits - 1)
  /\ WideGroups \in Nat /\ WideBits > WordBits
  /\ ShortBits \in 1 .. WordBits
LengthAssumption ==
  /\ {MacLen, DataLen, KeyLen, CopyLen} \subseteq 1 .. (Pow(ShortBits) - 1)
  /\ CopyLen <= DataLen
  /\ RelayCap \in Nat /\ EnrollCap \in Nat /\ MaxFields \in Nat
  /\ OwnMac \in [1 .. MacLen -> 0 .. (2 * Cont - 1)]

-----------------------------------------------------------------------------
(* The message, as mesh.proto describes it *)

\* Wire types (pb_wire_type_t).
WT_VARINT == 0
WT_64BIT == 1
WT_STRING == 2
WT_32BIT == 5

Field(tag, ltype, size) == [tag |-> tag, ltype |-> ltype, size |-> size]

\* mesh_MeshMessage_FIELDLIST; the order of the tags is the order of the list.
FieldList ==
  << Field(1, "UVARINT", 0),       \* messageType
     Field(2, "SVARINT", 0),       \* dataType
     Field(3, "FIXED", MacLen),    \* originMacAddress
     Field(4, "FIXED", MacLen),    \* targetMacAddress
     Field(5, "FIXED", MacLen),    \* lastHopMacAddress
     Field(6, "BYTES", DataLen),   \* data
     Field(7, "UVARINT", 0),       \* hopCount
     Field(8, "UVARINT", 0),       \* epochNum
     Field(9, "UVARINT", 0),       \* seqNum
     Field(10, "UVARINT", 0),      \* protoVersion
     Field(11, "BYTES", KeyLen) >> \* public_key

LargestTag == 11

\* A BYTES field in the struct: has_..., size and the whole array.
Bytes(s, size) == [has |-> TRUE, size |-> Len(s), bytes |-> s \o Zeros(size - Len(s))]

\* pb_field_set_to_default, and with it pb_message_set_to_defaults.
ZeroOf(f) ==
  CASE f.ltype \in {"UVARINT", "SVARINT"} -> 0
    [] f.ltype = "FIXED" -> Zeros(f.size)
    [] f.ltype = "BYTES" -> [has |-> FALSE, size |-> 0, bytes |-> Zeros(f.size)]

\* The iterator wraps to the first field after the last one.
advance_iterator(i) == IF i < Len(FieldList) THEN i + 1 ELSE 1

Zeroed == [i \in DOMAIN FieldList |-> ZeroOf(FieldList[i])]

VARIABLES
  phase,     \* what the serial adapter is doing
  msg,       \* the mesh message to encode
  cap,       \* size of the output buffer
  pbMsg,     \* the struct being encoded or decoded
  index,     \* the field iterator
  out,       \* bytes written, or sent by the server
  input,     \* bytes not yet read by the decoder
  outMsg,    \* what decodeMeshMessage returns
  \* History, not state of the program:
  fields,    \* the protobuf fields that `out` stands for
  cut        \* number of bytes of `out` that arrived

vars == <<phase, msg, cap, pbMsg, index, out, input, outMsg, fields, cut>>

None == [messageType |-> -1]

-----------------------------------------------------------------------------
(* Varints *)

\* The i-th group of GroupBits bits of v, counted from zero.
Group(v, i) == (v \div Pow(GroupBits * i)) % Cont

\* All bytes but the last say that more follow.
Continued(groups) ==
  [i \in DOMAIN groups |-> IF i < Len(groups) THEN groups[i] + Cont ELSE groups[i]]

\* Number of times v can be shifted by GroupBits before nothing is left.
Shifts(v) == Min({j \in 0 .. WideGroups : v \div Pow(GroupBits * j) = 0})

\* Mutant: the first loop forgets that the upper word still has bits.
pb_encode_varint_32_LowOnly(low, high) ==
  LET last == Min({i \in 0 .. WordGroups : i = WordGroups \/ low \div Pow(GroupBits * (i + 1)) = 0})
  IN Continued([i \in 1 .. last + 1 |-> Group(low, i - 1)])

\* The value comes in two words, to avoid 64-bit shifts: the group that straddles
\* them takes its upper bits from the second one.
pb_encode_varint_32(low, high) ==
  LET last == Min({i \in 0 .. WordGroups :
                     i = WordGroups \/ (high = 0 /\ low \div Pow(GroupBits * (i + 1)) = 0)})
      straddling == Group(low, last) + (high % Pow(GroupBits - RestBits)) * Pow(RestBits)
      above == high \div Pow(GroupBits - RestBits)
  IN Continued([i \in 1 .. last |-> Group(low, i - 1)] \o <<straddling>> \o
               [i \in 1 .. Shifts(above) |-> Group(above, i - 1)])

pb_encode_varint(v) ==
  IF v < Cont THEN <<v>>
              ELSE pb_encode_varint_32(v % Pow(WordBits), v \div Pow(WordBits))

\* Zigzag, in two's complement of WideBits bits: ~((v & mask) << 1) for negative v.
pb_encode_svarint(v) ==
  pb_encode_varint(IF v < 0 THEN Pow(WideBits) - 1 - 2 * (v + Pow(WideBits - 1)) ELSE 2 * v)

Failure == [ok |-> FALSE]
Success(value, rest) == [ok |-> TRUE, value |-> value, rest |-> rest]
From(in, n) == SubSeq(in, n, Len(in))

pb_read(in, n) == IF Len(in) < n THEN Failure ELSE Success(SubSeq(in, 1, n), From(in, n + 1))

\* The length of the varint at the head of `in`: 0 when it does not end.
VarintLen(in) ==
  LET ends == {i \in DOMAIN in : in[i] < Cont} IN IF ends = {} THEN 0 ELSE Min(ends)

BitPos(i) == GroupBits * (i - 1)

\* The value of the first n groups at the head of `in`.
Joined(in, n) ==
  LET Part(i) == (in[i] % Cont) * Pow(BitPos(i)) IN MapThenSumSet(Part, 1 .. n)

pb_decode_varint(in) ==
  LET n == VarintLen(in)
      Overflow(i) == BitPos(i) >= WideBits - 1 /\ in[i] >= 2
  IN IF n = 0 \/ \E i \in 1 .. n : Overflow(i)
       THEN Failure
       ELSE Success(Joined(in, n), From(in, n + 1))

\* pb_decode_varint32: bytes past the 32nd bit may only pad the number, with zeros
\* or with the sign.
pb_decode_varint32(in) ==
  LET n == VarintLen(in)
      word == Joined(in, Min({n, WordGroups + 1})) % Pow(WordBits)
      low == in[WordGroups + 1] % Cont
      StraddleBad == /\ n > WordGroups
                     /\ low \div Pow(RestBits) # 0
                     /\ low \div Pow(RestBits - 1) # Pow(GroupBits - RestBits + 1) - 1
      SignExtension(i) == IF BitPos(i) < WideBits - 1 THEN 2 * Cont - 1 ELSE 1
      PadBad(i) ==
        \/ BitPos(i) >= WideBits
        \/ in[i] % Cont # 0 /\ ~(word >= Pow(WordBits - 1) /\ in[i] = SignExtension(i))
  IN IF n = 0 \/ StraddleBad \/ (\E i \in WordGroups + 2 .. n : PadBad(i))
       THEN Failure
       ELSE Success(word, From(in, n + 1))

-----------------------------------------------------------------------------
(* nanopb: encoding a field *)

pb_encode_tag(wireType, tag) == pb_encode_varint(tag * 8 + wireType)

pb_encode_string(s) == pb_encode_varint(Len(s)) \o s

pb_encode_tag_for_field(f) ==
  pb_encode_tag(IF f.ltype \in {"UVARINT", "SVARINT"} THEN WT_VARINT ELSE WT_STRING, f.tag)

\* Mutant: zeros are written out like any other number.
IsEncoded_ZeroToo(f, v) == f.ltype = "BYTES" => v.has

\* Not pb_check_proto3_default_value: an optional field is left out without its has_
\* flag, an integer when it is zero, fixed bytes never.
IsEncoded(f, v) ==
  CASE f.ltype \in {"UVARINT", "SVARINT"} -> v # 0
    [] f.ltype = "BYTES" -> v.has
    [] f.ltype = "FIXED" -> f.size # 0

pb_enc_varint(f, v) == IF f.ltype = "UVARINT" THEN pb_encode_varint(v) ELSE pb_encode_svarint(v)
pb_enc_bytes(v) == pb_encode_string(SubSeq(v.bytes, 1, v.size))
pb_enc_fixed_length_bytes(v) == pb_encode_string(v)

encode_basic_field(f, v) ==
  pb_encode_tag_for_field(f) \o
  CASE f.ltype \in {"UVARINT", "SVARINT"} -> pb_enc_varint(f, v)
    [] f.ltype = "BYTES" -> pb_enc_bytes(v)
    [] f.ltype = "FIXED" -> pb_enc_fixed_length_bytes(v)

encode_field(f, v) == IF IsEncoded(f, v) THEN encode_basic_field(f, v) ELSE <<>>

\* pb_write: all of the bytes, or none and an error.
Fits(bytes) == Len(out) + Len(bytes) <= cap

-----------------------------------------------------------------------------
(* nanopb: decoding a field *)

\* Mutant: the search for a tag before the current one stops where it began.
pb_field_iter_find_ForwardOnly(i, tag) ==
  LET found == {j \in i .. Len(FieldList) : FieldList[j].tag = tag}
  IN IF found = {} THEN 0 ELSE Min(found)

\* From field i: forward and around to i again, or from the start up to i when the
\* tag is a smaller one; 0 when no field has the tag.
pb_field_iter_find(i, tag) ==
  LET seen == IF tag > LargestTag THEN {}
              ELSE IF tag < FieldList[i].tag THEN 1 .. i ELSE DOMAIN FieldList
      found == {j \in seen : FieldList[j].tag = tag}
  IN IF found = {} THEN 0 ELSE Min(found)

pb_skip_string(in) ==
  LET size == pb_decode_varint32(in) IN IF size.ok THEN pb_read(size.rest, size.value) ELSE Failure

\* pb_skip_varint has no limit: it reads on to the last byte of the number.
pb_skip_field(in, wireType) ==
  CASE wireType = WT_VARINT  -> IF VarintLen(in) = 0 THEN Failure ELSE pb_read(in, VarintLen(in))
    [] wireType = WT_64BIT -> pb_read(in, 8)
    [] wireType = WT_STRING  -> pb_skip_string(in)
    [] wireType = WT_32BIT -> pb_read(in, 4)
    [] OTHER              -> Failure

pb_decode_svarint(v) == IF v % 2 = 1 THEN -(v \div 2) - 1 ELSE v \div 2

\* The number must fit the 32-bit field ("integer too large").
pb_dec_varint(f, in) ==
  LET v == pb_decode_varint(in)
      signed == pb_decode_svarint(v.value)
  IN CASE ~v.ok -> Failure
       [] v.ok /\ f.ltype = "UVARINT" ->
            IF v.value < Pow(WordBits) THEN Success(v.value, v.rest) ELSE Failure
       [] v.ok /\ f.ltype = "SVARINT" ->
            IF signed \in -Pow(WordBits - 1) .. (Pow(WordBits - 1) - 1)
              THEN Success(signed, v.rest) ELSE Failure

\* Into the array of the struct; what a longer value left behind it stays there.
pb_dec_bytes(f, in, old) ==
  LET size == pb_decode_varint32(in)
      body == pb_read(size.rest, size.value)
  IN IF ~size.ok THEN Failure
     ELSE IF size.value > f.size \/ ~body.ok THEN Failure
     ELSE Success([has |-> TRUE, size |-> size.value,
                   bytes |-> body.value \o SubSeq(old.bytes, size.value + 1, f.size)], body.rest)

\* An empty string stands for zeros; any other length must be the right one.
pb_dec_fixed_length_bytes(f, in) ==
  LET size == pb_decode_varint32(in)
  IN IF ~size.ok THEN Failure
     ELSE IF size.value = 0 THEN Success(Zeros(f.size), size.rest)
     ELSE IF size.value # f.size THEN Failure
     ELSE pb_read(size.rest, f.size)

\* decode_field, decode_static_field and decode_basic_field.
decode_field(f, wireType, in, old) ==
  CASE f.ltype \in {"UVARINT", "SVARINT"} ->
         IF wireType = WT_VARINT THEN pb_dec_varint(f, in) ELSE Failure
    [] f.ltype = "BYTES" -> IF wireType = WT_STRING THEN pb_dec_bytes(f, in, old) ELSE Failure
    [] f.ltype = "FIXED" -> IF wireType = WT_STRING THEN pb_dec_fixed_length_bytes(f, in) ELSE Failure

-----------------------------------------------------------------------------
(* Serial_Adapter: the two conversions *)

ENROLLMENT == 2
SERIAL_CMD_BROADCAST == 3
JOIN_ACK == 4
Uint8 == Pow(8)
Uint16 == Pow(ShortBits)

\* Mutant: the key is taken along for enrollment requests only.
ToStruct_NoAckKey(m) ==
  << m.messageType, m.dataType, m.origin, m.target, m.lastHop, Bytes(m.data, DataLen),
     m.hopCount, m.epochNum, m.seqNum, m.protoVersion,
     IF m.messageType = ENROLLMENT /\ m.key # Zeros(KeyLen)
       THEN Bytes(m.key, KeyLen) ELSE ZeroOf(FieldList[11]) >>

\* encodeMeshMessage: all of the data, and a key that is not zero for the two
\* message types that have one.
ToStruct(m) ==
  << m.messageType, m.dataType, m.origin, m.target, m.lastHop, Bytes(m.data, DataLen),
     m.hopCount, m.epochNum, m.seqNum, m.protoVersion,
     IF m.messageType \in {ENROLLMENT, JOIN_ACK} /\ m.key # Zeros(KeyLen)
       THEN Bytes(m.key, KeyLen) ELSE ZeroOf(FieldList[11]) >>

\* decodeMeshMessage: casts to the narrower fields of mesh_message, the first bytes
\* of the data, the whole key array whatever its size, and the node's own MAC
\* where the server has none to give.
ToMessage(p) ==
  LET type == p[1] % Uint8
      keepsMacs == type \in {JOIN_ACK, SERIAL_CMD_BROADCAST}
      n == IF p[6].has THEN Min({p[6].size, CopyLen}) ELSE 0
  IN [messageType |-> type, dataType |-> p[2],
      origin |-> IF keepsMacs THEN p[3] ELSE OwnMac,
      target |-> p[4],
      lastHop |-> IF keepsMacs THEN p[5] ELSE OwnMac,
      data |-> SubSeq(p[6].bytes, 1, n) \o Zeros(DataLen - n),
      hopCount |-> p[7] % Uint8, epochNum |-> p[8], seqNum |-> p[9] % Uint16,
      protoVersion |-> p[10] % Uint8,
      key |-> IF p[11].has THEN p[11].bytes ELSE Zeros(KeyLen)]

-----------------------------------------------------------------------------
(* The protobuf encoding by its definition, apart from any algorithm        *)

\* A number is the list of its groups, least significant first, without leading
\* zeros, padded by `pad` further groups.
PlainVarint(v, pad) ==
  LET n == Min({k \in 1 .. WideGroups : v < Pow(GroupBits * k)} \union {WideGroups + 1})
  IN Continued([i \in 1 .. n + pad |-> IF i <= n THEN Group(v, i - 1) ELSE 0])

\* A field on the wire: its tag and wire type, the number or the bytes it holds,
\* and by how many groups the length of a string is padded.
NumberField(tag, v) == [tag |-> tag, wireType |-> WT_VARINT, num |-> v, bytes |-> <<>>, pad |-> 0]
BytesField(tag, wireType, s, pad) ==
  [tag |-> tag, wireType |-> wireType, num |-> 0, bytes |-> s, pad |-> pad]

BytesOf(w) ==
  PlainVarint(w.tag * 8 + w.wireType, 0) \o
  CASE w.wireType = WT_VARINT -> PlainVarint(w.num, 0)
    [] w.wireType = WT_STRING -> PlainVarint(Len(w.bytes), w.pad) \o w.bytes
    [] OTHER                  -> w.bytes

AllBytes(ws) == FlattenSeq([i \in DOMAIN ws |-> BytesOf(ws[i])])

ZigZag(v) == IF v < 0 THEN -2 * v - 1 ELSE 2 * v

\* The fields of a struct, in the order of their tags.
FieldsOf(p) ==
  LET present == SelectSeq([i \in DOMAIN FieldList |-> i],
                           LAMBDA i : p[i] # ZeroOf(FieldList[i]) \/ FieldList[i].ltype = "FIXED")
      AsField(i) ==
        LET f == FieldList[i] IN
        CASE f.ltype = "UVARINT" -> NumberField(f.tag, p[i])
          [] f.ltype = "SVARINT" -> NumberField(f.tag, ZigZag(p[i]))
          [] f.ltype = "FIXED"   -> BytesField(f.tag, WT_STRING, p[i], 0)
          [] f.ltype = "BYTES"   -> BytesField(f.tag, WT_STRING, SubSeq(p[i].bytes, 1, p[i].size), 0)
  IN [k \in DOMAIN present |-> AsField(present[k])]

\* Whether a field may be in a message: a known one must have its type and a value
\* in range, an unknown one a wire type that says how long it is.
Allowed(w) ==
  /\ w.tag # 0
  /\ w.wireType = WT_STRING => Len(PlainVarint(Len(w.bytes), w.pad)) <= WideGroups + 1
  /\ IF w.tag > LargestTag
       THEN w.wireType \in {WT_VARINT, WT_64BIT, WT_STRING, WT_32BIT}
       ELSE LET f == FieldList[w.tag] IN
            CASE f.ltype = "UVARINT" -> w.wireType = WT_VARINT /\ w.num < Pow(WordBits)
              [] f.ltype = "SVARINT" -> w.wireType = WT_VARINT /\ w.num < Pow(WordBits)
              [] f.ltype = "BYTES"   -> w.wireType = WT_STRING /\ Len(w.bytes) <= f.size
              [] f.ltype = "FIXED"   -> w.wireType = WT_STRING /\ Len(w.bytes) \in {0, f.size}

\* The struct after one more field.  The last of several wins; of a shorter string
\* that follows a longer one the array shows both.
WithField(p, w) ==
  IF w.tag > LargestTag THEN p
  ELSE LET f == FieldList[w.tag]
           value == CASE f.ltype = "UVARINT" -> w.num
                      [] f.ltype = "SVARINT" -> IF w.num % 2 = 1 THEN -((w.num + 1) \div 2)
                                                                   ELSE w.num \div 2
                      [] f.ltype = "FIXED" -> IF w.bytes = <<>> THEN Zeros(f.size) ELSE w.bytes
                      [] f.ltype = "BYTES" ->
                           [has |-> TRUE, size |-> Len(w.bytes),
                            bytes |-> [i \in 1 .. f.size |-> IF i <= Len(w.bytes) THEN w.bytes[i]
                                                             ELSE p[w.tag].bytes[i]]]
       IN [p EXCEPT ![w.tag] = value]

IsMessage(ws) == \A i \in DOMAIN ws : Allowed(ws[i])
Meaning(ws) == FoldLeft(WithField, Zeroed, ws)

-----------------------------------------------------------------------------
(* Actions *)

StartEncoding(m, size) ==
  /\ phase = "idle"
  /\ msg' = m
  /\ cap' = size
  /\ pbMsg' = ToStruct(m)
  /\ fields' = FieldsOf(ToStruct(m))
  /\ phase' = "encode"
  /\ UNCHANGED <<index, out, input, outMsg, cut>>

\* The forwarding part of onMeshDataImpl.
ForwardToServer(m) == StartEncoding(m, RelayCap)

\* relayEnrollmentToServer: everything but these fields is zero.
EnrollmentRequest(mac, key) ==
  [messageType |-> ENROLLMENT, dataType |-> 0, origin |-> mac, target |-> Zeros(MacLen),
   lastHop |-> Zeros(MacLen), data |-> Zeros(DataLen), hopCount |-> 0, epochNum |-> 0,
   seqNum |-> 0, protoVersion |-> 1, key |-> key]

RelayEnrollmentToServer(mac, key) == StartEncoding(EnrollmentRequest(mac, key), EnrollCap)

\* pb_encode, one field.
EncodeField ==
  /\ phase = "encode"
  /\ LET bytes == encode_field(FieldList[index], pbMsg[index])
     IN /\ out' = IF Fits(bytes) THEN out \o bytes ELSE out
        /\ phase' = CASE ~Fits(bytes) -> "failed"
                      [] Fits(bytes) /\ advance_iterator(index) = 1 -> "sent"
                      [] OTHER -> "encode"
        /\ index' = IF Fits(bytes) THEN advance_iterator(index) ELSE 1
  /\ UNCHANGED <<msg, cap, pbMsg, input, outMsg, fields, cut>>

\* The server, whose protobuf library follows the definition.
ServerSends(ws) ==
  /\ phase = "idle"
  /\ fields' = ws
  /\ out' = AllBytes(ws)
  /\ phase' = "sent"
  /\ UNCHANGED <<msg, cap, pbMsg, index, input, outMsg, cut>>

\* A frame of n bytes reaches decodeMeshMessage.
Arrive(n) ==
  /\ phase = "sent"
  /\ cut' = n
  /\ input' = SubSeq(out, 1, n)
  /\ pbMsg' = Zeroed
  /\ index' = 1
  /\ phase' = "decode"
  /\ UNCHANGED <<msg, cap, out, outMsg, fields>>

\* pb_decode_inner: one tag and what follows it.  The end of the input inside a
\* tag is an error, because the loop only begins a tag when there is a byte.
Tagged == pb_decode_varint32(input)
TagNumber == Tagged.value \div 8
WireType == Tagged.value % 8
HasTag == phase = "decode" /\ input # <<>> /\ Tagged.ok /\ TagNumber # 0
Found == pb_field_iter_find(index, TagNumber)
Decoded == decode_field(FieldList[Found], WireType, Tagged.rest, pbMsg[Found])
Skipped == pb_skip_field(Tagged.rest, WireType)

DecodeField ==
  /\ HasTag /\ Found # 0 /\ Decoded.ok
  /\ pbMsg' = [pbMsg EXCEPT ![Found] = Decoded.value]
  /\ index' = Found
  /\ input' = Decoded.rest
  /\ UNCHANGED <<phase, msg, cap, out, outMsg, fields, cut>>

SkipField ==
  /\ HasTag /\ Found = 0 /\ Skipped.ok
  /\ input' = Skipped.rest
  /\ UNCHANGED <<phase, msg, cap, pbMsg, index, out, outMsg, fields, cut>>

DecodeFails ==
  /\ phase = "decode" /\ input # <<>>
  /\ HasTag => IF Found = 0 THEN ~Skipped.ok ELSE ~Decoded.ok
  /\ phase' = "rejected"
  /\ UNCHANGED <<msg, cap, pbMsg, index, out, input, outMsg, fields, cut>>

DecodeEnds ==
  /\ phase = "decode" /\ input = <<>>
  /\ outMsg' = ToMessage(pbMsg)
  /\ phase' = "accepted"
  /\ UNCHANGED <<msg, cap, pbMsg, index, out, input, fields, cut>>

\* The conversion returns; its structs and buffers were local.
Return ==
  /\ phase \in {"accepted", "rejected", "failed"}
  /\ phase' = "idle" /\ index' = 1 /\ cap' = 0 /\ cut' = 0
  /\ msg' = None /\ outMsg' = None /\ pbMsg' = Zeroed
  /\ out' = <<>> /\ input' = <<>> /\ fields' = <<>>

Init ==
  /\ phase = "idle" /\ index = 1 /\ cap = 0 /\ cut = 0
  /\ msg = None /\ outMsg = None /\ pbMsg = Zeroed
  /\ out = <<>> /\ input = <<>> /\ fields = <<>>

Next ==
  \/ \E m \in MeshMessage : ForwardToServer(m)
  \/ \E n \in NewNode : RelayEnrollmentToServer(n[1], n[2])
  \/ EncodeField
  \/ \E k \in 1 .. MaxFields : \E ws \in [1 .. k -> ServerField] : ServerSends(ws)
  \/ \E n \in 1 .. Len(out) : Arrive(n)
  \/ DecodeField \/ SkipField \/ DecodeFails \/ DecodeEnds
  \/ Return

Spec == Init /\ [][Next]_vars

-----------------------------------------------------------------------------
(* Correctness *)

\* Whatever a node sends is, byte by byte, the protobuf encoding of its fields by
\* definition, with the right fields left out; and the two-word varint algorithm
\* and the zigzag numbers are right for numbers wider than this message has, too.
EncodesByTheBook ==
  /\ phase = "sent" => out = AllBytes(fields)
  /\ phase = "idle" => \A v \in WideNumber :
       /\ pb_encode_varint(v) = PlainVarint(v, 0)
       /\ pb_encode_svarint(v) = PlainVarint(ZigZag(v), 0)
       /\ pb_encode_svarint(-v - 1) = PlainVarint(ZigZag(-v - 1), 0)

\* pb_encode never runs out of buffer: neither the 256 bytes for what comes from
\* the mesh, nor the 128 bytes for an enrollment request, which it fills to the
\* last byte.
NothingTooLong == phase # "failed"

\* A frame is accepted exactly if it is a whole number of allowed fields, and then
\* the struct is what these fields mean together, in whatever order they come,
\* repeated, empty, or unknown to this version.  A frame cut short inside a field
\* is refused, and no field of it gets a value that was not sent.
DecodesByTheBook ==
  LET arrived == {k \in 0 .. Len(fields) : /\ Len(AllBytes(SubSeq(fields, 1, k))) = cut
                                           /\ IsMessage(SubSeq(fields, 1, k))}
  IN /\ phase = "rejected" => arrived = {}
     /\ phase = "accepted" => \E k \in arrived : pbMsg = Meaning(SubSeq(fields, 1, k))

\* What one end of the line encodes, the same code at the other end turns into the
\* message it was: numbers, target, the data that is used, the key of the two
\* message types that have one, and the sender's MAC where the type keeps it.
MessageSurvives ==
  (phase = "accepted" /\ msg # None /\ cut = Len(out)) =>
     /\ \A n \in {"messageType", "dataType", "hopCount", "epochNum", "seqNum", "protoVersion",
                  "target"} : outMsg[n] = msg[n]
     /\ SubSeq(outMsg.data, 1, CopyLen) = SubSeq(msg.data, 1, CopyLen)
     /\ msg.messageType \in {ENROLLMENT, JOIN_ACK} => outMsg.key = msg.key
     /\ msg.messageType \in {JOIN_ACK, SERIAL_CMD_BROADCAST} => outMsg.origin = msg.origin
=============================================================================
