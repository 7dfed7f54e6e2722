---------------------------- MODULE MCSerialLine ----------------------------
(* The serial line: SerialAdapter, which takes the payload of a frame as a   *)
(* whole, and beside it MeshCodec, which has its bytes.  A behaviour is one  *)
(* of either: that of MeshCodec has a line on which nothing is sent.         *)
(*                                                                           *)
(* SerialAdapter has bytes 0 .. 2 and a buffer of three bytes: as on the     *)
(* device, the longest payload is the one whose length needs both bytes.     *)
(* The payloads contain bytes that look like lengths.  MeshCodec has the     *)
(* field lengths and buffers of the device; only the integers are narrower,  *)
(* 18 and 29 bits for 32 and 64.                                             *)
EXTENDS SerialAdapter

CONSTANTS
  GroupBits, WordGroups, RestBits, WideGroups, ShortBits, MacLen, DataLen, KeyLen, CopyLen,
  RelayCap, EnrollCap, OwnMac, MeshMessage, NewNode, ServerField, WideNumber, MaxFields

VARIABLES
  part,  \* which of the two the behaviour is one of
  phase, msg, cap, pbMsg, index, out, input, outMsg, fields, cut

Codec == INSTANCE MeshCodec

ASSUME CodecAssumption == Codec!WidthAssumption /\ Codec!LengthAssumption

codecVars == <<phase, msg, cap, pbMsg, index, out, input, outMsg, fields, cut>>
lineVars == <<part, vars, codecVars>>

NoCodec ==
  /\ phase = "none" /\ index = 0 /\ cap = 0 /\ cut = 0
  /\ msg = 0 /\ outMsg = 0 /\ pbMsg = 0 /\ out = 0 /\ input = 0 /\ fields = 0

LineInit ==
  /\ Init
  /\ \/ part = "frames" /\ NoCodec
     \/ part = "codec" /\ Codec!Init

Frames == part = "frames" /\ Next /\ UNCHANGED <<part, codecVars>>
Payloads == part = "codec" /\ Codec!Next /\ UNCHANGED <<part, vars>>

LineSpec == LineInit /\ [][Frames \/ Payloads]_lineVars /\ WF_vars(Read)

\* MeshCodec's properties (nanopb, encodeMeshMessage and decodeMeshMessage), which its
\* own comments state, where it runs; the first checks its varints in the idle state.
EncodesByTheBook == part = "codec" => Codec!EncodesByTheBook
\* pb_encode never runs out of buffer.
NothingTooLong == Codec!NothingTooLong
\* decodeMeshMessage accepts whole sequences of allowed fields, with their meaning.
DecodesByTheBook == Codec!DecodesByTheBook
\* A message survives encodeMeshMessage and decodeMeshMessage.
MessageSurvives == Codec!MessageSurvives

-----------------------------------------------------------------------------
(* The messages of SerialAdapter *)

CONSTANTS own, everyone, other

Command(type, data, target, op, dataTarget, arg, key) ==
  [messageType |-> type, dataType |-> data, target |-> target, op |-> op,
   dataTarget |-> dataTarget, arg |-> arg, hasKey |-> key]

Approve == Command("JOIN_ACK", "PIR", other, "none", other, 0, TRUE)
Reject == Command("JOIN_ACK", "SERIAL", other, "CONFIG_SET", other, 0, FALSE)
Config == Command("SERIAL_CMD_BROADCAST", "SERIAL", everyone, "CONFIG_SET", other, 2, FALSE)
Power == Command("ADAPTER_DATA", "SERIAL", other, "TX_POWER_SET", other, 1, FALSE)
NodeId == Command("BEACON", "SERIAL", other, "NODE_ID_SET", own, 2, FALSE)
Health == Command("ADAPTER_DATA", "SERIAL", other, "HEALTH_REQ", other, 0, FALSE)

\* A configuration for this node, a preset, which goes on to the server, and what a
\* motion sensor sends, which does not.
MCMeshData ==
  { Command("ADAPTER_DATA", "SERIAL", everyone, "CONFIG_SET", own, 2, FALSE),
    Command("ADAPTER_DATA", "SERIAL", own, "TX_POWER_SET", other, 1, FALSE),
    Command("ADAPTER_DATA", "PIR", own, "none", other, 0, FALSE) }

MCMessage == {Approve, Reject, Config, Power, NodeId, Health}

MCEncoding ==
  [m \in MCMessage |->
     CASE m = Approve -> <<1, 0, 2>>
       [] m = Reject  -> <<1>>
       [] m = Config  -> <<0, 1>>
       [] m = Power   -> <<2, 0, 0>>
       [] m = NodeId  -> <<0>>
       [] m = Health  -> <<2, 1>>]

-----------------------------------------------------------------------------
(* The messages and fields of MeshCodec *)

MCOwnMac == <<1, 1, 1, 1, 1, 1>>
Filled(n, seed) == [i \in 1 .. n |-> (seed + 37 * i) % 256]
MacA == <<222, 173, 0, 128, 255, 1>>
MacB == <<2, 8, 26, 34, 42, 82>>
Key == Filled(32, 128)
NoKey == [i \in 1 .. 32 |-> 0]

Msg(type, data, hop, epoch, seq, proto, key) ==
  [messageType |-> type, dataType |-> data, origin |-> MacA, target |-> MacB, lastHop |-> MacA,
   data |-> Filled(64, 0), hopCount |-> hop, epochNum |-> epoch, seqNum |-> seq,
   protoVersion |-> proto, key |-> key]

\* Adapter data as the mesh hands it on, SERIAL as the filter demands, and the types
\* with a key; counters at the ends of their ranges and of the groups of a varint.
MCMeshMessage ==
  {Msg(0, 1, h, e, s, 2, NoKey) : h \in {0, 10},
       e \in {1, 127, 128, 16383, 16384, 131072, 262143}, s \in {0, 128, 65535}}
  \union {Msg(t, 0, 0, 0, 255, 0, k) : t \in {1, 2, 4}, k \in {NoKey, Key}}

MCNewNode == {<<MacA, Key>>, <<MacB, Key>>}

\* The constructors of fields, which do not depend on what the server sends.
Wire == INSTANCE MeshCodec WITH ServerField <- {}
Number(tag, v) == Wire!NumberField(tag, v)
String(tag, s) == Wire!BytesField(tag, Wire!WT_STRING, s, 0)
Padded(tag, s, pad) == Wire!BytesField(tag, Wire!WT_STRING, s, pad)

MCServerField ==
  { Number(1, 4), Number(1, 259), String(1, <<4>>),
    Number(2, 1), Number(2, 262143), Number(2, 262144),
    String(3, MacB), String(4, <<>>), String(5, <<1, 2>>),
    String(6, <<193, 3>>), String(6, Filled(13, 1)), String(6, Filled(65, 1)),
    Padded(6, <<192>>, 4), Padded(6, <<192>>, 5),
    Number(7, 300), Number(8, 262143), Number(8, 262144), Number(9, 65537), Number(10, 536870911),
    String(11, Key), String(11, <<7, 7>>),
    Number(0, 1), Number(12, 300), String(15, <<8, 1>>),
    Wire!BytesField(16, Wire!WT_32BIT, [i \in 1 .. 4 |-> 0], 0),
    Wire!BytesField(13, Wire!WT_64BIT, [i \in 1 .. 8 |-> 0], 0),
    Wire!BytesField(14, 3, <<>>, 0) }

\* Around every power of two that 28 bits allow.
MCWideNumber ==
  UNION {{2 ^ k - 1, 2 ^ k, (2 ^ k + 12345) % 2 ^ 28} : k \in 0 .. 27} \union {2 ^ 28 - 1}
=============================================================================
