--------------------------- MODULE SerialAdapter ---------------------------
(***************************************************************************)
(* The server's commands on the USB serial line (Serial_Adapter.cpp): the  *)
(* byte-by-byte frame parser of loop(), and handleCompleteFrame(); and its *)
(* counterpart for adapter data from the mesh, onMeshData().               *)
(*                                                                         *)
(* A frame is a length in two bytes, low byte first, and that many bytes   *)
(* of protobuf.  There is no marker and no checksum.  A byte is a number   *)
(* below Base (256 on the device, where MAX_PAYLOAD is 256 as well, so     *)
(* that only the longest payload needs the second length byte).  The line  *)
(* may lose bytes: the receive buffer of the UART is finite and the main   *)
(* task is away for long in some passes.                                   *)
(*                                                                         *)
(* Protobuf is external: Encoding gives the payload of each message the    *)
(* server sends, and a payload that is none of these decodes to anything   *)
(* or not at all.  Of a message the fields that handleCompleteFrame looks  *)
(* at are kept.  What the calls it makes do, and what of them survives a   *)
(* restart, is the subject of other modules; here they are recorded.       *)
(***************************************************************************)
EXTENDS Naturals, Sequences, SequencesExt

CONSTANTS
  Base,         \* number of byte values
  MAX_PAYLOAD,  \* size of payloadBuffer
  Message,      \* what the server sends, a set of records
  Encoding,     \* the payload of each message
  MeshData,     \* adapter data the mesh may hand to the adapter, records of the same kind
  Own,          \* this node's MAC address
  Everyone,     \* FF:FF:FF:FF:FF:FF
  IsMaster,     \* the node is a master
  MaxFrames,    \* bound on the frames the server sends
  MaxLost,      \* bound on the bytes lost
  MaxMeshData   \* bound on the messages from the mesh

Byte == 0 .. (Base - 1)

ASSUME SerialAssumption ==
  /\ Base \in Nat /\ Base >= 2
  /\ MAX_PAYLOAD \in Nat \ {0} /\ MAX_PAYLOAD < Base * Base
  /\ IsMaster \in BOOLEAN
  /\ MaxFrames \in Nat /\ MaxLost \in Nat /\ MaxMeshData \in Nat

\* Only adapter data comes this way; a JOIN_ACK from the mesh has its own handler.
ASSUME MeshDataAssumption == \A m \in MeshData : m.messageType # "JOIN_ACK"

\* The server's encoder is one-to-one and its payloads fit the buffer.
ASSUME EncodingAssumption ==
  /\ \A m \in Message : /\ Encoding[m] \in Seq(Byte)
                        /\ Len(Encoding[m]) \in 1 .. MAX_PAYLOAD
  /\ \A m, n \in Message : Encoding[m] = Encoding[n] => m = n

\* A frame that nanopb cannot decode.
Undecodable == [messageType |-> "undecodable"]

VARIABLES
  frameState,     \* what the parser waits for
  frameLength,    \* uint16_t
  frameIndex,     \* next free byte of the buffer
  payloadBuffer,  \* 0 .. MAX_PAYLOAD - 1 -> Byte
  wire,           \* bytes sent by the server and not yet read
  calls,          \* history: what handleCompleteFrame and onMeshData made happen, in order
  meshed,         \* history: number of messages from the mesh
  sent,           \* history: messages sent
  handled,        \* history: frames as they were decoded
  lost,           \* history: number of bytes the line lost
  clean           \* history: no byte was lost, on the line or in a restart

parser == <<frameState, frameLength, frameIndex>>
vars == <<parser, payloadBuffer, wire, calls, meshed, sent, handled, lost, clean>>

-----------------------------------------------------------------------------
(* Mutants: what the code would be with a plausible bug in it.             *)

IsBadLength_OneTooLong(len) == len = 0 \/ len > MAX_PAYLOAD + 1

LengthOf_HighByteFirst(first, second) == first * Base + second

Available_KeepsOne == Len(wire) > 1

JoinAckCalls_KeyIgnored(m) == <<[call |-> "enrollPeer", msg |-> m]>>

-----------------------------------------------------------------------------
(* The server and the line *)

Frame(m) == <<Len(Encoding[m]) % Base, Len(Encoding[m]) \div Base>> \o Encoding[m]

SendFrame(m) ==
  /\ Len(sent) < MaxFrames
  /\ wire' = wire \o Frame(m)
  /\ sent' = Append(sent, m)
  /\ UNCHANGED <<parser, payloadBuffer, calls, meshed, handled, lost, clean>>

LoseByte(i) ==
  /\ lost < MaxLost
  /\ wire' = RemoveAt(wire, i)
  /\ lost' = lost + 1
  /\ clean' = FALSE
  /\ UNCHANGED <<parser, payloadBuffer, calls, meshed, sent, handled>>

\* What decodeMeshMessage can make of a payload.
Decode(payload) ==
  IF \E m \in Message : Encoding[m] = payload
    THEN {m \in Message : Encoding[m] = payload}
    ELSE Message \union {Undecodable}

-----------------------------------------------------------------------------
(* handleCompleteFrame *)

Call(name, m) == [call |-> name, msg |-> m]

IsJoinAck(m) == m.messageType = "JOIN_ACK"

\* JOIN_ACK: the server's verdict on an enrollment request; nothing follows.
JoinAckCalls(m) == IF m.hasKey THEN <<Call("enrollPeer", m)>> ELSE <<>>

\* Adapter data goes to the mesh, whatever else is done with it.
ForwardCalls(m) ==
  CASE m.messageType = "ADAPTER_DATA"         -> <<Call("transmit", m)>>
    [] m.messageType = "SERIAL_CMD_BROADCAST" -> <<Call("broadcast", m)>>
    [] OTHER                                  -> <<>>

\* CONFIG_SET looks at the target of the message, NODE_ID_SET at the one in data.
IsConfigForMe(m) == m.op = "CONFIG_SET" /\ m.target \in {Own, Everyone}
IsIdForMe(m) == m.op = "NODE_ID_SET" /\ m.dataTarget \in {Own, Everyone}
IsPreset(m) == m.op = "TX_POWER_SET" /\ m.arg <= 2

\* The control opcodes, of any message whose dataType is SERIAL.
OpcodeCalls(m) ==
  CASE m.op = "HEALTH_REQ" -> <<Call("sendHealthReport", m)>>
    [] IsConfigForMe(m)    -> <<Call("saveAdapterType", m)>>
    [] IsPreset(m)         -> <<Call("saveTxPowerPreset", m)>> \o
                              IF IsMaster THEN <<Call("broadcast", m)>> ELSE <<>>
    [] IsIdForMe(m)        -> <<Call("saveNodeId", m)>>
    [] OTHER               -> <<>>

FrameCalls(m) ==
  IF m = Undecodable THEN <<>>
  ELSE IF IsJoinAck(m) THEN JoinAckCalls(m)
  ELSE ForwardCalls(m) \o IF m.dataType = "SERIAL" THEN OpcodeCalls(m) ELSE <<>>

Restarts(m) ==
  m # Undecodable /\ ~IsJoinAck(m) /\ m.dataType = "SERIAL" /\ IsConfigForMe(m)

-----------------------------------------------------------------------------
(* The parser in loop() *)

Available == wire # <<>>

LengthOf(first, second) == first + second * Base

IsBadLength(len) == len = 0 \/ len > MAX_PAYLOAD

ResetParser == frameState' = "AwaitingLen1" /\ frameLength' = 0 /\ frameIndex' = 0

ReadLen1 ==
  /\ Available /\ frameState = "AwaitingLen1"
  /\ frameLength' = Head(wire)
  /\ frameState' = "AwaitingLen2"
  /\ wire' = Tail(wire)
  /\ UNCHANGED <<frameIndex, payloadBuffer, calls, meshed, sent, handled, lost, clean>>

ReadLen2 ==
  /\ Available /\ frameState = "AwaitingLen2"
  /\ LET len == LengthOf(frameLength, Head(wire)) IN
       IF IsBadLength(len)
         THEN ResetParser
         ELSE frameLength' = len /\ frameIndex' = 0 /\ frameState' = "AwaitingPayload"
  /\ wire' = Tail(wire)
  /\ UNCHANGED <<payloadBuffer, calls, meshed, sent, handled, lost, clean>>

\* The branch for frameIndex >= MAX_PAYLOAD, which would reset the parser, is the
\* negation of a conjunct of the two actions below; BufferBounds says that it is
\* never taken.
StoreByte == [payloadBuffer EXCEPT ![frameIndex] = Head(wire)]

ReadPayload ==
  /\ Available /\ frameState = "AwaitingPayload"
  /\ frameIndex < MAX_PAYLOAD
  /\ frameIndex + 1 < frameLength
  /\ payloadBuffer' = StoreByte
  /\ frameIndex' = frameIndex + 1
  /\ wire' = Tail(wire)
  /\ UNCHANGED <<frameState, frameLength, calls, meshed, sent, handled, lost, clean>>

\* The payload is complete: handleCompleteFrame, and the parser starts again.
\* A restart ends the program inside handleCompleteFrame; the next boot begins
\* with a new parser, and with what arrives after an unknown number of bytes.
Blank == [i \in 0 .. (MAX_PAYLOAD - 1) |-> 0]

CompleteFrame(m) ==
  /\ Available /\ frameState = "AwaitingPayload"
  /\ frameIndex < MAX_PAYLOAD
  /\ frameIndex + 1 >= frameLength
  /\ m \in Decode([i \in 1 .. frameLength |-> StoreByte[i - 1]])
  /\ payloadBuffer' = IF Restarts(m) THEN Blank ELSE StoreByte
  /\ handled' = Append(handled, m)
  /\ calls' = calls \o FrameCalls(m)
  /\ ResetParser
  /\ \E k \in 1 .. (IF Restarts(m) THEN Len(wire) ELSE 1) :
       wire' = SubSeq(wire, k + 1, Len(wire)) /\ clean' = (clean /\ k = 1)
  /\ UNCHANGED <<meshed, sent, lost>>

Read == ReadLen1 \/ ReadLen2 \/ ReadPayload
          \/ \E m \in Message \union {Undecodable} : CompleteFrame(m)

-----------------------------------------------------------------------------
(* Adapter::onMeshData and Serial_Adapter::onMeshDataImpl *)

\* From the mesh both opcodes that set something look at the target in the data.
IsMeshConfigForMe(m) == m.dataType = "SERIAL" /\ m.op = "CONFIG_SET" /\ m.dataTarget \in {Own, Everyone}

MeshOpcodeCalls(m) ==
  CASE IsIdForMe(m)        -> <<Call("saveNodeId", m)>>
    [] m.op = "HEALTH_REQ" -> <<Call("sendHealthReport", m)>>
    [] IsPreset(m)         -> <<Call("saveTxPowerPreset", m)>>
    [] OTHER               -> <<>>

\* What reaches onMeshDataImpl goes on to the server.
ForwardToServer(m) == <<Call("toServer", m)>>

\* A serial adapter looks at messages of its own type only, as every adapter does:
\* what a motion sensor sends ends here.  The message that restarts the node is not
\* forwarded either.
MeshCalls(m) ==
  IF m.dataType # "SERIAL" THEN <<>>
  ELSE IF IsMeshConfigForMe(m) THEN <<Call("saveAdapterType", m)>>
  ELSE MeshOpcodeCalls(m) \o ForwardToServer(m)

OnMeshData(m) ==
  /\ meshed < MaxMeshData
  /\ meshed' = meshed + 1
  /\ calls' = calls \o MeshCalls(m)
  /\ IF IsMeshConfigForMe(m)
       THEN /\ ResetParser /\ payloadBuffer' = Blank
            /\ \E k \in 0 .. Len(wire) :
                 /\ wire' = SubSeq(wire, k + 1, Len(wire))
                 /\ clean' = (clean /\ k = 0 /\ frameState = "AwaitingLen1")
       ELSE UNCHANGED <<parser, payloadBuffer, wire, clean>>
  /\ UNCHANGED <<sent, handled, lost>>

-----------------------------------------------------------------------------

\* The constructor.
Init ==
  /\ frameState = "AwaitingLen1" /\ frameLength = 0 /\ frameIndex = 0
  /\ payloadBuffer = Blank
  /\ wire = <<>>
  /\ meshed = 0 /\ calls = <<>> /\ sent = <<>> /\ handled = <<>>
  /\ lost = 0
  /\ clean = TRUE

Next ==
  \/ Read
  \/ \E m \in Message : SendFrame(m)
  \/ \E i \in 1 .. Len(wire) : LoseByte(i)
  \/ \E m \in MeshData : OnMeshData(m)

\* loop() is called again and again and reads what is there.  The server is not
\* obliged to send.
Spec == Init /\ [][Next]_vars
FairSpec == Spec /\ WF_vars(Read)

-----------------------------------------------------------------------------
(* Correctness *)

CallName ==
  {"enrollPeer", "transmit", "broadcast", "toServer", "sendHealthReport",
   "saveAdapterType", "saveTxPowerPreset", "saveNodeId"}

\* Every variable has its type.
TypeOK ==
  /\ frameState \in {"AwaitingLen1", "AwaitingLen2", "AwaitingPayload"}
  /\ frameLength \in 0 .. (Base * Base - 1)
  /\ frameIndex \in 0 .. MAX_PAYLOAD
  /\ payloadBuffer \in [0 .. (MAX_PAYLOAD - 1) -> Byte]
  /\ wire \in Seq(Byte)
  /\ calls \in Seq([call : CallName, msg : Message \union MeshData])
  /\ sent \in Seq(Message)
  /\ handled \in Seq(Message \union {Undecodable})
  /\ lost \in 0 .. MaxLost /\ meshed \in 0 .. MaxMeshData
  /\ clean \in BOOLEAN

\* Whatever bytes arrive, lost ones included, a payload is only collected for a
\* length that the buffer can hold and up to that length: the parser never
\* writes outside payloadBuffer and its overflow branch is dead code.
BufferBounds ==
  frameState = "AwaitingPayload" => frameIndex < frameLength /\ frameLength <= MAX_PAYLOAD

\* While no byte is lost, what handleCompleteFrame sees is what the server sent,
\* message by message, although the buffer is reused without being cleared and
\* the frames follow each other without a gap.
HandledAsSent == clean => IsPrefix(handled, sent)

\* Each of the handled messages that approves a node has its call of enrollPeer, in
\* the same order, and enrollPeer is not called otherwise.
Approves(m) == IsJoinAck(m) /\ m.hasKey
Enrolls(c) == c.call = "enrollPeer"

EnrolledFor(msgs) ==
  LET approvals == {i \in 1 .. Len(handled) : Approves(msgs[i])}
      enrollments == {c \in 1 .. Len(calls) : Enrolls(calls[c])}
  IN \E at \in [approvals -> enrollments] :
       /\ \A i \in approvals : calls[at[i]].msg = msgs[i]
       /\ \A i, j \in approvals : i < j => at[i] < at[j]
       /\ \A c \in enrollments : \E i \in approvals : at[i] = c

VerdictsOnlyEnroll == \A c \in 1 .. Len(calls) : IsJoinAck(calls[c].msg) => Enrolls(calls[c])

\* While no byte is lost, a node is enrolled for each approval of the server and
\* for nothing else, in the order of the approvals, whatever comes from the mesh in
\* between; and a verdict, whatever its data field holds, never sets the node's own
\* configuration or reaches the mesh.
ActsOnlyAsAsked == clean => EnrolledFor(sent) /\ VerdictsOnlyEnroll

\* The argument behind the two.  What the parser has of a frame and what is on the wire
\* are together the frames of the messages sent and not handled, one after the other.
\* ReadBytes is the number of bytes the parser has of its frame; the length that it has
\* put together stands for the two bytes it came in.
ReadBytes ==
  CASE frameState = "AwaitingLen1" -> 0
    [] frameState = "AwaitingLen2" -> 1
    [] OTHER -> frameIndex + 2

ReadByte(j) ==
  IF j = 1 THEN frameLength % Base
  ELSE IF j = 2 THEN frameLength \div Base ELSE payloadBuffer[j - 3]

Unhandled ==
  [j \in 1 .. (ReadBytes + Len(wire)) |->
     IF j <= ReadBytes THEN ReadByte(j) ELSE wire[j - ReadBytes]]

\* The frame of the k-th message not handled lies between two of the cuts.
FramesFollow(cut) ==
  LET n == Len(sent) - Len(handled) IN
    /\ cut[0] = 0 /\ cut[n] = ReadBytes + Len(wire)
    /\ \A i, j \in 0 .. n : i <= j => cut[i] <= cut[j]
    /\ \A k \in 1 .. n :
         LET frame == Frame(sent[Len(handled) + k]) IN
           /\ cut[k] = cut[k - 1] + Len(frame)
           /\ \A j \in 1 .. Len(frame) : Unhandled[cut[k - 1] + j] = frame[j]

HandledSoFar ==
  /\ Len(handled) <= Len(sent)
  /\ \A i \in 1 .. Len(handled) : handled[i] = sent[i]

StreamIntact ==
  clean =>
    /\ HandledSoFar
    /\ \E cut \in [0 .. (Len(sent) - Len(handled)) -> 0 .. (ReadBytes + Len(wire))] : FramesFollow(cut)

\* The second length byte is only waited for when the first one is known.
Len1IsByte == frameState = "AwaitingLen2" => frameLength \in Byte

\* The inductive invariant of the parser and of what it makes happen.
IndInv ==
  TypeOK /\ BufferBounds /\ Len1IsByte /\ StreamIntact /\ EnrolledFor(handled) /\ VerdictsOnlyEnroll

\* While no byte is lost, every frame the server sends is handled.
FrameHandled ==
  \A k \in 1 .. MaxFrames : Len(sent) >= k ~> (Len(handled) >= k \/ ~clean)
=============================================================================
