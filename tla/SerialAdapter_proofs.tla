------------------------ MODULE SerialAdapter_proofs ------------------------
(***************************************************************************)
(* For every buffer size, every byte width, every set of messages and any  *)
(* loss on the line: the frame parser stays within its buffer; and as long *)
(* as the line loses nothing, the frames handled are those sent, and a     *)
(* node is enrolled for each approval among them and for nothing else.     *)
(* Then the messages in the other direction, as MeshCodec encodes them:    *)
(* none of them is too long for the buffer of its frame.                   *)
(***************************************************************************)
EXTENDS SerialAdapter, Integers, TLAPS, SequenceTheorems, FiniteSetTheorems, WellFoundedInduction

-----------------------------------------------------------------------------
(* Two-byte lengths *)

\* The division equation.
LEMMA ModDef ==
  ASSUME NEW n \in Nat \ {0}, NEW a \in Nat
  PROVE  a = n * (a \div n) + (a % n) /\ (a \div n) \in Nat /\ a % n \in 0 .. (n - 1)
OBVIOUS

\* A number below n is its own remainder.
LEMMA ModSmall ==
  ASSUME NEW n \in Nat \ {0}, NEW a \in 0 .. (n - 1)
  PROVE  a % n = a
<1> DEFINE q == a \div n
           r == a % n
           p == n * q
<1>0. a \in Nat
  OBVIOUS
<1>1. a = p + r /\ q \in Nat /\ r \in 0 .. (n - 1)
  BY <1>0, ModDef
<1>2. q = 0 => p = 0
  OBVIOUS
<1>3. q >= 1 => p >= n /\ p \in Nat
  BY <1>1
<1> HIDE DEF p, q, r
<1>4. q = 0
  BY <1>1, <1>3
<1> QED BY <1>1, <1>2, <1>4 DEF r

\* The typing and the bounds of the parser, which are inductive together.
ParserInv == TypeOK /\ BufferBounds

LEMMA Constants ==
  /\ Base \in Nat /\ Base >= 2 /\ MAX_PAYLOAD \in Nat \ {0}
  /\ Base * Base \in Nat /\ Base <= Base * Base - 1 /\ MAX_PAYLOAD <= Base * Base - 1
  /\ MaxLost \in Nat /\ MaxMeshData \in Nat
<1>1. Base \in Nat /\ Base >= 2 /\ MAX_PAYLOAD \in Nat \ {0} /\ MAX_PAYLOAD < Base * Base
  BY SerialAssumption
<1>2. Base * Base >= 2 * Base /\ Base * Base \in Nat
  BY <1>1
<1> QED BY <1>1, <1>2, SerialAssumption

\* A length below Base * Base fits two bytes.
LEMMA TwoBytes ==
  ASSUME NEW n \in Nat, n < Base * Base
  PROVE  (n % Base) \in Byte /\ (n \div Base) \in Byte
<1> DEFINE q == n \div Base
           r == n % Base
           p == Base * q
           b == Base * Base
<1>1. Base \in Nat \ {0}
  BY Constants
<1>2. r \in 0 .. (Base - 1)
  BY <1>1, ModDef
<1>3. n = p + r /\ q \in Nat
  BY <1>1, ModDef
<1>4. n < b /\ b \in Nat
  BY <1>1
<1>5. q >= Base => p >= b /\ p \in Nat
  BY <1>1, <1>3
<1> HIDE DEF p, b, q, r
<1>6. q < Base
  BY <1>1, <1>2, <1>3, <1>4, <1>5
<1>7. q \in Byte /\ r \in Byte
  BY <1>1, <1>2, <1>3, <1>6 DEF Byte
<1> QED BY <1>7 DEF q, r

\* A byte is its own low byte.
LEMMA ByteMod == ASSUME NEW b \in Byte PROVE b % Base = b
<1>1. Base \in Nat \ {0} /\ b \in 0 .. (Base - 1)
  BY Constants DEF Byte
<1> QED BY <1>1, ModSmall

\* The bytes of a frame are bytes.
LEMMA FrameType == ASSUME NEW m \in Message PROVE Frame(m) \in Seq(Byte)
<1>1. Encoding[m] \in Seq(Byte) /\ Len(Encoding[m]) \in Nat /\ Len(Encoding[m]) < Base * Base
  BY EncodingAssumption, SerialAssumption
<1>2. (Len(Encoding[m]) % Base) \in Byte /\ (Len(Encoding[m]) \div Base) \in Byte
  BY <1>1, TwoBytes
<1>3. <<Len(Encoding[m]) % Base, Len(Encoding[m]) \div Base>> \in Seq(Byte)
  BY <1>2
<1> QED BY <1>1, <1>3, ConcatProperties DEF Frame

-----------------------------------------------------------------------------
(* The parser and its buffer *)

\* The buffer of a new adapter.
LEMMA BlankType == Blank \in [0 .. (MAX_PAYLOAD - 1) -> Byte]
BY Constants DEF Blank, Byte

\* The calls of this module.
CallType == [call : CallName, msg : Message \union MeshData]

\* Those that are not about enrollment.
QuietCall == {c \in CallType : ~ Enrolls(c) /\ ~ IsJoinAck(c.msg)}

\* A call with another name is quiet when its message is not a verdict.
LEMMA CallIsQuiet ==
  ASSUME NEW m \in Message \union MeshData, ~ IsJoinAck(m),
         NEW name \in CallName, name # "enrollPeer"
  PROVE  <<Call(name, m)>> \in Seq(QuietCall)
<1>1. Call(name, m) \in QuietCall
  BY DEF QuietCall, CallType, Call, Enrolls
<1> QED BY <1>1

\* Only an approval among the frames leads to enrollPeer, and a verdict to nothing else.
LEMMA FrameCallsContent ==
  ASSUME NEW m \in Message \union {Undecodable}
  PROVE  IF Approves(m) THEN m \in Message /\ FrameCalls(m) = <<Call("enrollPeer", m)>>
                        ELSE FrameCalls(m) \in Seq(QuietCall)
<1>0. <<>> \in Seq(QuietCall)
  OBVIOUS
<1>1. CASE m = Undecodable
  <2>1. ~ IsJoinAck(m)
    BY <1>1 DEF IsJoinAck, Undecodable
  <2>2. FrameCalls(m) = <<>>
    BY <1>1, <2>1 DEF FrameCalls
  <2> QED BY <1>0, <2>1, <2>2 DEF Approves
<1>2. CASE m # Undecodable /\ IsJoinAck(m)
  <2>1. FrameCalls(m) = JoinAckCalls(m)
    BY <1>2 DEF FrameCalls
  <2> QED BY <1>0, <1>2, <2>1 DEF JoinAckCalls, Approves
<1>3. CASE m # Undecodable /\ ~ IsJoinAck(m)
  <2>0. m \in Message /\ ~ Approves(m)
    BY <1>3 DEF Approves
  <2>1. \A name \in CallName \ {"enrollPeer"} : <<Call(name, m)>> \in Seq(QuietCall)
    BY <1>3, <2>0, CallIsQuiet
  <2>2. /\ <<Call("transmit", m)>> \in Seq(QuietCall)
        /\ <<Call("broadcast", m)>> \in Seq(QuietCall)
        /\ <<Call("sendHealthReport", m)>> \in Seq(QuietCall)
        /\ <<Call("saveAdapterType", m)>> \in Seq(QuietCall)
        /\ <<Call("saveTxPowerPreset", m)>> \in Seq(QuietCall)
        /\ <<Call("saveNodeId", m)>> \in Seq(QuietCall)
    BY <2>1 DEF CallName
  <2>3. ForwardCalls(m) \in Seq(QuietCall)
    BY <1>0, <2>2 DEF ForwardCalls
  <2>4. OpcodeCalls(m) \in Seq(QuietCall)
    <3>1. <<Call("saveTxPowerPreset", m)>> \o (IF IsMaster THEN <<Call("broadcast", m)>> ELSE <<>>)
            \in Seq(QuietCall)
      BY <1>0, <2>2, ConcatProperties
    <3> QED BY <1>0, <2>2, <3>1 DEF OpcodeCalls
  <2>5. FrameCalls(m) = ForwardCalls(m) \o (IF m.dataType = "SERIAL" THEN OpcodeCalls(m) ELSE <<>>)
    BY <1>3 DEF FrameCalls
  <2>6. FrameCalls(m) \in Seq(QuietCall)
    BY <1>0, <2>3, <2>4, <2>5, ConcatProperties
  <2> QED BY <2>0, <2>6
<1> QED BY <1>1, <1>2, <1>3

\* Nothing from the mesh is about enrollment.
LEMMA MeshCallsContent == ASSUME NEW m \in MeshData PROVE MeshCalls(m) \in Seq(QuietCall)
<1>0. <<>> \in Seq(QuietCall)
  OBVIOUS
<1>1. ~ IsJoinAck(m)
  BY MeshDataAssumption DEF IsJoinAck
<1>2. \A name \in CallName \ {"enrollPeer"} : <<Call(name, m)>> \in Seq(QuietCall)
  BY <1>1, CallIsQuiet
<1>3. /\ <<Call("toServer", m)>> \in Seq(QuietCall)
      /\ <<Call("sendHealthReport", m)>> \in Seq(QuietCall)
      /\ <<Call("saveAdapterType", m)>> \in Seq(QuietCall)
      /\ <<Call("saveTxPowerPreset", m)>> \in Seq(QuietCall)
      /\ <<Call("saveNodeId", m)>> \in Seq(QuietCall)
  BY <1>2 DEF CallName
<1>4. MeshOpcodeCalls(m) \in Seq(QuietCall)
  BY <1>0, <1>3 DEF MeshOpcodeCalls
<1>5. MeshOpcodeCalls(m) \o ForwardToServer(m) \in Seq(QuietCall)
  BY <1>3, <1>4, ConcatProperties DEF ForwardToServer
<1> QED BY <1>0, <1>3, <1>5 DEF MeshCalls

\* The calls of a frame and of a message from the mesh have their type.
LEMMA CallsType ==
  /\ \A m \in Message \union {Undecodable} : FrameCalls(m) \in Seq(CallType)
  /\ \A m \in MeshData : MeshCalls(m) \in Seq(CallType)
<1>1. ASSUME NEW s \in Seq(QuietCall) PROVE s \in Seq(CallType)
  BY DEF QuietCall
<1>2. ASSUME NEW m \in Message \union {Undecodable} PROVE FrameCalls(m) \in Seq(CallType)
  <2>1. CASE Approves(m)
    <3>1. Call("enrollPeer", m) \in CallType
      BY <2>1, FrameCallsContent DEF Call, CallType, CallName
    <3>2. <<Call("enrollPeer", m)>> \in Seq(CallType)
      BY <3>1
    <3> QED BY <2>1, <3>2, FrameCallsContent
  <2> QED BY <1>1, <2>1, FrameCallsContent
<1> QED BY <1>1, <1>2, MeshCallsContent

LEMMA InitParserInv == Init => ParserInv
<1> SUFFICES ASSUME Init PROVE ParserInv
  OBVIOUS
<1>1. clean \in BOOLEAN
  BY Zenon DEF Init
<1>2. payloadBuffer \in [0 .. (MAX_PAYLOAD - 1) -> Byte]
  BY BlankType DEF Init
<1> QED BY <1>1, <1>2, Constants DEF Init, ParserInv, TypeOK, BufferBounds

\* What the line and the main task leave of the bytes in flight are bytes.
LEMMA WireType ==
  ASSUME wire \in Seq(Byte)
  PROVE  /\ wire # <<>> => Head(wire) \in Byte /\ Tail(wire) \in Seq(Byte)
         /\ \A i \in 1 .. Len(wire) : RemoveAt(wire, i) \in Seq(Byte)
         /\ \A k \in 0 .. Len(wire) : SubSeq(wire, k + 1, Len(wire)) \in Seq(Byte)
<1>1. wire # <<>> => Head(wire) \in Byte /\ Tail(wire) \in Seq(Byte)
  BY HeadTailProperties
<1>2. ASSUME NEW i \in 1 .. (Len(wire) + 1), NEW j \in 0 .. Len(wire)
      PROVE  SubSeq(wire, i, j) \in Seq(Byte)
  BY SubSeqProperties
<1>3. ASSUME NEW i \in 1 .. Len(wire) PROVE RemoveAt(wire, i) \in Seq(Byte)
  <2>1. SubSeq(wire, 1, i - 1) \in Seq(Byte) /\ SubSeq(wire, i + 1, Len(wire)) \in Seq(Byte)
    BY <1>2
  <2> QED BY <2>1, ConcatProperties DEF RemoveAt
<1>4. ASSUME NEW k \in 0 .. Len(wire) PROVE SubSeq(wire, k + 1, Len(wire)) \in Seq(Byte)
  BY <1>2
<1> QED BY <1>1, <1>3, <1>4

LEMMA StepParserInv == ParserInv /\ [Next]_vars => ParserInv'
<1> SUFFICES ASSUME ParserInv, [Next]_vars PROVE ParserInv'
  OBVIOUS
<1> USE Constants
<1>0. wire \in Seq(Byte) /\ calls \in Seq(CallType)
  BY DEF ParserInv, TypeOK, CallType
<1>1. ASSUME NEW m \in Message, SendFrame(m) PROVE ParserInv'
  <2>1. wire' \in Seq(Byte)
    BY <1>0, <1>1, FrameType, ConcatProperties DEF SendFrame
  <2> QED BY <1>1, <2>1 DEF SendFrame, ParserInv, TypeOK, BufferBounds, parser
<1>2. ASSUME NEW i \in 1 .. Len(wire), LoseByte(i) PROVE ParserInv'
  <2>1. wire' \in Seq(Byte)
    BY <1>0, <1>2, WireType DEF LoseByte
  <2>2. clean' \in BOOLEAN
    BY <1>2, Zenon DEF LoseByte
  <2> QED BY <1>2, <2>1, <2>2 DEF LoseByte, ParserInv, TypeOK, BufferBounds, parser
<1>3. CASE ReadLen1
  <2>1. Head(wire) \in Byte /\ wire' \in Seq(Byte)
    BY <1>0, <1>3, WireType DEF ReadLen1, Available
  <2>2. frameLength' \in 0 .. (Base * Base - 1)
    BY <1>3, <2>1 DEF ReadLen1, Byte
  <2> QED BY <1>3, <2>1, <2>2 DEF ReadLen1, ParserInv, TypeOK, BufferBounds
<1>4. CASE ReadLen2
  <2>1. Head(wire) \in Byte /\ wire' \in Seq(Byte)
    BY <1>0, <1>4, WireType DEF ReadLen2, Available
  <2> DEFINE len == LengthOf(frameLength, Head(wire))
  <2>2. len \in Nat
    <3>1. Head(wire) * Base \in Nat
      BY <2>1 DEF Byte
    <3> QED BY <3>1 DEF LengthOf, ParserInv, TypeOK
  <2>3. CASE IsBadLength(len)
    BY <1>4, <2>1, <2>3 DEF ReadLen2, ResetParser, ParserInv, TypeOK, BufferBounds
  <2>4. CASE ~IsBadLength(len)
    <3>1. len \in 1 .. MAX_PAYLOAD
      BY <2>2, <2>4 DEF IsBadLength
    <3>2. /\ frameLength' = len /\ frameIndex' = 0 /\ frameState' = "AwaitingPayload"
          /\ UNCHANGED <<payloadBuffer, calls, meshed, sent, handled, lost, clean>>
      BY <1>4, <2>4 DEF ReadLen2
    <3> HIDE DEF len
    <3>3. frameLength' \in 0 .. (Base * Base - 1) /\ frameIndex' \in 0 .. MAX_PAYLOAD
      BY <3>1, <3>2
    <3> QED BY <2>1, <3>1, <3>2, <3>3 DEF ParserInv, TypeOK, BufferBounds
  <2> QED BY <2>3, <2>4
<1>5. CASE ReadPayload
  <2>1. Head(wire) \in Byte /\ wire' \in Seq(Byte)
    BY <1>0, <1>5, WireType DEF ReadPayload, Available
  <2>2. frameIndex \in 0 .. (MAX_PAYLOAD - 1)
    BY <1>5 DEF ReadPayload, ParserInv, TypeOK
  <2>3. payloadBuffer' \in [0 .. (MAX_PAYLOAD - 1) -> Byte]
    BY <1>5, <2>1, <2>2 DEF ReadPayload, StoreByte, ParserInv, TypeOK
  <2> QED BY <1>5, <2>1, <2>2, <2>3 DEF ReadPayload, ParserInv, TypeOK, BufferBounds
<1>6. ASSUME NEW m \in Message \union {Undecodable}, CompleteFrame(m) PROVE ParserInv'
  <2>1. Head(wire) \in Byte /\ wire # <<>> /\ Len(wire) \in Nat \ {0}
    BY <1>0, <1>6, WireType, EmptySeq DEF CompleteFrame, Available
  <2>2. frameIndex \in 0 .. (MAX_PAYLOAD - 1)
    BY <1>6 DEF CompleteFrame, ParserInv, TypeOK
  <2>3. payloadBuffer' \in [0 .. (MAX_PAYLOAD - 1) -> Byte]
    <3>1. StoreByte \in [0 .. (MAX_PAYLOAD - 1) -> Byte]
      BY <2>1, <2>2 DEF StoreByte, ParserInv, TypeOK
    <3> QED BY <1>6, <3>1, BlankType DEF CompleteFrame
  <2>4. wire' \in Seq(Byte)
    BY <1>0, <1>6, <2>1, WireType DEF CompleteFrame
  <2>5. clean' \in BOOLEAN
    BY <1>6 DEF CompleteFrame
  <2>6. handled' \in Seq(Message \union {Undecodable})
    BY <1>6, AppendProperties DEF CompleteFrame, ParserInv, TypeOK
  <2>7. calls' \in Seq(CallType)
    BY <1>0, <1>6, CallsType, ConcatProperties DEF CompleteFrame
  <2> QED
    BY <1>6, <2>3, <2>4, <2>5, <2>6, <2>7
    DEF CompleteFrame, CallType, ResetParser, ParserInv, TypeOK, BufferBounds
<1>7. ASSUME NEW m \in MeshData, OnMeshData(m) PROVE ParserInv'
  <2>1. meshed' \in 0 .. MaxMeshData /\ UNCHANGED <<sent, handled, lost>>
    BY <1>7 DEF OnMeshData, ParserInv, TypeOK
  <2>4. calls' \in Seq([call : CallName, msg : Message \union MeshData])
    BY <1>0, <1>7, CallsType, ConcatProperties DEF OnMeshData, CallType
  <2>2. CASE IsMeshConfigForMe(m)
    <3>1. wire' \in Seq(Byte) /\ clean' \in BOOLEAN
      BY <1>0, <1>7, <2>2, WireType DEF OnMeshData
    <3> QED
      BY <1>7, <2>1, <2>2, <2>4, <3>1, BlankType
      DEF OnMeshData, ResetParser, ParserInv, TypeOK, BufferBounds
  <2>3. CASE ~IsMeshConfigForMe(m)
    BY <1>7, <2>1, <2>3, <2>4 DEF OnMeshData, parser, ParserInv, TypeOK, BufferBounds
  <2> QED BY <2>2, <2>3
<1>8. CASE UNCHANGED vars
  BY <1>8 DEF vars, parser, ParserInv, TypeOK, BufferBounds
<1> QED BY <1>1, <1>2, <1>3, <1>4, <1>5, <1>6, <1>7, <1>8 DEF Next, Read

\* Types, for every width and size.
THEOREM SerialTypeCorrect == Spec => []TypeOK
<1>1. ParserInv => TypeOK
  BY DEF ParserInv
<1> QED BY InitParserInv, StepParserInv, <1>1, PTL DEF Spec

\* The parser of loop() never leaves payloadBuffer, whatever the line delivers.
THEOREM ParserStaysInBuffer == Spec => []BufferBounds
<1>1. ParserInv => BufferBounds
  BY DEF ParserInv
<1> QED BY InitParserInv, StepParserInv, <1>1, PTL DEF Spec

-----------------------------------------------------------------------------
(* What the parser has and what is on the wire *)

Total == ReadBytes + Len(wire)

LEMMA TotalType ==
  ASSUME ParserInv
  PROVE  /\ ReadBytes \in Nat /\ Len(wire) \in Nat /\ Total \in Nat
         /\ Len(sent) \in Nat /\ Len(handled) \in Nat
         /\ wire # <<>> => Len(wire) >= 1 /\ Head(wire) = wire[1] /\ Head(wire) \in Byte
<1>1. /\ wire \in Seq(Byte) /\ sent \in Seq(Message) /\ handled \in Seq(Message \union {Undecodable})
      /\ frameIndex \in Nat /\ frameState \in {"AwaitingLen1", "AwaitingLen2", "AwaitingPayload"}
  BY DEF ParserInv, TypeOK
<1>2. Len(wire) \in Nat /\ Len(sent) \in Nat /\ Len(handled) \in Nat
  BY <1>1
<1>3. ReadBytes \in Nat
  BY <1>1 DEF ReadBytes
<1>4. wire # <<>> => Len(wire) >= 1 /\ Head(wire) = wire[1] /\ Head(wire) \in Byte
  BY <1>1, <1>2, EmptySeq, HeadTailProperties
<1> QED BY <1>2, <1>3, <1>4 DEF Total

\* The bytes of a frame: the two halves of the length, then the payload.
LEMMA FrameBytes ==
  ASSUME NEW m \in Message
  PROVE  /\ Len(Encoding[m]) \in 1 .. MAX_PAYLOAD
         /\ Len(Frame(m)) = Len(Encoding[m]) + 2
         /\ Frame(m)[1] = Len(Encoding[m]) % Base
         /\ Frame(m)[2] = Len(Encoding[m]) \div Base
         /\ \A j \in 1 .. Len(Encoding[m]) : Frame(m)[j + 2] = Encoding[m][j]
<1> DEFINE s == <<Len(Encoding[m]) % Base, Len(Encoding[m]) \div Base>>
           t == Encoding[m]
<1>1. t \in Seq(Byte) /\ Len(t) \in 1 .. MAX_PAYLOAD /\ Len(t) \in Nat /\ Len(t) < Base * Base
  BY EncodingAssumption, SerialAssumption
<1>2. s \in Seq(Byte) /\ Len(s) = 2
  <2>1. (Len(t) % Base) \in Byte /\ (Len(t) \div Base) \in Byte
    BY <1>1, TwoBytes
  <2> QED BY <2>1
<1>3. /\ Len(s \o t) = Len(s) + Len(t)
      /\ \A i \in 1 .. (Len(s) + Len(t)) : (s \o t)[i] = IF i <= Len(s) THEN s[i] ELSE t[i - Len(s)]
  BY <1>1, <1>2, ConcatProperties
<1>4. s[1] = Len(t) % Base /\ s[2] = Len(t) \div Base
  OBVIOUS
<1>5. Frame(m) = s \o t
  BY DEF Frame
<1> HIDE DEF s, t
<1>6. Len(s \o t) = Len(t) + 2 /\ (s \o t)[1] = s[1] /\ (s \o t)[2] = s[2]
  BY <1>1, <1>2, <1>3
<1>7. \A j \in 1 .. Len(t) : (s \o t)[j + 2] = t[j]
  BY <1>1, <1>2, <1>3
<1> QED BY <1>1, <1>4, <1>5, <1>6, <1>7 DEF t

\* A byte on the wire belongs to a frame, and the bytes from the parser's first one on
\* are the frame of the first message that is not handled.
LEMMA FirstFrame ==
  ASSUME ParserInv, StreamIntact, clean, wire # <<>>,
         NEW m, m = sent[Len(handled) + 1]
  PROVE  /\ Len(handled) < Len(sent) /\ m \in Message
         /\ Len(Frame(m)) \in Nat /\ Len(Frame(m)) <= Total
         /\ \A j \in 1 .. Len(Frame(m)) : Unhandled[j] = Frame(m)[j]
<1> DEFINE n == Len(sent) - Len(handled)
<1>1. Len(sent) \in Nat /\ Len(handled) \in Nat /\ Total \in Nat /\ Total >= 1
  BY TotalType DEF Total
<1>2. Len(handled) <= Len(sent)
  BY DEF StreamIntact, HandledSoFar
<1>3. PICK cut : cut \in [0 .. n -> 0 .. Total] /\ FramesFollow(cut)
  BY DEF StreamIntact, Total
<1>4. /\ cut[0] = 0 /\ cut[n] = Total
      /\ \A k \in 1 .. n :
           LET frame == Frame(sent[Len(handled) + k]) IN
             /\ cut[k] = cut[k - 1] + Len(frame)
             /\ \A j \in 1 .. Len(frame) : Unhandled[cut[k - 1] + j] = frame[j]
  BY <1>3 DEF FramesFollow, Total
<1>5. n \in Nat /\ n # 0
  <2>1. cut[0] = 0 /\ cut[n] = Total
    BY <1>4
  <2>2. n \in Nat
    BY <1>1, <1>2
  <2> QED BY <1>1, <2>1, <2>2
<1>6. 1 \in 1 .. n /\ Len(handled) < Len(sent)
  BY <1>1, <1>5
<1>7. m \in Message
  BY <1>1, <1>6, ElementOfSeq DEF ParserInv, TypeOK
<1>8. /\ cut[1] = cut[1 - 1] + Len(Frame(m))
      /\ \A j \in 1 .. Len(Frame(m)) : Unhandled[cut[1 - 1] + j] = Frame(m)[j]
  BY <1>4, <1>6
<1>9. Len(Frame(m)) \in Nat
  BY <1>7, FrameType
<1> HIDE DEF n
<1>10. cut[1] \in 0 .. Total
  BY <1>3, <1>5
<1>11. Len(Frame(m)) <= Total
  BY <1>1, <1>4, <1>8, <1>9, <1>10
<1>12. \A j \in 1 .. Len(Frame(m)) : Unhandled[j] = Frame(m)[j]
  BY <1>4, <1>8, <1>9
<1> QED BY <1>6, <1>7, <1>9, <1>11, <1>12

\* A step that moves bytes from the wire to the parser, or nothing, keeps the frames.
LEMMA StreamKept ==
  ASSUME StreamIntact, clean' => clean, UNCHANGED <<sent, handled>>,
         clean => Total' = Total /\ Unhandled' = Unhandled
  PROVE  StreamIntact'
<1> SUFFICES ASSUME clean'
             PROVE  HandledSoFar' /\ (\E cut \in [0 .. (Len(sent) - Len(handled)) -> 0 .. Total] : FramesFollow(cut))'
  BY DEF StreamIntact, Total
<1>1. HandledSoFar'
  BY DEF StreamIntact, HandledSoFar
<1>2. PICK cut \in [0 .. (Len(sent) - Len(handled)) -> 0 .. Total] : FramesFollow(cut)
  BY DEF StreamIntact, Total
<1>3. FramesFollow(cut)'
  <2>1. sent' = sent /\ handled' = handled /\ Unhandled' = Unhandled
    BY Zenon
  <2>2. ReadBytes' + Len(wire') = ReadBytes + Len(wire)
    BY DEF Total
  <2> QED BY <1>2, <2>1, <2>2 DEF FramesFollow
<1>4. cut \in [0 .. (Len(sent') - Len(handled')) -> 0 .. Total']
  BY <1>2
<1> QED BY <1>1, <1>3, <1>4

\* Reading a byte moves it from the wire to the parser.
LEMMA ByteRead ==
  ASSUME ParserInv, wire # <<>>, wire' = Tail(wire), ReadBytes' = ReadBytes + 1,
         \A j \in 1 .. (ReadBytes + 1) :
           ReadByte(j)' = IF j <= ReadBytes THEN ReadByte(j) ELSE Head(wire)
  PROVE  Total' = Total /\ Unhandled' = Unhandled
<1>1. /\ ReadBytes \in Nat /\ Len(wire) \in Nat /\ Len(wire) >= 1
      /\ Head(wire) = wire[1]
  BY TotalType
<1>2. /\ Len(wire') = Len(wire) - 1
      /\ \A i \in 1 .. (Len(wire) - 1) : wire'[i] = wire[i + 1]
  <2>1. wire \in Seq(Byte)
    BY DEF ParserInv, TypeOK
  <2> QED BY <2>1, <1>1, HeadTailProperties
<1>3. Total' = Total
  BY <1>1, <1>2 DEF Total
<1>4. ASSUME NEW j \in 1 .. Total
      PROVE  (IF j <= ReadBytes' THEN ReadByte(j)' ELSE wire'[j - ReadBytes'])
               = IF j <= ReadBytes THEN ReadByte(j) ELSE wire[j - ReadBytes]
  <2>1. CASE j <= ReadBytes + 1
    BY <1>1, <2>1
  <2>2. CASE ~ (j <= ReadBytes + 1)
    <3>1. j - (ReadBytes + 1) \in 1 .. (Len(wire) - 1)
      BY <1>1, <2>2 DEF Total
    <3>2. wire'[j - (ReadBytes + 1)] = wire[(j - (ReadBytes + 1)) + 1]
      BY <1>2, <3>1
    <3>3. (j - (ReadBytes + 1)) + 1 = j - ReadBytes
      BY <1>1
    <3>4. ~ (j <= ReadBytes') /\ ~ (j <= ReadBytes)
      BY <1>1, <2>2
    <3>5. wire'[j - ReadBytes'] = wire[j - ReadBytes]
      BY <3>2, <3>3
    <3> QED BY <3>4, <3>5
  <2> QED BY <2>1, <2>2
<1>5. Unhandled = [j \in 1 .. Total |-> IF j <= ReadBytes THEN ReadByte(j) ELSE wire[j - ReadBytes]]
  BY DEF Unhandled, Total
<1>6. Unhandled' = [j \in 1 .. Total' |->
                      IF j <= ReadBytes' THEN ReadByte(j)' ELSE wire'[j - ReadBytes']]
  BY DEF Unhandled, Total
<1> QED BY <1>3, <1>4, <1>5, <1>6

LEMMA ReadLen1Stream ==
  ASSUME ParserInv, StreamIntact, ReadLen1 PROVE StreamIntact'
<1>1. /\ wire # <<>> /\ wire' = Tail(wire)
      /\ frameState = "AwaitingLen1" /\ frameState' = "AwaitingLen2"
      /\ frameLength' = Head(wire) /\ UNCHANGED <<sent, handled, clean>>
  BY DEF ReadLen1, Available
<1>2. ReadBytes = 0 /\ ReadBytes' = 1
  BY <1>1 DEF ReadBytes
<1>3. Head(wire) % Base = Head(wire)
  BY <1>1, TotalType, ByteMod
<1>4. ASSUME NEW j \in 1 .. (ReadBytes + 1)
      PROVE  ReadByte(j)' = IF j <= ReadBytes THEN ReadByte(j) ELSE Head(wire)
  BY <1>1, <1>2, <1>3 DEF ReadByte
<1> HIDE DEF ReadByte
<1>5. Total' = Total /\ Unhandled' = Unhandled
  BY <1>1, <1>2, <1>4, ByteRead
<1> QED BY <1>1, <1>5, StreamKept

\* The second length byte completes the length of the first message not handled, so
\* that it is never rejected while the line is intact.
LEMMA LengthAsSent ==
  ASSUME ParserInv, Len1IsByte, StreamIntact, clean, wire # <<>>, frameState = "AwaitingLen2",
         NEW len, len = LengthOf(frameLength, Head(wire))
  PROVE  /\ ~ IsBadLength(len)
         /\ len % Base = frameLength /\ len \div Base = Head(wire)
<1> DEFINE m == sent[Len(handled) + 1]
           e == Len(Encoding[m])
<1>1. ReadBytes = 1
  BY DEF ReadBytes
<1>2. /\ m \in Message /\ Len(Frame(m)) <= Total
      /\ \A j \in 1 .. Len(Frame(m)) : Unhandled[j] = Frame(m)[j]
  BY FirstFrame
<1>3. /\ e \in 1 .. MAX_PAYLOAD /\ Len(Frame(m)) = e + 2
      /\ Frame(m)[1] = e % Base /\ Frame(m)[2] = e \div Base
  BY <1>2, FrameBytes
<1>4. 1 \in 1 .. Len(Frame(m)) /\ 2 \in 1 .. Len(Frame(m))
  BY <1>3, Constants
<1>5. 1 \in 1 .. Total /\ 2 \in 1 .. Total
  BY <1>2, <1>3, TotalType, Constants
<1>6. Unhandled[1] = ReadByte(1) /\ Unhandled[2] = wire[1]
  BY <1>1, <1>5 DEF Unhandled, Total
<1>7. frameLength % Base = frameLength
  BY ByteMod DEF Len1IsByte
<1>8. ReadByte(1) = frameLength
  BY <1>7 DEF ReadByte
<1>9. e % Base = frameLength /\ e \div Base = Head(wire)
  BY <1>2, <1>3, <1>4, <1>6, <1>8, TotalType
<1>10. e = Base * (e \div Base) + (e % Base)
  <2>1. e \in Nat /\ Base \in Nat \ {0}
    BY <1>3, Constants
  <2> QED BY <2>1, ModDef
<1>11. len = e
  <2>1. len = frameLength + Head(wire) * Base
    BY DEF LengthOf
  <2>2. frameLength \in Nat /\ Head(wire) \in Nat /\ Base \in Nat
    BY TotalType, Constants DEF Len1IsByte, Byte
  <2>3. e = Base * Head(wire) + frameLength
    BY <1>9, <1>10
  <2> HIDE DEF e
  <2> QED BY <2>1, <2>2, <2>3
<1> HIDE DEF e
<1> QED BY <1>3, <1>9, <1>11, Constants DEF IsBadLength

LEMMA ReadLen2Stream ==
  ASSUME ParserInv, Len1IsByte, StreamIntact, ReadLen2 PROVE StreamIntact'
<1> DEFINE len == LengthOf(frameLength, Head(wire))
<1>1. /\ wire # <<>> /\ wire' = Tail(wire) /\ frameState = "AwaitingLen2"
      /\ UNCHANGED <<sent, handled, clean>>
  BY DEF ReadLen2, Available
<1>2. ASSUME clean PROVE Total' = Total /\ Unhandled' = Unhandled
  <2>1. ~ IsBadLength(len) /\ len % Base = frameLength /\ len \div Base = Head(wire)
    BY <1>1, <1>2, LengthAsSent
  <2>2. frameLength' = len /\ frameIndex' = 0 /\ frameState' = "AwaitingPayload"
    BY <2>1 DEF ReadLen2
  <2> HIDE DEF len
  <2>3. ReadBytes = 1 /\ ReadBytes' = 2
    BY <1>1, <2>2 DEF ReadBytes
  <2>4. frameLength % Base = frameLength
    BY <1>1, ByteMod DEF Len1IsByte
  <2>5. ASSUME NEW j \in 1 .. (ReadBytes + 1)
        PROVE  ReadByte(j)' = IF j <= ReadBytes THEN ReadByte(j) ELSE Head(wire)
    BY <2>1, <2>2, <2>3, <2>4 DEF ReadByte
  <2> HIDE DEF ReadByte
  <2> QED BY <1>1, <2>3, <2>5, ByteRead
<1> QED BY <1>1, <1>2, StreamKept

LEMMA ReadPayloadStream ==
  ASSUME ParserInv, StreamIntact, ReadPayload PROVE StreamIntact'
<1>1. /\ wire # <<>> /\ wire' = Tail(wire)
      /\ frameState = "AwaitingPayload" /\ frameState' = "AwaitingPayload"
      /\ frameIndex < MAX_PAYLOAD /\ frameIndex' = frameIndex + 1
      /\ payloadBuffer' = [payloadBuffer EXCEPT ![frameIndex] = Head(wire)]
      /\ frameLength' = frameLength /\ UNCHANGED <<sent, handled, clean>>
  BY DEF ReadPayload, Available, StoreByte
<1>2. /\ frameIndex \in 0 .. (MAX_PAYLOAD - 1) /\ frameIndex \in Nat
      /\ payloadBuffer \in [0 .. (MAX_PAYLOAD - 1) -> Byte]
  BY <1>1, Constants DEF ParserInv, TypeOK
<1>3. ReadBytes = frameIndex + 2 /\ ReadBytes' = ReadBytes + 1
  BY <1>1, <1>2 DEF ReadBytes
<1>4. ASSUME NEW j \in 1 .. (ReadBytes + 1)
      PROVE  ReadByte(j)' = IF j <= ReadBytes THEN ReadByte(j) ELSE Head(wire)
  <2>1. CASE j = 1 \/ j = 2
    BY <1>1, <1>2, <1>3, <2>1 DEF ReadByte
  <2>2. CASE j # 1 /\ j # 2
    <3>0. j \in 1 .. ((frameIndex + 2) + 1) /\ j >= 3
      BY <1>2, <1>3, <2>2
    <3>1. j - 3 \in 0 .. frameIndex /\ j - 3 \in 0 .. (MAX_PAYLOAD - 1)
      BY <1>2, <3>0, Constants
    <3>2. payloadBuffer'[j - 3] = IF j - 3 = frameIndex THEN Head(wire) ELSE payloadBuffer[j - 3]
      BY <1>1, <1>2, <3>1
    <3>3. ReadByte(j) = payloadBuffer[j - 3] /\ ReadByte(j)' = payloadBuffer'[j - 3]
      BY <2>2 DEF ReadByte
    <3>4. (j - 3 = frameIndex) <=> ~ (j <= ReadBytes)
      BY <1>2, <1>3
    <3> QED BY <3>2, <3>3, <3>4
  <2> QED BY <2>1, <2>2
<1> HIDE DEF ReadByte
<1>5. Total' = Total /\ Unhandled' = Unhandled
  BY <1>1, <1>3, <1>4, ByteRead
<1> QED BY <1>1, <1>5, StreamKept

\* The payload that is complete is that of the first message not handled, and decodes
\* to it alone: what the buffer holds from earlier frames is behind the end.
LEMMA FrameAsSent ==
  ASSUME ParserInv, StreamIntact, clean,
         NEW m \in Message \union {Undecodable}, CompleteFrame(m)
  PROVE  /\ Len(handled) < Len(sent) /\ m = sent[Len(handled) + 1] /\ m \in Message
         /\ ReadBytes + 1 = Len(Frame(m)) /\ Len(Frame(m)) <= Total
<1> DEFINE s == sent[Len(handled) + 1]
           e == Encoding[s]
           payload == [i \in 1 .. frameLength |-> StoreByte[i - 1]]
<1>1. /\ wire # <<>> /\ frameState = "AwaitingPayload" /\ frameIndex < MAX_PAYLOAD
      /\ frameIndex + 1 >= frameLength /\ m \in Decode(payload)
  BY DEF CompleteFrame, Available
<1>2. /\ frameIndex \in Nat /\ frameLength \in Nat /\ frameIndex < frameLength
      /\ payloadBuffer \in [0 .. (MAX_PAYLOAD - 1) -> Byte]
  BY <1>1, Constants DEF ParserInv, TypeOK, BufferBounds
<1>3. frameLength = frameIndex + 1 /\ frameIndex \in 0 .. (MAX_PAYLOAD - 1)
  BY <1>1, <1>2, Constants
<1>4. ReadBytes = frameIndex + 2
  BY <1>1 DEF ReadBytes
<1>5. /\ Len(handled) < Len(sent) /\ s \in Message /\ Len(Frame(s)) <= Total
      /\ \A j \in 1 .. Len(Frame(s)) : Unhandled[j] = Frame(s)[j]
  BY <1>1, FirstFrame
<1>6. /\ Len(e) \in 1 .. MAX_PAYLOAD /\ Len(Frame(s)) = Len(e) + 2
      /\ Frame(s)[1] = Len(e) % Base /\ Frame(s)[2] = Len(e) \div Base
      /\ \A j \in 1 .. Len(e) : Frame(s)[j + 2] = e[j]
  BY <1>5, FrameBytes
<1> HIDE DEF s, e
<1>7. \A j \in 1 .. Total : Unhandled[j] = IF j <= ReadBytes THEN ReadByte(j) ELSE wire[j - ReadBytes]
  BY DEF Unhandled, Total
<1>8. Total \in Nat /\ Len(e) \in Nat
  BY <1>6, TotalType, Constants
<1>9. Len(e) = frameLength
  <2>1. 1 \in 1 .. Len(Frame(s)) /\ 2 \in 1 .. Len(Frame(s)) /\ 1 \in 1 .. Total /\ 2 \in 1 .. Total
    BY <1>5, <1>6, <1>8, Constants
  <2>2. 1 <= ReadBytes /\ 2 <= ReadBytes
    BY <1>2, <1>4
  <2>3. Unhandled[1] = Len(e) % Base /\ Unhandled[2] = Len(e) \div Base
    BY <1>5, <1>6, <2>1
  <2>4. Unhandled[1] = ReadByte(1) /\ Unhandled[2] = ReadByte(2)
    BY <1>7, <2>1, <2>2
  <2>5. ReadByte(1) = frameLength % Base /\ ReadByte(2) = frameLength \div Base
    BY DEF ReadByte
  <2>6. frameLength % Base = Len(e) % Base /\ frameLength \div Base = Len(e) \div Base
    BY <2>3, <2>4, <2>5
  <2>7. Base \in Nat \ {0}
    BY Constants
  <2>8. frameLength = Base * (frameLength \div Base) + (frameLength % Base)
    BY <1>2, <2>7, ModDef
  <2>9. Len(e) = Base * (Len(e) \div Base) + (Len(e) % Base)
    BY <1>8, <2>7, ModDef
  <2> QED BY <2>6, <2>8, <2>9
<1>10. payload = e
  <2>1. e \in [1 .. Len(e) -> Byte]
    <3>1. e \in Seq(Byte)
      BY <1>5, EncodingAssumption DEF e
    <3> QED BY <3>1, LenProperties
  <2>2. ASSUME NEW i \in 1 .. frameLength PROVE StoreByte[i - 1] = e[i]
    <3>1. i + 2 \in 1 .. Len(Frame(s)) /\ i + 2 \in 1 .. Total /\ i \in 1 .. Len(e) /\ i \in Nat
      BY <1>2, <1>5, <1>6, <1>8, <1>9
    <3>2. Unhandled[i + 2] = e[i]
      BY <1>5, <1>6, <3>1
    <3>3. Unhandled[i + 2] = IF i + 2 <= ReadBytes THEN ReadByte(i + 2) ELSE wire[(i + 2) - ReadBytes]
      BY <1>7, <3>1
    <3>4. CASE i <= frameIndex
      <4>1. ReadByte(i + 2) = payloadBuffer[(i + 2) - 3]
        BY <3>1 DEF ReadByte
      <4>2. (i + 2) - 3 = i - 1 /\ i - 1 # frameIndex /\ i - 1 \in 0 .. (MAX_PAYLOAD - 1)
        BY <1>2, <1>3, <3>1, <3>4, Constants
      <4>3. StoreByte[i - 1] = payloadBuffer[i - 1]
        BY <1>2, <4>2 DEF StoreByte
      <4>4. i + 2 <= ReadBytes
        BY <1>2, <1>4, <3>1, <3>4
      <4> QED BY <3>2, <3>3, <4>1, <4>2, <4>3, <4>4
    <3>5. CASE ~ (i <= frameIndex)
      <4>1. i = frameIndex + 1
        BY <1>2, <1>3, <3>1, <3>5
      <4>2. ~ (i + 2 <= ReadBytes) /\ (i + 2) - ReadBytes = 1 /\ i - 1 = frameIndex
        BY <1>2, <1>4, <4>1
      <4>3. StoreByte[i - 1] = Head(wire)
        BY <1>2, <1>3, <4>2 DEF StoreByte
      <4>4. Head(wire) = wire[1]
        BY <1>1, TotalType
      <4> QED BY <3>2, <3>3, <4>2, <4>3, <4>4
    <3> QED BY <3>4, <3>5
  <2> QED BY <1>9, <2>1, <2>2
<1>11. m = s
  <2>1. m \in Decode(e)
    BY <1>1, <1>10
  <2>2. Encoding[s] = e
    BY DEF e
  <2>3. m \in Message /\ Encoding[m] = e
    BY <1>5, <2>1, <2>2 DEF Decode
  <2> QED BY <1>5, <2>2, <2>3, EncodingAssumption
<1>12. ReadBytes + 1 = Len(Frame(s))
  BY <1>2, <1>3, <1>4, <1>6, <1>9
<1> QED BY <1>5, <1>11, <1>12 DEF s

\* A frame handled is the first of the stream; the others move up.
LEMMA CompleteFrameStream ==
  ASSUME ParserInv, StreamIntact, NEW m \in Message \union {Undecodable}, CompleteFrame(m)
  PROVE  StreamIntact'
<1> SUFFICES ASSUME clean'
             PROVE  /\ HandledSoFar'
                    /\ (\E cut \in [0 .. (Len(sent) - Len(handled)) -> 0 .. Total] : FramesFollow(cut))'
  BY DEF StreamIntact, Total
<1> DEFINE n == Len(sent) - Len(handled)
           f == Len(Frame(m))
<1>1. /\ wire # <<>> /\ sent' = sent /\ handled' = Append(handled, m)
      /\ frameState' = "AwaitingLen1"
      /\ \E k \in 1 .. (IF Restarts(m) THEN Len(wire) ELSE 1) :
           wire' = SubSeq(wire, k + 1, Len(wire)) /\ clean' = (clean /\ k = 1)
  BY DEF CompleteFrame, Available, ResetParser
<1>2. clean /\ wire' = SubSeq(wire, 1 + 1, Len(wire))
  BY <1>1
<1>3. /\ Len(handled) < Len(sent) /\ m = sent[Len(handled) + 1] /\ m \in Message
      /\ ReadBytes + 1 = f /\ f <= Total
  BY <1>2, FrameAsSent
<1>4. /\ ReadBytes \in Nat /\ Len(wire) \in Nat /\ Total \in Nat /\ Len(wire) >= 1
      /\ Len(sent) \in Nat /\ Len(handled) \in Nat
  BY <1>1, TotalType
<1>5. f \in Nat
  BY <1>3, <1>4
<1>6. ReadBytes' = 0
  BY <1>1 DEF ReadBytes
<1>7. /\ Len(wire') = Len(wire) - 1
      /\ \A j \in 1 .. (Len(wire) - 1) : wire'[j] = wire[j + 1]
  <2>1. wire \in Seq(Byte) /\ Tail(wire) = SubSeq(wire, 2, Len(wire))
    BY <1>4 DEF ParserInv, TypeOK
  <2>2. wire' = Tail(wire)
    BY <1>2, <2>1
  <2> QED BY <1>1, <1>4, <2>1, <2>2, HeadTailProperties
<1> HIDE DEF f
<1>8. Total' = Total - f
  BY <1>3, <1>4, <1>6, <1>7 DEF Total
<1>9. /\ Len(handled') = Len(handled) + 1 /\ handled'[Len(handled) + 1] = m
      /\ \A i \in 1 .. Len(handled) : handled'[i] = handled[i]
  <2>1. handled \in Seq(Message \union {Undecodable})
    BY DEF ParserInv, TypeOK
  <2> QED BY <1>1, <2>1, AppendProperties
<1>10. HandledSoFar'
  <2>1. \A i \in 1 .. Len(handled) : handled[i] = sent[i]
    BY <1>2 DEF StreamIntact, HandledSoFar
  <2> QED BY <1>1, <1>3, <1>4, <1>9, <2>1 DEF HandledSoFar
<1>11. PICK cut : cut \in [0 .. n -> 0 .. Total] /\ FramesFollow(cut)
  BY <1>2 DEF StreamIntact, Total
<1>12. /\ cut[0] = 0 /\ cut[n] = Total
       /\ \A i, j \in 0 .. n : i <= j => cut[i] <= cut[j]
       /\ \A k \in 1 .. n :
            /\ cut[k] = cut[k - 1] + Len(Frame(sent[Len(handled) + k]))
            /\ \A j \in 1 .. Len(Frame(sent[Len(handled) + k])) :
                 Unhandled[cut[k - 1] + j] = Frame(sent[Len(handled) + k])[j]
  BY <1>11 DEF FramesFollow, Total
<1>13. n \in Nat \ {0} /\ Len(sent') - Len(handled') = n - 1
  BY <1>1, <1>3, <1>4, <1>9
<1>14. \A k \in 1 .. (n - 1) : sent'[Len(handled') + k] = sent[Len(handled) + (k + 1)]
  <2>1. ASSUME NEW k \in 1 .. (n - 1) PROVE (Len(handled) + 1) + k = Len(handled) + (k + 1)
    BY <1>4
  <2> QED BY <1>1, <1>9, <2>1
<1> HIDE DEF n
<1>15. cut[1] = f
  <2>1. 1 \in 1 .. n
    BY <1>13
  <2>2. cut[1] = cut[1 - 1] + Len(Frame(sent[Len(handled) + 1]))
    BY <1>12, <2>1
  <2> QED BY <1>3, <1>5, <1>12, <2>2 DEF f
<1>16. \A i \in 0 .. n : cut[i] \in 0 .. Total
  BY <1>11
<1>17. ASSUME NEW i \in 1 .. n PROVE cut[i] \in f .. Total
  <2>1. 1 \in 0 .. n /\ i \in 0 .. n /\ 1 <= i
    BY <1>13
  <2> QED BY <1>4, <1>5, <1>12, <1>15, <1>16, <2>1
\* What follows the frame is on the wire.
<1>18. ASSUME NEW x \in 1 .. Total' PROVE Unhandled'[x] = Unhandled[f + x]
  <2>1. Unhandled' = [j \in 1 .. Total' |-> IF j <= ReadBytes' THEN ReadByte(j)' ELSE wire'[j - ReadBytes']]
    BY DEF Unhandled, Total
  <2>2. x \in Nat /\ ~ (x <= ReadBytes') /\ x - ReadBytes' = x
    BY <1>4, <1>5, <1>6, <1>8
  <2>3. Unhandled'[x] = wire'[x]
    BY <2>1, <2>2
  <2>4. x \in 1 .. (Len(wire) - 1)
    BY <1>3, <1>4, <1>5, <1>8 DEF Total
  <2>5. f + x \in 1 .. Total /\ ~ (f + x <= ReadBytes) /\ (f + x) - ReadBytes = x + 1
    BY <1>3, <1>4, <1>5, <1>8, <2>2
  <2>6. Unhandled[f + x] = wire[x + 1]
    BY <2>5 DEF Unhandled, Total
  <2> QED BY <1>7, <2>3, <2>4, <2>6
<1> DEFINE next == [k \in 0 .. (n - 1) |-> cut[k + 1] - f]
<1>19. next \in [0 .. (n - 1) -> 0 .. Total']
  <2>1. ASSUME NEW k \in 0 .. (n - 1) PROVE cut[k + 1] - f \in 0 .. Total'
    <3>1. k + 1 \in 1 .. n
      BY <1>13
    <3> QED BY <1>4, <1>5, <1>8, <1>17, <3>1
  <2> QED BY <2>1
<1>20. next[0] = 0 /\ next[n - 1] = Total'
  <2>1. 0 \in 0 .. (n - 1) /\ n - 1 \in 0 .. (n - 1) /\ (n - 1) + 1 = n /\ 0 + 1 = 1
    BY <1>13
  <2>2. next[0] = cut[1] - f /\ next[n - 1] = cut[n] - f
    BY <2>1
  <2> HIDE DEF next
  <2> QED BY <1>5, <1>8, <1>12, <1>15, <2>2
<1>21. ASSUME NEW i \in 0 .. (n - 1), NEW j \in 0 .. (n - 1), i <= j PROVE next[i] <= next[j]
  <2>1. i + 1 \in 0 .. n /\ j + 1 \in 0 .. n /\ i + 1 <= j + 1
    BY <1>13, <1>21
  <2>2. cut[i + 1] <= cut[j + 1] /\ cut[i + 1] \in 0 .. Total /\ cut[j + 1] \in 0 .. Total
    BY <1>12, <1>16, <2>1
  <2> QED BY <1>4, <1>5, <2>2
<1>22. ASSUME NEW k \in 1 .. (n - 1), NEW frame, frame = Frame(sent'[Len(handled') + k])
       PROVE  /\ next[k] = next[k - 1] + Len(frame)
              /\ \A j \in 1 .. Len(frame) : Unhandled'[next[k - 1] + j] = frame[j]
  <2>1. k + 1 \in 1 .. n /\ (k + 1) - 1 = k /\ k \in 1 .. n
    BY <1>13
  <2>2. frame = Frame(sent[Len(handled) + (k + 1)])
    <3>1. sent'[Len(handled') + k] = sent[Len(handled) + (k + 1)]
      BY <1>14
    <3> QED BY <1>22, <3>1
  <2>3. /\ cut[k + 1] = cut[k] + Len(frame)
        /\ \A j \in 1 .. Len(frame) : Unhandled[cut[k] + j] = frame[j]
    <3>1. LET g == Frame(sent[Len(handled) + (k + 1)]) IN
            /\ cut[k + 1] = cut[(k + 1) - 1] + Len(g)
            /\ \A j \in 1 .. Len(g) : Unhandled[cut[(k + 1) - 1] + j] = g[j]
      BY <1>12, <2>1
    <3> QED BY <2>1, <2>2, <3>1
  <2>4. next[k] = cut[k + 1] - f /\ next[k - 1] = cut[k] - f
    <3>1. k \in 0 .. (n - 1) /\ k - 1 \in 0 .. (n - 1) /\ (k - 1) + 1 = k
      BY <1>13
    <3> QED BY <3>1
  <2> HIDE DEF next
  <2>5. Len(frame) \in Nat
    <3>1. Len(handled) + (k + 1) \in 1 .. Len(sent)
      BY <1>4, <1>13 DEF n
    <3>2. sent[Len(handled) + (k + 1)] \in Message
      BY <3>1, ElementOfSeq DEF ParserInv, TypeOK
    <3> QED BY <2>2, <3>2, FrameType
  <2>6. cut[k] \in f .. Total /\ cut[k + 1] \in f .. Total
    BY <1>17, <2>1
  <2>7. ASSUME NEW j \in 1 .. Len(frame) PROVE Unhandled'[next[k - 1] + j] = frame[j]
    <3>1. PICK start, len : start = cut[k] /\ len = Len(frame)
      OBVIOUS
    <3>2. (cut[k] - f) + j \in 1 .. (Total - f) /\ f + ((cut[k] - f) + j) = cut[k] + j
      <4>1. /\ start + len <= Total /\ start \in Int /\ f <= start
            /\ f \in Nat /\ Total \in Nat /\ len \in Nat /\ j \in 1 .. len
        BY <1>4, <1>5, <2>3, <2>5, <2>6, <3>1
      <4>2. (start - f) + j \in 1 .. (Total - f) /\ f + ((start - f) + j) = start + j
        BY <4>1
      <4> QED BY <3>1, <4>2
    <3>3. (cut[k] - f) + j \in 1 .. Total'
      BY <1>8, <3>2
    <3> QED BY <1>18, <2>3, <2>4, <3>2, <3>3
  <2> QED BY <1>4, <1>5, <2>3, <2>4, <2>5, <2>6, <2>7
<1> HIDE DEF next
<1>23. PICK after : after \in [0 .. (n - 1) -> 0 .. Total'] /\ after = next
  BY <1>19
<1>24. ASSUME NEW i \in 0 .. (n - 1), NEW j \in 0 .. (n - 1), i <= j PROVE after[i] <= after[j]
  BY <1>21, <1>23, <1>24
<1>25. ASSUME NEW k \in 1 .. (n - 1), NEW frame, frame = Frame(sent'[Len(handled') + k])
       PROVE  /\ after[k] = after[k - 1] + Len(frame)
              /\ \A j \in 1 .. Len(frame) : Unhandled'[after[k - 1] + j] = frame[j]
  BY <1>22, <1>23, <1>25
<1>26. FramesFollow(after)'
  <2>1. after[0] = 0 /\ after[Len(sent') - Len(handled')] = ReadBytes' + Len(wire')
    BY <1>13, <1>20, <1>23 DEF Total
  <2>2. \A i, j \in 0 .. (Len(sent') - Len(handled')) : i <= j => after[i] <= after[j]
    BY <1>13, <1>24
  <2>3. ASSUME NEW k \in 1 .. (Len(sent') - Len(handled'))
        PROVE  /\ after[k] = after[k - 1] + Len(Frame(sent'[Len(handled') + k]))
               /\ \A j \in 1 .. Len(Frame(sent'[Len(handled') + k])) :
                    Unhandled'[after[k - 1] + j] = Frame(sent'[Len(handled') + k])[j]
    <3>1. k \in 1 .. (n - 1)
      BY <1>13
    <3> QED BY <3>1, <1>25
  <2> QED BY <2>1, <2>2, <2>3 DEF FramesFollow
<1> QED BY <1>10, <1>13, <1>23, <1>26

\* A frame sent goes behind all others.
LEMMA SendFrameStream ==
  ASSUME ParserInv, StreamIntact, NEW m \in Message, SendFrame(m)
  PROVE  StreamIntact'
<1> SUFFICES ASSUME clean'
             PROVE  /\ HandledSoFar'
                    /\ (\E cut \in [0 .. (Len(sent) - Len(handled)) -> 0 .. Total] : FramesFollow(cut))'
  BY DEF StreamIntact, Total
<1> DEFINE n == Len(sent) - Len(handled)
           f == Len(Frame(m))
<1>1. /\ clean /\ handled' = handled /\ sent' = Append(sent, m) /\ wire' = wire \o Frame(m)
      /\ UNCHANGED <<frameState, frameLength, frameIndex, payloadBuffer>>
  BY DEF SendFrame, parser
<1>2. /\ ReadBytes \in Nat /\ Len(wire) \in Nat /\ Total \in Nat
      /\ Len(sent) \in Nat /\ Len(handled) \in Nat
  BY TotalType
<1>3. Frame(m) \in Seq(Byte) /\ f \in Nat /\ wire \in Seq(Byte) /\ sent \in Seq(Message)
  BY FrameType DEF ParserInv, TypeOK
<1>4. /\ Len(wire') = Len(wire) + f
      /\ \A i \in 1 .. (Len(wire) + f) :
           wire'[i] = IF i <= Len(wire) THEN wire[i] ELSE Frame(m)[i - Len(wire)]
  BY <1>1, <1>3, ConcatProperties
<1>5. /\ Len(sent') = Len(sent) + 1 /\ sent'[Len(sent) + 1] = m
      /\ \A i \in 1 .. Len(sent) : sent'[i] = sent[i]
  BY <1>1, <1>3, AppendProperties
<1>6. ReadBytes' = ReadBytes /\ \A j \in 1 .. ReadBytes : ReadByte(j)' = ReadByte(j)
  BY <1>1 DEF ReadBytes, ReadByte
<1>7. HandledSoFar /\ \E cut \in [0 .. n -> 0 .. Total] : FramesFollow(cut)
  BY <1>1 DEF StreamIntact, Total
<1>8. HandledSoFar'
  <2>1. \A i \in 1 .. Len(handled) : handled[i] = sent[i] /\ i \in 1 .. Len(sent)
    BY <1>2, <1>7 DEF HandledSoFar
  <2>2. Len(handled) <= Len(sent) + 1
    BY <1>2, <1>7 DEF HandledSoFar
  <2> QED BY <1>1, <1>5, <2>1, <2>2 DEF HandledSoFar
<1> HIDE DEF f
<1>9. Total' = Total + f
  BY <1>2, <1>3, <1>4, <1>6 DEF Total
<1>10. n \in Nat /\ Len(sent') - Len(handled') = n + 1
  BY <1>1, <1>2, <1>5, <1>7 DEF HandledSoFar
<1>11. PICK cut : cut \in [0 .. n -> 0 .. Total] /\ FramesFollow(cut)
  BY <1>7
<1>12. /\ cut[0] = 0 /\ cut[n] = Total
       /\ \A i, j \in 0 .. n : i <= j => cut[i] <= cut[j]
       /\ \A k \in 1 .. n :
            /\ cut[k] = cut[k - 1] + Len(Frame(sent[Len(handled) + k]))
            /\ \A j \in 1 .. Len(Frame(sent[Len(handled) + k])) :
                 Unhandled[cut[k - 1] + j] = Frame(sent[Len(handled) + k])[j]
  BY <1>11 DEF FramesFollow, Total
<1>13. \A k \in 1 .. n : /\ Len(handled) + k \in 1 .. Len(sent)
                         /\ sent'[Len(handled') + k] = sent[Len(handled) + k]
  BY <1>1, <1>2, <1>5
<1>14. sent'[Len(handled') + (n + 1)] = m
  <2>1. Len(handled') + (n + 1) = Len(sent) + 1
    BY <1>1, <1>2
  <2> QED BY <1>5, <2>1
<1> HIDE DEF n
<1>15. \A i \in 0 .. n : cut[i] \in 0 .. Total
  BY <1>11
<1>16. ASSUME NEW x \in 1 .. Total'
       PROVE  Unhandled'[x] = IF x <= Total THEN Unhandled[x] ELSE Frame(m)[x - Total]
  <2>0. x \in Nat
    BY <1>2, <1>3, <1>9
  <2>1. Unhandled'[x] = IF x <= ReadBytes THEN ReadByte(x)' ELSE wire'[x - ReadBytes]
    BY <1>6 DEF Unhandled, Total
  <2>2. x <= Total => Unhandled[x] = IF x <= ReadBytes THEN ReadByte(x) ELSE wire[x - ReadBytes]
    BY DEF Unhandled, Total
  <2>3. CASE x <= ReadBytes
    <3>1. x <= Total /\ x \in 1 .. ReadBytes
      BY <1>2, <2>0, <2>3 DEF Total
    <3> QED BY <1>6, <2>1, <2>2, <2>3, <3>1
  <2>4. CASE ~ (x <= ReadBytes)
    <3>1. /\ x - ReadBytes \in 1 .. (Len(wire) + f)
          /\ (x - ReadBytes <= Len(wire)) <=> (x <= Total)
          /\ (x - ReadBytes) - Len(wire) = x - Total
      BY <1>2, <1>3, <1>9, <2>0, <2>4 DEF Total
    <3>2. wire'[x - ReadBytes] = IF x <= Total THEN wire[x - ReadBytes] ELSE Frame(m)[x - Total]
      BY <1>4, <3>1
    <3> QED BY <2>1, <2>2, <2>4, <3>2
  <2> QED BY <2>3, <2>4
<1> DEFINE next == [k \in 0 .. (n + 1) |-> IF k <= n THEN cut[k] ELSE Total']
<1>17. next \in [0 .. (n + 1) -> 0 .. Total']
  <2>1. ASSUME NEW k \in 0 .. (n + 1) PROVE (IF k <= n THEN cut[k] ELSE Total') \in 0 .. Total'
    <3>1. CASE k <= n
      <4>1. k \in 0 .. n
        BY <1>10, <3>1
      <4>2. cut[k] \in 0 .. Total
        BY <1>15, <4>1
      <4> QED BY <1>2, <1>3, <1>9, <3>1, <4>2
    <3>2. CASE ~ (k <= n)
      BY <1>2, <1>3, <1>9, <3>2
    <3> QED BY <3>1, <3>2
  <2> QED BY <2>1
<1>18. /\ \A k \in 0 .. n : next[k] = cut[k]
       /\ next[n + 1] = Total' /\ 0 \in 0 .. n /\ n \in 0 .. n
  BY <1>10
<1> HIDE DEF next
<1>19. PICK after : after \in [0 .. (n + 1) -> 0 .. Total'] /\ after = next
  BY <1>17
<1>20. FramesFollow(after)'
  <2>1. after[0] = 0 /\ after[Len(sent') - Len(handled')] = ReadBytes' + Len(wire')
    BY <1>10, <1>12, <1>18, <1>19 DEF Total
  <2>2. ASSUME NEW i \in 0 .. (n + 1), NEW j \in 0 .. (n + 1), i <= j PROVE after[i] <= after[j]
    <3>1. CASE j <= n
      <4>1. i \in 0 .. n /\ j \in 0 .. n
        BY <1>10, <2>2, <3>1
      <4> QED BY <1>12, <1>18, <1>19, <2>2, <4>1
    <3>2. CASE ~ (j <= n)
      <4>1. j = n + 1
        BY <1>10, <3>2
      <4>2. after[i] \in 0 .. Total' /\ after[j] = Total'
        BY <1>18, <1>19, <4>1
      <4> QED BY <1>2, <1>3, <1>9, <4>2
    <3> QED BY <3>1, <3>2
  <2>3. ASSUME NEW k \in 1 .. (n + 1), NEW frame, frame = Frame(sent'[Len(handled') + k])
        PROVE  /\ after[k] = after[k - 1] + Len(frame)
               /\ \A j \in 1 .. Len(frame) : Unhandled'[after[k - 1] + j] = frame[j]
    <3>1. CASE k <= n
      <4>1. k \in 1 .. n /\ k \in 0 .. n /\ k - 1 \in 0 .. n
        BY <1>10, <3>1
      <4>2. frame = Frame(sent[Len(handled) + k])
        BY <1>13, <2>3, <4>1
      <4>3. /\ cut[k] = cut[k - 1] + Len(frame)
            /\ \A j \in 1 .. Len(frame) : Unhandled[cut[k - 1] + j] = frame[j]
        <5>1. LET g == Frame(sent[Len(handled) + k]) IN
                /\ cut[k] = cut[k - 1] + Len(g)
                /\ \A j \in 1 .. Len(g) : Unhandled[cut[k - 1] + j] = g[j]
          BY <1>12, <4>1
        <5> QED BY <4>2, <5>1
      <4>4. after[k] = cut[k] /\ after[k - 1] = cut[k - 1]
        BY <1>18, <1>19, <4>1
      <4>5. cut[k] \in 0 .. Total /\ cut[k - 1] \in 0 .. Total
        BY <1>15, <4>1
      <4>6. Len(frame) \in Nat
        <5>1. sent[Len(handled) + k] \in Message
          BY <1>3, <1>13, <4>1, ElementOfSeq
        <5> QED BY <4>2, <5>1, FrameType
      <4>7. ASSUME NEW j \in 1 .. Len(frame) PROVE Unhandled'[cut[k - 1] + j] = frame[j]
        <5>1. cut[k - 1] + j <= Total /\ 1 <= cut[k - 1] + j /\ cut[k - 1] + j \in Nat
          <6>1. PICK start, len : start = cut[k - 1] /\ len = Len(frame)
            OBVIOUS
          <6>2. start + len <= Total /\ start \in Nat /\ len \in Nat /\ j \in 1 .. len
            BY <4>3, <4>5, <4>6, <6>1
          <6>3. start + j <= Total /\ 1 <= start + j /\ start + j \in Nat
            BY <1>2, <6>2
          <6> QED BY <6>1, <6>3
        <5>2. cut[k - 1] + j \in 1 .. Total'
          BY <1>2, <1>3, <1>9, <5>1
        <5> QED BY <1>16, <4>3, <5>1, <5>2
      <4> QED BY <4>3, <4>4, <4>7
    <3>2. CASE ~ (k <= n)
      <4>1. k = n + 1 /\ k - 1 = n
        BY <1>10, <3>2
      <4>2. frame = Frame(m) /\ Len(frame) = f
        BY <1>14, <2>3, <4>1 DEF f
      <4>3. after[k] = Total' /\ after[k - 1] = Total
        BY <1>12, <1>18, <1>19, <4>1
      <4>4. ASSUME NEW j \in 1 .. Len(frame) PROVE Unhandled'[Total + j] = frame[j]
        <5>1. Total + j \in 1 .. Total' /\ ~ (Total + j <= Total) /\ (Total + j) - Total = j
          BY <1>2, <1>3, <1>9, <4>2
        <5> QED BY <1>16, <4>2, <5>1
      <4> QED BY <1>9, <4>2, <4>3, <4>4
    <3> QED BY <3>1, <3>2
  <2>4. ASSUME NEW k \in 1 .. (Len(sent') - Len(handled'))
        PROVE  /\ after[k] = after[k - 1] + Len(Frame(sent'[Len(handled') + k]))
               /\ \A j \in 1 .. Len(Frame(sent'[Len(handled') + k])) :
                    Unhandled'[after[k - 1] + j] = Frame(sent'[Len(handled') + k])[j]
    <3>1. k \in 1 .. (n + 1)
      BY <1>10
    <3>2. PICK frame : frame = Frame(sent'[Len(handled') + k])
      OBVIOUS
    <3>3. /\ after[k] = after[k - 1] + Len(frame)
          /\ \A j \in 1 .. Len(frame) : Unhandled'[after[k - 1] + j] = frame[j]
      BY <2>3, <3>1, <3>2
    <3> QED BY <3>2, <3>3
  <2>5. \A i, j \in 0 .. (Len(sent') - Len(handled')) : i <= j => after[i] <= after[j]
    BY <1>10, <2>2
  <2> QED BY <2>1, <2>4, <2>5 DEF FramesFollow
<1> QED BY <1>8, <1>10, <1>19, <1>20

\* A byte lost ends the claim.
LEMMA LoseByteStream ==
  ASSUME NEW i \in 1 .. Len(wire), LoseByte(i) PROVE StreamIntact'
BY DEF LoseByte, StreamIntact

\* A restart between two frames, with nothing of the next one lost, keeps the frames.
LEMMA OnMeshDataStream ==
  ASSUME ParserInv, StreamIntact, NEW m \in MeshData, OnMeshData(m) PROVE StreamIntact'
<1>1. UNCHANGED <<sent, handled>>
  BY DEF OnMeshData
<1>2. CASE IsMeshConfigForMe(m)
  <2> SUFFICES ASSUME clean' PROVE StreamIntact'
    BY DEF StreamIntact
  <2>1. /\ frameState' = "AwaitingLen1"
        /\ \E k \in 0 .. Len(wire) :
             wire' = SubSeq(wire, k + 1, Len(wire)) /\ clean' = (clean /\ k = 0 /\ frameState = "AwaitingLen1")
    BY <1>2 DEF OnMeshData, ResetParser
  <2>2. clean /\ frameState = "AwaitingLen1" /\ wire' = SubSeq(wire, 0 + 1, Len(wire))
    BY <2>1
  <2>3. wire' = wire
    <3>1. wire \in Seq(Byte)
      BY DEF ParserInv, TypeOK
    <3> QED BY <2>2, <3>1, SubSeqFull
  <2>4. ReadBytes = 0 /\ ReadBytes' = 0
    BY <2>1, <2>2 DEF ReadBytes
  <2>5. Total' = Total
    BY <2>3, <2>4 DEF Total
  <2>6. ASSUME NEW j \in 1 .. Total PROVE ~ (j <= 0)
    BY TotalType
  <2>7. Unhandled' = Unhandled
    BY <2>3, <2>4, <2>5, <2>6 DEF Unhandled, Total
  <2> QED BY <1>1, <2>2, <2>5, <2>7, StreamKept
<1>3. CASE ~ IsMeshConfigForMe(m)
  <2>1. UNCHANGED <<frameState, frameLength, frameIndex, payloadBuffer, wire, clean>>
    BY <1>3 DEF OnMeshData, parser
  <2>2. Total' = Total /\ Unhandled' = Unhandled
    BY <2>1 DEF Total, Unhandled, ReadBytes, ReadByte
  <2> QED BY <1>1, <2>1, <2>2, StreamKept
<1> QED BY <1>2, <1>3

-----------------------------------------------------------------------------
(* What the frames make happen *)

\* The calls made so far keep their place when others follow.
LEMMA CallsGrow ==
  ASSUME ParserInv, NEW new \in Seq(CallType), calls' = calls \o new
  PROVE  /\ Len(calls) \in Nat /\ Len(new) \in Nat /\ Len(calls') = Len(calls) + Len(new)
         /\ \A c \in 1 .. Len(calls) : calls'[c] = calls[c]
         /\ \A c \in 1 .. Len(calls') :
              c \notin 1 .. Len(calls) => c - Len(calls) \in 1 .. Len(new) /\ calls'[c] = new[c - Len(calls)]
<1>1. calls \in Seq(CallType)
  BY DEF ParserInv, TypeOK, CallType
<1>2. Len(calls) \in Nat /\ Len(new) \in Nat
  BY <1>1
<1>3. /\ Len(calls') = Len(calls) + Len(new)
      /\ \A i \in 1 .. (Len(calls) + Len(new)) :
           calls'[i] = IF i <= Len(calls) THEN calls[i] ELSE new[i - Len(calls)]
  BY <1>1, ConcatProperties
<1> QED BY <1>2, <1>3

\* Quiet calls enroll nobody.
LEMMA QuietKeepsEnrollments ==
  ASSUME ParserInv, EnrolledFor(handled), VerdictsOnlyEnroll,
         NEW new \in Seq(QuietCall), calls' = calls \o new,
         Len(handled') >= Len(handled), Len(handled') \in Nat,
         \A i \in 1 .. Len(handled) : handled'[i] = handled[i],
         \A i \in 1 .. Len(handled') : i \notin 1 .. Len(handled) => ~ Approves(handled'[i])
  PROVE  EnrolledFor(handled)' /\ VerdictsOnlyEnroll'
<1> DEFINE A == {i \in 1 .. Len(handled) : Approves(handled[i])}
           E == {c \in 1 .. Len(calls) : Enrolls(calls[c])}
           A2 == {i \in 1 .. Len(handled') : Approves(handled'[i])}
           E2 == {c \in 1 .. Len(calls') : Enrolls(calls'[c])}
<1>0. new \in Seq(CallType) /\ \A c \in 1 .. Len(new) : new[c] \in QuietCall
  <2>1. QuietCall \subseteq CallType
    BY DEF QuietCall
  <2>2. \A c \in 1 .. Len(new) : new[c] \in QuietCall
    BY ElementOfSeq
  <2> QED BY <2>1, <2>2
<1>1. /\ Len(calls) \in Nat /\ Len(new) \in Nat /\ Len(calls') = Len(calls) + Len(new)
      /\ \A c \in 1 .. Len(calls) : calls'[c] = calls[c]
      /\ \A c \in 1 .. Len(calls') :
           c \notin 1 .. Len(calls) => calls'[c] \in QuietCall
  BY <1>0, CallsGrow
<1>2. A2 = A
  <2>1. Len(handled) \in Nat
    BY DEF ParserInv, TypeOK
  <2>2. \A i \in 1 .. Len(handled) : i \in 1 .. Len(handled')
    BY <2>1
  <2> QED BY <2>2
<1>3. E2 = E
  <2>1. \A c \in 1 .. Len(calls) : c \in 1 .. Len(calls')
    BY <1>1
  <2>2. \A c \in QuietCall : ~ Enrolls(c)
    BY DEF QuietCall
  <2> QED BY <1>1, <2>1, <2>2
<1>4. PICK at \in [A -> E] :
        /\ \A i \in A : calls[at[i]].msg = handled[i]
        /\ \A i, j \in A : i < j => at[i] < at[j]
        /\ \A c \in E : \E i \in A : at[i] = c
  BY DEF EnrolledFor
<1>5. \A i \in A : calls'[at[i]].msg = handled'[i]
  <2>1. ASSUME NEW i \in A PROVE calls'[at[i]].msg = handled'[i]
    <3>1. at[i] \in 1 .. Len(calls) /\ i \in 1 .. Len(handled)
      BY <1>4
    <3> QED BY <1>1, <1>4, <3>1
  <2> QED BY <2>1
<1>6. VerdictsOnlyEnroll'
  <2>1. \A c \in QuietCall : ~ IsJoinAck(c.msg)
    BY DEF QuietCall
  <2>2. \A c \in 1 .. Len(calls) : IsJoinAck(calls[c].msg) => Enrolls(calls[c])
    BY DEF VerdictsOnlyEnroll
  <2> QED BY <1>1, <2>1, <2>2 DEF VerdictsOnlyEnroll
<1> HIDE DEF A, E, A2, E2
<1>7. \E f \in [A2 -> E2] :
         /\ \A i \in A2 : calls'[f[i]].msg = handled'[i]
         /\ \A i, j \in A2 : i < j => f[i] < f[j]
         /\ \A c \in E2 : \E i \in A2 : f[i] = c
  <2>1. at \in [A2 -> E2] /\ \A i \in A2 : calls'[at[i]].msg = handled'[i]
    BY <1>2, <1>3, <1>4, <1>5
  <2>2. /\ \A i, j \in A2 : i < j => at[i] < at[j]
        /\ \A c \in E2 : \E i \in A2 : at[i] = c
    BY <1>2, <1>3, <1>4
  <2> QED BY <2>1, <2>2
<1>8. EnrolledFor(handled)'
  BY <1>7 DEF EnrolledFor, A2, E2
<1> QED BY <1>6, <1>8

\* An approval enrolls its node, after those of the earlier approvals.
LEMMA ApprovalEnrolls ==
  ASSUME ParserInv, EnrolledFor(handled), VerdictsOnlyEnroll,
         NEW m \in Message, Approves(m), handled' = Append(handled, m),
         calls' = calls \o <<Call("enrollPeer", m)>>
  PROVE  EnrolledFor(handled)' /\ VerdictsOnlyEnroll'
<1> DEFINE A == {i \in 1 .. Len(handled) : Approves(handled[i])}
           E == {c \in 1 .. Len(calls) : Enrolls(calls[c])}
           a == Len(handled) + 1
           e == Len(calls) + 1
           new == Call("enrollPeer", m)
           A2 == {i \in 1 .. Len(handled') : Approves(handled'[i])}
           E2 == {c \in 1 .. Len(calls') : Enrolls(calls'[c])}
<1>1. new.call = "enrollPeer" /\ new.msg = m /\ <<new>> \in Seq(CallType) /\ Len(<<new>>) = 1 /\ <<new>>[1] = new
  BY DEF Call, CallType, CallName
<1>2. Enrolls(new)
  BY <1>1 DEF Enrolls
<1> HIDE DEF new
<1>3. /\ Len(calls) \in Nat /\ Len(calls') = e /\ calls'[e] = new
      /\ \A c \in 1 .. Len(calls) : calls'[c] = calls[c]
  <2>1. /\ Len(calls) \in Nat /\ Len(calls') = Len(calls) + Len(<<new>>)
        /\ \A c \in 1 .. Len(calls) : calls'[c] = calls[c]
        /\ \A c \in 1 .. Len(calls') :
             c \notin 1 .. Len(calls) => calls'[c] = <<new>>[c - Len(calls)]
    BY <1>1, CallsGrow DEF new
  <2>2. e \in 1 .. Len(calls') /\ e \notin 1 .. Len(calls) /\ e - Len(calls) = 1 /\ Len(calls') = e
    BY <1>1, <2>1
  <2> QED BY <1>1, <2>1, <2>2
<1>4. /\ Len(handled) \in Nat /\ Len(handled') = a /\ handled'[a] = m
      /\ \A i \in 1 .. Len(handled) : handled'[i] = handled[i]
  <2>1. handled \in Seq(Message \union {Undecodable})
    BY DEF ParserInv, TypeOK
  <2> QED BY <2>1, AppendProperties
<1> HIDE DEF a, e
<1>5. A2 = A \union {a}
  <2>1. 1 .. Len(handled') = (1 .. Len(handled)) \union {a}
    BY <1>4 DEF a
  <2> QED BY <1>4, <2>1
<1>6. E2 = E \union {e}
  <2>1. 1 .. Len(calls') = (1 .. Len(calls)) \union {e}
    BY <1>3 DEF e
  <2> QED BY <1>2, <1>3, <2>1
<1>7. PICK at \in [A -> E] :
        /\ \A i \in A : calls[at[i]].msg = handled[i]
        /\ \A i, j \in A : i < j => at[i] < at[j]
        /\ \A c \in E : \E i \in A : at[i] = c
  BY DEF EnrolledFor
<1>8. a \notin A /\ (\A i \in A : i < a) /\ e \notin E /\ (\A c \in E : c < e)
  BY <1>3, <1>4 DEF a, e
<1> DEFINE to == [i \in A \union {a} |-> IF i = a THEN e ELSE at[i]]
<1>9. /\ to[a] = e /\ \A i \in A : to[i] = at[i]
      /\ to \in [A \union {a} -> E \union {e}]
  BY <1>7, <1>8
<1> HIDE DEF to
<1>10. \A i \in A \union {a} : calls'[to[i]].msg = handled'[i]
  <2>1. calls'[to[a]].msg = handled'[a]
    BY <1>1, <1>3, <1>4, <1>9
  <2>2. ASSUME NEW i \in A PROVE calls'[to[i]].msg = handled'[i]
    <3>1. at[i] \in 1 .. Len(calls) /\ i \in 1 .. Len(handled)
      BY <1>7
    <3> QED BY <1>3, <1>4, <1>7, <1>9, <3>1
  <2> QED BY <2>1, <2>2
<1>11. ASSUME NEW i \in A \union {a}, NEW j \in A \union {a}, i < j PROVE to[i] < to[j]
  <2>1. i \in A
    <3>1. i # a
      <4>1. a \in Nat
        BY <1>4 DEF a
      <4> QED BY <1>8, <1>11, <4>1
    <3> QED BY <3>1
  <2>2. CASE j \in A
    BY <1>7, <1>9, <1>11, <2>1, <2>2
  <2>3. CASE j = a
    <3>1. to[i] \in E
      BY <1>7, <1>9, <2>1
    <3> QED BY <1>8, <1>9, <2>3, <3>1
  <2> QED BY <2>2, <2>3
<1>12. \A c \in E \union {e} : \E i \in A \union {a} : to[i] = c
  BY <1>7, <1>9
<1>13. VerdictsOnlyEnroll'
  <2>1. \A c \in 1 .. Len(calls) : IsJoinAck(calls[c].msg) => Enrolls(calls[c])
    BY DEF VerdictsOnlyEnroll
  <2>2. 1 .. Len(calls') = (1 .. Len(calls)) \union {e}
    BY <1>3 DEF e
  <2> QED BY <1>2, <1>3, <2>1, <2>2 DEF VerdictsOnlyEnroll
<1> HIDE DEF A, E, A2, E2
<1>14. \E f \in [A2 -> E2] :
          /\ \A i \in A2 : calls'[f[i]].msg = handled'[i]
          /\ \A i, j \in A2 : i < j => f[i] < f[j]
          /\ \A c \in E2 : \E i \in A2 : f[i] = c
  <2>1. to \in [A2 -> E2] /\ \A i \in A2 : calls'[to[i]].msg = handled'[i]
    BY <1>5, <1>6, <1>9, <1>10
  <2>2. /\ \A i, j \in A2 : i < j => to[i] < to[j]
        /\ \A c \in E2 : \E i \in A2 : to[i] = c
    BY <1>5, <1>6, <1>11, <1>12
  <2> QED BY <2>1, <2>2
<1>15. EnrolledFor(handled)'
  BY <1>14 DEF EnrolledFor, A2, E2
<1> QED BY <1>13, <1>15

-----------------------------------------------------------------------------
(* The invariant *)

LEMMA InitIndInv == Init => IndInv
<1> SUFFICES ASSUME Init PROVE IndInv
  OBVIOUS
<1>1. ParserInv
  BY InitParserInv
<1>2. /\ frameState = "AwaitingLen1" /\ wire = <<>> /\ calls = <<>>
      /\ sent = <<>> /\ handled = <<>>
  BY DEF Init
<1>3. ReadBytes = 0 /\ Len(wire) = 0 /\ Len(sent) = 0 /\ Len(handled) = 0 /\ Len(calls) = 0
  BY <1>2 DEF ReadBytes
<1>4. HandledSoFar
  BY <1>3 DEF HandledSoFar
<1>5. \E cut \in [0 .. (Len(sent) - Len(handled)) -> 0 .. (ReadBytes + Len(wire))] : FramesFollow(cut)
  <2> DEFINE z == [k \in 0 .. 0 |-> 0]
  <2>1. z \in [0 .. (Len(sent) - Len(handled)) -> 0 .. (ReadBytes + Len(wire))]
    BY <1>3
  <2>2. z[0] = 0 /\ \A i, j \in 0 .. 0 : z[i] <= z[j]
    OBVIOUS
  <2>3. Len(sent) - Len(handled) = 0 /\ ReadBytes + Len(wire) = 0 /\ 1 .. 0 = {}
    BY <1>3
  <2> HIDE DEF z
  <2>4. FramesFollow(z)
    BY <2>2, <2>3 DEF FramesFollow
  <2> QED BY <2>1, <2>4
<1>6. EnrolledFor(handled)
  <2> DEFINE none == [i \in {} |-> 0]
             A == {i \in 1 .. Len(handled) : Approves(handled[i])}
             E == {c \in 1 .. Len(calls) : Enrolls(calls[c])}
  <2>1. A = {} /\ E = {}
    BY <1>3
  <2>2. none \in [A -> E]
    BY <2>1
  <2> HIDE DEF none
  <2>3. \E at \in [A -> E] :
          /\ \A i \in A : calls[at[i]].msg = handled[i]
          /\ \A i, j \in A : i < j => at[i] < at[j]
          /\ \A c \in E : \E i \in A : at[i] = c
    BY <2>1, <2>2
  <2> QED BY <2>3 DEF EnrolledFor
<1>7. VerdictsOnlyEnroll /\ Len1IsByte
  BY <1>2, <1>3 DEF VerdictsOnlyEnroll, Len1IsByte
<1> QED BY <1>1, <1>4, <1>5, <1>6, <1>7 DEF IndInv, ParserInv, StreamIntact

\* Steps that call nothing and handle nothing.
LEMMA NothingHandled ==
  ASSUME ParserInv, EnrolledFor(handled), VerdictsOnlyEnroll, UNCHANGED <<handled, calls>>
  PROVE  EnrolledFor(handled)' /\ VerdictsOnlyEnroll'
<1>1. handled' = handled /\ calls' = calls /\ Len(handled) \in Nat
  BY TotalType
<1>2. <<>> \in Seq(QuietCall)
  OBVIOUS
<1>3. calls' = calls \o <<>>
  <2>1. calls \in Seq(CallType)
    BY DEF ParserInv, TypeOK, CallType
  <2> QED BY <1>1, <2>1, ConcatEmptySeq
<1>4. /\ Len(handled') >= Len(handled) /\ Len(handled') \in Nat
      /\ \A i \in 1 .. Len(handled) : handled'[i] = handled[i]
      /\ \A i \in 1 .. Len(handled') : i \notin 1 .. Len(handled) => ~ Approves(handled'[i])
  BY <1>1
<1> QED BY <1>2, <1>3, <1>4, QuietKeepsEnrollments

LEMMA StepIndInv == IndInv /\ [Next]_vars => IndInv'
<1> SUFFICES ASSUME IndInv, [Next]_vars PROVE IndInv'
  OBVIOUS
<1>1. ParserInv /\ Len1IsByte /\ StreamIntact /\ EnrolledFor(handled) /\ VerdictsOnlyEnroll
  BY DEF IndInv, ParserInv
<1>2. ParserInv'
  BY <1>1, StepParserInv
<1>3. SUFFICES (Len1IsByte /\ StreamIntact /\ EnrolledFor(handled) /\ VerdictsOnlyEnroll)'
  BY <1>2 DEF IndInv, ParserInv
<1>4. ASSUME NEW m \in Message, SendFrame(m)
      PROVE  (Len1IsByte /\ StreamIntact /\ EnrolledFor(handled) /\ VerdictsOnlyEnroll)'
  <2>1. UNCHANGED <<frameState, frameLength, handled, calls>>
    BY <1>4 DEF SendFrame, parser
  <2>2. Len1IsByte'
    BY <1>1, <2>1 DEF Len1IsByte
  <2> QED BY <1>1, <1>4, <2>1, <2>2, SendFrameStream, NothingHandled
<1>5. ASSUME NEW i \in 1 .. Len(wire), LoseByte(i)
      PROVE  (Len1IsByte /\ StreamIntact /\ EnrolledFor(handled) /\ VerdictsOnlyEnroll)'
  <2>1. UNCHANGED <<frameState, frameLength, handled, calls>>
    BY <1>5 DEF LoseByte, parser
  <2>2. Len1IsByte'
    BY <1>1, <2>1 DEF Len1IsByte
  <2> QED BY <1>1, <1>5, <2>1, <2>2, LoseByteStream, NothingHandled
<1>6. CASE ReadLen1
  <2>1. UNCHANGED <<handled, calls>> /\ wire # <<>> /\ frameLength' = Head(wire)
    BY <1>6 DEF ReadLen1, Available
  <2>2. Len1IsByte'
    BY <1>1, <2>1, TotalType DEF Len1IsByte
  <2> QED BY <1>1, <1>6, <2>1, <2>2, ReadLen1Stream, NothingHandled
<1>7. CASE ReadLen2
  <2>1. UNCHANGED <<handled, calls>> /\ frameState' \in {"AwaitingLen1", "AwaitingPayload"}
    BY <1>7 DEF ReadLen2, ResetParser
  <2>2. Len1IsByte'
    BY <2>1 DEF Len1IsByte
  <2> QED BY <1>1, <1>7, <2>1, <2>2, ReadLen2Stream, NothingHandled
<1>8. CASE ReadPayload
  <2>1. UNCHANGED <<handled, calls>> /\ frameState' = "AwaitingPayload"
    BY <1>8 DEF ReadPayload
  <2>2. Len1IsByte'
    BY <2>1 DEF Len1IsByte
  <2> QED BY <1>1, <1>8, <2>1, <2>2, ReadPayloadStream, NothingHandled
<1>9. ASSUME NEW m \in Message \union {Undecodable}, CompleteFrame(m)
      PROVE  (Len1IsByte /\ StreamIntact /\ EnrolledFor(handled) /\ VerdictsOnlyEnroll)'
  <2>1. /\ frameState' = "AwaitingLen1" /\ handled' = Append(handled, m)
        /\ calls' = calls \o FrameCalls(m)
    BY <1>9 DEF CompleteFrame, ResetParser
  <2>2. Len1IsByte'
    BY <2>1 DEF Len1IsByte
  <2>3. /\ Len(handled) \in Nat /\ Len(handled') = Len(handled) + 1
        /\ handled'[Len(handled) + 1] = m
        /\ \A i \in 1 .. Len(handled) : handled'[i] = handled[i]
    <3>1. handled \in Seq(Message \union {Undecodable})
      BY <1>1 DEF ParserInv, TypeOK
    <3> QED BY <2>1, <3>1, AppendProperties
  <2>4. EnrolledFor(handled)' /\ VerdictsOnlyEnroll'
    <3>1. CASE Approves(m)
      <4>1. m \in Message /\ FrameCalls(m) = <<Call("enrollPeer", m)>>
        BY <3>1, FrameCallsContent
      <4> QED BY <1>1, <2>1, <3>1, <4>1, ApprovalEnrolls
    <3>2. CASE ~ Approves(m)
      <4>1. FrameCalls(m) \in Seq(QuietCall)
        BY <3>2, FrameCallsContent
      <4>2. Len(handled') >= Len(handled) /\ Len(handled') \in Nat
        BY <2>3
      <4>3. ASSUME NEW i \in 1 .. Len(handled'), i \notin 1 .. Len(handled) PROVE ~ Approves(handled'[i])
        <5>1. i = Len(handled) + 1
          BY <2>3, <4>3
        <5> QED BY <2>3, <3>2, <5>1
      <4> QED BY <1>1, <2>1, <2>3, <4>1, <4>2, <4>3, QuietKeepsEnrollments
    <3> QED BY <3>1, <3>2
  <2> QED BY <1>1, <1>9, <2>2, <2>4, CompleteFrameStream
<1>10. ASSUME NEW m \in MeshData, OnMeshData(m)
       PROVE  (Len1IsByte /\ StreamIntact /\ EnrolledFor(handled) /\ VerdictsOnlyEnroll)'
  <2>1. handled' = handled /\ calls' = calls \o MeshCalls(m)
    BY <1>10 DEF OnMeshData
  <2>2. Len1IsByte'
    BY <1>1, <1>10 DEF OnMeshData, ResetParser, Len1IsByte, parser
  <2>3. MeshCalls(m) \in Seq(QuietCall)
    BY MeshCallsContent
  <2>4. Len(handled) \in Nat
    BY <1>1, TotalType
  <2>5. EnrolledFor(handled)' /\ VerdictsOnlyEnroll'
    <3>1. Len(handled') >= Len(handled) /\ Len(handled') \in Nat
      BY <2>1, <2>4
    <3>2. \A i \in 1 .. Len(handled) : handled'[i] = handled[i]
      BY <2>1
    <3>3. \A i \in 1 .. Len(handled') : i \notin 1 .. Len(handled) => ~ Approves(handled'[i])
      BY <2>1
    <3> QED BY <1>1, <2>1, <2>3, <3>1, <3>2, <3>3, QuietKeepsEnrollments
  <2> QED BY <1>1, <1>10, <2>2, <2>5, OnMeshDataStream
<1>11. CASE UNCHANGED vars
  <2>1. UNCHANGED <<frameState, frameLength, frameIndex, payloadBuffer, wire, calls, sent, handled, clean>>
    BY <1>11 DEF vars, parser
  <2>2. Len1IsByte'
    BY <1>1, <2>1 DEF Len1IsByte
  <2>3. Total' = Total /\ Unhandled' = Unhandled
    BY <2>1 DEF Total, Unhandled, ReadBytes, ReadByte
  <2>4. StreamIntact'
    BY <1>1, <2>1, <2>3, StreamKept
  <2> QED BY <1>1, <2>1, <2>2, <2>4, NothingHandled
<1> QED BY <1>4, <1>5, <1>6, <1>7, <1>8, <1>9, <1>10, <1>11 DEF Next, Read

\* The bytes of loop() and of the line are the frames not yet handled, in order, and
\* enrollPeer is called for the approvals among the frames handled.
THEOREM SerialInvariant == Spec => []IndInv
BY InitIndInv, StepIndInv, PTL DEF Spec

\* Without a loss, handleCompleteFrame sees the messages of the server in their order,
\* none left out and none invented.
THEOREM FramesAreHandledAsSent == Spec => []HandledAsSent
<1>1. IndInv => HandledAsSent
  <2> SUFFICES ASSUME IndInv, clean PROVE IsPrefix(handled, sent)
    BY DEF HandledAsSent
  <2>1. Len(handled) <= Len(sent) /\ \A i \in 1 .. Len(handled) : handled[i] = sent[i]
    BY DEF IndInv, StreamIntact, HandledSoFar
  <2>2. sent \in Seq(Message) /\ handled \in Seq(Message \union {Undecodable})
    BY DEF IndInv, TypeOK
  <2>3. Len(handled) \in Nat /\ Len(sent) \in Nat
    BY <2>2
  <2>4. SubSeq(sent, 1, Len(handled)) = [i \in 1 .. Len(handled) |-> sent[i]]
    BY <2>1, <2>2, <2>3
  <2>5. SubSeq(handled, 1, Len(handled)) = [i \in 1 .. Len(handled) |-> handled[i]]
    BY <2>2, <2>3
  <2> QED BY <2>1, <2>4, <2>5 DEF IsPrefix
<1> QED BY SerialInvariant, <1>1, PTL

\* Without a loss, the approvals of the server, and nothing else, enroll nodes.
THEOREM ApprovalsAreActedOn == Spec => []ActsOnlyAsAsked
<1>1. IndInv => ActsOnlyAsAsked
  <2> SUFFICES ASSUME IndInv, clean PROVE EnrolledFor(sent) /\ VerdictsOnlyEnroll
    BY DEF ActsOnlyAsAsked
  <2>1. \A i \in 1 .. Len(handled) : handled[i] = sent[i]
    BY DEF IndInv, StreamIntact, HandledSoFar
  <2>2. EnrolledFor(handled) /\ VerdictsOnlyEnroll
    BY DEF IndInv
  <2> DEFINE approvals == {i \in 1 .. Len(handled) : Approves(handled[i])}
             enrollments == {c \in 1 .. Len(calls) : Enrolls(calls[c])}
  <2>3. /\ approvals = {i \in 1 .. Len(handled) : Approves(sent[i])}
        /\ \A i \in approvals : handled[i] = sent[i]
    BY <2>1
  <2>4. EnrolledFor(sent)
    <3>1. PICK at \in [approvals -> enrollments] :
            /\ \A i \in approvals : calls[at[i]].msg = handled[i]
            /\ \A i, j \in approvals : i < j => at[i] < at[j]
            /\ \A c \in enrollments : \E i \in approvals : at[i] = c
      BY <2>2 DEF EnrolledFor
    <3>2. \A i \in approvals : calls[at[i]].msg = sent[i]
      BY <2>3, <3>1
    <3>3. EnrolledFor(sent) <=>
            \E at2 \in [approvals -> enrollments] :
              /\ \A i \in approvals : calls[at2[i]].msg = sent[i]
              /\ \A i, j \in approvals : i < j => at2[i] < at2[j]
              /\ \A c \in enrollments : \E i \in approvals : at2[i] = c
      BY <2>3 DEF EnrolledFor
    <3> HIDE DEF approvals, enrollments
    <3> QED BY <3>1, <3>2, <3>3
  <2> QED BY <2>2, <2>4
<1> QED BY SerialInvariant, <1>1, PTL

-----------------------------------------------------------------------------
(* What encodeMeshMessage writes for the line (MeshCodec) fits its buffers *)

CONSTANTS
  GroupBits, WordGroups, RestBits, WideGroups, ShortBits, MacLen, DataLen, KeyLen, CopyLen,
  RelayCap, EnrollCap, OwnMac, MeshMessage, NewNode, ServerField, WideNumber, MaxFields
VARIABLES
  phase, msg, cap, pbMsg, index, out, input, outMsg, fields, cut

Codec == INSTANCE MeshCodec

\* A power of two is the number of subsets of a set, and so not zero.
LEMMA PowPositive == ASSUME NEW n \in Nat PROVE Codec!Pow(n) \in Nat \ {0}
<1>1. IsFiniteSet(1 .. n) /\ Cardinality(1 .. n) = n
  BY FS_Interval
<1>2. IsFiniteSet(SUBSET (1 .. n)) /\ Cardinality(SUBSET (1 .. n)) = 2 ^ n
  BY <1>1, FS_SUBSET
<1>3. {} \in SUBSET (1 .. n)
  OBVIOUS
<1>4. 2 ^ n \in Nat
  BY <1>2, FS_CardinalityType
<1>5. 2 ^ n # 0
  BY <1>2, <1>3, FS_EmptySet
<1> QED BY <1>4, <1>5 DEF Codec!Pow

\* A number below b has none of it.
LEMMA DivSmall == ASSUME NEW b \in Nat \ {0}, NEW a \in 0 .. (b - 1) PROVE a \div b = 0
<1> DEFINE q == a \div b
           r == a % b
           p == b * q
<1>0. a \in Nat
  OBVIOUS
<1>1. a = p + r /\ q \in Nat /\ r \in 0 .. (b - 1)
  BY <1>0, ModDef
<1>2. q >= 1 => p >= b /\ p \in Nat
  BY <1>1
<1> HIDE DEF p, q, r
<1>3. q = 0
  BY <1>1, <1>2
<1> QED BY <1>3 DEF q

\* Min finds the least of a set of numbers: the initial parts of the set that end in
\* one of its members are finite, and one of them contains no other.
LEMMA MinIsLeast ==
  ASSUME NEW S \in SUBSET Nat, S # {}
  PROVE  Codec!Min(S) \in S /\ \A y \in S : Codec!Min(S) <= y
<1> DEFINE Part(n) == {m \in S : m <= n}
           Parts == {Part(n) : n \in S}
<1>1. Parts \subseteq FiniteSubsetsOf(S)
  <2> SUFFICES ASSUME NEW n \in S PROVE Part(n) \in FiniteSubsetsOf(S)
    OBVIOUS
  <2>1. IsFiniteSet(0 .. n)
    BY FS_Interval
  <2>2. ASSUME NEW m \in Part(n) PROVE m \in 0 .. n
    OBVIOUS
  <2>3. IsFiniteSet(Part(n))
    <3>1. Part(n) \subseteq 0 .. n
      BY <2>2, Zenon
    <3> QED BY <2>1, <3>1, FS_Subset
  <2> QED BY <2>3 DEF FiniteSubsetsOf
<1>2. PICK p \in Parts : \A q \in Parts : ~ (<<q, p>> \in StrictSubsetOrdering(S))
  <2>1. IsWellFoundedOn(StrictSubsetOrdering(S), FiniteSubsetsOf(S))
    BY FS_StrictSubsetOrderingWellFounded
  <2>2. Parts # {}
    OBVIOUS
  <2> HIDE DEF Parts
  <2> QED BY <1>1, <2>1, <2>2, WFMin, Zenon
<1>3. PICK n \in S : p = Part(n)
  OBVIOUS
<1>4. ASSUME NEW m \in S PROVE n <= m
  <2>1. CASE m < n
    <3>1. \A k \in Part(m) : k \in Part(n)
      BY <2>1
    <3>2. n \in Part(n) /\ n \notin Part(m)
      BY <2>1
    <3>3. <<Part(m), Part(n)>> \in StrictSubsetOrdering(S)
      <4>1. /\ Part(m) \in SUBSET S /\ Part(n) \in SUBSET S
            /\ Part(m) \subseteq Part(n) /\ Part(m) # Part(n)
        BY <3>1, <3>2, Zenon
      <4> HIDE DEF Part
      <4> QED BY <4>1 DEF StrictSubsetOrdering
    <3> QED BY <1>2, <1>3, <3>3
  <2> QED BY <2>1
<1>5. \E x \in S : \A y \in S : x <= y
  BY <1>4
<1> QED BY <1>5 DEF Codec!Min

\* What the device's figures give (6 bytes, 64 and 32; buffers of 256 and 128 bytes): a
\* length or a tag takes one byte, and the buffers have room for every field at its
\* longest, that of an enrollment request for its fields to the byte.
NumberRoom == WordGroups + 2  \* the longest number, with its tag
StringRoom == 3 * (MacLen + 2) + (DataLen + 2) + (KeyLen + 2)
CodecConstants ==
  /\ Codec!WidthAssumption
  /\ MacLen \in 1 .. 127 /\ DataLen \in 1 .. 127 /\ KeyLen \in 1 .. 127
  /\ RelayCap \in Nat /\ RelayCap >= 6 * NumberRoom + StringRoom
  /\ EnrollCap \in Nat /\ EnrollCap >= 4 + StringRoom

\* What the fields of a mesh_message can hold; the adapter types are not negative.  (A
\* number that takes one byte fits anyway, which spares us how large the power is.)
Number == 0 .. (Codec!Pow(Codec!WordBits) - 1) \union 0 .. 127
Octets(n) == {s \in Seq(Int) : Len(s) = n}
CodecInputs ==
  /\ MeshMessage \subseteq
       [messageType : Number, dataType : {d \in Number : 2 * d \in Number},
        origin : Octets(MacLen), target : Octets(MacLen), lastHop : Octets(MacLen),
        data : Octets(DataLen), hopCount : Number, epochNum : Number, seqNum : Number,
        protoVersion : Number, key : Octets(KeyLen)]
  /\ NewNode \subseteq Octets(MacLen) \X Octets(KeyLen)

LEMMA Widths ==
  ASSUME CodecConstants
  PROVE  /\ Codec!Cont = 128 /\ GroupBits = 7 /\ WordGroups \in Nat
         /\ Codec!WordBits \in Nat /\ Codec!Pow(Codec!WordBits) \in Nat \ {0}
         /\ Codec!Pow(GroupBits - RestBits) \in Nat \ {0} /\ Codec!Pow(RestBits) \in Nat
<1>1. Codec!WidthAssumption
  BY DEF CodecConstants
<1>2. Codec!Cont = 128 /\ GroupBits = 7 /\ WordGroups \in Nat
  BY <1>1 DEF Codec!WidthAssumption, Codec!Cont, Codec!Pow
<1>3. RestBits \in Nat /\ GroupBits - RestBits \in Nat
  BY <1>1 DEF Codec!WidthAssumption
<1>4. Codec!WordBits \in Nat
  BY <1>2, <1>3 DEF Codec!WordBits
<1> QED BY <1>2, <1>3, <1>4, PowPositive

\* The groups of a number are numbers.
LEMMA GroupIsInt ==
  ASSUME CodecConstants, NEW v \in Nat, NEW i \in Nat PROVE Codec!Group(v, i) \in Int
<1>1. Codec!Cont = 128 /\ GroupBits * i \in Nat
  BY Widths
<1>2. Codec!Pow(GroupBits * i) \in Nat \ {0}
  BY <1>1, PowPositive
<1> DEFINE p == Codec!Pow(GroupBits * i)
<1> HIDE DEF p
<1>3. v \div p \in Nat
  BY <1>2, ModDef DEF p
<1>4. (v \div p) % 128 \in Int
  BY <1>3, ModDef
<1> QED BY <1>1, <1>4 DEF Codec!Group, p

LEMMA ContinuedLen ==
  ASSUME CodecConstants, NEW groups \in Seq(Int)
  PROVE  Codec!Continued(groups) \in Seq(Int) /\ Len(Codec!Continued(groups)) = Len(groups)
<1>1. Codec!Cont \in Int
  BY Widths
<1>2. \A i \in 1 .. Len(groups) : groups[i] \in Int
  OBVIOUS
<1> QED BY <1>1, <1>2 DEF Codec!Continued

\* pb_encode_varint_32 takes one byte for each full group at most, and one for the rest.
LEMMA Varint32Len ==
  ASSUME CodecConstants, NEW v \in Nat
  PROVE  /\ Codec!pb_encode_varint_32(v, 0) \in Seq(Int)
         /\ Len(Codec!pb_encode_varint_32(v, 0)) <= WordGroups + 1
<1> DEFINE stops == {i \in 0 .. WordGroups :
                       i = WordGroups \/ (0 = 0 /\ v \div Codec!Pow(GroupBits * (i + 1)) = 0)}
           last == Codec!Min(stops)
           straddling == Codec!Group(v, last)
                           + (0 % Codec!Pow(GroupBits - RestBits)) * Codec!Pow(RestBits)
           above == 0 \div Codec!Pow(GroupBits - RestBits)
           first == [i \in 1 .. last |-> Codec!Group(v, i - 1)]
           upper == [i \in 1 .. Codec!Shifts(above) |-> Codec!Group(above, i - 1)]
<1>1. last \in 0 .. WordGroups
  <2>1. WordGroups \in stops /\ stops \in SUBSET Nat
    BY Widths
  <2>2. last \in stops
    <3> HIDE DEF stops
    <3> QED BY <2>1, MinIsLeast
  <2> QED BY <2>2
<1>2. straddling \in Int
  <2>1. 0 % Codec!Pow(GroupBits - RestBits) = 0
    BY Widths, ModSmall
  <2>2. Codec!Group(v, last) \in Int
    BY <1>1, GroupIsInt
  <2> HIDE DEF last
  <2> QED BY <2>1, <2>2, Widths
<1>3. above = 0
  BY Widths, DivSmall
<1>4. Codec!Shifts(0) = 0
  <2> DEFINE shifts == {j \in 0 .. WideGroups : 0 \div Codec!Pow(GroupBits * j) = 0}
  <2>1. WideGroups \in Nat
    BY DEF CodecConstants, Codec!WidthAssumption
  <2>2. GroupBits * 0 \in Nat
    BY Widths
  <2>3. 0 \div Codec!Pow(GroupBits * 0) = 0
    BY <2>2, PowPositive, DivSmall
  <2>4. 0 \in shifts /\ shifts \in SUBSET Nat
    BY <2>1, <2>3
  <2>5. Codec!Min(shifts) \in Nat /\ Codec!Min(shifts) <= 0
    <3> HIDE DEF shifts
    <3> QED BY <2>4, MinIsLeast
  <2>6. Codec!Shifts(0) = Codec!Min(shifts)
    BY DEF Codec!Shifts
  <2> QED BY <2>5, <2>6
<1>5. first \in Seq(Int) /\ Len(first) = last
  <2>1. \A i \in 1 .. last : Codec!Group(v, i - 1) \in Int
    BY <1>1, GroupIsInt
  <2> HIDE DEF last
  <2> QED BY <1>1, <2>1
<1>6. upper = <<>>
  BY <1>3, <1>4
<1> DEFINE groups == first \o <<straddling>> \o upper
<1>7. groups \in Seq(Int) /\ Len(groups) = last + 1
  <2> HIDE DEF first, straddling, upper, last
  <2> QED BY <1>1, <1>2, <1>5, <1>6
<1>8. Codec!pb_encode_varint_32(v, 0) = Codec!Continued(groups)
  BY DEF Codec!pb_encode_varint_32
<1> HIDE DEF groups, last
<1> QED BY <1>1, <1>7, <1>8, ContinuedLen, Widths

LEMMA ConcatLen ==
  ASSUME NEW s \in Seq(Int), NEW t \in Seq(Int)
  PROVE  s \o t \in Seq(Int) /\ Len(s \o t) = Len(s) + Len(t)
OBVIOUS

\* A number below 128 takes one byte, any other of 32 bits at most WordGroups + 1.
LEMMA VarintLen ==
  ASSUME CodecConstants, NEW v \in Number
  PROVE  /\ Codec!pb_encode_varint(v) \in Seq(Int)
         /\ Len(Codec!pb_encode_varint(v)) <= WordGroups + 1
         /\ v < 128 => Len(Codec!pb_encode_varint(v)) = 1
<1>1. v \in Nat /\ WordGroups \in Nat /\ Codec!Cont = 128
  BY Widths DEF Number
<1>2. CASE v < 128
  <2>1. Codec!pb_encode_varint(v) = <<v>>
    BY <1>1, <1>2 DEF Codec!pb_encode_varint
  <2> QED BY <1>1, <2>1
<1>3. CASE ~(v < 128)
  <2> DEFINE b == Codec!Pow(Codec!WordBits)
  <2>1. b \in Nat \ {0} /\ v \in 0 .. (b - 1)
    BY <1>3, Widths DEF Number
  <2> HIDE DEF b
  <2>2. v % b = v /\ v \div b = 0
    BY <2>1, ModSmall, DivSmall
  <2>3. Codec!pb_encode_varint(v) = Codec!pb_encode_varint_32(v, 0)
    BY <1>1, <1>3, <2>2 DEF Codec!pb_encode_varint, b
  <2> QED BY <1>1, <1>3, <2>3, Varint32Len
<1> QED BY <1>2, <1>3

\* Small numbers are among those of the message.
LEMMA SmallNumber == ASSUME CodecConstants, NEW v \in 0 .. 127 PROVE
  Codec!pb_encode_varint(v) \in Seq(Int) /\ Len(Codec!pb_encode_varint(v)) = 1
<1>1. Codec!pb_encode_varint(v) = <<v>>
  BY Widths DEF Codec!pb_encode_varint
<1> QED BY <1>1

\* A tag takes one byte.
LEMMA TagLen ==
  ASSUME CodecConstants, NEW f, f.tag \in 1 .. 11
  PROVE  Codec!pb_encode_tag_for_field(f) \in Seq(Int) /\ Len(Codec!pb_encode_tag_for_field(f)) = 1
<1>1. ASSUME NEW w \in {0, 2} PROVE
        Codec!pb_encode_tag(w, f.tag) \in Seq(Int) /\ Len(Codec!pb_encode_tag(w, f.tag)) = 1
  <2>1. f.tag * 8 + w \in 0 .. 127
    OBVIOUS
  <2> QED BY <2>1, SmallNumber DEF Codec!pb_encode_tag
<1> QED BY <1>1 DEF Codec!pb_encode_tag_for_field, Codec!WT_VARINT, Codec!WT_STRING

\* What encode_field writes for a field of the struct.
LEMMA NumberLen ==
  ASSUME CodecConstants, NEW f, f.tag \in 1 .. 11, NEW v \in Number,
         \/ f.ltype = "UVARINT"
         \/ f.ltype = "SVARINT" /\ 2 * v \in Number
  PROVE  /\ Codec!encode_field(f, v) \in Seq(Int)
         /\ Len(Codec!encode_field(f, v)) <= NumberRoom
         /\ v = 0 => Len(Codec!encode_field(f, v)) = 0
         /\ (v < 128 /\ f.ltype = "UVARINT") => Len(Codec!encode_field(f, v)) <= 2
<1> DEFINE u == IF f.ltype = "UVARINT" THEN v ELSE 2 * v
<1>0. v \in Nat /\ WordGroups \in Nat
  BY Widths DEF Number
<1>1. u \in Number /\ f.ltype \in {"UVARINT", "SVARINT"} /\ (f.ltype = "UVARINT" => u = v)
  OBVIOUS
<1>2. Codec!pb_enc_varint(f, v) = Codec!pb_encode_varint(u)
  BY <1>0 DEF Codec!pb_enc_varint, Codec!pb_encode_svarint
<1>3. Codec!encode_field(f, v) = IF v # 0 THEN Codec!encode_basic_field(f, v) ELSE <<>>
  BY <1>1 DEF Codec!encode_field, Codec!IsEncoded
<1>4. Codec!encode_basic_field(f, v) = Codec!pb_encode_tag_for_field(f) \o Codec!pb_encode_varint(u)
  BY <1>1, <1>2 DEF Codec!encode_basic_field
<1> HIDE DEF u
<1>5. /\ Codec!pb_encode_varint(u) \in Seq(Int)
      /\ Len(Codec!pb_encode_varint(u)) <= WordGroups + 1
      /\ u < 128 => Len(Codec!pb_encode_varint(u)) = 1
  BY <1>1, VarintLen
<1>6. Codec!pb_encode_tag_for_field(f) \in Seq(Int) /\ Len(Codec!pb_encode_tag_for_field(f)) = 1
  BY TagLen
<1> DEFINE tag == Codec!pb_encode_tag_for_field(f)
           digits == Codec!pb_encode_varint(u)
           all == Codec!encode_basic_field(f, v)
<1>7. all \in Seq(Int) /\ Len(all) = 1 + Len(digits) /\ Len(digits) \in Nat
  <2>1. all = tag \o digits
    BY <1>4
  <2>2. digits \in Seq(Int)
    BY <1>5
  <2>3. tag \in Seq(Int) /\ Len(tag) = 1
    BY <1>6
  <2> HIDE DEF all, tag, digits
  <2>4. all \in Seq(Int) /\ Len(all) = Len(tag) + Len(digits)
    BY <2>1, <2>2, <2>3, ConcatLen
  <2> QED BY <2>2, <2>3, <2>4
<1>8. Len(digits) <= WordGroups + 1 /\ (u < 128 => Len(digits) = 1)
  BY <1>5
<1> HIDE DEF all, digits
<1>9. CASE v = 0
  BY <1>0, <1>3, <1>9 DEF NumberRoom
<1>10. CASE v # 0
  <2>1. Codec!encode_field(f, v) = all
    BY <1>3, <1>10 DEF all
  <2>2. Len(all) <= NumberRoom
    <3>1. WordGroups + 2 \in Nat /\ Len(digits) <= WordGroups + 1 /\ Len(all) = 1 + Len(digits)
      BY <1>0, <1>7, <1>8
    <3> QED BY <1>0, <1>7, <3>1 DEF NumberRoom
  <2>3. ASSUME v < 128, f.ltype = "UVARINT" PROVE Len(all) <= 2
    <3>1. u = v
      BY <1>1, <2>3
    <3>2. Len(digits) = 1
      BY <1>8, <2>3, <3>1
    <3> QED BY <1>7, <3>2
  <2> QED BY <1>7, <1>10, <2>1, <2>2, <2>3
<1> QED BY <1>9, <1>10

\* A string is written with its length.
LEMMA StringLen ==
  ASSUME CodecConstants, NEW f, f.tag \in 1 .. 11, NEW s \in Seq(Int), Len(s) \in 0 .. 127
  PROVE  /\ Codec!pb_encode_tag_for_field(f) \o Codec!pb_encode_string(s) \in Seq(Int)
         /\ Len(Codec!pb_encode_tag_for_field(f) \o Codec!pb_encode_string(s)) = Len(s) + 2
<1>1. Codec!pb_encode_varint(Len(s)) \in Seq(Int) /\ Len(Codec!pb_encode_varint(Len(s))) = 1
  BY SmallNumber
<1>2. Codec!pb_encode_tag_for_field(f) \in Seq(Int) /\ Len(Codec!pb_encode_tag_for_field(f)) = 1
  BY TagLen
<1> DEFINE head == Codec!pb_encode_varint(Len(s))
           tag == Codec!pb_encode_tag_for_field(f)
<1>3. head \o s \in Seq(Int) /\ Len(head \o s) = 1 + Len(s)
  BY <1>1, ConcatLen
<1>4. tag \o (head \o s) \in Seq(Int) /\ Len(tag \o (head \o s)) = 1 + (1 + Len(s))
  <2> HIDE DEF head, tag
  <2> QED BY <1>2, <1>3, ConcatLen DEF tag
<1> QED BY <1>4 DEF Codec!pb_encode_string

LEMMA FixedLen ==
  ASSUME CodecConstants, NEW f, f.tag \in 1 .. 11, f.ltype = "FIXED", f.size \in 1 .. 127,
         NEW s \in Octets(f.size)
  PROVE  Codec!encode_field(f, s) \in Seq(Int) /\ Len(Codec!encode_field(f, s)) = f.size + 2
<1>1. Codec!encode_field(f, s) = Codec!pb_encode_tag_for_field(f) \o Codec!pb_encode_string(s)
  <2>1. Codec!IsEncoded(f, s)
    BY DEF Codec!IsEncoded
  <2> QED BY <2>1 DEF Codec!encode_field, Codec!encode_basic_field, Codec!pb_enc_fixed_length_bytes
<1>2. s \in Seq(Int) /\ Len(s) = f.size
  BY DEF Octets
<1>3. Len(s) \in 0 .. 127
  BY <1>2
<1>4. /\ Codec!pb_encode_tag_for_field(f) \o Codec!pb_encode_string(s) \in Seq(Int)
      /\ Len(Codec!pb_encode_tag_for_field(f) \o Codec!pb_encode_string(s)) = Len(s) + 2
  BY <1>2, <1>3, StringLen
<1> QED BY <1>1, <1>2, <1>4

LEMMA BytesLen ==
  ASSUME CodecConstants, NEW f, f.tag \in 1 .. 11, f.ltype = "BYTES", f.size \in 1 .. 127,
         NEW v, v = Codec!ZeroOf(f) \/ \E s \in Octets(f.size) : v = Codec!Bytes(s, f.size)
  PROVE  Codec!encode_field(f, v) \in Seq(Int) /\ Len(Codec!encode_field(f, v)) <= f.size + 2
<1>1. CASE v = Codec!ZeroOf(f)
  <2>1. ~v.has
    BY <1>1 DEF Codec!ZeroOf
  <2>2. ~ Codec!IsEncoded(f, v)
    BY <2>1 DEF Codec!IsEncoded
  <2>3. Codec!encode_field(f, v) = <<>>
    BY <2>2 DEF Codec!encode_field
  <2>4. f.size + 2 >= 0
    OBVIOUS
  <2> QED BY <2>3, <2>4
<1>2. ASSUME NEW s \in Octets(f.size), v = Codec!Bytes(s, f.size)
      PROVE  Codec!encode_field(f, v) \in Seq(Int) /\ Len(Codec!encode_field(f, v)) = f.size + 2
  <2>1. s \in Seq(Int) /\ Len(s) = f.size
    BY DEF Octets
  <2>2. v.has /\ v.size = f.size /\ v.bytes = s \o Codec!Zeros(0)
    <3>1. v.has /\ v.size = Len(s) /\ v.bytes = s \o Codec!Zeros(f.size - Len(s))
      BY <1>2 DEF Codec!Bytes
    <3>2. f.size - Len(s) = 0
      BY <2>1
    <3> QED BY <2>1, <3>1, <3>2
  <2>3. Codec!Zeros(0) = <<>>
    BY DEF Codec!Zeros
  <2>4. SubSeq(v.bytes, 1, v.size) = s
    BY <2>1, <2>2, <2>3
  <2>5. Codec!encode_field(f, v) = Codec!pb_encode_tag_for_field(f) \o Codec!pb_encode_string(s)
    <3>1. Codec!IsEncoded(f, v)
      BY <2>2 DEF Codec!IsEncoded
    <3> QED BY <2>4, <3>1 DEF Codec!encode_field, Codec!encode_basic_field, Codec!pb_enc_bytes
  <2>6. Len(s) \in 0 .. 127
    BY <2>1
  <2>7. /\ Codec!pb_encode_tag_for_field(f) \o Codec!pb_encode_string(s) \in Seq(Int)
        /\ Len(Codec!pb_encode_tag_for_field(f) \o Codec!pb_encode_string(s)) = Len(s) + 2
    BY <2>1, <2>6, StringLen
  <2> QED BY <2>1, <2>5, <2>7
<1> QED BY <1>1, <1>2

\* A struct as encodeMeshMessage fills it.
MaybeBytes(v, f) == v = Codec!ZeroOf(f) \/ \E s \in Octets(f.size) : v = Codec!Bytes(s, f.size)
TypedStruct(p) ==
  /\ p[1] \in Number /\ p[7] \in Number /\ p[8] \in Number /\ p[9] \in Number /\ p[10] \in Number
  /\ p[2] \in Number /\ 2 * p[2] \in Number
  /\ p[3] \in Octets(MacLen) /\ p[4] \in Octets(MacLen) /\ p[5] \in Octets(MacLen)
  /\ MaybeBytes(p[6], Codec!FieldList[6]) /\ MaybeBytes(p[11], Codec!FieldList[11])

\* What is written for the k-th field, and how long that is.
Piece(p, k) == Codec!encode_field(Codec!FieldList[k], p[k])
Lengths(p) == [k \in 1 .. 11 |-> Len(Piece(p, k))]

\* The longest its fields can be.
LEMMA StructLen ==
  ASSUME CodecConstants, NEW p, TypedStruct(p)
  PROVE  /\ \A k \in 1 .. 11 : Piece(p, k) \in Seq(Int)
         /\ Lengths(p) \in [1 .. 11 -> Nat]
         /\ \A k \in {1, 2, 7, 8, 9, 10} :
              Lengths(p)[k] <= NumberRoom /\ (p[k] = 0 => Lengths(p)[k] = 0)
         /\ \A k \in {1, 10} : p[k] < 128 => Lengths(p)[k] <= 2
         /\ \A k \in {3, 4, 5} : Lengths(p)[k] <= MacLen + 2
         /\ Lengths(p)[6] <= DataLen + 2 /\ Lengths(p)[11] <= KeyLen + 2
<1>1. ASSUME NEW k \in {1, 2, 7, 8, 9, 10}
      PROVE  /\ Piece(p, k) \in Seq(Int)
             /\ Len(Piece(p, k)) <= NumberRoom
             /\ p[k] = 0 => Len(Piece(p, k)) = 0
             /\ k \in {1, 10} /\ p[k] < 128 => Len(Piece(p, k)) <= 2
  <2> DEFINE f == Codec!FieldList[k]
  <2>1. f.tag \in 1 .. 11 /\ f.ltype = IF k = 2 THEN "SVARINT" ELSE "UVARINT"
    BY DEF Codec!FieldList, Codec!Field
  <2>2. p[k] \in Number /\ (k = 2 => 2 * p[k] \in Number)
    BY DEF TypedStruct
  <2>3. f.ltype = "UVARINT" \/ (f.ltype = "SVARINT" /\ 2 * p[k] \in Number)
    BY <2>1, <2>2
  <2>4. k \in {1, 10} => f.ltype = "UVARINT"
    BY <2>1
  <2> HIDE DEF f
  <2> QED BY <2>1, <2>2, <2>3, <2>4, NumberLen DEF Piece, f
<1>2. ASSUME NEW k \in {3, 4, 5}
      PROVE  Piece(p, k) \in Seq(Int) /\ Len(Piece(p, k)) = MacLen + 2
  <2> DEFINE f == Codec!FieldList[k]
  <2>1. f.tag \in 1 .. 11 /\ f.ltype = "FIXED" /\ f.size = MacLen /\ MacLen \in 1 .. 127
    BY DEF Codec!FieldList, Codec!Field, CodecConstants
  <2>2. p[k] \in Octets(MacLen)
    BY DEF TypedStruct
  <2> HIDE DEF f
  <2> QED BY <2>1, <2>2, FixedLen DEF Piece, f
<1>3. ASSUME NEW k \in {6, 11}
      PROVE  Piece(p, k) \in Seq(Int) /\ Len(Piece(p, k)) <= (IF k = 6 THEN DataLen ELSE KeyLen) + 2
  <2> DEFINE f == Codec!FieldList[k]
  <2>1. /\ f.tag \in 1 .. 11 /\ f.ltype = "BYTES" /\ f.size = IF k = 6 THEN DataLen ELSE KeyLen
        /\ f.size \in 1 .. 127
    BY DEF Codec!FieldList, Codec!Field, CodecConstants
  <2>2. p[k] = Codec!ZeroOf(f) \/ \E s \in Octets(f.size) : p[k] = Codec!Bytes(s, f.size)
    BY DEF TypedStruct, MaybeBytes
  <2> HIDE DEF f
  <2>3. Codec!encode_field(f, p[k]) \in Seq(Int) /\ Len(Codec!encode_field(f, p[k])) <= f.size + 2
    BY <2>1, <2>2, BytesLen
  <2> QED BY <2>1, <2>3 DEF Piece, f
<1>4. \A k \in 1 .. 11 : k \in {1, 2, 7, 8, 9, 10} \/ k \in {3, 4, 5} \/ k \in {6, 11}
  OBVIOUS
<1>5. \A k \in 1 .. 11 : Piece(p, k) \in Seq(Int)
  BY <1>1, <1>2, <1>3, <1>4
<1>6. Lengths(p) \in [1 .. 11 -> Nat] /\ \A k \in 1 .. 11 : Lengths(p)[k] = Len(Piece(p, k))
  <2>1. \A k \in 1 .. 11 : Len(Piece(p, k)) \in Nat
    <3> SUFFICES ASSUME NEW k \in 1 .. 11 PROVE Len(Piece(p, k)) \in Nat
      OBVIOUS
    <3>1. Piece(p, k) \in Seq(Int)
      BY <1>5, Zenon
    <3> QED BY <3>1
  <2> QED BY <2>1, Zenon DEF Lengths
<1>7. ASSUME NEW k \in {1, 2, 7, 8, 9, 10}
      PROVE  /\ Lengths(p)[k] <= NumberRoom /\ (p[k] = 0 => Lengths(p)[k] = 0)
             /\ k \in {1, 10} /\ p[k] < 128 => Lengths(p)[k] <= 2
  <2>1. k \in 1 .. 11
    OBVIOUS
  <2>2. Lengths(p)[k] = Len(Piece(p, k))
    BY <1>6, <2>1, Zenon
  <2> QED BY <1>1, <2>2
<1>8. ASSUME NEW k \in {3, 4, 5} PROVE Lengths(p)[k] <= MacLen + 2
  <2>1. k \in 1 .. 11
    OBVIOUS
  <2>2. Lengths(p)[k] = Len(Piece(p, k))
    BY <1>6, <2>1, Zenon
  <2>3. MacLen \in Nat
    BY DEF CodecConstants
  <2> QED BY <1>2, <2>2, <2>3
<1>9. ASSUME NEW k \in {6, 11} PROVE Lengths(p)[k] <= (IF k = 6 THEN DataLen ELSE KeyLen) + 2
  <2>1. k \in 1 .. 11
    OBVIOUS
  <2>2. Lengths(p)[k] = Len(Piece(p, k))
    BY <1>6, <2>1, Zenon
  <2> QED BY <1>3, <2>2
<1>10. \A k \in {1, 10} : k \in {1, 2, 7, 8, 9, 10}
  OBVIOUS
<1>11. Lengths(p)[6] <= DataLen + 2 /\ Lengths(p)[11] <= KeyLen + 2
  BY <1>9
<1> QED BY <1>5, <1>6, <1>7, <1>8, <1>10, <1>11

\* The two messages that are encoded are like that.
TypedMessage(m) ==
  /\ m.messageType \in Number /\ m.dataType \in Number /\ 2 * m.dataType \in Number
  /\ m.origin \in Octets(MacLen) /\ m.target \in Octets(MacLen) /\ m.lastHop \in Octets(MacLen)
  /\ m.data \in Octets(DataLen) /\ m.hopCount \in Number /\ m.epochNum \in Number
  /\ m.seqNum \in Number /\ m.protoVersion \in Number /\ m.key \in Octets(KeyLen)

LEMMA ToStructTyped ==
  ASSUME NEW m, TypedMessage(m)
  PROVE  /\ TypedStruct(Codec!ToStruct(m))
         /\ Codec!ToStruct(m)[1] = m.messageType /\ Codec!ToStruct(m)[2] = m.dataType
         /\ Codec!ToStruct(m)[7] = m.hopCount /\ Codec!ToStruct(m)[8] = m.epochNum
         /\ Codec!ToStruct(m)[9] = m.seqNum /\ Codec!ToStruct(m)[10] = m.protoVersion
<1> DEFINE p == Codec!ToStruct(m)
<1>1. /\ p[1] = m.messageType /\ p[2] = m.dataType /\ p[3] = m.origin /\ p[4] = m.target
      /\ p[5] = m.lastHop /\ p[7] = m.hopCount /\ p[8] = m.epochNum /\ p[9] = m.seqNum
      /\ p[10] = m.protoVersion /\ p[6] = Codec!Bytes(m.data, DataLen)
      /\ p[11] \in {Codec!Bytes(m.key, KeyLen), Codec!ZeroOf(Codec!FieldList[11])}
  BY DEF Codec!ToStruct
<1>2. Codec!FieldList[6].size = DataLen /\ Codec!FieldList[11].size = KeyLen
  BY DEF Codec!FieldList, Codec!Field
<1> HIDE DEF p
<1>3. MaybeBytes(p[6], Codec!FieldList[6]) /\ MaybeBytes(p[11], Codec!FieldList[11])
  BY <1>1, <1>2 DEF MaybeBytes, TypedMessage
<1>4. TypedStruct(p)
  BY <1>1, <1>3 DEF TypedStruct, TypedMessage
<1> QED BY <1>1, <1>4 DEF p

LEMMA ZerosAreOctets == ASSUME NEW n \in Nat PROVE Codec!Zeros(n) \in Octets(n)
BY DEF Codec!Zeros, Octets

LEMMA RequestTyped ==
  ASSUME CodecConstants, NEW mac \in Octets(MacLen), NEW key \in Octets(KeyLen)
  PROVE  TypedMessage(Codec!EnrollmentRequest(mac, key))
<1>1. 0 \in Number /\ 1 \in Number /\ 2 \in Number /\ 2 * 0 = 0
  BY DEF Number
<1>2. MacLen \in Nat /\ DataLen \in Nat
  BY DEF CodecConstants
<1> QED BY <1>1, <1>2, ZerosAreOctets DEF TypedMessage, Codec!EnrollmentRequest, Codec!ENROLLMENT

\* What eleven lengths come to from the k-th on.
LengthFrom(l, j, k) == IF j >= k THEN l[j] ELSE 0
Remaining(l, k) ==
  LengthFrom(l, 1, k) + LengthFrom(l, 2, k) + LengthFrom(l, 3, k) + LengthFrom(l, 4, k) +
  LengthFrom(l, 5, k) + LengthFrom(l, 6, k) + LengthFrom(l, 7, k) + LengthFrom(l, 8, k) +
  LengthFrom(l, 9, k) + LengthFrom(l, 10, k) + LengthFrom(l, 11, k)

LEMMA TakeOne ==
  ASSUME NEW l \in [1 .. 11 -> Nat], NEW i \in 1 .. 11
  PROVE  Remaining(l, i) = l[i] + Remaining(l, i + 1) /\ Remaining(l, i + 1) \in Nat
<1>1. \A j \in 1 .. 11 : l[j] \in Nat
  OBVIOUS
<1> USE <1>1 DEF Remaining, LengthFrom
<1>2. CASE i \in {1, 2, 3}
  BY <1>2
<1>3. CASE i \in {4, 5, 6}
  BY <1>3
<1>4. CASE i \in {7, 8, 9}
  BY <1>4
<1>5. CASE i \in {10, 11}
  BY <1>5
<1>6. i \in {1, 2, 3, 4, 5, 6, 7, 8, 9, 10, 11}
  OBVIOUS
<1> HIDE DEF Remaining
<1> QED BY <1>2, <1>3, <1>4, <1>5, <1>6

LEMMA AllTogether ==
  ASSUME NEW l \in [1 .. 11 -> Nat], NEW mac \in Nat, NEW data \in Nat, NEW key \in Nat,
         \A k \in {3, 4, 5} : l[k] <= mac, l[6] <= data, l[11] <= key,
         NEW numbers \in Nat, l[1] + l[2] + l[7] + l[8] + l[9] + l[10] <= numbers
  PROVE  Remaining(l, 1) \in Nat /\ Remaining(l, 1) <= numbers + (3 * mac + data + key)
<1>1. \A j \in 1 .. 11 : l[j] \in Nat
  OBVIOUS
<1>2. l[3] <= mac /\ l[4] <= mac /\ l[5] <= mac
  OBVIOUS
<1>3. Remaining(l, 1) = l[1] + l[2] + l[3] + l[4] + l[5] + l[6] + l[7] + l[8] + l[9] + l[10] + l[11]
  BY <1>1 DEF Remaining, LengthFrom
<1> QED BY <1>1, <1>2, <1>3

\* While a message is encoded, the buffer has room for the fields not yet written.
EncoderInv ==
  /\ phase # "failed"
  /\ phase = "idle" => out = <<>> /\ index = 1
  /\ phase = "encode" =>
       /\ index \in 1 .. 11 /\ out \in Seq(Int) /\ cap \in Nat
       /\ \A k \in 1 .. 11 : Piece(pbMsg, k) \in Seq(Int)
       /\ Len(out) + Remaining(Lengths(pbMsg), index) <= cap

LEMMA StepStartEncoding ==
  ASSUME CodecConstants, EncoderInv, NEW m, TypedMessage(m), NEW n \in Nat,
         Codec!StartEncoding(m, n),
         \/ n >= 6 * NumberRoom + StringRoom
         \/ /\ n >= 4 + StringRoom
            /\ m.messageType < 128 /\ m.protoVersion < 128 /\ m.dataType = 0
            /\ m.hopCount = 0 /\ m.epochNum = 0 /\ m.seqNum = 0
  PROVE  EncoderInv'
<1> DEFINE p == Codec!ToStruct(m)
<1>1. /\ phase' = "encode" /\ index' = 1 /\ out' = <<>> /\ cap' = n /\ pbMsg' = p
  BY DEF Codec!StartEncoding, EncoderInv
<1>2. /\ TypedStruct(p) /\ p[1] = m.messageType /\ p[2] = m.dataType /\ p[7] = m.hopCount
      /\ p[8] = m.epochNum /\ p[9] = m.seqNum /\ p[10] = m.protoVersion
  BY ToStructTyped
<1> HIDE DEF p
<1> DEFINE l == Lengths(p)
<1>3. /\ \A k \in 1 .. 11 : Piece(p, k) \in Seq(Int)
      /\ l \in [1 .. 11 -> Nat]
      /\ \A k \in {1, 2, 7, 8, 9, 10} : l[k] <= NumberRoom /\ (p[k] = 0 => l[k] = 0)
      /\ \A k \in {1, 10} : p[k] < 128 => l[k] <= 2
      /\ \A k \in {3, 4, 5} : l[k] <= MacLen + 2
      /\ l[6] <= DataLen + 2 /\ l[11] <= KeyLen + 2
  BY <1>2, StructLen
<1> HIDE DEF l
<1>4. /\ MacLen + 2 \in Nat /\ DataLen + 2 \in Nat /\ KeyLen + 2 \in Nat /\ NumberRoom \in Nat
      /\ StringRoom = 3 * (MacLen + 2) + (DataLen + 2) + (KeyLen + 2) /\ StringRoom \in Nat
  BY Widths DEF CodecConstants, NumberRoom, StringRoom
<1>5. PICK numbers :
        numbers \in Nat /\ n >= numbers + StringRoom /\
        l[1] + l[2] + l[7] + l[8] + l[9] + l[10] <= numbers
  <2>1. \A k \in 1 .. 11 : l[k] \in Nat
    BY <1>3
  <2>2. CASE n >= 6 * NumberRoom + StringRoom
    <3>1. /\ l[1] <= NumberRoom /\ l[2] <= NumberRoom /\ l[7] <= NumberRoom
          /\ l[8] <= NumberRoom /\ l[9] <= NumberRoom /\ l[10] <= NumberRoom
      BY <1>3
    <3>2. l[1] + l[2] + l[7] + l[8] + l[9] + l[10] <= 6 * NumberRoom
      BY <1>4, <2>1, <3>1
    <3> QED BY <1>4, <2>2, <3>2
  <2>3. CASE /\ n >= 4 + StringRoom
             /\ m.messageType < 128 /\ m.protoVersion < 128 /\ m.dataType = 0
             /\ m.hopCount = 0 /\ m.epochNum = 0 /\ m.seqNum = 0
    <3>1. p[1] < 128 /\ p[10] < 128 /\ p[2] = 0 /\ p[7] = 0 /\ p[8] = 0 /\ p[9] = 0
      BY <1>2, <2>3
    <3>2. l[1] <= 2 /\ l[10] <= 2 /\ l[2] = 0 /\ l[7] = 0 /\ l[8] = 0 /\ l[9] = 0
      BY <1>3, <3>1
    <3>3. l[1] + l[2] + l[7] + l[8] + l[9] + l[10] <= 4
      BY <2>1, <3>2
    <3> QED BY <2>3, <3>3
  <2> QED BY <2>2, <2>3
<1>6. Remaining(l, 1) \in Nat /\ Remaining(l, 1) <= n
  <2>1. /\ Remaining(l, 1) \in Nat
        /\ Remaining(l, 1) <= numbers + (3 * (MacLen + 2) + (DataLen + 2) + (KeyLen + 2))
    BY <1>3, <1>4, <1>5, AllTogether
  <2> QED BY <1>4, <1>5, <2>1
<1>7. Len(out') = 0 /\ out' \in Seq(Int)
  BY <1>1
<1> QED BY <1>1, <1>3, <1>6, <1>7 DEF EncoderInv, l

\* The next field fits, and leaves the room that the later ones need.
LEMMA StepEncodeField == EncoderInv /\ Codec!EncodeField => EncoderInv'
<1> SUFFICES ASSUME EncoderInv, Codec!EncodeField PROVE EncoderInv'
  OBVIOUS
<1> DEFINE bytes == Piece(pbMsg, index)
           l == Lengths(pbMsg)
           rest == Remaining(l, index + 1)
<1>1. /\ index \in 1 .. 11 /\ out \in Seq(Int) /\ cap \in Nat /\ bytes \in Seq(Int)
      /\ \A k \in 1 .. 11 : Piece(pbMsg, k) \in Seq(Int)
      /\ Len(out) + Remaining(l, index) <= cap
  BY DEF EncoderInv, Codec!EncodeField
<1>2. l \in [1 .. 11 -> Nat] /\ Len(bytes) = l[index]
  <2>1. \A k \in 1 .. 11 : Len(Piece(pbMsg, k)) \in Nat
    BY <1>1
  <2> QED BY <1>1, <2>1 DEF Lengths
<1> HIDE DEF l
<1>3. rest \in Nat /\ Remaining(l, index) = l[index] + rest
  BY <1>1, <1>2, TakeOne
<1> HIDE DEF bytes, rest
<1>4. out \o bytes \in Seq(Int) /\ Len(out \o bytes) = Len(out) + Len(bytes)
  BY <1>1, ConcatLen
<1>5. Len(out) \in Nat /\ Len(bytes) \in Nat /\ Len(out) + (Len(bytes) + rest) <= cap
  BY <1>1, <1>2, <1>3
<1>6. Codec!Fits(bytes)
  BY <1>1, <1>3, <1>5 DEF Codec!Fits
<1>7. Codec!advance_iterator(index) = IF index < 11 THEN index + 1 ELSE 1
  BY DEF Codec!advance_iterator, Codec!FieldList
<1>8. /\ out' = out \o bytes /\ pbMsg' = pbMsg /\ cap' = cap
      /\ index' = Codec!advance_iterator(index)
      /\ phase' = IF Codec!advance_iterator(index) = 1 THEN "sent" ELSE "encode"
  <2>1. bytes = Codec!encode_field(Codec!FieldList[index], pbMsg[index])
    BY DEF bytes, Piece
  <2> QED BY <1>6, <2>1 DEF Codec!EncodeField
<1>9. CASE index = 11
  BY <1>7, <1>8, <1>9 DEF EncoderInv
<1>10. CASE index < 11
  <2>1. Codec!advance_iterator(index) = index + 1 /\ index + 1 # 1 /\ index + 1 \in 1 .. 11
    <3>1. index \in 1 .. 10
      BY <1>1, <1>10
    <3> QED BY <1>7, <3>1
  <2>2. index' = index + 1 /\ phase' = "encode" /\ index' \in 1 .. 11
    BY <1>8, <2>1
  <2>3. Remaining(Lengths(pbMsg'), index') = rest
    BY <1>8, <2>2 DEF rest, l
  <2>4. Len(out') + rest <= cap
    BY <1>1, <1>3, <1>4, <1>5, <1>8
  <2>5. out' \in Seq(Int) /\ cap' \in Nat /\ Len(out') + Remaining(Lengths(pbMsg'), index') <= cap'
    BY <1>1, <1>4, <1>8, <2>3, <2>4
  <2>6. \A k \in 1 .. 11 : Piece(pbMsg', k) \in Seq(Int)
    BY <1>1, <1>8
  <2> QED BY <2>2, <2>5, <2>6 DEF EncoderInv
<1>11. index = 11 \/ index < 11
  <2>1. index \in 1 .. 11
    BY <1>1
  <2> QED BY <2>1
<1> QED BY <1>9, <1>10, <1>11

LEMMA StepEncoderInv ==
  ASSUME CodecConstants, CodecInputs PROVE EncoderInv /\ [Codec!Next]_(Codec!vars) => EncoderInv'
<1> SUFFICES ASSUME EncoderInv, [Codec!Next]_(Codec!vars) PROVE EncoderInv'
  OBVIOUS
<1>1. ASSUME NEW m \in MeshMessage, Codec!ForwardToServer(m) PROVE EncoderInv'
  <2>1. TypedMessage(m)
    BY DEF CodecInputs, TypedMessage
  <2>2. RelayCap \in Nat /\ RelayCap >= 6 * NumberRoom + StringRoom
    BY DEF CodecConstants
  <2> QED BY <1>1, <2>1, <2>2, StepStartEncoding DEF Codec!ForwardToServer
<1>2. ASSUME NEW new \in NewNode, Codec!RelayEnrollmentToServer(new[1], new[2]) PROVE EncoderInv'
  <2> DEFINE m == Codec!EnrollmentRequest(new[1], new[2])
  <2>1. TypedMessage(m)
    BY RequestTyped DEF CodecInputs
  <2>2. /\ m.messageType < 128 /\ m.protoVersion < 128 /\ m.dataType = 0
        /\ m.hopCount = 0 /\ m.epochNum = 0 /\ m.seqNum = 0
    BY DEF Codec!EnrollmentRequest, Codec!ENROLLMENT
  <2>3. EnrollCap \in Nat /\ EnrollCap >= 4 + StringRoom
    BY DEF CodecConstants
  <2>4. Codec!StartEncoding(m, EnrollCap)
    BY <1>2 DEF Codec!RelayEnrollmentToServer
  <2> HIDE DEF m
  <2> QED BY <2>1, <2>2, <2>3, <2>4, StepStartEncoding
<1>3. CASE Codec!EncodeField
  BY <1>3, StepEncodeField
<1>4. ASSUME phase' \in {"sent", "decode", "accepted", "rejected"} PROVE EncoderInv'
  BY <1>4 DEF EncoderInv
<1>5. CASE \/ \E k \in 1 .. MaxFields : \E ws \in [1 .. k -> ServerField] : Codec!ServerSends(ws)
           \/ \E n \in 1 .. Len(out) : Codec!Arrive(n)
           \/ Codec!DecodeFails \/ Codec!DecodeEnds
  BY <1>4, <1>5 DEF Codec!ServerSends, Codec!Arrive, Codec!DecodeFails, Codec!DecodeEnds
<1>6. CASE Codec!DecodeField \/ Codec!SkipField
  <2>1. phase = "decode" /\ phase' = phase
    BY <1>6 DEF Codec!DecodeField, Codec!SkipField, Codec!HasTag
  <2> QED BY <1>4, <2>1
<1>7. CASE Codec!Return
  BY <1>7 DEF Codec!Return, EncoderInv
<1>8. CASE UNCHANGED Codec!vars
  <2>1. phase' = phase /\ out' = out /\ index' = index /\ cap' = cap /\ pbMsg' = pbMsg
    BY <1>8 DEF Codec!vars
  <2>2. Remaining(Lengths(pbMsg'), index') = Remaining(Lengths(pbMsg), index)
    BY <2>1
  <2>3. \A k \in 1 .. 11 : Piece(pbMsg', k) = Piece(pbMsg, k)
    BY <2>1
  <2> QED BY <2>1, <2>2, <2>3 DEF EncoderInv
<1> QED BY <1>1, <1>2, <1>3, <1>5, <1>6, <1>7, <1>8 DEF Codec!Next

\* pb_encode never runs out of buffer, whatever the mesh hands to the adapter: not of
\* the 256 bytes for a message from the mesh, nor of the 128 that an enrollment request
\* fills to the last byte.
THEOREM EncodingFits ==
  ASSUME CodecConstants, CodecInputs PROVE Codec!Spec => []Codec!NothingTooLong
<1>1. Codec!Init => EncoderInv
  BY DEF Codec!Init, EncoderInv
<1>2. EncoderInv => Codec!NothingTooLong
  BY DEF EncoderInv, Codec!NothingTooLong
<1> QED BY <1>1, <1>2, StepEncoderInv, PTL DEF Codec!Spec
=============================================================================
