------------------------- MODULE MeshNetwork_proofs -------------------------
(***************************************************************************)
(* Routes lead to the master directly, and no adapter gets a message twice *)
(* that its node remembers: for any number of nodes, any topology, any     *)
(* peer lists, any limits and any order of delivery and loss.              *)
(***************************************************************************)
EXTENDS MeshNetwork, SequenceTheorems, TLAPS

Frame == [src : Node, dst : Node, msg : MeshMessage]

\* A beacon on its way to a node other than the master comes from the master itself.
BeaconsComeDirectly ==
  \A f \in air : (f.msg.type = "BEACON" /\ f.dst # Master) =>
    f.src = Master /\ f.msg.hop = 0 /\ <<Master, f.dst>> \in Link

\* The master does not relay its own beacons, which come back to it.
MasterRelaysNothing == relayPending[Master] = NoRelay

\* Adapter data is stamped, so that the replay check applies to it.
DataIsStamped == \A f \in air : f.msg.type = "DATA" => f.msg.seq > 0

\* What a node remembers or remembered.
Known(n) == Range(replayCache[n]) \union forgotten[n]

\* A node remembers, or remembered, everything its adapter got.
DeliveredIsKnown ==
  \A n \in Node : \A i \in DOMAIN deliveries[n] : deliveries[n][i] \in Known(n)

NetInv ==
  /\ TypeOK
  /\ RoutesAreDirect /\ BeaconsComeDirectly /\ MasterRelaysNothing
  /\ DataIsStamped /\ DeliveredIsKnown /\ DeliveredOnce

LEMMA Constants ==
  /\ Master \in Node /\ MAX_HOPS \in Nat \ {0} /\ CacheSize \in Nat \ {0}
  /\ PeerFresh \in Nat \ {0} /\ MasterStale \in Nat \ {0}
  /\ \A n \in Node : Peers[n] \subseteq Node
  /\ NoRoute \in [distance : Nat, nextHop : Node]
  /\ NoRelay \in [seq : Nat, hop : 0 .. MAX_HOPS]
BY NetworkAssumption DEF NoRoute, NoRelay

LEMMA InitNetInv == Init => NetInv
<1> SUFFICES ASSUME Init PROVE NetInv
  OBVIOUS
<1> USE Constants
<1>1. TypeOK
  <2>1. \A n \in Node : peerAge[n] \in [Peers[n] -> 0 .. PeerFresh]
    BY DEF Init
  <2>2. replayCache \in [Node -> Seq(Ident)] /\ deliveries \in [Node -> Seq(Ident)]
    BY DEF Init
  <2>3. \A n \in Node : Len(replayCache[n]) <= CacheSize
    BY DEF Init
  <2> QED BY <2>1, <2>2, <2>3 DEF Init, TypeOK
<1>2. \A n \in Node : DOMAIN deliveries[n] = {}
  BY DEF Init
<1> QED BY <1>1, <1>2 DEF Init, NetInv, RoutesAreDirect, BeaconsComeDirectly, MasterRelaysNothing, DataIsStamped, DeliveredIsKnown, DeliveredOnce

-----------------------------------------------------------------------------
(* What the sending operators return *)

\* Frames carry the message as it is, to nodes that hear the sender.
LEMMA FramesFacts ==
  ASSUME NEW n, NEW dsts, NEW msg, NEW f \in Frames(n, dsts, msg)
  PROVE  f.src = n /\ f.msg = msg /\ f.dst \in dsts
<1>1. PICK d \in dsts \ {n} : <<n, d>> \in Link /\ f = [src |-> n, dst |-> d, msg |-> msg]
  BY DEF Frames
<1> QED BY <1>1

LEMMA FramesAreHeard ==
  ASSUME NEW n, NEW dsts, NEW msg, NEW f \in Frames(n, dsts, msg)
  PROVE  <<n, f.dst>> \in Link
<1>1. PICK d \in dsts \ {n} : <<n, d>> \in Link /\ f = [src |-> n, dst |-> d, msg |-> msg]
  BY DEF Frames
<1> QED BY <1>1

LEMMA FramesType ==
  ASSUME NEW n \in Node, NEW dsts, \A d \in dsts : d \in Node, NEW msg \in MeshMessage,
         NEW f \in Frames(n, dsts, msg)
  PROVE  f \in Frame /\ f.dst # f.src
<1>1. PICK d \in dsts \ {n} : <<n, d>> \in Link /\ f = [src |-> n, dst |-> d, msg |-> msg]
  BY DEF Frames
<1>2. [src |-> n, dst |-> d, msg |-> msg] \in Frame
  BY DEF Frame
<1> QED BY <1>1, <1>2

\* A message below the hop limit stays a message when its hop count grows.
LEMMA OneHopOnFacts ==
  ASSUME NEW msg \in MeshMessage, msg.hop < MAX_HOPS
  PROVE  /\ OneHopOn(msg) \in MeshMessage
         /\ OneHopOn(msg).type = msg.type /\ OneHopOn(msg).seq = msg.seq
<1>1. msg.hop + 1 \in 0 .. MAX_HOPS
  BY Constants DEF MeshMessage
<1> QED BY <1>1 DEF OneHopOn, MeshMessage

\* The next hop of a node other than the master is the master, if there is one.
LEMMA NextHopIsMaster ==
  ASSUME RoutesAreDirect, NEW n \in Node \ {Master}
  PROVE  NextHop(n) \subseteq {Master}
<1>1. ASSUME NEW p \in NextHop(n) PROVE p = Master
  <2>1. route[n] # NoRoute /\ p = route[n].nextHop
    BY <1>1 DEF NextHop
  <2>2. route[n] = [distance |-> 1, nextHop |-> Master]
    BY <2>1 DEF RoutesAreDirect
  <2> QED BY <2>1, <2>2
<1> QED BY <1>1

\* What of a message a relay leaves as it is.
SameContent(msg, other) == msg.type = other.type /\ msg.seq = other.seq

\* Relaying down keeps what the message says.
LEMMA RelayDownlinkFacts ==
  ASSUME NEW n \in Node, NEW msg \in MeshMessage, NEW f \in RelayDownlink(n, msg)
  PROVE  f \in Frame /\ f.dst # f.src /\ SameContent(f.msg, msg)
<1>1. msg.hop < MAX_HOPS /\ f \in Frames(n, Peers[n], OneHopOn(msg))
  BY Constants DEF RelayDownlink, MeshMessage
<1>2. OneHopOn(msg) \in MeshMessage /\ SameContent(OneHopOn(msg), msg)
  BY <1>1, OneHopOnFacts DEF SameContent
<1>3. \A d \in Peers[n] : d \in Node
  BY Constants
<1>4. f.msg = OneHopOn(msg)
  BY <1>1, FramesFacts
<1>5. f \in Frame /\ f.dst # f.src
  BY <1>1, <1>2, <1>3, FramesType
<1> QED BY <1>2, <1>4, <1>5

\* So does sending up.
LEMMA TransmitCoreFacts ==
  ASSUME NEW n \in Node, NEW msg \in MeshMessage, NEW f \in TransmitCore(n, msg)
  PROVE  f \in Frame /\ f.dst # f.src /\ SameContent(f.msg, msg)
<1> DEFINE up == IF msg.type = "DATA" THEN [msg EXCEPT !.target = Master] ELSE msg
<1>1. up \in MeshMessage /\ SameContent(up, msg)
  BY Constants DEF MeshMessage, SameContent
<1>2. \A d \in NextHop(n) : d \in Node
  BY Constants DEF NextHop
<1>3. f \in Frames(n, NextHop(n), up)
  BY DEF TransmitCore
<1> HIDE DEF up
<1>4. f.msg = up
  BY <1>3, FramesFacts
<1>5. f \in Frame /\ f.dst # f.src
  BY <1>1, <1>2, <1>3, FramesType
<1> QED BY <1>1, <1>4, <1>5

LEMMA ForwardedFacts ==
  ASSUME NEW n \in Node, NEW msg \in MeshMessage, NEW f \in Forwarded(n, msg)
  PROVE  f \in Frame /\ f.dst # f.src /\ SameContent(f.msg, msg)
<1>1. CASE f \in RelayDownlink(n, msg)
  BY <1>1, RelayDownlinkFacts
<1>2. CASE msg.hop < MAX_HOPS /\ f \in TransmitCore(n, OneHopOn(msg))
  <2>1. OneHopOn(msg) \in MeshMessage /\ SameContent(OneHopOn(msg), msg)
    BY <1>2, OneHopOnFacts DEF SameContent
  <2>2. f \in Frame /\ f.dst # f.src /\ SameContent(f.msg, OneHopOn(msg))
    BY <1>2, <2>1, TransmitCoreFacts
  <2> QED BY <2>1, <2>2 DEF SameContent
<1> QED BY <1>1, <1>2, Constants DEF Forwarded, MeshMessage

-----------------------------------------------------------------------------
(* What taking a frame does to the tables *)

\* The caches keep their type, what was known stays known, and a stamped message is
\* known afterwards and was not remembered before.
LEMMA TakeFrameFacts ==
  ASSUME TypeOK, NEW f \in Frame, TakeFrame(f)
  PROVE  /\ f \in air
         /\ replayCache' \in [Node -> Seq(Ident)]
         /\ \A n \in Node : Len(replayCache'[n]) <= CacheSize
         /\ forgotten' \in [Node -> SUBSET Ident]
         /\ DOMAIN peerAge' = Node
         /\ \A n \in Node : peerAge'[n] \in [Peers[n] -> 0 .. PeerFresh]
         /\ \A n \in Node : Known(n) \subseteq Known(n)'
         /\ f.msg.seq > 0 => /\ Id(f.msg) \in Known(f.dst)'
                             /\ Id(f.msg) \notin Range(replayCache[f.dst])
<1> USE Constants
<1> DEFINE n == f.dst
           old == replayCache[n]
           kept == IF Len(old) < CacheSize THEN old ELSE Tail(old)
           new == Remembered(n, f.msg)
<1>1. n \in Node /\ f.msg \in MeshMessage /\ Id(f.msg) \in Ident /\ f.src \in Node
  BY DEF Frame, Id, Ident, MeshMessage
<1>2. old \in Seq(Ident) /\ Len(old) <= CacheSize /\ Len(old) \in Nat
  <2>1. replayCache \in [Node -> Seq(Ident)] /\ \A k \in Node : Len(replayCache[k]) <= CacheSize
    BY DEF TypeOK
  <2>2. old \in Seq(Ident) /\ Len(old) <= CacheSize
    BY <1>1, <2>1
  <2> QED BY <2>2, LenProperties
<1>3. kept \in Seq(Ident) /\ Len(kept) < CacheSize /\ Len(kept) \in Nat
  <2>1. CASE Len(old) < CacheSize
    BY <1>2, <2>1
  <2>2. CASE ~(Len(old) < CacheSize)
    <3>1. old # <<>> /\ Len(old) = CacheSize
      BY <1>2, <2>2, EmptySeq
    <3>2. Tail(old) \in Seq(Ident) /\ Len(Tail(old)) = Len(old) - 1
      BY <1>2, <3>1, HeadTailProperties
    <3> QED BY <1>2, <2>2, <3>1, <3>2
  <2> QED BY <2>1, <2>2
<1>4. new \in Seq(Ident) /\ Len(new) <= CacheSize
  <2>1. CASE f.msg.seq = 0
    BY <1>2, <2>1 DEF Remembered
  <2>2. CASE f.msg.seq # 0
    <3>1. new = Append(kept, Id(f.msg))
      BY <2>2 DEF Remembered
    <3> HIDE DEF kept, new
    <3>2. new \in Seq(Ident) /\ Len(new) = Len(kept) + 1
      BY <1>1, <1>3, <3>1, AppendProperties
    <3> QED BY <1>3, <3>2
  <2> QED BY <2>1, <2>2
<1>5. /\ replayCache' = [replayCache EXCEPT ![n] = new]
      /\ forgotten' = [forgotten EXCEPT ![n] = @ \union (Range(replayCache[n]) \ Range(replayCache'[n]))]
      /\ ~IsReplay(n, f.msg) /\ f \in air /\ peerAge' = HeardFrom(n, f.src)
  BY DEF TakeFrame
<1>6. f.msg.seq > 0 => Id(f.msg) \in Range(new) /\ Id(f.msg) \notin Range(old)
  <2>1. SUFFICES ASSUME f.msg.seq > 0 PROVE Id(f.msg) \in Range(new) /\ Id(f.msg) \notin Range(old)
    OBVIOUS
  <2>2. new = Append(kept, Id(f.msg))
    <3>1. f.msg.seq # 0
      BY <2>1
    <3> QED BY <3>1 DEF Remembered
  <2> HIDE DEF kept, new
  <2>3. Len(new) = Len(kept) + 1 /\ new[Len(kept) + 1] = Id(f.msg) /\ DOMAIN new = 1 .. Len(new)
    BY <1>1, <1>3, <1>4, <2>2, AppendProperties, LenProperties
  <2>4. Id(f.msg) \in Range(new)
    BY <1>3, <2>3 DEF Range
  <2> QED BY <1>5, <2>1, <2>4 DEF IsReplay
<1> HIDE DEF new, kept
<1>7. replayCache' \in [Node -> Seq(Ident)] /\ replayCache'[n] = new
  BY <1>1, <1>4, <1>5 DEF TypeOK
<1>8. \A k \in Node : Len(replayCache'[k]) <= CacheSize
  BY <1>1, <1>4, <1>5 DEF TypeOK
<1>9. Range(old) \subseteq Ident
  BY <1>2 DEF Range
<1>10. forgotten' \in [Node -> SUBSET Ident]
  BY <1>1, <1>5, <1>9 DEF TypeOK
<1>11. \A k \in Node : Known(k) \subseteq Known(k)'
  BY <1>1, <1>5, <1>7 DEF TypeOK, Known
<1>12. f.msg.seq > 0 => Id(f.msg) \in Known(n)'
  BY <1>6, <1>7 DEF Known
<1>13. DOMAIN peerAge' = Node /\ \A k \in Node : peerAge'[k] \in [Peers[k] -> 0 .. PeerFresh]
  <2>1. DOMAIN peerAge = Node /\ \A k \in Node : peerAge[k] \in [Peers[k] -> 0 .. PeerFresh]
    BY DEF TypeOK
  <2>2. CASE f.src \in Peers[n] \ {n}
    <3> DEFINE ages == [peerAge[n] EXCEPT ![f.src] = 0]
    <3>1. peerAge' = [peerAge EXCEPT ![n] = ages]
      BY <1>5, <2>2 DEF HeardFrom
    <3>2. peerAge[n] \in [Peers[n] -> 0 .. PeerFresh] /\ 0 \in 0 .. PeerFresh
      BY <1>1, <2>1
    <3>3. ages \in [Peers[n] -> 0 .. PeerFresh]
      BY <3>2
    <3> HIDE DEF ages
    <3>4. DOMAIN peerAge' = Node
      BY <2>1, <3>1
    <3> QED BY <1>1, <2>1, <3>1, <3>3, <3>4
  <2>3. CASE f.src \notin Peers[n] \ {n}
    BY <1>5, <2>1, <2>3 DEF HeardFrom
  <2> QED BY <2>2, <2>3
<1> QED BY <1>5, <1>6, <1>7, <1>8, <1>10, <1>11, <1>12, <1>13

-----------------------------------------------------------------------------
(* The invariant is kept *)

\* What the invariant says of a frame on the air.
GoodFrame(f) ==
  /\ f \in Frame /\ f.dst # f.src
  /\ (f.msg.type = "BEACON" /\ f.dst # Master) =>
       f.src = Master /\ f.msg.hop = 0 /\ <<Master, f.dst>> \in Link
  /\ f.msg.type = "DATA" => f.msg.seq > 0

LEMMA AirIsGood == NetInv => \A f \in air : GoodFrame(f)
BY DEF NetInv, TypeOK, BeaconsComeDirectly, DataIsStamped, GoodFrame, Frame

\* The parts of the invariant that speak of frames.
LEMMA GoodAir ==
  ASSUME \A f \in air' : GoodFrame(f)
  PROVE  /\ air' \subseteq Frame /\ \A f \in air' : f.dst # f.src
         /\ BeaconsComeDirectly' /\ DataIsStamped'
BY DEF BeaconsComeDirectly, DataIsStamped, GoodFrame

\* Frames whose messages are adapter data or JOIN_ACKs need not be direct.
LEMMA OtherFrameIsGood ==
  ASSUME NEW f \in Frame, f.dst # f.src, f.msg.type # "BEACON", f.msg.type = "DATA" => f.msg.seq > 0
  PROVE  GoodFrame(f)
BY DEF GoodFrame

\* What was handled and what is remembered does not change: the adapters' part holds.
LEMMA DeliveriesKept ==
  ASSUME NetInv, UNCHANGED <<replayCache, forgotten, deliveries>>
  PROVE  DeliveredIsKnown' /\ DeliveredOnce'
BY DEF NetInv, DeliveredIsKnown, DeliveredOnce, Known

\* Steps that only put frames on the air or take them away.
LEMMA AirStep ==
  ASSUME NetInv, UNCHANGED <<tables, relays, deliveries, forgotten>>,
         txSeqNum' \in [Node -> Nat], acks' \in Nat, \A f \in air' : GoodFrame(f)
  PROVE  NetInv'
<1>1. TypeOK'
  BY GoodAir DEF NetInv, TypeOK, tables, relays, Frame
<1>2. RoutesAreDirect' /\ MasterRelaysNothing'
  BY DEF NetInv, RoutesAreDirect, MasterRelaysNothing, tables, relays
<1>3. DeliveredIsKnown' /\ DeliveredOnce'
  BY DeliveriesKept DEF tables
<1> QED BY <1>1, <1>2, <1>3, GoodAir DEF NetInv

LEMMA SendStep ==
  ASSUME NetInv,
         \/ BroadcastMasterBeacon
         \/ \E n \in Node : Transmit(n) \/ SendJoinAck(n)
         \/ \E f \in air : DropReplay(f) \/ Lose(f)
         \/ UNCHANGED vars
  PROVE  NetInv'
<1> USE Constants
<1>1. CASE BroadcastMasterBeacon
  <2> DEFINE seq == txSeqNum[Master] + 1
             beacon == Message("BEACON", Master, seq, Everyone, 0)
  <2>1. txSeqNum \in [Node -> Nat] /\ acks \in Nat
    BY DEF NetInv, TypeOK
  <2>2. seq \in Nat /\ txSeqNum' = [txSeqNum EXCEPT ![Master] = seq]
    BY <1>1, <2>1 DEF BroadcastMasterBeacon
  <2>3. beacon \in MeshMessage /\ beacon.type = "BEACON" /\ beacon.hop = 0
    BY <2>2 DEF Message, MeshMessage
  <2>4. ASSUME NEW f \in Broadcast(Master, beacon) PROVE GoodFrame(f)
    <3> HIDE DEF beacon
    <3>1. f \in Frames(Master, Node, beacon)
      BY <2>4 DEF Broadcast
    <3>2. f.src = Master /\ f.msg = beacon
      BY <3>1, FramesFacts
    <3>3. <<Master, f.dst>> \in Link
      BY <3>1, FramesAreHeard
    <3>4. f \in Frame /\ f.dst # f.src
      BY <2>3, <3>1, FramesType
    <3> QED BY <2>3, <3>2, <3>3, <3>4 DEF GoodFrame
  <2>5. air' = air \union Broadcast(Master, beacon)
    BY <1>1 DEF BroadcastMasterBeacon
  <2>6. \A f \in air' : GoodFrame(f)
    BY <2>4, <2>5, AirIsGood
  <2> QED BY <1>1, <2>1, <2>2, <2>6, AirStep DEF BroadcastMasterBeacon
<1>2. ASSUME NEW n \in Node, Transmit(n) PROVE NetInv'
  <2> DEFINE seq == txSeqNum[n] + 1
             down == Message("DATA", n, seq, Everyone, 0)
             up == Message("DATA", n, seq, Master, 0)
             new == IF n = Master THEN Frames(n, Peers[n], down) ELSE TransmitCore(n, up)
  <2>1. txSeqNum \in [Node -> Nat] /\ acks \in Nat
    BY DEF NetInv, TypeOK
  <2>2. seq \in Nat /\ seq > 0 /\ txSeqNum' = [txSeqNum EXCEPT ![n] = seq] /\ air' = air \union new
    BY <1>2, <2>1 DEF Transmit
  <2>3. \A m \in {down, up} : m \in MeshMessage /\ m.type = "DATA" /\ m.seq = seq
    BY <2>2 DEF Message, MeshMessage
  <2>4. ASSUME NEW f \in new PROVE GoodFrame(f)
    <3> HIDE DEF down, up, seq
    <3>1. CASE n = Master
      <4>1. f \in Frames(n, Peers[n], down)
        BY <2>4, <3>1
      <4>2. f.msg = down
        BY <4>1, FramesFacts
      <4>3. \A d \in Peers[n] : d \in Node
        OBVIOUS
      <4>4. f \in Frame /\ f.dst # f.src
        BY <2>3, <4>1, <4>3, FramesType
      <4> QED BY <2>2, <2>3, <4>2, <4>4, OtherFrameIsGood
    <3>2. CASE n # Master
      <4>1. f \in TransmitCore(n, up)
        BY <2>4, <3>2
      <4>2. f \in Frame /\ f.dst # f.src /\ SameContent(f.msg, up)
        BY <2>3, <4>1, TransmitCoreFacts
      <4> QED BY <2>2, <2>3, <4>2, OtherFrameIsGood DEF SameContent
    <3> QED BY <3>1, <3>2
  <2>5. \A f \in air' : GoodFrame(f)
    BY <2>2, <2>4, AirIsGood
  <2> QED BY <1>2, <2>1, <2>2, <2>5, AirStep DEF Transmit
<1>3. ASSUME NEW n \in Node, SendJoinAck(n) PROVE NetInv'
  <2> DEFINE ack == Message("JOIN_ACK", Master, 0, n, 0)
  <2>1. txSeqNum \in [Node -> Nat] /\ acks \in Nat
    BY DEF NetInv, TypeOK
  <2>2. acks' = acks + 1 /\ air' = air \union Broadcast(Master, ack) /\ txSeqNum' = txSeqNum
    BY <1>3 DEF SendJoinAck
  <2>3. ack \in MeshMessage /\ ack.type = "JOIN_ACK"
    BY DEF Message, MeshMessage
  <2>4. ASSUME NEW f \in Broadcast(Master, ack) PROVE GoodFrame(f)
    <3> HIDE DEF ack
    <3>1. f \in Frames(Master, Node, ack)
      BY <2>4 DEF Broadcast
    <3>2. f.msg = ack
      BY <3>1, FramesFacts
    <3>3. f \in Frame /\ f.dst # f.src
      BY <2>3, <3>1, FramesType
    <3> QED BY <2>3, <3>2, <3>3, OtherFrameIsGood
  <2>5. \A f \in air' : GoodFrame(f)
    BY <2>2, <2>4, AirIsGood
  <2> QED BY <1>3, <2>1, <2>2, <2>5, AirStep DEF SendJoinAck
<1>4. ASSUME NEW f \in air, DropReplay(f) \/ Lose(f) PROVE NetInv'
  <2>1. txSeqNum' \in [Node -> Nat] /\ acks' \in Nat
    BY <1>4 DEF NetInv, TypeOK, DropReplay, Lose
  <2>2. \A g \in air' : GoodFrame(g)
    BY <1>4, AirIsGood DEF DropReplay, Lose
  <2> QED BY <1>4, <2>1, <2>2, AirStep DEF DropReplay, Lose
<1>5. CASE UNCHANGED vars
  <2>1. txSeqNum' \in [Node -> Nat] /\ acks' \in Nat
    BY <1>5 DEF NetInv, TypeOK, vars
  <2>2. \A g \in air' : GoodFrame(g)
    BY <1>5, AirIsGood DEF vars
  <2> QED BY <1>5, <2>1, <2>2, AirStep DEF vars
<1> QED BY <1>1, <1>2, <1>3, <1>4, <1>5

\* A node's own steps: a relay goes to the master, a route is dropped, time passes.
LEMMA OwnStep ==
  ASSUME NetInv,
         \/ \E n \in Node : DispatchRelay(n) \/ CheckMasterTimeout(n)
         \/ Tick
  PROVE  NetInv'
<1> USE Constants
<1>1. ASSUME NEW n \in Node, DispatchRelay(n) PROVE NetInv'
  <2> DEFINE beacon == Message("BEACON", Master, relayPending[n].seq, Everyone, relayPending[n].hop)
  <2>1. /\ relayPending[n] # NoRelay /\ relayPending' = [relayPending EXCEPT ![n] = NoRelay]
        /\ air' = air \union Frames(n, NextHop(n), beacon)
        /\ UNCHANGED <<tables, lastRelayed, txSeqNum, deliveries, forgotten, acks>>
    BY <1>1 DEF DispatchRelay, BeaconReceivers
  <2>2. relayPending \in [Node -> [seq : Nat, hop : 0 .. MAX_HOPS]]
    BY DEF NetInv, TypeOK
  <2>3. beacon \in MeshMessage /\ beacon.type = "BEACON"
    BY <2>2 DEF Message, MeshMessage
  <2>4. n # Master
    BY <2>1 DEF NetInv, MasterRelaysNothing
  <2>5. ASSUME NEW f \in Frames(n, NextHop(n), beacon) PROVE GoodFrame(f)
    <3> HIDE DEF beacon
    <3>1. \A d \in NextHop(n) : d \in Node /\ d = Master
      BY <2>4, NextHopIsMaster DEF NetInv
    <3>2. f.msg = beacon /\ f.dst \in NextHop(n)
      BY FramesFacts
    <3>3. f \in Frame /\ f.dst # f.src
      BY <2>3, <3>1, FramesType
    <3> QED BY <2>3, <3>1, <3>2, <3>3 DEF GoodFrame
  <2>6. \A f \in air' : GoodFrame(f)
    BY <2>1, <2>5, AirIsGood
  <2>7. relayPending' \in [Node -> [seq : Nat, hop : 0 .. MAX_HOPS]] /\ MasterRelaysNothing'
    BY <2>1, <2>2 DEF NetInv, MasterRelaysNothing
  <2>8. TypeOK'
    BY <2>1, <2>6, <2>7, GoodAir DEF NetInv, TypeOK, tables, Frame
  <2>9. RoutesAreDirect'
    BY <2>1 DEF NetInv, RoutesAreDirect, tables
  <2>10. DeliveredIsKnown' /\ DeliveredOnce'
    BY <2>1, DeliveriesKept DEF tables
  <2> QED BY <2>6, <2>7, <2>8, <2>9, <2>10, GoodAir DEF NetInv
<1>2. ASSUME NEW n \in Node, CheckMasterTimeout(n) PROVE NetInv'
  <2>1. /\ route' = [route EXCEPT ![n] = NoRoute]
        /\ UNCHANGED <<beaconAge, peerAge, replayCache, relays, txSeqNum, air, deliveries, forgotten, acks>>
    BY <1>2 DEF CheckMasterTimeout
  <2>2. route \in [Node -> [distance : Nat, nextHop : Node]]
    BY DEF NetInv, TypeOK
  <2>3. TypeOK'
    BY <2>1, <2>2 DEF NetInv, TypeOK, relays
  <2>4. RoutesAreDirect'
    BY <2>1, <2>2 DEF NetInv, RoutesAreDirect
  <2>5. BeaconsComeDirectly' /\ DataIsStamped' /\ MasterRelaysNothing'
    BY <2>1 DEF NetInv, BeaconsComeDirectly, DataIsStamped, MasterRelaysNothing, relays
  <2>6. DeliveredIsKnown' /\ DeliveredOnce'
    BY <2>1, DeliveriesKept
  <2> QED BY <2>3, <2>4, <2>5, <2>6 DEF NetInv
<1>3. CASE Tick
  <2>1. UNCHANGED <<route, replayCache, relays, txSeqNum, air, deliveries, forgotten, acks>>
    BY <1>3 DEF Tick
  <2>2. beaconAge' \in [Node -> 0 .. (MasterStale + 1)]
    <3>1. beaconAge \in [Node -> 0 .. (MasterStale + 1)] /\ MasterStale + 1 \in Nat
      BY DEF NetInv, TypeOK
    <3>2. \A n \in Node : Older(beaconAge[n], MasterStale + 1) \in 0 .. (MasterStale + 1)
      BY <3>1 DEF Older
    <3>3. beaconAge' = [n \in Node |-> Older(beaconAge[n], MasterStale + 1)]
      BY <1>3 DEF Tick
    <3> QED BY <3>2, <3>3
  <2>3. DOMAIN peerAge' = Node
    BY <1>3 DEF Tick
  <2>4. ASSUME NEW n \in Node PROVE peerAge'[n] \in [Peers[n] -> 0 .. PeerFresh]
    <3>1. peerAge'[n] = [p \in Peers[n] |-> Older(peerAge[n][p], PeerFresh)]
      BY <1>3 DEF Tick
    <3>2. peerAge[n] \in [Peers[n] -> 0 .. PeerFresh]
      BY DEF NetInv, TypeOK
    <3>3. \A p \in Peers[n] : Older(peerAge[n][p], PeerFresh) \in 0 .. PeerFresh
      BY <3>2 DEF Older
    <3> QED BY <3>1, <3>3
  <2>5. TypeOK'
    BY <2>1, <2>2, <2>3, <2>4 DEF NetInv, TypeOK, relays
  <2>6. RoutesAreDirect' /\ BeaconsComeDirectly' /\ DataIsStamped' /\ MasterRelaysNothing'
    BY <2>1 DEF NetInv, RoutesAreDirect, BeaconsComeDirectly, DataIsStamped, MasterRelaysNothing, relays
  <2>7. DeliveredIsKnown' /\ DeliveredOnce'
    BY <2>1, DeliveriesKept
  <2> QED BY <2>5, <2>6, <2>7 DEF NetInv
<1> QED BY <1>1, <1>2, <1>3

\* A beacon: it came from the master itself, so the route it makes is direct.
LEMMA BeaconStep ==
  ASSUME NetInv, NEW f \in air, ProcessMasterBeacon(f)
  PROVE  NetInv'
<1> USE Constants
<1> DEFINE n == f.dst
<1>1. GoodFrame(f) /\ f \in Frame /\ f.msg.type = "BEACON" /\ TakeFrame(f)
  BY AirIsGood DEF GoodFrame, ProcessMasterBeacon
<1>2. n \in Node /\ f.src \in Node /\ f.msg \in MeshMessage
  BY <1>1 DEF Frame
<1>3. f.msg.hop \in 0 .. MAX_HOPS /\ f.msg.seq \in Nat
  BY <1>2 DEF MeshMessage
<1>4. /\ air' = air \ {f} /\ UNCHANGED <<txSeqNum, deliveries, acks>>
  BY DEF ProcessMasterBeacon
<1>5. TypeOK /\ RoutesAreDirect /\ MasterRelaysNothing /\ DeliveredIsKnown /\ DeliveredOnce
  BY DEF NetInv
<1>6. /\ route \in [Node -> [distance : Nat, nextHop : Node]]
      /\ beaconAge \in [Node -> 0 .. (MasterStale + 1)]
      /\ lastRelayed \in [Node -> Nat]
      /\ relayPending \in [Node -> [seq : Nat, hop : 0 .. MAX_HOPS]]
  BY <1>5 DEF TypeOK
<1>7. route' = route \/ (/\ route' = [route EXCEPT ![n] = [distance |-> f.msg.hop + 1, nextHop |-> f.src]])
  BY DEF ProcessMasterBeacon
<1>8. beaconAge' = beaconAge \/ beaconAge' = [beaconAge EXCEPT ![n] = 0]
  BY DEF ProcessMasterBeacon
<1>9. \/ UNCHANGED relays
      \/ /\ n # Master /\ f.msg.hop < MAX_HOPS
         /\ lastRelayed' = [lastRelayed EXCEPT ![n] = f.msg.seq]
         /\ relayPending' = [relayPending EXCEPT ![n] = [seq |-> f.msg.seq, hop |-> f.msg.hop + 1]]
  BY <1>3 DEF ProcessMasterBeacon, IsNewer
<1>10. route' \in [Node -> [distance : Nat, nextHop : Node]]
  <2>1. [distance |-> f.msg.hop + 1, nextHop |-> f.src] \in [distance : Nat, nextHop : Node]
    BY <1>2, <1>3
  <2>2. [route EXCEPT ![n] = [distance |-> f.msg.hop + 1, nextHop |-> f.src]]
          \in [Node -> [distance : Nat, nextHop : Node]]
    BY <1>2, <1>6, <2>1
  <2>3. CASE route' = route
    BY <1>6, <2>3
  <2>4. CASE route' = [route EXCEPT ![n] = [distance |-> f.msg.hop + 1, nextHop |-> f.src]]
    BY <2>2, <2>4
  <2> QED BY <1>7, <2>3, <2>4
<1>11. beaconAge' \in [Node -> 0 .. (MasterStale + 1)]
  BY <1>2, <1>6, <1>8
<1>12. /\ lastRelayed' \in [Node -> Nat] /\ MasterRelaysNothing'
       /\ relayPending' \in [Node -> [seq : Nat, hop : 0 .. MAX_HOPS]]
  <2>1. CASE UNCHANGED relays
    BY <1>5, <1>6, <2>1 DEF relays, MasterRelaysNothing
  <2>2. CASE /\ n # Master /\ f.msg.hop < MAX_HOPS
             /\ lastRelayed' = [lastRelayed EXCEPT ![n] = f.msg.seq]
             /\ relayPending' = [relayPending EXCEPT ![n] = [seq |-> f.msg.seq, hop |-> f.msg.hop + 1]]
    <3>1. [seq |-> f.msg.seq, hop |-> f.msg.hop + 1] \in [seq : Nat, hop : 0 .. MAX_HOPS]
      BY <1>3, <2>2
    <3> QED BY <1>2, <1>3, <1>5, <1>6, <2>2, <3>1 DEF MasterRelaysNothing
  <2> QED BY <1>9, <2>1, <2>2
<1>13. RoutesAreDirect'
  <2>1. CASE route' = route
    BY <1>5, <2>1 DEF RoutesAreDirect
  <2>2. CASE route' = [route EXCEPT ![n] = [distance |-> f.msg.hop + 1, nextHop |-> f.src]]
    <3>1. ASSUME NEW k \in Node \ {Master}, route'[k] # NoRoute
          PROVE  route'[k] = [distance |-> 1, nextHop |-> Master] /\ <<Master, k>> \in Link
      <4>1. CASE k = n
        <5>1. f.src = Master /\ f.msg.hop = 0 /\ <<Master, n>> \in Link
          BY <1>1, <4>1 DEF GoodFrame
        <5>2. route'[k] = [distance |-> f.msg.hop + 1, nextHop |-> f.src]
          BY <1>2, <1>6, <2>2, <4>1
        <5> QED BY <4>1, <5>1, <5>2
      <4>2. CASE k # n
        BY <1>5, <1>6, <2>2, <3>1, <4>2 DEF RoutesAreDirect
      <4> QED BY <4>1, <4>2
    <3> QED BY <3>1 DEF RoutesAreDirect
  <2> QED BY <1>7, <2>1, <2>2
<1>14. \A g \in air' : GoodFrame(g)
  BY <1>4, AirIsGood
<1>15. DeliveredIsKnown' /\ DeliveredOnce'
  <2>1. \A k \in Node : Known(k) \subseteq Known(k)'
    BY <1>1, <1>5, TakeFrameFacts
  <2>2. DeliveredIsKnown'
    BY <1>4, <1>5, <2>1 DEF DeliveredIsKnown
  <2>3. forgotten \in [Node -> SUBSET Ident] /\ forgotten' =
          [forgotten EXCEPT ![n] = @ \union (Range(replayCache[n]) \ Range(replayCache'[n]))]
    BY <1>1, <1>5 DEF TakeFrame, TypeOK
  <2>4. \A k \in Node : forgotten[k] \subseteq forgotten'[k]
    BY <1>2, <2>3
  <2>5. DeliveredOnce'
    BY <1>4, <1>5, <2>4 DEF DeliveredOnce
  <2> QED BY <2>2, <2>5
<1>16. TypeOK'
  BY <1>1, <1>4, <1>5, <1>10, <1>11, <1>12, <1>14, GoodAir, TakeFrameFacts DEF TypeOK, Frame
<1> QED BY <1>12, <1>13, <1>14, <1>15, <1>16, GoodAir DEF NetInv

\* Adapter data: what is delivered was not remembered, so a second delivery of it
\* comes after it was forgotten; what is passed on is data with the same stamp.
LEMMA DataStep ==
  ASSUME NetInv, NEW f \in air, ProcessAdapterData(f)
  PROVE  NetInv'
<1> USE Constants
<1> DEFINE n == f.dst
           id == Id(f.msg)
<1>1. GoodFrame(f) /\ f \in Frame /\ f.msg.type = "DATA" /\ TakeFrame(f)
  BY AirIsGood DEF GoodFrame, ProcessAdapterData
<1>2. n \in Node /\ f.msg \in MeshMessage /\ f.msg.seq > 0 /\ id \in Ident
  BY <1>1 DEF Frame, GoodFrame, Id, Ident, MeshMessage
<1>3. TypeOK /\ RoutesAreDirect /\ MasterRelaysNothing /\ DeliveredIsKnown /\ DeliveredOnce
  BY DEF NetInv
<1>4. /\ air' = (air \ {f}) \union Forwarded(n, f.msg)
      /\ UNCHANGED <<route, beaconAge, relays, txSeqNum, acks>>
      /\ deliveries' = deliveries \/ deliveries' = [deliveries EXCEPT ![n] = Append(@, id)]
  BY DEF ProcessAdapterData
<1>5. deliveries \in [Node -> Seq(Ident)]
  BY <1>3 DEF TypeOK
<1>6. ASSUME NEW g \in Forwarded(n, f.msg) PROVE GoodFrame(g)
  <2>1. g \in Frame /\ g.dst # g.src /\ SameContent(g.msg, f.msg)
    BY <1>2, ForwardedFacts
  <2> QED BY <1>1, <1>2, <2>1, OtherFrameIsGood DEF SameContent
<1>7. \A g \in air' : GoodFrame(g)
  BY <1>4, <1>6, AirIsGood
<1>8. /\ \A k \in Node : Known(k) \subseteq Known(k)'
      /\ id \in Known(n)' /\ id \notin Range(replayCache[n])
  BY <1>1, <1>2, <1>3, TakeFrameFacts
<1>9. \A k \in Node : forgotten[k] \subseteq forgotten'[k]
  <2>1. forgotten \in [Node -> SUBSET Ident] /\ forgotten' =
          [forgotten EXCEPT ![n] = @ \union (Range(replayCache[n]) \ Range(replayCache'[n]))]
    BY <1>1, <1>3 DEF TakeFrame, TypeOK
  <2> QED BY <1>2, <2>1
<1>10. deliveries' \in [Node -> Seq(Ident)] /\ DeliveredIsKnown' /\ DeliveredOnce'
  <2>1. CASE deliveries' = deliveries
    <3>1. DeliveredIsKnown'
      BY <1>3, <1>8, <2>1 DEF DeliveredIsKnown
    <3>2. DeliveredOnce'
      BY <1>3, <1>9, <2>1 DEF DeliveredOnce
    <3> QED BY <1>5, <2>1, <3>1, <3>2
  <2>2. CASE deliveries' = [deliveries EXCEPT ![n] = Append(@, id)]
    <3> DEFINE old == deliveries[n]
               new == Append(old, id)
    <3>1. old \in Seq(Ident) /\ Len(old) \in Nat /\ DOMAIN old = 1 .. Len(old)
      BY <1>2, <1>5, LenProperties
    <3>2. /\ new \in Seq(Ident) /\ DOMAIN new = 1 .. (Len(old) + 1)
          /\ new[Len(old) + 1] = id /\ \A i \in DOMAIN old : new[i] = old[i]
      <4>1. /\ new \in Seq(Ident) /\ Len(new) = Len(old) + 1
            /\ new[Len(old) + 1] = id /\ \A i \in 1 .. Len(old) : new[i] = old[i]
        BY <1>2, <3>1, AppendProperties
      <4>2. DOMAIN new = 1 .. Len(new)
        BY <4>1, LenProperties
      <4> QED BY <3>1, <4>1, <4>2
    <3> HIDE DEF new, id
    <3>3. deliveries' = [deliveries EXCEPT ![n] = new]
      BY <2>2 DEF new
    <3>4. deliveries' \in [Node -> Seq(Ident)]
      BY <1>5, <3>2, <3>3
    <3>5. \A k \in Node \ {n} : deliveries'[k] = deliveries[k]
      BY <1>5, <3>3
    <3>6. deliveries'[n] = new
      BY <1>2, <1>5, <3>3
    <3>7. \A i \in DOMAIN old : old[i] \in Range(replayCache[n]) \union forgotten[n]
      BY <1>2, <1>3 DEF DeliveredIsKnown, Known
    <3>8. DeliveredIsKnown'
      <4>1. ASSUME NEW k \in Node \ {n} PROVE \A i \in DOMAIN deliveries'[k] : deliveries'[k][i] \in Known(k)'
        BY <1>3, <1>8, <3>5 DEF DeliveredIsKnown
      <4>2. ASSUME NEW i \in DOMAIN new PROVE new[i] \in Known(n)'
        <5>1. CASE i = Len(old) + 1
          BY <1>8, <3>2, <5>1
        <5>2. CASE i # Len(old) + 1
          <6>1. i \in DOMAIN old
            BY <3>1, <3>2, <5>2
          <6>2. old[i] \in Known(n)
            BY <1>2, <1>3, <6>1 DEF DeliveredIsKnown
          <6> QED BY <1>2, <1>8, <3>2, <6>1, <6>2
        <5> QED BY <5>1, <5>2
      <4> QED BY <3>6, <4>1, <4>2 DEF DeliveredIsKnown
    <3>9. DeliveredOnce'
      <4>1. ASSUME NEW k \in Node \ {n}
            PROVE  \A i, j \in DOMAIN deliveries'[k] :
                     (i # j /\ deliveries'[k][i] = deliveries'[k][j]) => deliveries'[k][i] \in forgotten'[k]
        BY <1>3, <1>9, <3>5 DEF DeliveredOnce
      <4>2. ASSUME NEW i \in DOMAIN new, NEW j \in DOMAIN new, i # j, new[i] = new[j]
            PROVE  new[i] \in forgotten'[n]
        <5>1. CASE i \in DOMAIN old /\ j \in DOMAIN old
          <6>1. old[i] = old[j]
            BY <3>2, <4>2, <5>1
          <6>2. old[i] \in forgotten[n]
            BY <1>2, <1>3, <4>2, <5>1, <6>1 DEF DeliveredOnce
          <6> QED BY <1>2, <1>9, <3>2, <5>1, <6>2
        <5>2. CASE i \notin DOMAIN old \/ j \notin DOMAIN old
          <6>1. \A k \in DOMAIN new : k \in DOMAIN old \/ k = Len(old) + 1
            BY <3>1, <3>2
          <6>2. new[i] = id /\ (i \in DOMAIN old \/ j \in DOMAIN old)
            BY <3>2, <4>2, <5>2, <6>1
          <6>3. PICK k \in DOMAIN old : new[i] = id /\ old[k] = id
            BY <3>2, <4>2, <6>2
          <6>4. id \in forgotten[n]
            BY <1>8, <3>7, <6>3
          <6> QED BY <1>2, <1>9, <6>3, <6>4
        <5> QED BY <5>1, <5>2
      <4> QED BY <3>6, <4>1, <4>2 DEF DeliveredOnce
    <3> QED BY <3>4, <3>8, <3>9
  <2> QED BY <1>4, <2>1, <2>2
<1>11. TypeOK'
  BY <1>1, <1>3, <1>4, <1>7, <1>10, GoodAir, TakeFrameFacts DEF TypeOK, Frame, relays
<1>12. RoutesAreDirect' /\ MasterRelaysNothing'
  BY <1>3, <1>4 DEF RoutesAreDirect, MasterRelaysNothing, relays
<1> QED BY <1>7, <1>10, <1>11, <1>12, GoodAir DEF NetInv

\* A JOIN_ACK: nothing is delivered, and what is passed on is a JOIN_ACK.
LEMMA JoinAckStep ==
  ASSUME NetInv, NEW f \in air, ProcessJoinAck(f)
  PROVE  NetInv'
<1> USE Constants
<1> DEFINE n == f.dst
<1>1. GoodFrame(f) /\ f \in Frame /\ f.msg.type = "JOIN_ACK" /\ TakeFrame(f)
  BY AirIsGood DEF GoodFrame, ProcessJoinAck
<1>2. n \in Node /\ f.msg \in MeshMessage
  BY <1>1 DEF Frame
<1>3. TypeOK /\ RoutesAreDirect /\ MasterRelaysNothing /\ DeliveredIsKnown /\ DeliveredOnce
  BY DEF NetInv
<1>4. /\ \A g \in air' : g \in air \/ g \in RelayDownlink(n, f.msg)
      /\ UNCHANGED <<route, beaconAge, relays, txSeqNum, deliveries, acks>>
  BY DEF ProcessJoinAck
<1>5. ASSUME NEW g \in RelayDownlink(n, f.msg) PROVE GoodFrame(g)
  <2>1. g \in Frame /\ g.dst # g.src /\ SameContent(g.msg, f.msg)
    BY <1>2, RelayDownlinkFacts
  <2> QED BY <1>1, <2>1, OtherFrameIsGood DEF SameContent
<1>6. \A g \in air' : GoodFrame(g)
  BY <1>4, <1>5, AirIsGood
<1>7. \A k \in Node : Known(k) \subseteq Known(k)'
  BY <1>1, <1>3, TakeFrameFacts
<1>8. \A k \in Node : forgotten[k] \subseteq forgotten'[k]
  <2>1. forgotten \in [Node -> SUBSET Ident] /\ forgotten' =
          [forgotten EXCEPT ![n] = @ \union (Range(replayCache[n]) \ Range(replayCache'[n]))]
    BY <1>1, <1>3 DEF TakeFrame, TypeOK
  <2> QED BY <1>2, <2>1
<1>9. DeliveredIsKnown'
  BY <1>3, <1>4, <1>7 DEF DeliveredIsKnown
<1>10. DeliveredOnce'
  BY <1>3, <1>4, <1>8 DEF DeliveredOnce
<1>11. TypeOK'
  BY <1>1, <1>3, <1>4, <1>6, GoodAir, TakeFrameFacts DEF TypeOK, Frame, relays
<1>12. RoutesAreDirect' /\ MasterRelaysNothing'
  BY <1>3, <1>4 DEF RoutesAreDirect, MasterRelaysNothing, relays
<1> QED BY <1>6, <1>9, <1>10, <1>11, <1>12, GoodAir DEF NetInv

LEMMA StepNetInv == NetInv /\ [Next]_vars => NetInv'
<1> SUFFICES ASSUME NetInv, [Next]_vars PROVE NetInv'
  OBVIOUS
<1>1. ASSUME NEW f \in air, Handle(f) \/ Lose(f) PROVE NetInv'
  <2>1. CASE ProcessMasterBeacon(f)
    BY <2>1, BeaconStep
  <2>2. CASE ProcessAdapterData(f)
    BY <2>2, DataStep
  <2>3. CASE ProcessJoinAck(f)
    BY <2>3, JoinAckStep
  <2>4. CASE DropReplay(f) \/ Lose(f)
    BY <2>4, SendStep
  <2> QED BY <1>1, <2>1, <2>2, <2>3, <2>4 DEF Handle
<1>2. CASE BroadcastMasterBeacon \/ UNCHANGED vars
  BY <1>2, SendStep
<1>3. ASSUME NEW n \in Node, Transmit(n) \/ SendJoinAck(n) PROVE NetInv'
  BY <1>3, SendStep
<1>4. CASE Tick \/ \E n \in Node : DispatchRelay(n) \/ CheckMasterTimeout(n)
  BY <1>4, OwnStep
<1> QED BY <1>1, <1>2, <1>3, <1>4 DEF Next

-----------------------------------------------------------------------------

\* Routes, frames on the air, caches and deliveries fit together in every reachable
\* state.
THEOREM NetworkInvariant == Spec => []NetInv
<1> QED BY InitNetInv, StepNetInv, PTL DEF Spec

\* No node ever has a route over another node: beacons that are relayed go back to
\* the master (transmitCore).
THEOREM RoutesLeadStraightToMaster == Spec => []RoutesAreDirect
<1>1. NetInv => RoutesAreDirect
  BY DEF NetInv
<1> QED BY <1>1, NetworkInvariant, PTL

\* An adapter gets a message again only if its node has forgotten it: the copies that
\* flooding makes, and the echoes of what a node sent itself, stop at the replay cache
\* (drainRecvQueue, processAdapterData).
THEOREM NoSecondDelivery == Spec => []DeliveredOnce
<1>1. NetInv => DeliveredOnce
  BY DEF NetInv
<1> QED BY <1>1, NetworkInvariant, PTL
=============================================================================
