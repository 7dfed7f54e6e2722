---------------------------- MODULE MeshNetwork ----------------------------
(***************************************************************************)
(* Several nodes and one master on the air: who hears beacons and builds a *)
(* route, how adapter data goes up to the master and down to everybody,    *)
(* how JOIN_ACKs are passed on, and when copies stop (Mesh.cpp:            *)
(* drainRecvQueue, processMasterBeacon, processAdapterData, relayDownlink, *)
(* processJoinAck, transmitCore, broadcastToAllPeers, loop).               *)
(*                                                                         *)
(* A frame sent to a peer that is in range is on the air until it is       *)
(* delivered or lost; frames overtake each other.  A frame to a node out   *)
(* of range is lost at once.  The receive queue and the trust in masters   *)
(* have modules of their own (RecvQueue, MasterTracking): here a frame is  *)
(* handled when it is delivered, and the only master is trusted by all     *)
(* once they have heard it, so that no CONFIG_SET is refused.  The sender  *)
(* of a frame is also the lastHopMacAddress in it: buildMessage and every  *)
(* relay put the own address there.  Ages are in ticks and stop counting   *)
(* where they make no difference any more.                                 *)
(***************************************************************************)
EXTENDS Naturals, Sequences, SequencesExt

CONSTANTS
  Node, Master,
  Link,        \* pairs <<m, n>> such that n hears m
  Peers,       \* peerMacs of each node
  MAX_HOPS,
  CacheSize,   \* REPLAY_CACHE_SIZE
  PeerFresh,   \* STALE_PEER_THRESHOLD_MS in ticks
  MasterStale, \* STALE_MASTER_THRESHOLD_MS in ticks
  MaxSent,     \* how many messages each node stamps
  MaxAcks      \* how many JOIN_ACKs are sent

ASSUME NetworkAssumption ==
  /\ Master \in Node /\ Link \subseteq Node \X Node
  /\ Peers \in [Node -> SUBSET Node]
  /\ MAX_HOPS \in Nat \ {0} /\ CacheSize \in Nat \ {0}
  /\ PeerFresh \in Nat \ {0} /\ MasterStale \in Nat \ {0}
  /\ MaxSent \in [Node -> Nat] /\ MaxAcks \in Nat

Everyone == "FF:FF:FF:FF:FF:FF"
NoRoute == [distance |-> 255, nextHop |-> Master]
NoRelay == [seq |-> 0, hop |-> 0]

VARIABLES
  route,         \* currentMaster of each node: distance and next hop
  beaconAge,     \* ticks since a beacon was taken, up to MasterStale + 1
  peerAge,       \* ticks since a peer was heard (or since boot), up to PeerFresh
  replayCache,   \* the last CacheSize stamped messages, oldest first
  lastRelayed,   \* lastRelayedSeqNum
  relayPending,  \* the beacon waiting for its jitter, or NoRelay
  txSeqNum,      \* messages each node has stamped
  air,           \* frames on the air
  \* History, not state of the program:
  deliveries,    \* messages each node's adapter has got, in order
  forgotten,     \* messages that have left a node's replay cache
  acks           \* JOIN_ACKs the master has sent

tables == <<route, beaconAge, peerAge, replayCache>>
relays == <<lastRelayed, relayPending>>
vars == <<tables, relays, txSeqNum, air, deliveries, forgotten, acks>>

\* seq 0: a message without stamp (epoch 0), which the replay check lets pass.
Message(type, origin, seq, target, hop) ==
  [type |-> type, origin |-> origin, seq |-> seq, target |-> target, hop |-> hop]
Id(msg) == [origin |-> msg.origin, seq |-> msg.seq]
OneHopOn(msg) == [msg EXCEPT !.hop = @ + 1]

-----------------------------------------------------------------------------
(* Mutants: what the code would be with a plausible bug in it.             *)

RelayDownlink_SameHop(n, msg) ==
  IF msg.hop >= MAX_HOPS THEN {}
    ELSE {[src |-> n, dst |-> d, msg |-> msg] : d \in {e \in Peers[n] \ {n} : <<n, e>> \in Link}}

Remembered_Nothing(n, msg) == replayCache[n]

-----------------------------------------------------------------------------
(* Sending *)

\* sendMessage to each of a set of nodes; none sends to itself.
Frames(n, dsts, msg) ==
  {[src |-> n, dst |-> d, msg |-> msg] : d \in {e \in dsts \ {n} : <<n, e>> \in Link}}

\* esp_now_send to FF:FF:FF:FF:FF:FF.
Broadcast(n, msg) == Frames(n, Node, msg)

\* findNextHopToMaster with isPeerInRange: the next hop if it is a peer that was
\* heard lately, as a set with at most one element.
NextHop(n) ==
  {p \in Peers[n] \ {n} : route[n] # NoRoute /\ p = route[n].nextHop /\ peerAge[n][p] < PeerFresh}

\* transmitCore: adapter data is addressed to the own master; without a next hop
\* the message is dropped.
TransmitCore(n, msg) ==
  Frames(n, NextHop(n), IF msg.type = "DATA" THEN [msg EXCEPT !.target = Master] ELSE msg)

RelayDownlink(n, msg) == IF msg.hop >= MAX_HOPS THEN {} ELSE Frames(n, Peers[n], OneHopOn(msg))

-----------------------------------------------------------------------------
(* Receiving: drainRecvQueue and the handlers *)

IsReplay(n, msg) == msg.seq > 0 /\ Id(msg) \in Range(replayCache[n])

\* A message that passes is remembered in place of the oldest one.
Remembered(n, msg) ==
  IF msg.seq = 0 THEN replayCache[n]
  ELSE Append(IF Len(replayCache[n]) < CacheSize THEN replayCache[n] ELSE Tail(replayCache[n]), Id(msg))

\* updatePeerLastSeen, for known peers only.
HeardFrom(n, src) ==
  IF src \in Peers[n] \ {n} THEN [peerAge EXCEPT ![n][src] = 0] ELSE peerAge

\* What every frame that is not a replay does before its handler runs.
TakeFrame(f) ==
  LET n == f.dst IN
  /\ f \in air
  /\ ~IsReplay(n, f.msg)
  /\ replayCache' = [replayCache EXCEPT ![n] = Remembered(n, f.msg)]
  /\ forgotten' = [forgotten EXCEPT ![n] = @ \union
       (Range(replayCache[n]) \ Range(replayCache'[n]))]
  /\ peerAge' = HeardFrom(n, f.src)

DropReplay(f) ==
  /\ f \in air /\ IsReplay(f.dst, f.msg)
  /\ air' = air \ {f}
  /\ UNCHANGED <<tables, relays, txSeqNum, deliveries, forgotten, acks>>

IsBetter(n, f) == route[n] = NoRoute \/ f.msg.hop + 1 < route[n].distance
IsNewer(n, f) == n # Master /\ f.msg.seq > lastRelayed[n]

ProcessMasterBeacon(f) ==
  LET n == f.dst IN
  /\ f.msg.type = "BEACON"
  /\ TakeFrame(f)
  /\ IF f.msg.hop >= MAX_HOPS THEN UNCHANGED <<route, beaconAge, relays>>
     ELSE /\ beaconAge' = [beaconAge EXCEPT ![n] = 0]
          /\ route' = IF IsBetter(n, f)
                        THEN [route EXCEPT ![n] = [distance |-> f.msg.hop + 1, nextHop |-> f.src]]
                        ELSE route
          /\ IF IsNewer(n, f)
               THEN /\ lastRelayed' = [lastRelayed EXCEPT ![n] = f.msg.seq]
                    /\ relayPending' = [relayPending EXCEPT ![n] =
                                          [seq |-> f.msg.seq, hop |-> f.msg.hop + 1]]
               ELSE UNCHANGED relays
  /\ air' = air \ {f}
  /\ UNCHANGED <<txSeqNum, deliveries, acks>>

\* Up, towards the master, when the route leads to the target; down to all peers
\* when it does not, or when everybody is meant.
LeadsTo(n, target) == route[n] # NoRoute /\ target = Master

Forwarded(n, msg) ==
  IF n = Master \/ msg.target = n THEN {}
  ELSE IF ~LeadsTo(n, msg.target) THEN RelayDownlink(n, msg)
  ELSE IF msg.hop >= MAX_HOPS THEN {} ELSE TransmitCore(n, OneHopOn(msg))

ProcessAdapterData(f) ==
  LET n == f.dst IN
  /\ f.msg.type = "DATA"
  /\ TakeFrame(f)
  /\ deliveries' = IF n = Master \/ f.msg.target \in {n, Everyone}
                     THEN [deliveries EXCEPT ![n] = Append(@, Id(f.msg))]
                     ELSE deliveries
  /\ air' = (air \ {f}) \union Forwarded(n, f.msg)
  /\ UNCHANGED <<route, beaconAge, relays, txSeqNum, acks>>

\* What the node it is meant for does with a JOIN_ACK is the subject of Enrollment.
ProcessJoinAck(f) ==
  /\ f.msg.type = "JOIN_ACK"
  /\ TakeFrame(f)
  /\ air' = (air \ {f}) \union IF f.msg.target = f.dst THEN {} ELSE RelayDownlink(f.dst, f.msg)
  /\ UNCHANGED <<route, beaconAge, relays, txSeqNum, deliveries, acks>>

Handle(f) == DropReplay(f) \/ ProcessMasterBeacon(f) \/ ProcessAdapterData(f) \/ ProcessJoinAck(f)

Lose(f) ==
  /\ air' = air \ {f}
  /\ UNCHANGED <<tables, relays, txSeqNum, deliveries, forgotten, acks>>

-----------------------------------------------------------------------------
(* What the nodes do by themselves *)

\* Mesh::loop on the master: every three seconds.
BroadcastMasterBeacon ==
  LET seq == txSeqNum[Master] + 1 IN
  /\ seq <= MaxSent[Master]
  /\ txSeqNum' = [txSeqNum EXCEPT ![Master] = seq]
  /\ air' = air \union Broadcast(Master, Message("BEACON", Master, seq, Everyone, 0))
  /\ UNCHANGED <<tables, relays, deliveries, forgotten, acks>>

\* Where a relayed beacon goes: transmitCore does not ask what it sends.
BeaconReceivers(n) == NextHop(n)

\* Mesh::loop: the jitter is over.
DispatchRelay(n) ==
  /\ relayPending[n] # NoRelay
  /\ relayPending' = [relayPending EXCEPT ![n] = NoRelay]
  /\ air' = air \union Frames(n, BeaconReceivers(n),
       Message("BEACON", Master, relayPending[n].seq, Everyone, relayPending[n].hop))
  /\ UNCHANGED <<tables, lastRelayed, txSeqNum, deliveries, forgotten, acks>>

\* transmit: the master's data goes to all, a node's to its master.  A node without
\* a usable next hop has stamped the message and drops it.
Transmit(n) ==
  LET seq == txSeqNum[n] + 1 IN
  /\ seq <= MaxSent[n]
  /\ txSeqNum' = [txSeqNum EXCEPT ![n] = seq]
  /\ air' = air \union
       IF n = Master THEN Frames(n, Peers[n], Message("DATA", n, seq, Everyone, 0))
                     ELSE TransmitCore(n, Message("DATA", n, seq, Master, 0))
  /\ UNCHANGED <<tables, relays, deliveries, forgotten, acks>>

\* enrollPeer on the master: no stamp.
SendJoinAck(n) ==
  /\ acks < MaxAcks
  /\ acks' = acks + 1
  /\ air' = air \union Broadcast(Master, Message("JOIN_ACK", Master, 0, n, 0))
  /\ UNCHANGED <<tables, relays, txSeqNum, deliveries, forgotten>>

CheckMasterTimeout(n) ==
  /\ n # Master /\ route[n] # NoRoute /\ beaconAge[n] > MasterStale
  /\ route' = [route EXCEPT ![n] = NoRoute]
  /\ UNCHANGED <<beaconAge, peerAge, replayCache, relays, txSeqNum, air, deliveries, forgotten, acks>>

Older(age, limit) == IF age < limit THEN age + 1 ELSE age

Tick ==
  /\ beaconAge' = [n \in Node |-> Older(beaconAge[n], MasterStale + 1)]
  /\ peerAge' = [n \in Node |-> [p \in Peers[n] |-> Older(peerAge[n][p], PeerFresh)]]
  /\ UNCHANGED <<route, replayCache, relays, txSeqNum, air, deliveries, forgotten, acks>>

-----------------------------------------------------------------------------

Init ==
  /\ route = [n \in Node |-> NoRoute]
  /\ beaconAge = [n \in Node |-> 0]
  /\ peerAge = [n \in Node |-> [p \in Peers[n] |-> 0]]
  /\ replayCache = [n \in Node |-> <<>>]
  /\ lastRelayed = [n \in Node |-> 0]
  /\ relayPending = [n \in Node |-> NoRelay]
  /\ txSeqNum = [n \in Node |-> 0]
  /\ air = {}
  /\ deliveries = [n \in Node |-> <<>>]
  /\ forgotten = [n \in Node |-> {}]
  /\ acks = 0

Next ==
  \/ \E f \in air : Handle(f) \/ Lose(f)
  \/ BroadcastMasterBeacon
  \/ \E n \in Node : DispatchRelay(n) \/ Transmit(n) \/ SendJoinAck(n) \/ CheckMasterTimeout(n)
  \/ Tick

Spec == Init /\ [][Next]_vars

\* A frame on the air does not stay there.
FairSpec == Spec /\ WF_vars(\E f \in air : Handle(f) \/ Lose(f))

-----------------------------------------------------------------------------
(* Correctness *)

Ident == [origin : Node, seq : Nat]
MeshMessage == [type : {"BEACON", "DATA", "JOIN_ACK"}, origin : Node, seq : Nat,
                target : Node \union {Everyone}, hop : 0 .. MAX_HOPS]

\* Every variable has its type: no hop count exceeds its limit, no cache its size, and
\* nobody sends to itself.
TypeOK ==
  /\ route \in [Node -> [distance : Nat, nextHop : Node]]
  /\ beaconAge \in [Node -> 0 .. (MasterStale + 1)]
  /\ DOMAIN peerAge = Node
  /\ \A n \in Node : peerAge[n] \in [Peers[n] -> 0 .. PeerFresh]
  /\ replayCache \in [Node -> Seq(Ident)]
  /\ \A n \in Node : Len(replayCache[n]) <= CacheSize
  /\ lastRelayed \in [Node -> Nat]
  /\ relayPending \in [Node -> [seq : Nat, hop : 0 .. MAX_HOPS]]
  /\ txSeqNum \in [Node -> Nat]
  /\ air \subseteq [src : Node, dst : Node, msg : MeshMessage]
  /\ \A f \in air : f.dst # f.src
  /\ deliveries \in [Node -> Seq(Ident)]
  /\ forgotten \in [Node -> SUBSET Ident]
  /\ acks \in Nat

\* What the beacons really build: the route of a node that is not the master leads to
\* the master itself, over one hop.  A relayed beacon goes to the next hop of the relay,
\* that is back to the master (DispatchRelay), so no node learns a longer way, none
\* keeps a dead neighbour as its next hop, and one that the master does not reach has
\* no route.  This is not what the documents say: see EveryNodeGetsRoute.
RoutesAreDirect ==
  \A n \in Node \ {Master} :
    route[n] # NoRoute => /\ route[n] = [distance |-> 1, nextHop |-> Master]
                          /\ <<Master, n>> \in Link

\* No adapter gets the same message twice, by whatever paths its copies come, as
\* long as the node's replay cache has not lost it.
DeliveredOnce ==
  \A n \in Node : \A i, j \in DOMAIN deliveries[n] :
    (i # j /\ deliveries[n][i] = deliveries[n][j]) => deliveries[n][i] \in forgotten[n]

\* Relaying comes to an end: whatever was sent, copies that come back to nodes that
\* have forgotten them and JOIN_ACKs that no node remembers included, the air is
\* silent again unless something new is sent.
FloodsEnd == []<>(air = {})

-----------------------------------------------------------------------------
(* What the documents promise and the code does not *)

\* Beacons alone on the air, and none of them lost.
BeaconsNext ==
  \/ \E f \in air : DropReplay(f) \/ ProcessMasterBeacon(f)
  \/ BroadcastMasterBeacon
  \/ \E n \in Node : DispatchRelay(n) \/ CheckMasterTimeout(n)
  \/ Tick

\* The master sends its beacons (Mesh::loop), the radio delivers them, and a relay that
\* is scheduled is sent when its jitter is over (Mesh::loop).
BeaconsSpec ==
  /\ Init /\ [][BeaconsNext]_vars
  /\ WF_vars(\E f \in air : DropReplay(f) \/ ProcessMasterBeacon(f))
  /\ WF_vars(BroadcastMasterBeacon)
  /\ \A n \in Node : WF_vars(DispatchRelay(n))

\* Beacons build the routes of the mesh: docs/superpowers/specs/
\* 2026-06-29-architecture-review.md:51 says "beacon propagation builds
\* `currentMaster.nextHop` for every node".  The code does not do it: Mesh::loop hands
\* the relay to transmitCore, which sends it to the next hop only (RoutesAreDirect).
EveryNodeGetsRoute == \A n \in Node \ {Master} : <>(route[n] # NoRoute)
=============================================================================
