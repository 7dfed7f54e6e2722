--------------------------- MODULE MasterTracking ---------------------------
(***************************************************************************)
(* How a node that is not a master decides whom to follow: which master    *)
(* MACs it trusts (trust on first use, kept in flash), which one it has a  *)
(* route to, when it gives a silent master up, and which beacons it passes *)
(* on (Mesh::processMasterBeacon, checkMasterTimeout, processJoinAck, the  *)
(* deferred relay in Mesh::loop).                                          *)
(*                                                                         *)
(* The radio delivers any well-formed beacon of a living master, late, out *)
(* of order or again: direct (hop 0, last hop the master itself) or over a *)
(* relay.  millis() is a counter modulo ClockModulus that wraps; it counts *)
(* ticks of one beacon interval.  The main loop may be slow: any number of *)
(* ticks pass between two of its steps.  Saving a master MAC commits at    *)
(* once, so the trusted MACs are the ones in flash.                        *)
(***************************************************************************)
EXTENDS Naturals, FiniteSets

CONSTANTS
  Master,          \* MACs that send beacons
  Relay,           \* MACs of neighbours that pass beacons on
  NoMac,           \* an unset MAC
  Threshold,       \* STALE_MASTER_THRESHOLD_MS in ticks
  ClockModulus,    \* 2^32 ms in ticks: where millis() wraps
  MAX_HOPS,        \* as in project_config.h
  DualMasterMode,  \* DUAL_MASTER_MODE
  SeqModulus,      \* 2^16: seqNum is a uint16_t
  MaxEpoch,        \* bound on the boots of a master
  MaxBeacons,      \* bound on the beacons of one boot of a master
  MaxRestarts      \* bound on the restarts of this node

ASSUME MacAssumption == NoMac \notin Master \union Relay /\ Master \cap Relay = {}
ASSUME ThresholdAssumption == Threshold \in Nat \ {0}
ASSUME ClockAssumption == ClockModulus \in Nat /\ ClockModulus > Threshold + 1
ASSUME HopAssumption == MAX_HOPS \in Nat \ {0}
ASSUME ModeAssumption == DualMasterMode \in BOOLEAN
ASSUME SeqAssumption == SeqModulus \in Nat \ {0}
ASSUME BoundAssumption == MaxEpoch \in Nat /\ MaxBeacons \in Nat /\ MaxRestarts \in Nat

VARIABLES
  knownMasterMac,          \* NoMac: hasMasterMac is false
  knownMasterMacSecondary, \* NoMac: hasMasterMacSecondary is false
  enrolled,                \* ENROLLED_FLAG
  lastSeenMasterMac,
  lastMasterBeaconReceivedMs,
  currentMaster,           \* the route; NoRoute: distance 0xFF
  lastRelayed,             \* <<lastRelayedEpoch, lastRelayedSeqNum>>
  relayPending,            \* the beacon waiting for its jitter, or NoBeacon
  millis,
  \* environment and history
  alive,                   \* masters that still send
  age,                     \* ticks since a beacon was accepted or the node started, up to Threshold
  scheduled,               \* beacons scheduled for relay since the node started
  twice,                   \* some beacon was scheduled for relay twice
  restarts

nodeVars == <<knownMasterMac, knownMasterMacSecondary, enrolled, lastSeenMasterMac,
              lastMasterBeaconReceivedMs, currentMaster>>
relayVars == <<lastRelayed, relayPending, scheduled, twice>>
vars == <<nodeVars, relayVars, millis, alive, age, restarts>>

Mac == Master \union Relay \union {NoMac}
NoRoute == [mac |-> NoMac, distance |-> 255, nextHop |-> NoMac]
Route == [mac : Mac, distance : Nat, nextHop : Mac]

\* A beacon is the n-th of its epoch; n itself is not on the air, seqNum is.
BeaconId == [mac : Master, epoch : 1 .. MaxEpoch, n : 1 .. MaxBeacons]
Beacon ==
  {[id |-> i, hop |-> 0, lastHop |-> i.mac] : i \in BeaconId} \union
  {[id |-> i, hop |-> h, lastHop |-> r] : i \in BeaconId, h \in 1 .. MAX_HOPS, r \in Relay}
NoBeacon == [id |-> [mac |-> NoMac, epoch |-> 0, n |-> 0], hop |-> 0]
Pending == [id : BeaconId, hop : 1 .. MAX_HOPS] \union {NoBeacon}

seqNum(b) == b.id.n % SeqModulus

-----------------------------------------------------------------------------
(* Mutants: what the code would be with a plausible bug in it.             *)

\* deadline arithmetic instead of a difference
SinceBeacon_NoWrap ==
  IF millis >= lastMasterBeaconReceivedMs THEN millis - lastMasterBeaconReceivedMs ELSE 0

\* absolute time instead of the time since the last beacon
SinceBeacon_Absolute == millis

\* same or shorter distance only, whichever master it is
IsBetterRoute_AnyMaster(b) ==
  currentMaster = NoRoute \/ b.hop + 1 < currentMaster.distance

IsNewer_OrSame(b) ==
  \/ b.id.epoch > lastRelayed[1]
  \/ b.id.epoch = lastRelayed[1] /\ seqNum(b) >= lastRelayed[2]

-----------------------------------------------------------------------------
(* Mesh::processMasterBeacon *)

\* The unsigned difference millis() - lastMasterBeaconReceivedMs.
SinceBeacon == (millis + ClockModulus - lastMasterBeaconReceivedMs) % ClockModulus

TooFar(b) == b.hop >= MAX_HOPS

FromKnown(b) ==
  \/ knownMasterMac # NoMac /\ b.id.mac = knownMasterMac
  \/ DualMasterMode /\ knownMasterMacSecondary # NoMac /\ b.id.mac = knownMasterMacSecondary

\* How a beacon that is not too far changes the trusted MACs: the first master
\* ever, a known one, the second one of dual-master mode, or a stranger that
\* takes over because no known master was heard for Threshold.
FirstMaster(b) ==
  /\ knownMasterMac = NoMac
  /\ knownMasterMac' = b.id.mac
  /\ UNCHANGED knownMasterMacSecondary

KnownMaster(b) ==
  /\ knownMasterMac # NoMac
  /\ FromKnown(b)
  /\ UNCHANGED <<knownMasterMac, knownMasterMacSecondary>>

Stranger(b) == knownMasterMac # NoMac /\ ~FromKnown(b)
SecondSlotFree == DualMasterMode /\ knownMasterMacSecondary = NoMac

SecondMaster(b) ==
  /\ Stranger(b)
  /\ SecondSlotFree
  /\ knownMasterMacSecondary' = b.id.mac
  /\ UNCHANGED knownMasterMac

HotSwap(b) ==
  /\ Stranger(b)
  /\ ~SecondSlotFree
  /\ SinceBeacon >= Threshold
  /\ knownMasterMac' = b.id.mac
  /\ UNCHANGED knownMasterMacSecondary

IsBetterRoute(b) ==
  \/ currentMaster = NoRoute
  \/ currentMaster.mac # b.id.mac
  \/ b.hop + 1 < currentMaster.distance

UpdateRoute(b) ==
  currentMaster' =
    IF IsBetterRoute(b)
      THEN [mac |-> b.id.mac, distance |-> b.hop + 1, nextHop |-> b.lastHop]
      ELSE currentMaster

IsNewer(b) ==
  \/ b.id.epoch > lastRelayed[1]
  \/ b.id.epoch = lastRelayed[1] /\ seqNum(b) > lastRelayed[2]

\* One slot: a beacon still waiting for its jitter is replaced.
ScheduleRelay(b) ==
  IF IsNewer(b)
    THEN /\ lastRelayed' = <<b.id.epoch, seqNum(b)>>
         /\ relayPending' = [id |-> b.id, hop |-> b.hop + 1]
         /\ scheduled' = scheduled \union {b.id}
         /\ twice' = (twice \/ b.id \in scheduled)
    ELSE UNCHANGED relayVars

\* What every accepted beacon does once the trusted MACs are settled.
AcceptBeacon(b) ==
  /\ lastSeenMasterMac' = b.id.mac
  /\ lastMasterBeaconReceivedMs' = millis
  /\ age' = 0
  /\ UpdateRoute(b)
  /\ ScheduleRelay(b)
  /\ UNCHANGED <<enrolled, millis, alive, restarts>>

ReceiveFirst(b) == ~TooFar(b) /\ FirstMaster(b) /\ AcceptBeacon(b)
ReceiveKnown(b) == ~TooFar(b) /\ KnownMaster(b) /\ AcceptBeacon(b)
ReceiveSecond(b) == ~TooFar(b) /\ SecondMaster(b) /\ AcceptBeacon(b)
ReceiveHotSwap(b) == ~TooFar(b) /\ HotSwap(b) /\ AcceptBeacon(b)

\* Mutant: a rejected beacon refreshes the timer as well.
RejectBeacon_Refreshes(b) ==
  /\ ~TooFar(b)
  /\ Stranger(b)
  /\ ~SecondSlotFree
  /\ SinceBeacon < Threshold
  /\ lastMasterBeaconReceivedMs' = millis
  /\ UNCHANGED <<knownMasterMac, knownMasterMacSecondary, enrolled, lastSeenMasterMac,
                 currentMaster, relayVars, millis, alive, age, restarts>>

RejectBeacon(b) ==
  /\ ~TooFar(b)
  /\ Stranger(b)
  /\ ~SecondSlotFree
  /\ SinceBeacon < Threshold
  /\ UNCHANGED vars

DropTooFar(b) == TooFar(b) /\ UNCHANGED vars

Receive(b) == ReceiveFirst(b) \/ ReceiveKnown(b) \/ ReceiveSecond(b) \/ ReceiveHotSwap(b)

ProcessMasterBeacon(b) == Receive(b) \/ RejectBeacon(b) \/ DropTooFar(b)

-----------------------------------------------------------------------------
(* Mesh::processJoinAck for a JOIN_ACK addressed to this node whose key     *)
(* fingerprint matches: the flag and the first master are committed.        *)

ProcessJoinAck(m) ==
  /\ enrolled' = TRUE
  /\ knownMasterMac' = IF knownMasterMac = NoMac THEN m ELSE knownMasterMac
  /\ UNCHANGED <<knownMasterMacSecondary, lastSeenMasterMac, lastMasterBeaconReceivedMs,
                 currentMaster, relayVars, millis, alive, age, restarts>>

(* Mesh::checkMasterTimeout, once per pass of the main loop. *)
CheckMasterTimeout ==
  /\ currentMaster # NoRoute
  /\ SinceBeacon > Threshold
  /\ currentMaster' = NoRoute
  /\ lastSeenMasterMac' = NoMac
  /\ lastMasterBeaconReceivedMs' = 0
  /\ UNCHANGED <<knownMasterMac, knownMasterMacSecondary, enrolled, relayVars, millis, alive,
                 age, restarts>>

(* Mesh::loop: the jitter (less than a tick) is over.  Whether the next hop *)
(* is a fresh peer, and so whether the frame leaves, is the peer table's.   *)
DispatchRelay ==
  /\ relayPending # NoBeacon
  /\ relayPending' = NoBeacon
  /\ UNCHANGED <<nodeVars, lastRelayed, scheduled, twice, millis, alive, age, restarts>>

-----------------------------------------------------------------------------
(* Time, failing masters, power loss *)

Tick ==
  /\ millis' = (millis + 1) % ClockModulus
  /\ age' = IF age < Threshold THEN age + 1 ELSE age
  /\ UNCHANGED <<nodeVars, relayVars, alive, restarts>>

MasterDies(m) ==
  /\ alive' = alive \ {m}
  /\ UNCHANGED <<nodeVars, relayVars, millis, age, restarts>>

\* Mesh::Mesh and loadPersistentState: RAM starts over, flash is read.
Restart ==
  /\ restarts < MaxRestarts
  /\ restarts' = restarts + 1
  /\ lastSeenMasterMac' = NoMac
  /\ lastMasterBeaconReceivedMs' = 0
  /\ currentMaster' = NoRoute
  /\ lastRelayed' = <<0, 0>>
  /\ relayPending' = NoBeacon
  /\ scheduled' = {}
  /\ twice' = FALSE
  /\ millis' = 0
  /\ age' = 0
  /\ UNCHANGED <<knownMasterMac, knownMasterMacSecondary, enrolled, alive>>

-----------------------------------------------------------------------------

Init ==
  /\ knownMasterMac = NoMac
  /\ knownMasterMacSecondary = NoMac
  /\ enrolled = FALSE
  /\ lastSeenMasterMac = NoMac
  /\ lastMasterBeaconReceivedMs = 0
  /\ currentMaster = NoRoute
  /\ lastRelayed = <<0, 0>>
  /\ relayPending = NoBeacon
  /\ millis = 0
  /\ alive = Master
  /\ age = 0
  /\ scheduled = {}
  /\ twice = FALSE
  /\ restarts = 0

Next ==
  \/ \E b \in Beacon : b.id.mac \in alive /\ ProcessMasterBeacon(b)
  \/ \E m \in alive : ProcessJoinAck(m)
  \/ CheckMasterTimeout
  \/ DispatchRelay
  \/ Tick
  \/ \E m \in alive : MasterDies(m)
  \/ Restart

Spec == Init /\ [][Next]_vars

\* A living master beacons for ever, and at every offset of the clock often enough
\* (strong fairness: the radio is not tied to the node's millis).  Time goes on,
\* and the main loop runs far more often than millis() goes round.
Fairness ==
  /\ WF_vars(Tick)
  /\ SF_vars(CheckMasterTimeout)
  /\ \A m \in Master : SF_vars(\E b \in Beacon : b.id.mac = m /\ m \in alive /\ Receive(b))

FairSpec == Spec /\ Fairness

-----------------------------------------------------------------------------
(* Correctness *)

\* Every variable has its type.
TypeOK ==
  /\ knownMasterMac \in Master \union {NoMac}
  /\ knownMasterMacSecondary \in Master \union {NoMac}
  /\ enrolled \in BOOLEAN
  /\ lastSeenMasterMac \in Master \union {NoMac}
  /\ lastMasterBeaconReceivedMs \in 0 .. (ClockModulus - 1)
  /\ currentMaster \in Route
  /\ lastRelayed \in Nat \X Nat
  /\ relayPending \in Pending
  /\ millis \in 0 .. (ClockModulus - 1)
  /\ alive \subseteq Master
  /\ age \in 0 .. Threshold
  /\ scheduled \subseteq BeaconId
  /\ twice \in BOOLEAN
  /\ restarts \in 0 .. MaxRestarts

\* processMasterBeacon gives the role of a trusted master away only when no beacon
\* of a trusted master was accepted for the whole threshold, in real time: not
\* because millis() has wrapped, nor because the route was just cleared, nor
\* because the node has only just started.
LiveMasterKeepsRole ==
  [][/\ (knownMasterMac # NoMac /\ knownMasterMac' # knownMasterMac) => age >= Threshold
     /\ knownMasterMacSecondary # NoMac => UNCHANGED knownMasterMacSecondary]_vars

\* The route and the trust state agree: a node routes only to the trusted master
\* it heard last, over a last hop that is that master exactly at distance one, and
\* primary and secondary are never the same node, the secondary being used in
\* dual-master mode only.  Nothing travels farther than MAX_HOPS.
RouteCoherent ==
  /\ currentMaster # NoRoute =>
       /\ currentMaster.mac \in {knownMasterMac, knownMasterMacSecondary} \ {NoMac}
       /\ currentMaster.mac = lastSeenMasterMac
       /\ currentMaster.distance = 1 <=> currentMaster.nextHop = currentMaster.mac
       /\ currentMaster.distance \in 1 .. MAX_HOPS
  /\ currentMaster = NoRoute => lastSeenMasterMac = NoMac
  /\ (knownMasterMac = NoMac \/ ~DualMasterMode) => knownMasterMacSecondary = NoMac
  /\ knownMasterMac = knownMasterMacSecondary => knownMasterMac = NoMac
  /\ relayPending.hop <= MAX_HOPS

\* No beacon is scheduled for relay twice by one node, however often, however
\* late and in whatever order its copies come back.
NoBeaconRelayedTwice == ~twice

\* The node fails over: when one master is left, the node ends up with a route to
\* it (unless that one fails too), although it has trusted another one until then.
FailsOver == \A m \in Master : (alive = {m}) ~> (currentMaster.mac = m \/ alive = {})

\* A route to a master that sends nothing any more does not stay, even when the
\* clock wraps before the timeout is noticed.
SilentMasterForgotten == (alive = {}) ~> (currentMaster = NoRoute)

-----------------------------------------------------------------------------
(* Inductive invariant *)

\* The wrapped difference is the true age as long as that is below the threshold.
AgeTracksClock == age < Threshold => SinceBeacon = age

\* Everything scheduled so far is at or before lastRelayed in the order of
\* epochs and (wrapped) sequence numbers.
ScheduledBehind ==
  \A i \in scheduled :
    \/ i.epoch < lastRelayed[1]
    \/ i.epoch = lastRelayed[1] /\ i.n % SeqModulus <= lastRelayed[2]

\* Together, with the types: what every step preserves.
IndInv == TypeOK /\ AgeTracksClock /\ RouteCoherent /\ ScheduledBehind /\ NoBeaconRelayedTwice
=============================================================================
