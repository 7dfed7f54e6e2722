------------------------ MODULE MasterTracking_proofs ------------------------
(***************************************************************************)
(* A node's view of its masters is sound for every set of masters and      *)
(* relays, every timeout and every width of the clock and of the sequence  *)
(* numbers, in single- and in dual-master mode.                            *)
(***************************************************************************)
EXTENDS MasterTracking, Integers, TLAPS

\* A number below 2n, without the modulus.
LEMMA ModOnce ==
  ASSUME NEW n \in Nat \ {0}, NEW a \in 0 .. (n + n - 1)
  PROVE  a % n = IF a < n THEN a ELSE a - n
<1> DEFINE q == a \div n
           r == a % n
           p == n * q
<1>0. a \in Nat
  OBVIOUS
<1>1. a = p + r /\ q \in Nat /\ r \in 0 .. (n - 1)
  BY <1>0
<1>2. (q = 0 => p = 0) /\ (q = 1 => p = n)
  OBVIOUS
<1>3. q >= 2 => p >= n + n /\ p \in Nat
  BY <1>1
<1> HIDE DEF p, q, r
<1>4. q = 0 \/ q = 1
  BY <1>1, <1>3
<1>5. (IF a < n THEN a ELSE a - n) = r
  BY <1>1, <1>2, <1>4
<1> QED BY <1>5 DEF r

\* The unsigned difference of two readings of a clock modulo n.
LEMMA ModDifference ==
  ASSUME NEW n \in Nat \ {0}, NEW t \in 0 .. (n - 1), NEW l \in 0 .. (n - 1)
  PROVE  ((t + n) - l) % n = IF t >= l THEN t - l ELSE (t + n) - l
<1>1. (t + n) - l \in 0 .. (n + n - 1)
  OBVIOUS
<1>2. ((t + n) - l) % n = IF (t + n) - l < n THEN (t + n) - l ELSE ((t + n) - l) - n
  BY <1>1, ModOnce
<1> QED BY <1>2

\* One tick of a clock modulo n.
LEMMA ModStep ==
  ASSUME NEW n \in Nat \ {0}, NEW t \in 0 .. (n - 1)
  PROVE  (t + 1) % n = IF t + 1 = n THEN 0 ELSE t + 1
<1>1. t + 1 \in 0 .. (n + n - 1)
  OBVIOUS
<1>2. (t + 1) % n = IF t + 1 < n THEN t + 1 ELSE (t + 1) - n
  BY <1>1, ModOnce
<1> QED BY <1>2

\* The unsigned difference of two clock readings, without the modulus.
LEMMA ClockDifference ==
  ASSUME NEW t \in 0 .. (ClockModulus - 1), NEW l \in 0 .. (ClockModulus - 1)
  PROVE  (t + ClockModulus - l) % ClockModulus = IF t >= l THEN t - l ELSE t + ClockModulus - l
BY ModDifference, ClockAssumption, ThresholdAssumption

\* One tick of the clock, without the modulus.
LEMMA ClockStep ==
  ASSUME NEW t \in 0 .. (ClockModulus - 1)
  PROVE  (t + 1) % ClockModulus = IF t + 1 = ClockModulus THEN 0 ELSE t + 1
BY ModStep, ClockAssumption, ThresholdAssumption

LEMMA SeqNumType ==
  ASSUME NEW n \in 1 .. MaxBeacons PROVE n % SeqModulus \in Nat
BY SeqAssumption, BoundAssumption

\* A freshly flashed node.
LEMMA InitIndInv == Init => IndInv
<1> SUFFICES ASSUME Init PROVE IndInv
  OBVIOUS
<1>0. ClockModulus \in Nat /\ ClockModulus > 0
  BY ClockAssumption, ThresholdAssumption
<1>1. TypeOK
  <2>1. enrolled \in BOOLEAN /\ twice \in BOOLEAN
    BY Zenon DEF Init
  <2>2. currentMaster \in Route /\ relayPending \in Pending /\ lastRelayed \in Nat \X Nat
    BY DEF Init, Route, NoRoute, Mac, Pending
  <2> QED BY <1>0, <2>1, <2>2, ThresholdAssumption, BoundAssumption DEF Init, TypeOK
<1>2. AgeTracksClock
  BY <1>0, ClockDifference DEF Init, AgeTracksClock, SinceBeacon
<1>3. RouteCoherent
  BY HopAssumption DEF Init, RouteCoherent, NoBeacon
<1>4. ScheduledBehind /\ NoBeaconRelayedTwice
  BY DEF Init, ScheduledBehind, NoBeaconRelayedTwice
<1> QED BY <1>1, <1>2, <1>3, <1>4 DEF IndInv

\* What is known of a beacon that is not too far.
LEMMA BeaconFacts ==
  ASSUME NEW b \in Beacon, ~TooFar(b)
  PROVE  /\ b.id \in BeaconId /\ b.id.mac \in Master /\ b.id.mac # NoMac
         /\ b.id.epoch \in Nat /\ b.id.n \in 1 .. MaxBeacons /\ seqNum(b) \in Nat
         /\ b.hop \in Nat /\ b.hop + 1 \in 1 .. MAX_HOPS
         /\ b.lastHop \in Mac
         /\ b.hop + 1 = 1 <=> b.lastHop = b.id.mac
<1>1. b.id \in BeaconId /\ b.hop \in 0 .. MAX_HOPS /\ b.lastHop \in Master \union Relay
  BY HopAssumption DEF Beacon, BeaconId
<1>2. b.hop = 0 <=> b.lastHop = b.id.mac
  BY MacAssumption DEF Beacon, BeaconId
<1>3. b.id.mac \in Master /\ b.id.mac # NoMac /\ b.id.epoch \in 1 .. MaxEpoch
      /\ b.id.n \in 1 .. MaxBeacons
  BY <1>1, MacAssumption DEF BeaconId
<1>4. b.hop + 1 \in 1 .. MAX_HOPS
  BY <1>1, HopAssumption DEF TooFar
<1>5. seqNum(b) \in Nat
  BY <1>3, SeqNumType DEF seqNum
<1> QED BY <1>1, <1>2, <1>3, <1>4, <1>5, BoundAssumption DEF Mac

\* An accepted beacon: the route, the relay and the age, whichever way the trusted
\* MACs were settled.
LEMMA AcceptIndInv ==
  ASSUME IndInv, NEW b \in Beacon, ~TooFar(b), AcceptBeacon(b),
         knownMasterMac' \in Master, knownMasterMacSecondary' \in Master \union {NoMac},
         b.id.mac \in {knownMasterMac', knownMasterMacSecondary'},
         knownMasterMac' # knownMasterMacSecondary',
         ~DualMasterMode => knownMasterMacSecondary' = NoMac
  PROVE  IndInv'
<1>0. ClockModulus \in Nat /\ ClockModulus > 0 /\ Threshold \in Nat /\ Threshold > 0
  BY ClockAssumption, ThresholdAssumption
<1> USE BeaconFacts
<1>1. currentMaster' \in Route /\ currentMaster' # NoRoute /\ currentMaster'.mac = b.id.mac
      /\ currentMaster'.distance \in 1 .. MAX_HOPS
      /\ (currentMaster'.distance = 1 <=> currentMaster'.nextHop = currentMaster'.mac)
  <2>1. CASE IsBetterRoute(b)
    BY <2>1 DEF AcceptBeacon, UpdateRoute, Route, NoRoute, Mac
  <2>2. CASE ~IsBetterRoute(b)
    BY <2>2 DEF AcceptBeacon, UpdateRoute, IsBetterRoute, IndInv, TypeOK, RouteCoherent
  <2> QED BY <2>1, <2>2
<1>2. /\ lastRelayed' \in Nat \X Nat /\ relayPending' \in Pending /\ relayPending'.hop <= MAX_HOPS
      /\ scheduled' \subseteq BeaconId /\ twice' = FALSE /\ ScheduledBehind'
  <2>0. scheduled \subseteq BeaconId /\ twice = FALSE /\ ScheduledBehind
    BY DEF IndInv, TypeOK, NoBeaconRelayedTwice
  <2>1. CASE IsNewer(b)
    <3>1. /\ lastRelayed' = <<b.id.epoch, seqNum(b)>>
          /\ relayPending' = [id |-> b.id, hop |-> b.hop + 1]
          /\ scheduled' = scheduled \union {b.id}
          /\ twice' = (twice \/ b.id \in scheduled)
      BY <2>1 DEF AcceptBeacon, ScheduleRelay
    <3>2. lastRelayed \in Nat \X Nat
      BY DEF IndInv, TypeOK
    <3>3. \A i \in scheduled : i.epoch \in Nat /\ i.n % SeqModulus \in Nat
      BY <2>0, SeqNumType, BoundAssumption DEF BeaconId
    <3>4. b.id \notin scheduled
      BY <2>0, <2>1, <3>2, <3>3 DEF ScheduledBehind, IsNewer, seqNum
    <3>5. ScheduledBehind'
      BY <2>0, <2>1, <3>1, <3>2, <3>3 DEF ScheduledBehind, IsNewer, seqNum
    <3>6. relayPending' \in Pending /\ relayPending'.hop <= MAX_HOPS
      BY <3>1, HopAssumption DEF Pending
    <3> QED BY <2>0, <3>1, <3>4, <3>5, <3>6
  <2>2. CASE ~IsNewer(b)
    BY <2>0, <2>2 DEF AcceptBeacon, ScheduleRelay, relayVars, ScheduledBehind, IndInv, TypeOK,
                      RouteCoherent
  <2> QED BY <2>1, <2>2
<1>3. TypeOK'
  <2>1. enrolled' \in BOOLEAN /\ twice' \in BOOLEAN
    BY <1>2, Zenon DEF AcceptBeacon, IndInv, TypeOK
  <2> QED BY <1>0, <1>1, <1>2, <2>1 DEF AcceptBeacon, IndInv, TypeOK
<1>4. AgeTracksClock'
  <2>1. millis \in 0 .. (ClockModulus - 1)
    BY DEF IndInv, TypeOK
  <2>2. millis' = millis /\ lastMasterBeaconReceivedMs' = millis /\ age' = 0
    BY DEF AcceptBeacon
  <2>3. (millis + ClockModulus - millis) % ClockModulus = 0
    BY <2>1, ClockDifference
  <2> QED BY <2>2, <2>3 DEF AgeTracksClock, SinceBeacon
<1>5. RouteCoherent'
  BY <1>1, <1>2, MacAssumption DEF AcceptBeacon, RouteCoherent
<1> QED BY <1>2, <1>3, <1>4, <1>5 DEF IndInv, NoBeaconRelayedTwice

\* Steps that leave the node's view of its masters alone except for trust.
LEMMA JoinAckIndInv ==
  ASSUME IndInv, NEW m \in Master, ProcessJoinAck(m)
  PROVE  IndInv'
<1>1. TypeOK'
  BY DEF ProcessJoinAck, IndInv, TypeOK, relayVars
<1>2. RouteCoherent'
  BY MacAssumption DEF ProcessJoinAck, IndInv, TypeOK, RouteCoherent, relayVars
<1>3. AgeTracksClock' /\ ScheduledBehind' /\ NoBeaconRelayedTwice'
  BY DEF ProcessJoinAck, IndInv, AgeTracksClock, SinceBeacon, ScheduledBehind,
         NoBeaconRelayedTwice, relayVars
<1> QED BY <1>1, <1>2, <1>3 DEF IndInv

\* Time: the difference of the clock readings grows with the age, also over the
\* wrap, as long as the age is below the threshold.
LEMMA TickIndInv ==
  ASSUME IndInv, Tick
  PROVE  IndInv'
<1>0. ClockModulus \in Nat /\ Threshold \in Nat /\ Threshold > 0 /\ ClockModulus > Threshold + 1
  BY ClockAssumption, ThresholdAssumption
<1>a. millis \in 0 .. (ClockModulus - 1) /\ lastMasterBeaconReceivedMs \in 0 .. (ClockModulus - 1)
      /\ age \in 0 .. Threshold
  BY DEF IndInv, TypeOK
<1>b. millis' = IF millis + 1 = ClockModulus THEN 0 ELSE millis + 1
  BY <1>a, ClockStep DEF Tick
<1>c. age' = IF age < Threshold THEN age + 1 ELSE age
  BY DEF Tick
<1>1. TypeOK'
  BY <1>0, <1>a, <1>b, <1>c DEF Tick, IndInv, TypeOK, nodeVars, relayVars
<1>2. AgeTracksClock'
  <2> SUFFICES ASSUME age' < Threshold PROVE SinceBeacon' = age'
    BY DEF AgeTracksClock
  <2> DEFINE l == lastMasterBeaconReceivedMs
  <2>1. l' = l /\ age < Threshold /\ age' = age + 1
    BY <1>0, <1>a, <1>c DEF Tick, nodeVars
  <2>2. SinceBeacon = age
    BY <2>1 DEF IndInv, AgeTracksClock
  <2>3. SinceBeacon = IF millis >= l THEN millis - l ELSE millis + ClockModulus - l
    BY <1>a, ClockDifference DEF SinceBeacon
  <2>4. millis' \in 0 .. (ClockModulus - 1)
    BY <1>0, <1>a, <1>b
  <2>5. SinceBeacon' = IF millis' >= l THEN millis' - l ELSE millis' + ClockModulus - l
    BY <1>a, <2>1, <2>4, ClockDifference DEF SinceBeacon
  <2> HIDE DEF l
  <2>6. l \in 0 .. (ClockModulus - 1)
    BY <1>a DEF l
  <2> QED BY <1>0, <1>a, <1>b, <2>1, <2>2, <2>3, <2>5, <2>6
<1>3. RouteCoherent' /\ ScheduledBehind' /\ NoBeaconRelayedTwice'
  BY DEF Tick, IndInv, RouteCoherent, ScheduledBehind, NoBeaconRelayedTwice, nodeVars, relayVars
<1> QED BY <1>1, <1>2, <1>3 DEF IndInv

\* Giving a silent master up resets the clock reading; the age is at the threshold.
LEMMA TimeoutIndInv ==
  ASSUME IndInv, CheckMasterTimeout
  PROVE  IndInv'
<1>0. ClockModulus \in Nat /\ ClockModulus > 0 /\ Threshold \in Nat
  BY ClockAssumption, ThresholdAssumption
<1>1. TypeOK'
  BY <1>0 DEF CheckMasterTimeout, IndInv, TypeOK, Route, NoRoute, Mac, relayVars
<1>2. AgeTracksClock'
  <2>1. millis \in 0 .. (ClockModulus - 1) /\ lastMasterBeaconReceivedMs \in 0 .. (ClockModulus - 1)
        /\ age \in 0 .. Threshold /\ age' = age
    BY DEF CheckMasterTimeout, IndInv, TypeOK
  <2>2. SinceBeacon \in Nat /\ SinceBeacon > Threshold
    BY <1>0, <2>1, ClockDifference DEF CheckMasterTimeout, SinceBeacon
  <2>3. ~ (age < Threshold)
    BY <1>0, <2>1, <2>2 DEF IndInv, AgeTracksClock
  <2> QED BY <2>1, <2>3 DEF AgeTracksClock
<1>3. RouteCoherent' /\ ScheduledBehind' /\ NoBeaconRelayedTwice'
  BY DEF CheckMasterTimeout, IndInv, RouteCoherent, ScheduledBehind, NoBeaconRelayedTwice, relayVars
<1> QED BY <1>1, <1>2, <1>3 DEF IndInv

\* A restart keeps the trusted MACs and nothing else.
LEMMA RestartIndInv ==
  ASSUME IndInv, Restart
  PROVE  IndInv'
<1>0. ClockModulus \in Nat /\ ClockModulus > 0 /\ Threshold \in Nat /\ Threshold > 0
  BY ClockAssumption, ThresholdAssumption
<1>1. TypeOK'
  <2>1. enrolled' \in BOOLEAN /\ twice' \in BOOLEAN
    BY Zenon DEF Restart, IndInv, TypeOK
  <2>2. currentMaster' \in Route /\ relayPending' \in Pending /\ lastRelayed' \in Nat \X Nat
    BY DEF Restart, Route, NoRoute, Mac, Pending
  <2> QED BY <1>0, <2>1, <2>2, BoundAssumption DEF Restart, IndInv, TypeOK
<1>2. AgeTracksClock'
  <2>1. (0 + ClockModulus - 0) % ClockModulus = 0
    BY <1>0, ClockDifference
  <2> QED BY <2>1 DEF Restart, AgeTracksClock, SinceBeacon
<1>3. RouteCoherent'
  BY HopAssumption DEF Restart, IndInv, RouteCoherent, NoBeacon
<1>4. ScheduledBehind' /\ NoBeaconRelayedTwice'
  BY DEF Restart, ScheduledBehind, NoBeaconRelayedTwice
<1> QED BY <1>1, <1>2, <1>3, <1>4 DEF IndInv

\* Every step preserves the invariant.
LEMMA NextIndInv == IndInv /\ [Next]_vars => IndInv'
<1> SUFFICES ASSUME IndInv, [Next]_vars PROVE IndInv'
  OBVIOUS
<1>t. knownMasterMac \in Master \union {NoMac} /\ knownMasterMacSecondary \in Master \union {NoMac}
      /\ alive \subseteq Master
  BY DEF IndInv, TypeOK
<1>c. ((knownMasterMac = NoMac \/ ~DualMasterMode) => knownMasterMacSecondary = NoMac)
      /\ (knownMasterMac = knownMasterMacSecondary => knownMasterMac = NoMac)
  BY DEF IndInv, RouteCoherent
<1>1. ASSUME NEW b \in Beacon, ProcessMasterBeacon(b) PROVE IndInv'
  <2>1. CASE ReceiveFirst(b)
    BY <2>1, <1>t, <1>c, BeaconFacts, AcceptIndInv DEF ReceiveFirst, FirstMaster
  <2>2. CASE ReceiveKnown(b)
    BY <2>2, <1>t, <1>c, BeaconFacts, AcceptIndInv DEF ReceiveKnown, KnownMaster, FromKnown
  <2>3. CASE ReceiveSecond(b)
    <3>1. knownMasterMac' = knownMasterMac /\ knownMasterMacSecondary' = b.id.mac
          /\ knownMasterMac # NoMac /\ b.id.mac # knownMasterMac /\ DualMasterMode
      BY <2>3 DEF ReceiveSecond, SecondMaster, Stranger, FromKnown, SecondSlotFree
    <3> QED BY <2>3, <3>1, <1>t, BeaconFacts, AcceptIndInv DEF ReceiveSecond
  <2>4. CASE ReceiveHotSwap(b)
    <3>1. b.id.mac # knownMasterMacSecondary
      BY <2>4, <1>c, BeaconFacts DEF ReceiveHotSwap, HotSwap, Stranger, FromKnown, SecondSlotFree
    <3> QED BY <2>4, <3>1, <1>t, <1>c, BeaconFacts, AcceptIndInv DEF ReceiveHotSwap, HotSwap
  <2>5. CASE UNCHANGED vars
    BY <2>5 DEF vars, nodeVars, relayVars, IndInv, TypeOK, AgeTracksClock, SinceBeacon,
                RouteCoherent, ScheduledBehind, NoBeaconRelayedTwice
  <2> QED BY <1>1, <2>1, <2>2, <2>3, <2>4, <2>5
          DEF ProcessMasterBeacon, Receive, RejectBeacon, DropTooFar
<1>2. ASSUME NEW m \in alive, ProcessJoinAck(m) PROVE IndInv'
  BY <1>2, <1>t, JoinAckIndInv
<1>3. CASE CheckMasterTimeout
  BY <1>3, TimeoutIndInv
<1>4. CASE DispatchRelay
  BY <1>4, HopAssumption DEF DispatchRelay, nodeVars, IndInv, TypeOK, AgeTracksClock, SinceBeacon,
     RouteCoherent, ScheduledBehind, NoBeaconRelayedTwice, Pending, NoBeacon
<1>5. CASE Tick
  BY <1>5, TickIndInv
<1>6. ASSUME NEW m \in alive, MasterDies(m) PROVE IndInv'
  BY <1>6 DEF MasterDies, nodeVars, relayVars, IndInv, TypeOK, AgeTracksClock, SinceBeacon,
     RouteCoherent, ScheduledBehind, NoBeaconRelayedTwice
<1>7. CASE Restart
  BY <1>7, RestartIndInv
<1>8. CASE UNCHANGED vars
  BY <1>8 DEF vars, nodeVars, relayVars, IndInv, TypeOK, AgeTracksClock, SinceBeacon,
              RouteCoherent, ScheduledBehind, NoBeaconRelayedTwice
<1> QED BY <1>1, <1>2, <1>3, <1>4, <1>5, <1>6, <1>7, <1>8 DEF Next

-----------------------------------------------------------------------------

\* The inductive invariant holds in every reachable state.
THEOREM TrackingInvariant == Spec => []IndInv
<1> QED BY InitIndInv, NextIndInv, PTL DEF Spec

\* The route always leads to the trusted master heard last, within MAX_HOPS, and
\* the two trusted masters are different nodes.
THEOREM RouteIsCoherent == Spec => []RouteCoherent
<1>1. IndInv => RouteCoherent
  BY DEF IndInv
<1> QED BY <1>1, TrackingInvariant, PTL

\* A node never schedules the relay of one beacon twice between two restarts.
THEOREM RelayAtMostOnce == Spec => []NoBeaconRelayedTwice
<1>1. IndInv => NoBeaconRelayedTwice
  BY DEF IndInv
<1> QED BY <1>1, TrackingInvariant, PTL

\* The step behind LiveMasterKeepsRole: only a hot swap replaces a trusted master,
\* and it needs a clock difference that the age bounds from below.
LEMMA RoleStep ==
  ASSUME IndInv, [Next]_vars
  PROVE  /\ (knownMasterMac # NoMac /\ knownMasterMac' # knownMasterMac) => age >= Threshold
         /\ knownMasterMacSecondary # NoMac => UNCHANGED knownMasterMacSecondary
<1>0. Threshold \in Nat /\ age \in 0 .. Threshold
  BY ThresholdAssumption DEF IndInv, TypeOK
<1>1. ASSUME SinceBeacon >= Threshold PROVE age >= Threshold
  BY <1>0, <1>1 DEF IndInv, AgeTracksClock
<1>2. ASSUME NEW b \in Beacon, ProcessMasterBeacon(b)
      PROVE  /\ (knownMasterMac # NoMac /\ knownMasterMac' # knownMasterMac) => age >= Threshold
             /\ knownMasterMacSecondary # NoMac => UNCHANGED knownMasterMacSecondary
  BY <1>1, <1>2 DEF ProcessMasterBeacon, Receive, ReceiveFirst, ReceiveKnown, ReceiveSecond,
     ReceiveHotSwap, FirstMaster, KnownMaster, SecondMaster, SecondSlotFree, HotSwap, RejectBeacon,
     DropTooFar, vars, nodeVars
<1> QED BY <1>2 DEF Next, ProcessJoinAck, CheckMasterTimeout, DispatchRelay, Tick, MasterDies,
                    Restart, vars, nodeVars

\* A trusted master is replaced only after a whole threshold of silence in real
\* time, whatever millis() does.
THEOREM TrustedMasterKeepsRole == Spec => LiveMasterKeepsRole
<1>1. IndInv /\ [Next]_vars =>
        [/\ (knownMasterMac # NoMac /\ knownMasterMac' # knownMasterMac) => age >= Threshold
         /\ knownMasterMacSecondary # NoMac => UNCHANGED knownMasterMacSecondary]_vars
  BY RoleStep
<1> QED BY <1>1, TrackingInvariant, PTL DEF Spec, LiveMasterKeepsRole
=============================================================================
