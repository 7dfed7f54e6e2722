-------------------------- MODULE MCMasterTracking --------------------------
(* Two masters and one relaying neighbour in the default build, or three     *)
(* masters and the neighbour in a dual-master build.  A tick is a beacon     *)
(* interval of 3 s, so the threshold of 9 s is 3 ticks.                      *)
(*                                                                           *)
(* In the dual-master build no master fails: what a beacon may do depends on *)
(* the time since the last one, and any master may be silent for any time.   *)
(* What has to happen after a failure is asked of the default build.         *)
EXTENDS MasterTracking
CONSTANTS a, b, c, r
TwoMasters == {a, b}
MCRelay == {r}

VARIABLE build

Dual ==
  INSTANCE MasterTracking WITH
    DualMasterMode <- TRUE, Master <- {a, b, c}, ClockModulus <- 5, SeqModulus <- 2,
    MaxEpoch <- 1, MaxBeacons <- 2, MaxRestarts <- 0

BuildInit ==
  \/ build = "single" /\ Init
  \/ build = "dual" /\ Dual!Init

SingleStep == build = "single" /\ Next /\ UNCHANGED build
DualStep == build = "dual" /\ Dual!Next /\ UNCHANGED <<alive, build>>

\* MasterTracking's fairness, in the default build.
BuildFairness ==
  /\ WF_vars(build = "single" /\ Tick)
  /\ SF_vars(build = "single" /\ CheckMasterTimeout)
  /\ \A m \in Master :
       SF_vars(build = "single" /\ \E x \in Beacon : x.id.mac = m /\ m \in alive /\ Receive(x))

BuildSpec == BuildInit /\ [][SingleStep \/ DualStep]_<<build, vars>> /\ BuildFairness

\* What route and trust state owe to each other in either build: RouteCoherent
\* (processMasterBeacon, checkMasterTimeout, processJoinAck).
CoherentInBuild == IF build = "single" THEN RouteCoherent ELSE Dual!RouteCoherent
=============================================================================
