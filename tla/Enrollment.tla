---------------------------- MODULE Enrollment ----------------------------
(***************************************************************************)
(* How a new node gets into the mesh: it broadcasts its public key every   *)
(* ten seconds (main.ino, loop), the master holds one request for its main *)
(* loop and relays it to the server (Mesh.cpp, Serial_Adapter.cpp), the    *)
(* server approves it some time later, the master takes the node into its  *)
(* peer list, which is saved at the next flush, and broadcasts a JOIN_ACK, *)
(* and the node commits its enrolled flag and the master's MAC, one after  *)
(* the other.  Messages are lost, JOIN_ACKs are duplicated by the relays,  *)
(* both sides lose power, a node's settings are erased, whereupon it makes *)
(* a new key pair with its next start.                                     *)
(*                                                                         *)
(* The n-th key pair a node makes is the number n; keys do not collide in  *)
(* the four bytes a JOIN_ACK carries.  The receive queue is in RecvQueue,  *)
(* relaying in MeshNetwork, the store in EepromManager: here a frame is    *)
(* handled when it is taken from the air, a commit is one step, and the    *)
(* peer list is saved when the master flushes.  A request that arrives is  *)
(* there when it is sent; that it may wait is part of how late the server  *)
(* is.  The server is external.                                            *)
(***************************************************************************)
EXTENDS Naturals, FiniteSets

CONSTANTS
  Node,          \* nodes that want to join
  DefaultPeers,  \* DEFAULT_PEERS of the master
  MAX_PEERS,
  MaxErasures,   \* bound: how often a node's settings are erased
  MaxCuts        \* bound: how often somebody loses power

ASSUME EnrollmentAssumption ==
  /\ IsFiniteSet(DefaultPeers) /\ Cardinality(DefaultPeers) <= MAX_PEERS
  /\ MAX_PEERS \in Nat /\ MaxErasures \in Nat /\ MaxCuts \in Nat

Key == 1 .. (MaxErasures + 1)
NoKey == 0   \* the key of a default peer: all zero
Claim == [mac : Node, key : Key]

VARIABLES
  \* The nodes.
  publicKey,   \* devicePublicKey, in flash since the first start
  enrolled,    \* the enrolled flag in flash
  hasMaster,   \* whether a master MAC is known, in flash
  joining,     \* nodes that have committed the flag and not yet the master's MAC
  \* The master.
  pending,     \* the request that waits for drainPendingEnrollment: no or one claim
  peers,       \* peerMacs: peer -> key, in RAM
  savedPeers,  \* the list in flash
  \* Between them.
  joinAcks,    \* JOIN_ACK frames on the air
  asked,       \* claims the server has been told of, whose approval is not here yet
  \* History.
  approved,    \* nodes whose present key was approved at some time
  settled,     \* nodes whose present key is the last one approved, and whose entry was
               \* not lost with the master's power before it was saved
  erasures, cuts

nodeVars == <<publicKey, enrolled, hasMaster, joining>>
masterVars == <<pending, peers, savedPeers>>
linkVars == <<joinAcks, asked>>
history == <<approved, settled, erasures, cuts>>
vars == <<nodeVars, masterVars, linkVars, history>>

ClaimOf(n) == [mac |-> n, key |-> publicKey[n]]
IsListed(n) == n \in DOMAIN peers
IsFull == Cardinality(DOMAIN peers) >= MAX_PEERS
With(list, c) == [p \in DOMAIN list \union {c.mac} |-> IF p = c.mac THEN c.key ELSE list[p]]

-----------------------------------------------------------------------------
(* Mutants: what the code would be with a plausible bug in it.             *)

\* no fingerprint check
Accepts_AnyKey(c) == TRUE

\* a peer that is in the list already is left as it is
TakenIn_KeepsOldKey(c) == IF IsListed(c.mac) THEN peers ELSE With(peers, c)

\* only a node that was not in the list before is answered
AckFor_NewOnly(c) == IF IsListed(c.mac) THEN {} ELSE {c}

\* the first beacon is only trusted by nodes that are not enrolled
MayLearnMaster_Unenrolled(n) == ~hasMaster[n] /\ ~enrolled[n]

-----------------------------------------------------------------------------
(* The node *)

\* The request that is not lost; processEnrollmentRequest has one slot: a second one
\* before the main loop has relayed the first replaces it.
SendEnrollmentRequest(n) ==
  /\ ~enrolled[n]
  /\ pending' = {ClaimOf(n)}
  /\ UNCHANGED <<nodeVars, peers, savedPeers, linkVars, history>>

\* The fingerprint in the JOIN_ACK is that of the own key.
Accepts(c) == c.key = publicKey[c.mac]

\* The first half: the flag is committed.  Relays may have left copies on the air.
ProcessJoinAck(c) ==
  /\ c \in joinAcks
  /\ joinAcks' \in {joinAcks, joinAcks \ {c}}
  /\ c.mac \notin joining
  /\ IF Accepts(c)
       THEN /\ enrolled' = [enrolled EXCEPT ![c.mac] = TRUE]
            /\ joining' = joining \union {c.mac}
       ELSE UNCHANGED <<enrolled, joining>>
  /\ UNCHANGED <<publicKey, hasMaster, masterVars, asked, history>>

\* The second half: the sender is the master, if none is known.
LearnMasterFromJoinAck(n) ==
  /\ n \in joining
  /\ joining' = joining \ {n}
  /\ hasMaster' = [hasMaster EXCEPT ![n] = TRUE]
  /\ UNCHANGED <<publicKey, enrolled, masterVars, linkVars, history>>

\* processMasterBeacon of a node that knows no master, enrolled or not.
MayLearnMaster(n) == ~hasMaster[n]

LearnMasterFromBeacon(n) ==
  /\ n \notin joining /\ MayLearnMaster(n)
  /\ hasMaster' = [hasMaster EXCEPT ![n] = TRUE]
  /\ UNCHANGED <<publicKey, enrolled, joining, masterVars, linkVars, history>>

-----------------------------------------------------------------------------
(* The master *)

\* drainPendingEnrollment and relayEnrollmentToServer.
DrainPendingEnrollment ==
  /\ pending # {}
  /\ asked' = asked \union pending
  /\ pending' = {}
  /\ UNCHANGED <<nodeVars, peers, savedPeers, joinAcks, history>>

TakenIn(c) == With(peers, c)
AckFor(c) == {c}

\* handleCompleteFrame and enrollPeer, when the server approves what it was asked, in
\* any order and as late as it likes: an approval for a node that no longer fits has
\* no effect; any other is answered, whether the node was known or not.
EnrollPeer(c) ==
  /\ c \in asked
  /\ asked' = asked \ {c}
  /\ IF IsFull /\ ~IsListed(c.mac)
       THEN UNCHANGED <<peers, joinAcks, approved, settled>>
       ELSE /\ peers' = TakenIn(c)
            /\ joinAcks' = joinAcks \union AckFor(c)
            /\ IF c = ClaimOf(c.mac)
                 THEN approved' = approved \union {c.mac} /\ settled' = settled \union {c.mac}
                 ELSE settled' = settled \ {c.mac} /\ UNCHANGED approved
  /\ UNCHANGED <<nodeVars, pending, savedPeers, erasures, cuts>>

\* flushIfDirty, when its interval is over.
FlushIfDirty ==
  /\ savedPeers # peers
  /\ savedPeers' = peers
  /\ UNCHANGED <<nodeVars, pending, peers, linkVars, history>>

\* loadPeersFromEEPROM: an empty list gives the default peers, without a key.
Loaded(list) == IF DOMAIN list = {} THEN [p \in DefaultPeers |-> NoKey] ELSE list

-----------------------------------------------------------------------------
(* What happens to them *)

LoseJoinAck(c) ==
  /\ c \in joinAcks
  /\ joinAcks' = joinAcks \ {c}
  /\ UNCHANGED <<nodeVars, masterVars, asked, history>>

\* Approvals on their way are lost with it.
MasterLosesPower ==
  /\ cuts < MaxCuts /\ cuts' = cuts + 1
  /\ peers' = Loaded(savedPeers)
  /\ pending' = {} /\ asked' \in SUBSET asked
  /\ settled' = {n \in settled : n \in DOMAIN savedPeers /\ savedPeers[n] = publicKey[n]}
  /\ UNCHANGED <<nodeVars, savedPeers, joinAcks, approved, erasures>>

\* Between the two commits; before or after, a restart changes nothing here.
NodeLosesPower(n) ==
  /\ cuts < MaxCuts /\ cuts' = cuts + 1
  /\ n \in joining
  /\ joining' = joining \ {n}
  /\ UNCHANGED <<publicKey, enrolled, hasMaster, masterVars, linkVars, approved, settled, erasures>>

\* clearAll or a reflash, and the restart that makes and commits a new key pair.
Erase(n) ==
  /\ erasures < MaxErasures /\ erasures' = erasures + 1
  /\ publicKey' = [publicKey EXCEPT ![n] = @ + 1]
  /\ enrolled' = [enrolled EXCEPT ![n] = FALSE]
  /\ hasMaster' = [hasMaster EXCEPT ![n] = FALSE]
  /\ joining' = joining \ {n} /\ approved' = approved \ {n} /\ settled' = settled \ {n}
  /\ UNCHANGED <<masterVars, linkVars, cuts>>

-----------------------------------------------------------------------------

Init ==
  /\ publicKey = [n \in Node |-> 1]
  /\ enrolled = [n \in Node |-> FALSE]
  /\ hasMaster = [n \in Node |-> FALSE]
  /\ joining = {}
  /\ pending = {}
  /\ savedPeers = [p \in {} |-> NoKey]
  /\ peers = Loaded(savedPeers)
  /\ joinAcks = {} /\ asked = {}
  /\ approved = {} /\ settled = {}
  /\ erasures = 0 /\ cuts = 0

LearnMaster(n) == LearnMasterFromJoinAck(n) \/ LearnMasterFromBeacon(n)
Mishap ==
  \/ MasterLosesPower
  \/ \E c \in Claim : LoseJoinAck(c)
  \/ \E n \in Node : NodeLosesPower(n) \/ Erase(n)

Next ==
  \/ \E n \in Node : SendEnrollmentRequest(n) \/ LearnMaster(n)
  \/ \E c \in Claim : EnrollPeer(c) \/ ProcessJoinAck(c)
  \/ DrainPendingEnrollment \/ FlushIfDirty
  \/ Mishap

Spec == Init /\ [][Next]_vars

\* What is sent again and again, requests and beacons by their timers and JOIN_ACKs
\* whenever the server approves, arrives at some time; a request is at some time
\* relayed before the next one replaces it; the server approves what it is asked.
FairSpec ==
  /\ Spec
  /\ \A n \in Node :
       /\ WF_vars(SendEnrollmentRequest(n))
       /\ SF_vars(DrainPendingEnrollment /\ ClaimOf(n) \in pending)
       /\ WF_vars(EnrollPeer(ClaimOf(n)))
       /\ SF_vars(ProcessJoinAck(ClaimOf(n)))
       /\ WF_vars(LearnMaster(n))

-----------------------------------------------------------------------------
(* Correctness *)

IsPeerList(list) ==
  /\ IsFiniteSet(DOMAIN list) /\ Cardinality(DOMAIN list) <= MAX_PEERS
  /\ \A p \in DOMAIN list : p \in Node \union DefaultPeers /\ list[p] \in Key \union {NoKey}

\* Every variable has its type: the lists have no more than MAX_PEERS entries, one
\* request is pending at most.
TypeOK ==
  /\ publicKey \in [Node -> Key] /\ enrolled \in [Node -> BOOLEAN] /\ hasMaster \in [Node -> BOOLEAN]
  /\ joining \subseteq Node
  /\ pending \subseteq Claim /\ \A c, d \in pending : c = d
  /\ IsPeerList(peers) /\ IsPeerList(savedPeers)
  /\ joinAcks \subseteq Claim /\ asked \subseteq Claim
  /\ approved \subseteq Node /\ settled \subseteq approved
  /\ erasures \in 0 .. MaxErasures /\ cuts \in 0 .. MaxCuts

\* A node is enrolled only when the key it has now was approved: a JOIN_ACK for the
\* key of its earlier life, however late, does not count (processJoinAck).
EnrolledByApproval == \A n \in Node : enrolled[n] => n \in approved

\* The master has the key of every node it has approved, so that the two can talk,
\* through restarts of the master and new key pairs of the node, with two exceptions: it lost
\* power before the entry was saved (enrollPeer answers first), or the server has
\* last approved another key of that node (enrollPeer, loadPeersFromEEPROM).
MasterKnowsApproved ==
  \A n \in settled : IsListed(n) /\ peers[n] = publicKey[n]

\* Whatever was lost, every node gets enrolled, unless the list is full without it:
\* then it asks for ever and nobody is told (enrollPeer).
EventuallyEnrolled == \A n \in Node : []<>(enrolled[n] \/ (IsFull /\ ~IsListed(n)))

\* A node that lost power between the two commits of processJoinAck still finds its
\* master: it takes the first beacon's.
EnrolledFindsMaster == \A n \in Node : []<>(enrolled[n] => hasMaster[n])
=============================================================================
