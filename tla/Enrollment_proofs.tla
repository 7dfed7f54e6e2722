------------------------- MODULE Enrollment_proofs -------------------------
(***************************************************************************)
(* Only approved keys get enrolled, and the master keeps the keys it       *)
(* settled on: for any number of nodes, any size of the peer list, any     *)
(* number of erasures and power losses.                                    *)
(***************************************************************************)
EXTENDS Enrollment, FiniteSetTheorems, TLAPS

\* Nobody knows a key that its node has not made yet.
NoKeyFromTheFuture ==
  \A c \in pending \union asked \union joinAcks : c.key <= publicKey[c.mac]

\* A JOIN_ACK that its node would accept was sent because its key was approved.
AcksAreApproved == \A c \in joinAcks : Accepts(c) => c.mac \in approved

\* A node makes a key whenever it is erased.
KeysAreCounted == \A n \in Node : publicKey[n] <= erasures + 1

EnrollInv ==
  /\ TypeOK /\ KeysAreCounted
  /\ NoKeyFromTheFuture /\ AcksAreApproved
  /\ EnrolledByApproval /\ MasterKnowsApproved

LEMMA Constants ==
  /\ IsFiniteSet(DefaultPeers) /\ Cardinality(DefaultPeers) <= MAX_PEERS
  /\ MAX_PEERS \in Nat /\ MaxErasures \in Nat /\ MaxCuts \in Nat
BY EnrollmentAssumption

\* The list the master starts with, or loads, is one.
LEMMA LoadedIsPeerList ==
  ASSUME NEW list, IsPeerList(list)
  PROVE  IsPeerList(Loaded(list))
<1>1. CASE DOMAIN list = {}
  <2>1. Loaded(list) = [p \in DefaultPeers |-> NoKey]
    BY <1>1 DEF Loaded
  <2> QED BY <2>1, Constants DEF IsPeerList
<1>2. CASE DOMAIN list # {}
  BY <1>2 DEF Loaded
<1> QED BY <1>1, <1>2

\* Taking a node in keeps it one, if there is room or the node is listed.
LEMMA WithIsPeerList ==
  ASSUME NEW list, IsPeerList(list), NEW c \in Claim,
         c.mac \in DOMAIN list \/ Cardinality(DOMAIN list) < MAX_PEERS
  PROVE  /\ IsPeerList(With(list, c))
         /\ DOMAIN With(list, c) = DOMAIN list \union {c.mac}
         /\ With(list, c)[c.mac] = c.key
         /\ \A p \in DOMAIN list \ {c.mac} : With(list, c)[p] = list[p]
<1> DEFINE dom == DOMAIN list \union {c.mac}
<1>1. /\ DOMAIN With(list, c) = dom
      /\ \A p \in dom : With(list, c)[p] = IF p = c.mac THEN c.key ELSE list[p]
  BY DEF With
<1>2. c.mac \in Node /\ c.key \in Key
  BY DEF Claim
<1>3. IsFiniteSet(DOMAIN list) /\ Cardinality(DOMAIN list) \in Nat /\ Cardinality(DOMAIN list) <= MAX_PEERS
  BY FS_CardinalityType DEF IsPeerList
<1>4. IsFiniteSet(dom) /\ Cardinality(dom) <= MAX_PEERS
  <2>1. CASE c.mac \in DOMAIN list
    <3>1. dom = DOMAIN list
      BY <2>1
    <3> QED BY <1>3, <3>1
  <2>2. CASE c.mac \notin DOMAIN list
    <3>1. IsFiniteSet(dom) /\ Cardinality(dom) = Cardinality(DOMAIN list) + 1
      BY <1>3, <2>2, FS_AddElement
    <3> QED BY <1>3, <2>2, <3>1, Constants
  <2> QED BY <2>1, <2>2
<1>5. \A p \in dom : p \in Node \union DefaultPeers /\ With(list, c)[p] \in Key \union {NoKey}
  BY <1>1, <1>2 DEF IsPeerList
<1> QED BY <1>1, <1>4, <1>5 DEF IsPeerList

LEMMA ClaimOfType == ASSUME TypeOK, NEW n \in Node PROVE ClaimOf(n) \in Claim
BY DEF TypeOK, ClaimOf, Claim

LEMMA InitEnrollInv == Init => EnrollInv
<1> SUFFICES ASSUME Init PROVE EnrollInv
  OBVIOUS
<1> USE Constants
<1>1. IsPeerList(savedPeers)
  <2>1. savedPeers = [p \in {} |-> NoKey]
    BY DEF Init
  <2>2. DOMAIN savedPeers = {}
    BY <2>1
  <2> QED BY <2>2, FS_EmptySet DEF IsPeerList
<1>2. IsPeerList(peers)
  BY <1>1, LoadedIsPeerList DEF Init
<1>3. publicKey \in [Node -> Key]
  BY DEF Init, Key
<1>4. enrolled \in [Node -> BOOLEAN] /\ hasMaster \in [Node -> BOOLEAN]
  BY DEF Init
<1>5. TypeOK
  BY <1>1, <1>2, <1>3, <1>4 DEF Init, TypeOK
<1> QED BY <1>5 DEF Init, EnrollInv, KeysAreCounted, NoKeyFromTheFuture, AcksAreApproved, EnrolledByApproval, MasterKnowsApproved

-----------------------------------------------------------------------------
(* The node's steps *)

LEMMA NodeStep ==
  ASSUME EnrollInv,
         \/ \E n \in Node : SendEnrollmentRequest(n) \/ LearnMaster(n)
         \/ \E c \in Claim : ProcessJoinAck(c)
  PROVE  EnrollInv'
<1>1. ASSUME NEW n \in Node, SendEnrollmentRequest(n) PROVE EnrollInv'
  <2>1. /\ pending' = {ClaimOf(n)}
        /\ UNCHANGED <<nodeVars, peers, savedPeers, linkVars, history>>
    BY <1>1 DEF SendEnrollmentRequest
  <2>2. ClaimOf(n) \in Claim /\ ClaimOf(n).key <= publicKey[ClaimOf(n).mac]
    BY ClaimOfType DEF EnrollInv, ClaimOf, TypeOK, Key
  <2>3. TypeOK'
    BY <2>1, <2>2 DEF EnrollInv, TypeOK, nodeVars, linkVars, history, IsPeerList
  <2>4. NoKeyFromTheFuture'
    BY <2>1, <2>2 DEF EnrollInv, NoKeyFromTheFuture, nodeVars, linkVars
  <2> QED BY <2>1, <2>3, <2>4
    DEF EnrollInv, KeysAreCounted, AcksAreApproved, Accepts, EnrolledByApproval, MasterKnowsApproved,
        IsListed, nodeVars, linkVars, history
<1>2. ASSUME NEW n \in Node, LearnMaster(n) PROVE EnrollInv'
  <2>1. /\ hasMaster' = [hasMaster EXCEPT ![n] = TRUE] /\ (joining' = joining \/ joining' = joining \ {n})
        /\ UNCHANGED <<publicKey, enrolled, masterVars, linkVars, history>>
    BY <1>2 DEF LearnMaster, LearnMasterFromJoinAck, LearnMasterFromBeacon
  <2>2. hasMaster' \in [Node -> BOOLEAN]
    BY <2>1 DEF EnrollInv, TypeOK
  <2>3. TypeOK'
    BY <2>1, <2>2 DEF EnrollInv, TypeOK, masterVars, linkVars, history, IsPeerList
  <2> QED BY <2>1, <2>3
    DEF EnrollInv, KeysAreCounted, NoKeyFromTheFuture, AcksAreApproved, Accepts, EnrolledByApproval,
        MasterKnowsApproved, IsListed, masterVars, linkVars, history
<1>3. ASSUME NEW c \in Claim, ProcessJoinAck(c) PROVE EnrollInv'
  <2>1. /\ c \in joinAcks /\ joinAcks' \subseteq joinAcks
        /\ UNCHANGED <<publicKey, hasMaster, masterVars, asked, history>>
    BY <1>3 DEF ProcessJoinAck
  <2>2. \/ enrolled' = enrolled /\ joining' = joining
        \/ /\ Accepts(c) /\ enrolled' = [enrolled EXCEPT ![c.mac] = TRUE]
           /\ joining' = joining \union {c.mac}
    BY <1>3 DEF ProcessJoinAck
  <2>3. c.mac \in Node /\ enrolled \in [Node -> BOOLEAN]
    BY DEF Claim, EnrollInv, TypeOK
  <2>4. enrolled' \in [Node -> BOOLEAN] /\ joining' \subseteq Node
    BY <2>2, <2>3 DEF EnrollInv, TypeOK
  <2>5. TypeOK'
    BY <2>1, <2>4 DEF EnrollInv, TypeOK, masterVars, history, IsPeerList
  <2>6. EnrolledByApproval'
    BY <2>1, <2>2, <2>3 DEF EnrollInv, EnrolledByApproval, AcksAreApproved, history
  <2> QED BY <2>1, <2>5, <2>6
    DEF EnrollInv, KeysAreCounted, NoKeyFromTheFuture, AcksAreApproved, Accepts, MasterKnowsApproved,
        IsListed, masterVars, history
<1> QED BY <1>1, <1>2, <1>3

-----------------------------------------------------------------------------
(* The master's steps *)

\* An approval: the entry it makes is the one that settles the node, and the
\* JOIN_ACK it sends is accepted only if the key is the one that was approved.
LEMMA EnrollPeerStep ==
  ASSUME EnrollInv, NEW c \in Claim, EnrollPeer(c)
  PROVE  EnrollInv'
<1> USE Constants
<1>1. /\ c \in asked /\ asked' = asked \ {c}
      /\ UNCHANGED <<nodeVars, pending, savedPeers, erasures, cuts>>
  BY DEF EnrollPeer
<1>2. c.mac \in Node /\ c.key \in Key /\ IsPeerList(peers) /\ settled \subseteq approved /\ approved \subseteq Node
  BY DEF EnrollInv, TypeOK, Claim
<1>3. c = ClaimOf(c.mac) <=> c.key = publicKey[c.mac]
  BY DEF Claim, ClaimOf
<1>4. CASE IsFull /\ ~IsListed(c.mac)
  <2>1. UNCHANGED <<peers, joinAcks, approved, settled>>
    BY <1>4 DEF EnrollPeer
  <2>2. TypeOK'
    BY <1>1, <2>1 DEF EnrollInv, TypeOK, nodeVars, IsPeerList
  <2> QED BY <1>1, <2>1, <2>2
    DEF EnrollInv, KeysAreCounted, NoKeyFromTheFuture, AcksAreApproved, Accepts, EnrolledByApproval,
        MasterKnowsApproved, IsListed, nodeVars
<1>5. CASE ~(IsFull /\ ~IsListed(c.mac))
  <2>1. /\ peers' = With(peers, c) /\ joinAcks' = joinAcks \union {c}
        /\ \/ c = ClaimOf(c.mac) /\ approved' = approved \union {c.mac} /\ settled' = settled \union {c.mac}
           \/ c # ClaimOf(c.mac) /\ approved' = approved /\ settled' = settled \ {c.mac}
    BY <1>5 DEF EnrollPeer, TakenIn, AckFor
  <2>2. c.mac \in DOMAIN peers \/ Cardinality(DOMAIN peers) < MAX_PEERS
    <3>1. Cardinality(DOMAIN peers) \in Nat
      BY <1>2, FS_CardinalityType DEF IsPeerList
    <3> QED BY <1>5, <3>1 DEF IsFull, IsListed
  <2>3. /\ IsPeerList(peers') /\ DOMAIN peers' = DOMAIN peers \union {c.mac}
        /\ peers'[c.mac] = c.key /\ \A p \in DOMAIN peers \ {c.mac} : peers'[p] = peers[p]
    BY <1>2, <2>1, <2>2, WithIsPeerList
  <2>4. TypeOK'
    BY <1>1, <1>2, <2>1, <2>3 DEF EnrollInv, TypeOK, nodeVars, IsPeerList
  <2>5. NoKeyFromTheFuture'
    BY <1>1, <2>1 DEF EnrollInv, NoKeyFromTheFuture, nodeVars
  <2>6. AcksAreApproved' /\ approved \subseteq approved'
    BY <1>1, <1>3, <2>1 DEF EnrollInv, AcksAreApproved, Accepts, nodeVars
  <2>7. EnrolledByApproval'
    BY <1>1, <2>6 DEF EnrollInv, EnrolledByApproval, nodeVars
  <2>8. MasterKnowsApproved'
    <3>1. ASSUME NEW n \in settled' PROVE IsListed(n)' /\ peers'[n] = publicKey[n]
      <4>1. CASE n = c.mac
        BY <1>3, <2>1, <2>3, <3>1, <4>1 DEF IsListed
      <4>2. CASE n # c.mac
        <5>1. n \in settled
          BY <2>1, <3>1, <4>2
        <5>2. n \in DOMAIN peers /\ peers[n] = publicKey[n]
          BY <5>1 DEF EnrollInv, MasterKnowsApproved, IsListed
        <5> QED BY <2>3, <4>2, <5>2 DEF IsListed
      <4> QED BY <4>1, <4>2
    <3> QED BY <1>1, <3>1 DEF MasterKnowsApproved, nodeVars
  <2> QED BY <1>1, <2>4, <2>5, <2>6, <2>7, <2>8 DEF EnrollInv, KeysAreCounted, nodeVars
<1> QED BY <1>4, <1>5

LEMMA MasterStep ==
  ASSUME EnrollInv, DrainPendingEnrollment \/ FlushIfDirty \/ UNCHANGED vars
  PROVE  EnrollInv'
<1>1. CASE DrainPendingEnrollment
  <2>1. /\ asked' = asked \union pending /\ pending' = {}
        /\ UNCHANGED <<nodeVars, peers, savedPeers, joinAcks, history>>
    BY <1>1 DEF DrainPendingEnrollment
  <2>2. TypeOK'
    BY <2>1 DEF EnrollInv, TypeOK, nodeVars, history, IsPeerList
  <2> QED BY <2>1, <2>2
    DEF EnrollInv, KeysAreCounted, NoKeyFromTheFuture, AcksAreApproved, Accepts, EnrolledByApproval,
        MasterKnowsApproved, IsListed, nodeVars, history
<1>2. CASE FlushIfDirty
  <2>1. savedPeers' = peers /\ UNCHANGED <<nodeVars, pending, peers, linkVars, history>>
    BY <1>2 DEF FlushIfDirty
  <2>2. TypeOK'
    BY <2>1 DEF EnrollInv, TypeOK, nodeVars, linkVars, history, IsPeerList
  <2> QED BY <2>1, <2>2
    DEF EnrollInv, KeysAreCounted, NoKeyFromTheFuture, AcksAreApproved, Accepts, EnrolledByApproval,
        MasterKnowsApproved, IsListed, nodeVars, linkVars, history
<1>3. CASE UNCHANGED vars
  <2>1. TypeOK'
    BY <1>3 DEF EnrollInv, TypeOK, vars, nodeVars, masterVars, linkVars, history, IsPeerList
  <2> QED BY <1>3, <2>1
    DEF EnrollInv, KeysAreCounted, NoKeyFromTheFuture, AcksAreApproved, Accepts, EnrolledByApproval,
        MasterKnowsApproved, IsListed, vars, nodeVars, masterVars, linkVars, history
<1> QED BY <1>1, <1>2, <1>3

-----------------------------------------------------------------------------
(* Mishaps *)

LEMMA MishapStep == ASSUME EnrollInv, Mishap PROVE EnrollInv'
<1> USE Constants
<1>1. CASE MasterLosesPower
  <2>1. /\ cuts < MaxCuts /\ cuts' = cuts + 1 /\ peers' = Loaded(savedPeers)
        /\ pending' = {} /\ asked' \subseteq asked
        /\ settled' = {n \in settled : n \in DOMAIN savedPeers /\ savedPeers[n] = publicKey[n]}
        /\ UNCHANGED <<nodeVars, savedPeers, joinAcks, approved, erasures>>
    BY <1>1 DEF MasterLosesPower
  <2>2. IsPeerList(savedPeers) /\ IsPeerList(peers')
    BY <2>1, LoadedIsPeerList DEF EnrollInv, TypeOK
  <2>3. TypeOK'
    BY <2>1, <2>2 DEF EnrollInv, TypeOK, nodeVars, IsPeerList
  <2>4. MasterKnowsApproved'
    <3>1. ASSUME NEW n \in settled' PROVE IsListed(n)' /\ peers'[n] = publicKey[n]
      <4>1. n \in DOMAIN savedPeers /\ savedPeers[n] = publicKey[n]
        BY <2>1, <3>1
      <4>2. peers' = savedPeers
        BY <2>1, <4>1 DEF Loaded
      <4> QED BY <4>1, <4>2 DEF IsListed
    <3> QED BY <2>1, <3>1 DEF MasterKnowsApproved, nodeVars
  <2> QED BY <2>1, <2>3, <2>4
    DEF EnrollInv, KeysAreCounted, NoKeyFromTheFuture, AcksAreApproved, Accepts, EnrolledByApproval, nodeVars
<1>2. ASSUME NEW c \in Claim, LoseJoinAck(c) PROVE EnrollInv'
  <2>1. joinAcks' = joinAcks \ {c} /\ UNCHANGED <<nodeVars, masterVars, asked, history>>
    BY <1>2 DEF LoseJoinAck
  <2>2. TypeOK'
    BY <2>1 DEF EnrollInv, TypeOK, nodeVars, masterVars, history, IsPeerList
  <2> QED BY <2>1, <2>2
    DEF EnrollInv, KeysAreCounted, NoKeyFromTheFuture, AcksAreApproved, Accepts, EnrolledByApproval,
        MasterKnowsApproved, IsListed, nodeVars, masterVars, history
<1>3. ASSUME NEW n \in Node, NodeLosesPower(n) PROVE EnrollInv'
  <2>1. /\ cuts < MaxCuts /\ cuts' = cuts + 1 /\ joining' = joining \ {n}
        /\ UNCHANGED <<publicKey, enrolled, hasMaster, masterVars, linkVars, approved, settled, erasures>>
    BY <1>3 DEF NodeLosesPower
  <2>2. TypeOK'
    BY <2>1 DEF EnrollInv, TypeOK, masterVars, linkVars, IsPeerList
  <2> QED BY <2>1, <2>2
    DEF EnrollInv, KeysAreCounted, NoKeyFromTheFuture, AcksAreApproved, Accepts, EnrolledByApproval,
        MasterKnowsApproved, IsListed, masterVars, linkVars
<1>4. ASSUME NEW n \in Node, Erase(n) PROVE EnrollInv'
  <2>1. /\ erasures < MaxErasures /\ erasures' = erasures + 1
        /\ publicKey' = [publicKey EXCEPT ![n] = publicKey[n] + 1]
        /\ enrolled' = [enrolled EXCEPT ![n] = FALSE] /\ hasMaster' = [hasMaster EXCEPT ![n] = FALSE]
        /\ joining' = joining \ {n} /\ approved' = approved \ {n} /\ settled' = settled \ {n}
        /\ UNCHANGED <<masterVars, linkVars, cuts>>
    BY <1>4 DEF Erase
  <2>2. publicKey \in [Node -> Key] /\ enrolled \in [Node -> BOOLEAN] /\ hasMaster \in [Node -> BOOLEAN]
        /\ erasures \in 0 .. MaxErasures /\ \A k \in Node : publicKey[k] <= erasures + 1
    BY DEF EnrollInv, TypeOK, KeysAreCounted
  <2>3. publicKey[n] + 1 \in Key
    BY <2>1, <2>2 DEF Key
  <2>4. publicKey' \in [Node -> Key] /\ KeysAreCounted'
    BY <2>1, <2>2, <2>3 DEF Key, KeysAreCounted
  <2>5. enrolled' \in [Node -> BOOLEAN] /\ hasMaster' \in [Node -> BOOLEAN]
    BY <2>1, <2>2
  <2>6. TypeOK'
    BY <2>1, <2>2, <2>4, <2>5 DEF EnrollInv, TypeOK, masterVars, linkVars, IsPeerList
  <2>7. \A k \in Node : publicKey[k] \in Nat /\ publicKey[k] <= publicKey'[k] /\ (k # n => publicKey'[k] = publicKey[k])
    BY <2>1, <2>2 DEF Key
  <2>8. ASSUME NEW c \in pending \union asked \union joinAcks
        PROVE  c.mac \in Node /\ c.key \in Nat /\ c.key <= publicKey[c.mac]
    <3>1. c \in Claim
      BY <2>8 DEF EnrollInv, TypeOK
    <3> QED BY <2>8, <3>1 DEF EnrollInv, NoKeyFromTheFuture, Claim, Key
  <2>9. NoKeyFromTheFuture'
    <3>1. ASSUME NEW c \in pending \union asked \union joinAcks PROVE c.key <= publicKey'[c.mac]
      <4>1. c.mac \in Node /\ c.key \in Nat /\ c.key <= publicKey[c.mac]
        BY <2>8
      <4>2. publicKey'[c.mac] \in Nat /\ publicKey[c.mac] \in Nat /\ publicKey[c.mac] <= publicKey'[c.mac]
        BY <2>4, <2>7, <4>1 DEF Key
      <4> QED BY <4>1, <4>2
    <3> QED BY <2>1, <3>1 DEF NoKeyFromTheFuture, masterVars, linkVars
  <2>10. AcksAreApproved'
    <3>1. ASSUME NEW c \in joinAcks, c.key = publicKey'[c.mac] PROVE c.mac \in approved'
      <4>1. c.mac \in Node /\ c.key \in Nat /\ c.key <= publicKey[c.mac]
        BY <2>8
      <4>2. c.mac # n
        <5>1. publicKey'[n] = publicKey[n] + 1
          BY <2>1, <2>2
        <5> QED BY <2>7, <3>1, <4>1, <5>1
      <4>3. c.key = publicKey[c.mac]
        BY <2>7, <3>1, <4>1, <4>2
      <4> QED BY <2>1, <4>2, <4>3 DEF EnrollInv, AcksAreApproved, Accepts
    <3> QED BY <2>1, <3>1 DEF AcksAreApproved, Accepts, linkVars
  <2>11. EnrolledByApproval'
    BY <2>1, <2>2 DEF EnrollInv, EnrolledByApproval
  <2>12. MasterKnowsApproved'
    <3>1. settled \subseteq Node
      BY DEF EnrollInv, TypeOK
    <3> QED BY <2>1, <2>7, <3>1 DEF EnrollInv, MasterKnowsApproved, IsListed, masterVars
  <2> QED BY <2>4, <2>6, <2>9, <2>10, <2>11, <2>12 DEF EnrollInv
<1> QED BY <1>1, <1>2, <1>3, <1>4 DEF Mishap

LEMMA StepEnrollInv == EnrollInv /\ [Next]_vars => EnrollInv'
<1> SUFFICES ASSUME EnrollInv, [Next]_vars PROVE EnrollInv'
  OBVIOUS
<1>1. CASE \/ \E n \in Node : SendEnrollmentRequest(n) \/ LearnMaster(n)
           \/ \E c \in Claim : ProcessJoinAck(c)
  BY <1>1, NodeStep
<1>2. ASSUME NEW c \in Claim, EnrollPeer(c) PROVE EnrollInv'
  BY <1>2, EnrollPeerStep
<1>3. CASE DrainPendingEnrollment \/ FlushIfDirty \/ UNCHANGED vars
  BY <1>3, MasterStep
<1>4. CASE Mishap
  BY <1>4, MishapStep
<1> QED BY <1>1, <1>2, <1>3, <1>4 DEF Next

-----------------------------------------------------------------------------

\* Keys, approvals and both sides' lists fit together in every reachable state.
THEOREM EnrollmentInvariant == Spec => []EnrollInv
<1> QED BY InitEnrollInv, StepEnrollInv, PTL DEF Spec

\* A late JOIN_ACK for an earlier key of a node never enrolls it (processJoinAck).
THEOREM OnlyApprovedKeysEnroll == Spec => []EnrolledByApproval
<1>1. EnrollInv => EnrolledByApproval
  BY DEF EnrollInv
<1> QED BY <1>1, EnrollmentInvariant, PTL

\* The master has the key of every node that is settled, through full lists, restarts
\* and erasures (enrollPeer, savePeerList, loadPeersFromEEPROM).
THEOREM SettledNodesAreKnown == Spec => []MasterKnowsApproved
<1>1. EnrollInv => MasterKnowsApproved
  BY DEF EnrollInv
<1> QED BY <1>1, EnrollmentInvariant, PTL
=============================================================================
