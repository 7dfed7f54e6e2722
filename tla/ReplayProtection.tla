-------------------------- MODULE ReplayProtection --------------------------
(***************************************************************************)
(* Duplicate suppression across nodes.  A sender numbers its messages with *)
(* (boot epoch, sequence number): the epoch is read from flash, incremented*)
(* and committed once per boot (Mesh::init), the sequence number restarts  *)
(* with every boot (Mesh::buildMessage).  A receiver remembers the last    *)
(* CacheSize identities in a ring (Mesh::isReplay) and drops a message     *)
(* whose identity it remembers (Mesh::drainRecvQueue).                     *)
(*                                                                         *)
(* Senders lose power at any point, also between reading the epoch and     *)
(* committing the new one; the network delivers a message late, out of     *)
(* order, several times (it arrives over several relays) or never.         *)
(*                                                                         *)
(* A message carries two fields the code does not have, boot and n: which  *)
(* boot of the sender it stems from and how many were sent before it in    *)
(* that boot.  They say which messages are truly the same one.             *)
(***************************************************************************)
EXTENDS Naturals, Sequences, FiniteSets

CONSTANTS
  Sender,         \* nodes that send (MAC addresses)
  NoMac,          \* the all-zero MAC of an unused cache entry
  CacheSize,      \* REPLAY_CACHE_SIZE
  SeqModulus,     \* 2^16: seqNum is a uint16_t
  DevMode,        \* EEPROM writes are skipped
  MaxBoots,       \* bound on the boots of one sender
  MaxSent,        \* bound on the messages sent in one behaviour
  MaxRecorded     \* bound on the messages the receiver records in one boot

ASSUME CacheSizeAssumption == CacheSize \in Nat \ {0}
ASSUME SeqModulusAssumption == SeqModulus \in Nat \ {0}
ASSUME NoMacAssumption == NoMac \notin Sender
ASSUME DevModeAssumption == DevMode \in BOOLEAN
ASSUME BoundAssumption == MaxBoots \in Nat /\ MaxSent \in Nat /\ MaxRecorded \in Nat

PROTO_VERSION == 2

VARIABLES
  \* sender
  flashEpoch,     \* BOOT_EPOCH in flash (0 also stands for erased flash)
  bootEpoch,      \* Mesh::bootEpoch
  txSeqNum,       \* Mesh::txSeqNum
  phase,          \* how far the sender is in Mesh::init
  boots, count,   \* history: boots so far, messages sent in this boot
  sent,           \* history: every message ever sent; the network may deliver any
  \* receiver
  replayCache,    \* 0 .. CacheSize-1 -> identity
  replayCacheIdx, \* slot the next identity goes to
  log,            \* history: messages recorded in the cache since it was cleared
  last            \* history: what became of the message drained last

senderVars == <<flashEpoch, bootEpoch, txSeqNum, phase, boots, count, sent>>
receiverVars == <<replayCache, replayCacheIdx, log, last>>
vars == <<senderVars, receiverVars>>

Identity == [mac : Sender, epoch : Nat, seq : Nat]
ZeroEntry == [mac |-> NoMac, epoch |-> 0, seq |-> 0]
Message == [proto : {0, 1, PROTO_VERSION}, mac : Sender, epoch : Nat, seq : Nat, boot : Nat, n : Nat]
Slots == 0 .. (CacheSize - 1)
Id(m) == [mac |-> m.mac, epoch |-> m.epoch, seq |-> m.seq]

-----------------------------------------------------------------------------
(* Mutants: what the code would be with a plausible bug in it.             *)

SaveBootEpoch_Deferred(s) ==
  /\ phase[s] = "save"
  /\ phase' = [phase EXCEPT ![s] = "run"]
  /\ UNCHANGED <<flashEpoch, bootEpoch, txSeqNum, boots, count, sent, receiverVars>>

Remembered_IgnoreEpoch(m) ==
  \E i \in Slots : replayCache[i].mac = m.mac /\ replayCache[i].seq = m.seq

Record_NoAdvance(m) ==
  /\ replayCache' = [replayCache EXCEPT ![replayCacheIdx] = Id(m)]
  /\ replayCacheIdx' = replayCacheIdx
  /\ log' = Append(log, m)

-----------------------------------------------------------------------------
(* Sender: Mesh::init and Mesh::buildMessage *)

\* bootEpoch = loadBootEpoch() + 1; nothing is persisted yet.
LoadBootEpoch(s) ==
  /\ phase[s] = "load"
  /\ bootEpoch' = [bootEpoch EXCEPT ![s] = flashEpoch[s] + 1]
  /\ phase' = [phase EXCEPT ![s] = "save"]
  /\ UNCHANGED <<flashEpoch, txSeqNum, boots, count, sent, receiverVars>>

\* saveBootEpoch(bootEpoch): written and committed at once, skipped in dev mode;
\* then txSeqNum = 0 and the node goes on to start its radio.
SaveBootEpoch(s) ==
  /\ phase[s] = "save"
  /\ flashEpoch' = IF DevMode THEN flashEpoch ELSE [flashEpoch EXCEPT ![s] = bootEpoch[s]]
  /\ txSeqNum' = [txSeqNum EXCEPT ![s] = 0]
  /\ phase' = [phase EXCEPT ![s] = "run"]
  /\ UNCHANGED <<bootEpoch, boots, count, sent, receiverVars>>

\* buildMessage stamps ++txSeqNum; beacons and adapter data are sent this way.
\* relays keep the stamp of the origin, so they only add copies to the network.
SendStamped(s) ==
  LET seq == (txSeqNum[s] + 1) % SeqModulus IN
  /\ phase[s] = "run"
  /\ Cardinality(sent) < MaxSent
  /\ txSeqNum' = [txSeqNum EXCEPT ![s] = seq]
  /\ count' = [count EXCEPT ![s] = @ + 1]
  /\ sent' = sent \union {[proto |-> PROTO_VERSION, mac |-> s, epoch |-> bootEpoch[s],
                           seq |-> seq, boot |-> boots[s], n |-> count[s]]}
  /\ UNCHANGED <<flashEpoch, bootEpoch, phase, boots, receiverVars>>

\* sendEnrollmentRequest and the JOIN_ACK of enrollPeer start from an all-zero
\* message: no protocol version, no epoch, no sequence number.
SendUnstamped(s) ==
  /\ phase[s] = "run"
  /\ Cardinality(sent) < MaxSent
  /\ sent' = sent \union {[proto |-> 0, mac |-> s, epoch |-> 0, seq |-> 0, boot |-> 0, n |-> 0]}
  /\ UNCHANGED <<flashEpoch, bootEpoch, txSeqNum, phase, boots, count, receiverVars>>

\* Power loss or reset: RAM is gone, the next boot starts from flash.
Restart(s) ==
  /\ boots[s] < MaxBoots
  /\ boots' = [boots EXCEPT ![s] = @ + 1]
  /\ phase' = [phase EXCEPT ![s] = "load"]
  /\ bootEpoch' = [bootEpoch EXCEPT ![s] = 0]
  /\ txSeqNum' = [txSeqNum EXCEPT ![s] = 0]
  /\ count' = [count EXCEPT ![s] = 0]
  /\ UNCHANGED <<flashEpoch, sent, receiverVars>>

-----------------------------------------------------------------------------
(* Receiver: Mesh::drainRecvQueue and Mesh::isReplay *)

\* Only stamped messages of a node that has booted are subject to the check.
IsChecked(m) == m.proto = PROTO_VERSION /\ m.epoch > 0

Remembered(m) == \E i \in Slots : replayCache[i] = Id(m)

Record(m) ==
  /\ replayCache' = [replayCache EXCEPT ![replayCacheIdx] = Id(m)]
  /\ replayCacheIdx' = (replayCacheIdx + 1) % CacheSize
  /\ log' = Append(log, m)

\* protoVersion neither 0 nor PROTO_VERSION: dropped before the replay check.
DropVersion(m) ==
  /\ m.proto \notin {0, PROTO_VERSION}
  /\ last' = [msg |-> ZeroEntry, outcome |-> "version"]
  /\ UNCHANGED <<senderVars, replayCache, replayCacheIdx, log>>

PassUnchecked(m) ==
  /\ m.proto \in {0, PROTO_VERSION}
  /\ ~IsChecked(m)
  /\ last' = [msg |-> ZeroEntry, outcome |-> "pass"]
  /\ UNCHANGED <<senderVars, replayCache, replayCacheIdx, log>>

DropReplay(m) ==
  /\ IsChecked(m)
  /\ Remembered(m)
  /\ last' = [msg |-> m, outcome |-> "replay"]
  /\ UNCHANGED <<senderVars, replayCache, replayCacheIdx, log>>

PassChecked(m) ==
  /\ IsChecked(m)
  /\ ~Remembered(m)
  /\ Len(log) < MaxRecorded
  /\ Record(m)
  /\ last' = [msg |-> ZeroEntry, outcome |-> "pass"]
  /\ UNCHANGED senderVars

\* The receiver restarts: constructor and init() clear the cache.
RestartReceiver ==
  /\ replayCache' = [i \in Slots |-> ZeroEntry]
  /\ replayCacheIdx' = 0
  /\ log' = <<>>
  /\ last' = [msg |-> ZeroEntry, outcome |-> "none"]
  /\ UNCHANGED senderVars

\* A frame of a node that runs firmware of another protocol version.
ForeignFrames ==
  {[proto |-> 1, mac |-> s, epoch |-> 1, seq |-> 1, boot |-> 0, n |-> 0] : s \in Sender}

-----------------------------------------------------------------------------

Init ==
  /\ flashEpoch = [s \in Sender |-> 0]
  /\ bootEpoch = [s \in Sender |-> 0]
  /\ txSeqNum = [s \in Sender |-> 0]
  /\ phase = [s \in Sender |-> "load"]
  /\ boots = [s \in Sender |-> 1]
  /\ count = [s \in Sender |-> 0]
  /\ sent = {}
  /\ replayCache = [i \in Slots |-> ZeroEntry]
  /\ replayCacheIdx = 0
  /\ log = <<>>
  /\ last = [msg |-> ZeroEntry, outcome |-> "none"]

SenderStep(s) ==
  LoadBootEpoch(s) \/ SaveBootEpoch(s) \/ SendStamped(s) \/ SendUnstamped(s) \/ Restart(s)

Drain(m) == DropVersion(m) \/ PassUnchecked(m) \/ DropReplay(m) \/ PassChecked(m)

Next ==
  \/ \E s \in Sender : SenderStep(s)
  \/ \E m \in sent \union ForeignFrames : Drain(m)
  \/ RestartReceiver

Spec == Init /\ [][Next]_vars

-----------------------------------------------------------------------------
(* Correctness *)

\* Every variable has its type.
TypeOK ==
  /\ flashEpoch \in [Sender -> Nat]
  /\ bootEpoch \in [Sender -> Nat]
  /\ txSeqNum \in [Sender -> Nat]
  /\ phase \in [Sender -> {"load", "save", "run"}]
  /\ boots \in [Sender -> Nat]
  /\ count \in [Sender -> Nat]
  /\ sent \subseteq Message
  /\ replayCache \in [Slots -> Identity \union {ZeroEntry}]
  /\ replayCacheIdx \in Slots
  /\ log \in Seq(Message)
  /\ last.outcome \in {"none", "version", "pass", "replay"}

\* isReplay lets the same identity through twice only when at least CacheSize
\* other messages were recorded in between: the cache is a full window of the
\* last CacheSize messages, however the ring has wrapped.
AtMostOncePerWindow ==
  \A i, j \in 1 .. Len(log) :
    (i < j /\ Id(log[i]) = Id(log[j])) => j - i > CacheSize

\* epochNum is what the README says it is, the boot count of the origin: two
\* messages of one node that carry the same epoch were sent in the same boot,
\* wherever the power failed around saveBootEpoch.
EpochNamesBoot ==
  \A m1, m2 \in sent :
    (IsChecked(m1) /\ IsChecked(m2) /\ m1.mac = m2.mac /\ m1.epoch = m2.epoch) => m1.boot = m2.boot

\* drainRecvQueue drops a message as a replay only when it really handled that
\* transmission before: never because the sender was restarted and began to
\* count again, and never because of an unused entry of the cache.  The one
\* exception is a sequence number that has gone all the way round.
NoFalseReplay ==
  last.outcome = "replay" =>
    \E i \in 1 .. Len(log) :
      /\ log[i].mac = last.msg.mac
      /\ log[i].boot = last.msg.boot
      /\ \/ log[i].n = last.msg.n
         \/ log[i].n + SeqModulus <= last.msg.n
         \/ last.msg.n + SeqModulus <= log[i].n

-----------------------------------------------------------------------------
(* Inductive invariants *)

\* The ring holds exactly the identities of the last CacheSize recorded messages:
\* the k-th one recorded since the last restart is in slot k % CacheSize until
\* CacheSize others have been recorded after it.
CacheWindow ==
  /\ replayCacheIdx = Len(log) % CacheSize
  /\ \A k \in 0 .. (Len(log) - 1) :
       Len(log) <= k + CacheSize => replayCache[k % CacheSize] = Id(log[k + 1])

\* Nothing else is ever in the ring.
CacheFromLog ==
  /\ \A i \in Slots : \/ replayCache[i] = ZeroEntry
                      \/ \E k \in 1 .. Len(log) : replayCache[i] = Id(log[k])
  /\ \A k \in 1 .. Len(log) : log[k] \in sent /\ IsChecked(log[k])

\* In production mode no message carries an epoch that is not in flash, the node
\* sends only when its own epoch is in flash, and messages that carry the current
\* epoch are those of the current boot.
EpochsPersisted ==
  /\ \A s \in Sender :
       /\ phase[s] = "save" => bootEpoch[s] = flashEpoch[s] + 1
       /\ phase[s] = "run" => bootEpoch[s] = flashEpoch[s] /\ bootEpoch[s] > 0
       /\ phase[s] # "run" => count[s] = 0
       /\ txSeqNum[s] = count[s] % SeqModulus
  /\ \A m \in sent : IsChecked(m) =>
       /\ m.epoch <= flashEpoch[m.mac]
       /\ m.seq = (m.n + 1) % SeqModulus
       /\ (phase[m.mac] = "run" /\ m.epoch = bootEpoch[m.mac]) => m.boot = boots[m.mac]

\* The three together, with the types: what every step preserves.
IndInv == TypeOK /\ CacheWindow /\ CacheFromLog /\ EpochsPersisted /\ EpochNamesBoot
=============================================================================
