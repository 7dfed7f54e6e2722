----------------------- MODULE ReplayProtection_proofs -----------------------
(***************************************************************************)
(* Duplicate suppression is correct for every set of senders, every size   *)
(* of the cache and every width of the sequence number, with any number of *)
(* restarts of senders and receiver.                                       *)
(***************************************************************************)
EXTENDS ReplayProtection, Integers, TLAPS

-----------------------------------------------------------------------------
(* Remainders: slots of the cache, and sequence numbers that wrap *)

\* A remainder is a legal index of a ring of n slots.
LEMMA ModType ==
  ASSUME NEW n \in Nat \ {0}, NEW a \in Nat
  PROVE  a % n \in 0 .. (n - 1)
OBVIOUS

\* The division equation.
LEMMA ModDef ==
  ASSUME NEW n \in Nat \ {0}, NEW a \in Nat
  PROVE  a = n * (a \div n) + (a % n) /\ (a \div n) \in Nat
OBVIOUS

\* Multiples of n are at least n apart.
LEMMA MulLess ==
  ASSUME NEW n \in Nat \ {0}, NEW x \in Nat, NEW y \in Nat, x < y
  PROVE  n * x + n <= n * y
<1> DEFINE d == y - x
<1>1. d \in Nat /\ d >= 1 /\ y = x + d
  OBVIOUS
<1>2. n * y = n * x + n * d
  BY <1>1
<1> HIDE DEF d
<1>3. n * d >= n
  BY <1>1
<1> QED BY <1>1, <1>2, <1>3

\* A number between two multiples of n has one remainder only.
LEMMA ModUnique ==
  ASSUME NEW n \in Nat \ {0}, NEW x \in Nat, NEW r \in 0 .. (n - 1)
  PROVE  (n * x + r) % n = r
<1> DEFINE a == n * x + r
           y == a \div n
           s == a % n
<1>0. a \in Nat
  OBVIOUS
<1>1. a = n * y + s /\ y \in Nat /\ s \in 0 .. (n - 1)
  BY <1>0, ModDef, ModType
<1>2. CASE x < y
  <2>1. n * x + n <= n * y
    BY <1>1, <1>2, MulLess
  <2> QED BY <1>1, <2>1
<1>3. CASE y < x
  <2>1. n * y + n <= n * x
    BY <1>1, <1>3, MulLess
  <2> QED BY <1>1, <2>1
<1>4. CASE x = y
  BY <1>1, <1>4
<1> QED BY <1>1, <1>2, <1>3, <1>4

\* Fewer than n consecutive numbers occupy different slots of the ring.
LEMMA ModDistinct ==
  ASSUME NEW n \in Nat \ {0}, NEW a \in Nat, NEW b \in Nat, a < b, b < a + n
  PROVE  a % n # b % n
<1> DEFINE x == a \div n
           y == b \div n
<1>1. a = n * x + (a % n) /\ x \in Nat /\ a % n \in 0 .. (n - 1)
  BY ModDef, ModType
<1>2. b = n * y + (b % n) /\ y \in Nat /\ b % n \in 0 .. (n - 1)
  BY ModDef, ModType
<1>3. SUFFICES ASSUME a % n = b % n PROVE FALSE
  OBVIOUS
<1> HIDE DEF x, y
<1>4. n * x < n * y /\ n * y < n * x + n
  BY <1>1, <1>2, <1>3
<1>5. ~ (x < y)
  BY <1>1, <1>2, <1>4, MulLess
<1>6. ~ (y < x)
  BY <1>1, <1>2, <1>4, MulLess
<1> QED BY <1>1, <1>2, <1>4, <1>5, <1>6

\* Advancing an index modulo n is advancing the number it stands for.
LEMMA ModSucc ==
  ASSUME NEW n \in Nat \ {0}, NEW a \in Nat
  PROVE  ((a % n) + 1) % n = (a + 1) % n
<1> DEFINE x == a \div n
           r == a % n
<1>1. a = n * x + r /\ x \in Nat /\ r \in 0 .. (n - 1)
  BY ModDef, ModType
<1> HIDE DEF x, r
<1>2. SUFFICES (r + 1) % n = (a + 1) % n
  BY DEF r
<1>3. CASE r + 1 < n
  <2>1. (n * x + (r + 1)) % n = r + 1
    BY <1>1, <1>3, ModUnique
  <2>2. (n * 0 + (r + 1)) % n = r + 1
    BY <1>1, <1>3, ModUnique
  <2>3. a + 1 = n * x + (r + 1) /\ r + 1 = n * 0 + (r + 1)
    BY <1>1
  <2> QED BY <2>1, <2>2, <2>3
<1>4. CASE r + 1 = n
  <2>1. (n * (x + 1) + 0) % n = 0
    BY <1>1, <1>4, ModUnique
  <2>2. (n * 1 + 0) % n = 0
    BY <1>1, <1>4, ModUnique
  <2>3. n * (x + 1) = n * x + n
    BY <1>1
  <2>4. a + 1 = n * (x + 1) + 0
    BY <1>1, <1>4, <2>3
  <2>5. r + 1 = n * 1 + 0
    BY <1>1, <1>4
  <2> QED BY <2>1, <2>2, <2>4, <2>5
<1> QED BY <1>1, <1>3, <1>4

-----------------------------------------------------------------------------
(* The cache and the sequence numbers *)

\* The slot of the k-th recorded message.
LEMMA SlotInRange ==
  ASSUME NEW k \in Nat PROVE k % CacheSize \in Slots
BY CacheSizeAssumption, ModType DEF Slots

\* Messages recorded fewer than CacheSize apart do not share a slot.
LEMMA SlotsDiffer ==
  ASSUME NEW j \in Nat, NEW k \in Nat, j < k, k < j + CacheSize
  PROVE  j % CacheSize # k % CacheSize
BY CacheSizeAssumption, ModDistinct

\* Equal sequence numbers mean equal counts, or a counter that has gone round.
LEMMA SameSeqNum ==
  ASSUME NEW a \in Nat, NEW b \in Nat, (a + 1) % SeqModulus = (b + 1) % SeqModulus
  PROVE  a = b \/ a + SeqModulus <= b \/ b + SeqModulus <= a
<1> DEFINE x == a + 1
           y == b + 1
<1>1. x \in Nat /\ y \in Nat /\ x % SeqModulus = y % SeqModulus
  OBVIOUS
<1>2. a < b <=> x < y
  OBVIOUS
<1>3. b < a + SeqModulus <=> y < x + SeqModulus
  BY SeqModulusAssumption
<1>4. a < b + SeqModulus <=> x < y + SeqModulus
  BY SeqModulusAssumption
<1>5. b < a <=> y < x
  OBVIOUS
<1> HIDE DEF x, y
<1>6. ~ (x < y /\ y < x + SeqModulus)
  BY <1>1, SeqModulusAssumption, ModDistinct
<1>7. ~ (y < x /\ x < y + SeqModulus)
  BY <1>1, SeqModulusAssumption, ModDistinct
<1> QED BY <1>2, <1>3, <1>4, <1>5, <1>6, <1>7, SeqModulusAssumption

\* What a restarted receiver remembers is nothing.
LEMMA ClearedCache ==
  ASSUME replayCache = [i \in Slots |-> ZeroEntry], replayCacheIdx = 0, log = <<>>
  PROVE  CacheWindow /\ CacheFromLog
<1>1. 0 % CacheSize = 0
  BY CacheSizeAssumption, ModUnique
<1> QED BY <1>1 DEF CacheWindow, CacheFromLog

\* The state after all nodes have been flashed.
LEMMA InitIndInv == Init => IndInv
<1> SUFFICES ASSUME Init PROVE IndInv
  OBVIOUS
<1>1. TypeOK
  BY CacheSizeAssumption DEF Init, TypeOK, Slots
<1>2. CacheWindow /\ CacheFromLog
  BY ClearedCache DEF Init
<1>3. 0 % SeqModulus = 0
  BY SeqModulusAssumption, ModUnique
<1>4. EpochsPersisted /\ EpochNamesBoot
  BY <1>3 DEF Init, EpochsPersisted, EpochNamesBoot
<1> QED BY <1>1, <1>2, <1>4 DEF IndInv

\* Steps of a sender do not touch the receiver, and only add to what was sent.
LEMMA SenderKeepsCache ==
  ASSUME CacheWindow, CacheFromLog, UNCHANGED receiverVars, sent \subseteq sent'
  PROVE  CacheWindow' /\ CacheFromLog'
BY DEF CacheWindow, CacheFromLog, receiverVars, IsChecked

\* Reading the epoch and incrementing it in RAM.
LEMMA LoadStep ==
  ASSUME NEW s \in Sender, IndInv, LoadBootEpoch(s) PROVE IndInv'
<1> USE DEF LoadBootEpoch
<1>1. TypeOK'
  BY DEF IndInv, TypeOK, receiverVars
<1>2. CacheWindow' /\ CacheFromLog'
  BY SenderKeepsCache DEF IndInv
<1>3. EpochsPersisted'
  BY DEF IndInv, TypeOK, EpochsPersisted, IsChecked, Message
<1>4. EpochNamesBoot'
  BY DEF IndInv, EpochNamesBoot, IsChecked
<1> QED BY <1>1, <1>2, <1>3, <1>4 DEF IndInv

\* Committing it, in production mode: no message carries the new epoch yet.
LEMMA SaveStep ==
  ASSUME NEW s \in Sender, DevMode = FALSE, IndInv, SaveBootEpoch(s) PROVE IndInv'
<1> USE DEF SaveBootEpoch
<1>1. TypeOK'
  BY DEF IndInv, TypeOK, receiverVars
<1>2. CacheWindow' /\ CacheFromLog'
  BY SenderKeepsCache DEF IndInv
<1>3. EpochsPersisted'
  <2>0. 0 % SeqModulus = 0
    BY SeqModulusAssumption, ModUnique
  <2>1. ASSUME NEW t \in Sender
        PROVE  /\ phase'[t] = "save" => bootEpoch'[t] = flashEpoch'[t] + 1
               /\ phase'[t] = "run" => bootEpoch'[t] = flashEpoch'[t] /\ bootEpoch'[t] > 0
               /\ phase'[t] # "run" => count'[t] = 0
               /\ txSeqNum'[t] = count'[t] % SeqModulus
    BY <2>0, <2>1 DEF IndInv, TypeOK, EpochsPersisted
  <2>2. ASSUME NEW m \in sent, IsChecked(m)
        PROVE  /\ m.epoch <= flashEpoch'[m.mac]
               /\ m.seq = (m.n + 1) % SeqModulus
               /\ (phase'[m.mac] = "run" /\ m.epoch = bootEpoch'[m.mac]) => m.boot = boots'[m.mac]
    <3>1. m.mac \in Sender /\ m.epoch \in Nat
      BY DEF IndInv, TypeOK, Message
    <3>2. /\ m.epoch <= flashEpoch[m.mac] /\ m.seq = (m.n + 1) % SeqModulus
          /\ (phase[m.mac] = "run" /\ m.epoch = bootEpoch[m.mac]) => m.boot = boots[m.mac]
      BY <2>2 DEF IndInv, EpochsPersisted
    <3>3. /\ flashEpoch \in [Sender -> Nat] /\ flashEpoch' = [flashEpoch EXCEPT ![s] = bootEpoch[s]]
          /\ phase \in [Sender -> {"load", "save", "run"}] /\ phase' = [phase EXCEPT ![s] = "run"]
          /\ bootEpoch' = bootEpoch /\ boots' = boots /\ bootEpoch[s] = flashEpoch[s] + 1
      BY DEF IndInv, TypeOK, EpochsPersisted
    <3>4. CASE m.mac = s
      BY <3>1, <3>2, <3>3, <3>4
    <3>5. CASE m.mac # s
      BY <3>1, <3>2, <3>3, <3>5
    <3> QED BY <3>4, <3>5
  <2> QED BY <2>1, <2>2 DEF EpochsPersisted, IsChecked
<1>4. EpochNamesBoot'
  BY DEF IndInv, EpochNamesBoot, IsChecked
<1> QED BY <1>1, <1>2, <1>3, <1>4 DEF IndInv

\* Sending a stamped message: its epoch is the one in flash, and whatever carries
\* that epoch was sent in this boot.
LEMMA SendStampedStep ==
  ASSUME NEW s \in Sender, IndInv, SendStamped(s) PROVE IndInv'
<1> DEFINE seq == (txSeqNum[s] + 1) % SeqModulus
           m0 == [proto |-> PROTO_VERSION, mac |-> s, epoch |-> bootEpoch[s],
                  seq |-> seq, boot |-> boots[s], n |-> count[s]]
<1>0. /\ phase[s] = "run"
      /\ txSeqNum' = [txSeqNum EXCEPT ![s] = seq]
      /\ count' = [count EXCEPT ![s] = count[s] + 1]
      /\ sent' = sent \union {m0}
      /\ UNCHANGED <<flashEpoch, bootEpoch, phase, boots, receiverVars>>
  BY DEF SendStamped
<1>1. seq \in Nat /\ seq = (count[s] + 1) % SeqModulus
  <2>1. txSeqNum[s] = count[s] % SeqModulus /\ count[s] \in Nat
    BY DEF IndInv, TypeOK, EpochsPersisted
  <2>2. (txSeqNum[s] + 1) % SeqModulus = (count[s] + 1) % SeqModulus
    BY <2>1, SeqModulusAssumption, ModSucc
  <2>3. (count[s] + 1) % SeqModulus \in Nat
    BY <2>1, SeqModulusAssumption, ModType
  <2> QED BY <2>2, <2>3
<1> HIDE DEF seq
<1>2. m0 \in Message
  BY <1>1 DEF IndInv, TypeOK, Message, PROTO_VERSION
<1>3. bootEpoch[s] = flashEpoch[s] /\ bootEpoch[s] > 0
  BY <1>0 DEF IndInv, EpochsPersisted
<1>4. TypeOK'
  BY <1>0, <1>1, <1>2 DEF IndInv, TypeOK, receiverVars
<1>5. CacheWindow' /\ CacheFromLog'
  BY <1>0, SenderKeepsCache DEF IndInv
<1>6. EpochsPersisted'
  <2>1. ASSUME NEW t \in Sender
        PROVE  /\ phase'[t] = "save" => bootEpoch'[t] = flashEpoch'[t] + 1
               /\ phase'[t] = "run" => bootEpoch'[t] = flashEpoch'[t] /\ bootEpoch'[t] > 0
               /\ phase'[t] # "run" => count'[t] = 0
               /\ txSeqNum'[t] = count'[t] % SeqModulus
    BY <1>0, <1>1, <2>1 DEF IndInv, TypeOK, EpochsPersisted
  <2>2. ASSUME NEW m \in sent, IsChecked(m)
        PROVE  /\ m.epoch <= flashEpoch'[m.mac]
               /\ m.seq = (m.n + 1) % SeqModulus
               /\ (phase'[m.mac] = "run" /\ m.epoch = bootEpoch'[m.mac]) => m.boot = boots'[m.mac]
    BY <1>0, <2>2 DEF IndInv, TypeOK, EpochsPersisted, Message
  <2>3. /\ m0.epoch <= flashEpoch'[m0.mac]
        /\ m0.seq = (m0.n + 1) % SeqModulus
        /\ (phase'[m0.mac] = "run" /\ m0.epoch = bootEpoch'[m0.mac]) => m0.boot = boots'[m0.mac]
    BY <1>0, <1>1, <1>3 DEF IndInv, TypeOK
  <2> QED BY <1>0, <2>1, <2>2, <2>3 DEF EpochsPersisted, IsChecked
<1>7. EpochNamesBoot'
  <2>1. ASSUME NEW m \in sent, IsChecked(m), m.mac = m0.mac, m.epoch = m0.epoch
        PROVE  m.boot = m0.boot
    BY <1>0, <2>1 DEF IndInv, EpochsPersisted
  <2> QED BY <1>0, <2>1 DEF IndInv, EpochNamesBoot, IsChecked
<1> QED BY <1>4, <1>5, <1>6, <1>7 DEF IndInv

\* Messages without a stamp are not checked.
LEMMA SendUnstampedStep ==
  ASSUME NEW s \in Sender, IndInv, SendUnstamped(s) PROVE IndInv'
<1> DEFINE m0 == [proto |-> 0, mac |-> s, epoch |-> 0, seq |-> 0, boot |-> 0, n |-> 0]
<1>0. /\ sent' = sent \union {m0}
      /\ UNCHANGED <<flashEpoch, bootEpoch, txSeqNum, phase, boots, count, receiverVars>>
  BY DEF SendUnstamped
<1>1. m0 \in Message /\ ~IsChecked(m0)
  BY DEF Message, IsChecked, PROTO_VERSION
<1> HIDE DEF m0
<1>2. TypeOK'
  BY <1>0, <1>1 DEF IndInv, TypeOK, receiverVars
<1>3. CacheWindow' /\ CacheFromLog'
  BY <1>0, SenderKeepsCache DEF IndInv
<1>4. EpochsPersisted' /\ EpochNamesBoot'
  BY <1>0, <1>1 DEF IndInv, EpochsPersisted, EpochNamesBoot, IsChecked
<1> QED BY <1>2, <1>3, <1>4 DEF IndInv

\* Losing power at any point.
LEMMA RestartStep ==
  ASSUME NEW s \in Sender, IndInv, Restart(s) PROVE IndInv'
<1> USE DEF Restart
<1>1. TypeOK'
  BY DEF IndInv, TypeOK, receiverVars
<1>2. CacheWindow' /\ CacheFromLog'
  BY SenderKeepsCache DEF IndInv
<1>3. EpochsPersisted'
  <2>0. 0 % SeqModulus = 0
    BY SeqModulusAssumption, ModUnique
  <2> QED BY <2>0 DEF IndInv, TypeOK, EpochsPersisted, IsChecked, Message
<1>4. EpochNamesBoot'
  BY DEF IndInv, EpochNamesBoot, IsChecked
<1> QED BY <1>1, <1>2, <1>3, <1>4 DEF IndInv

\* A reception that records nothing.
LEMMA NoRecordStep ==
  ASSUME IndInv, UNCHANGED <<senderVars, replayCache, replayCacheIdx, log>>,
         last'.outcome \in {"none", "version", "pass", "replay"}
  PROVE  IndInv'
<1> USE DEF senderVars
<1>1. TypeOK'
  BY DEF IndInv, TypeOK
<1>2. CacheWindow' /\ CacheFromLog'
  BY DEF IndInv, CacheWindow, CacheFromLog, IsChecked
<1>3. EpochsPersisted' /\ EpochNamesBoot'
  BY DEF IndInv, EpochsPersisted, EpochNamesBoot, IsChecked
<1> QED BY <1>1, <1>2, <1>3 DEF IndInv

\* A reception that is recorded: the window moves on by one message.
LEMMA PassCheckedStep ==
  ASSUME NEW m \in sent, IndInv, PassChecked(m) PROVE IndInv'
<1> USE DEF PassChecked, Record, senderVars
<1>0. /\ m \in Message /\ Id(m) \in Identity /\ log \in Seq(Message)
      /\ log' \in Seq(Message) /\ Len(log') = Len(log) + 1 /\ Len(log) \in Nat
      /\ \A k \in 1 .. Len(log) : log'[k] = log[k]
      /\ log'[Len(log) + 1] = m
  BY DEF IndInv, TypeOK, Message, Id, Identity
<1>1. replayCacheIdx' = Len(log') % CacheSize
  BY <1>0, CacheSizeAssumption, ModSucc DEF IndInv, CacheWindow
<1>2. replayCacheIdx = Len(log) % CacheSize /\ replayCacheIdx \in Slots
  BY DEF IndInv, TypeOK, CacheWindow
<1>3. TypeOK'
  <2>1. replayCacheIdx' \in Slots
    BY <1>0, <1>1, CacheSizeAssumption, ModType DEF Slots
  <2> QED BY <1>0, <2>1 DEF IndInv, TypeOK
<1>4. CacheWindow'
  <2> SUFFICES ASSUME NEW k \in 0 .. Len(log), Len(log) + 1 <= k + CacheSize
               PROVE  replayCache'[k % CacheSize] = Id(log'[k + 1])
    BY <1>0, <1>1 DEF CacheWindow, Id
  <2>0. k % CacheSize \in Slots
    BY <1>0, SlotInRange
  <2>1. CASE k = Len(log)
    BY <1>0, <1>2, <2>1 DEF IndInv, TypeOK
  <2>2. CASE k < Len(log)
    <3>0. k \in Nat /\ Len(log) < k + CacheSize
      BY <1>0, <2>2, CacheSizeAssumption
    <3>1. k % CacheSize # replayCacheIdx
      BY <1>0, <1>2, <2>2, <3>0, SlotsDiffer
    <3>2. replayCache[k % CacheSize] = Id(log[k + 1])
      BY <1>0, <2>2, CacheSizeAssumption DEF IndInv, CacheWindow
    <3>3. log'[k + 1] = log[k + 1]
      BY <1>0, <2>2
    <3> QED BY <2>0, <3>1, <3>2, <3>3 DEF IndInv, TypeOK
  <2> QED BY <1>0, <2>1, <2>2
<1>5. CacheFromLog'
  <2>1. ASSUME NEW i \in Slots
        PROVE  \/ replayCache'[i] = ZeroEntry
               \/ \E k \in 1 .. Len(log') : replayCache'[i] = Id(log'[k])
    <3>1. CASE i = replayCacheIdx
      <4>1. replayCache'[i] = Id(log'[Len(log) + 1])
        BY <1>0, <3>1 DEF IndInv, TypeOK
      <4> QED BY <1>0, <4>1
    <3>2. CASE i # replayCacheIdx
      <4>1. replayCache'[i] = replayCache[i]
        BY <3>2 DEF IndInv, TypeOK
      <4>2. ASSUME NEW k \in 1 .. Len(log), replayCache[i] = Id(log[k])
            PROVE  \E j \in 1 .. Len(log') : replayCache'[i] = Id(log'[j])
        BY <1>0, <4>1, <4>2
      <4>3. replayCache[i] = ZeroEntry \/ \E k \in 1 .. Len(log) : replayCache[i] = Id(log[k])
        BY DEF IndInv, CacheFromLog
      <4> QED BY <4>1, <4>2, <4>3
    <3> QED BY <3>1, <3>2
  <2>2. ASSUME NEW k \in 1 .. Len(log')
        PROVE  log'[k] \in sent /\ IsChecked(log'[k])
    <3>1. CASE k = Len(log) + 1
      BY <1>0, <3>1
    <3>2. CASE k \in 1 .. Len(log)
      BY <1>0, <3>2 DEF IndInv, CacheFromLog
    <3> QED BY <1>0, <3>1, <3>2
  <2> QED BY <2>1, <2>2 DEF CacheFromLog, Id, IsChecked, Slots
<1>6. EpochsPersisted' /\ EpochNamesBoot'
  BY DEF IndInv, EpochsPersisted, EpochNamesBoot, IsChecked
<1> QED BY <1>3, <1>4, <1>5, <1>6 DEF IndInv

\* A foreign frame is never checked, so what is recorded was sent.
LEMMA RecordedWasSent ==
  ASSUME NEW m \in sent \union ForeignFrames, IsChecked(m) PROVE m \in sent
BY DEF ForeignFrames, IsChecked, PROTO_VERSION

\* Every step preserves the inductive invariant in production mode.
LEMMA NextIndInv ==
  ASSUME DevMode = FALSE PROVE IndInv /\ [Next]_vars => IndInv'
<1> SUFFICES ASSUME IndInv, [Next]_vars PROVE IndInv'
  OBVIOUS
<1>1. ASSUME NEW s \in Sender, SenderStep(s) PROVE IndInv'
  BY <1>1, LoadStep, SaveStep, SendStampedStep, SendUnstampedStep, RestartStep DEF SenderStep
<1>2. ASSUME NEW m \in sent \union ForeignFrames, Drain(m) PROVE IndInv'
  <2>1. CASE DropVersion(m)
    BY <2>1, NoRecordStep DEF DropVersion
  <2>2. CASE PassUnchecked(m)
    BY <2>2, NoRecordStep DEF PassUnchecked
  <2>3. CASE DropReplay(m)
    BY <2>3, NoRecordStep DEF DropReplay
  <2>4. CASE PassChecked(m)
    BY <2>4, RecordedWasSent, PassCheckedStep DEF PassChecked
  <2> QED BY <1>2, <2>1, <2>2, <2>3, <2>4 DEF Drain
<1>3. CASE RestartReceiver
  <2> USE <1>3 DEF RestartReceiver, senderVars
  <2>1. TypeOK'
    BY CacheSizeAssumption DEF IndInv, TypeOK, Slots
  <2>2. 0 % CacheSize = 0
    BY CacheSizeAssumption, ModUnique
  <2>3. CacheWindow' /\ CacheFromLog'
    BY <2>2 DEF CacheWindow, CacheFromLog
  <2>4. EpochsPersisted' /\ EpochNamesBoot'
    BY DEF IndInv, EpochsPersisted, EpochNamesBoot, IsChecked
  <2> QED BY <2>1, <2>3, <2>4 DEF IndInv
<1>4. CASE UNCHANGED vars
  <2>1. last'.outcome \in {"none", "version", "pass", "replay"}
    BY <1>4 DEF vars, receiverVars, IndInv, TypeOK
  <2> QED BY <1>4, <2>1, NoRecordStep DEF vars, receiverVars
<1> QED BY <1>1, <1>2, <1>3, <1>4 DEF Next

\* The inductive invariant holds in production mode.
THEOREM ReplayInvariant ==
  ASSUME DevMode = FALSE PROVE Spec => []IndInv
<1>1. IndInv /\ [Next]_vars => IndInv'
  BY NextIndInv
<1> QED BY <1>1, InitIndInv, PTL DEF Spec

\* In production mode two messages of one node with one epoch stem from one boot,
\* whatever the order of power losses: saveBootEpoch has committed the epoch
\* before the first message is stamped with it.
THEOREM EpochIsBootCount ==
  ASSUME DevMode = FALSE PROVE Spec => []EpochNamesBoot
<1>1. IndInv => EpochNamesBoot
  BY DEF IndInv
<1> QED BY <1>1, ReplayInvariant, PTL

\* One step of the receiver cannot record an identity twice within the window.
LEMMA WindowStep ==
  ASSUME IndInv, AtMostOncePerWindow, [Next]_vars PROVE AtMostOncePerWindow'
<1>1. CASE log' = log
  BY <1>1 DEF AtMostOncePerWindow, Id
<1>2. CASE log' = <<>>
  BY <1>2 DEF AtMostOncePerWindow
<1>3. ASSUME NEW m \in sent \union ForeignFrames, PassChecked(m) PROVE AtMostOncePerWindow'
  <2>0. /\ m \in sent /\ m \in Message
        /\ Len(log') = Len(log) + 1 /\ Len(log) \in Nat
        /\ \A k \in 1 .. Len(log) : log'[k] = log[k]
        /\ log'[Len(log) + 1] = m
    BY <1>3, RecordedWasSent DEF PassChecked, Record, IndInv, TypeOK
  <2> SUFFICES ASSUME NEW i \in 1 .. Len(log'), NEW j \in 1 .. Len(log'),
                      i < j, Id(log'[i]) = Id(log'[j])
               PROVE  j - i > CacheSize
    BY DEF AtMostOncePerWindow, Id
  <2>1. CASE j \in 1 .. Len(log)
    BY <2>0, <2>1 DEF AtMostOncePerWindow
  <2>2. CASE j = Len(log) + 1
    <3> SUFFICES ASSUME j - i <= CacheSize PROVE FALSE
      BY <2>0, CacheSizeAssumption
    <3>1. i - 1 \in 0 .. (Len(log) - 1) /\ Len(log) <= (i - 1) + CacheSize /\ (i - 1) + 1 = i
      BY <2>0, <2>2, CacheSizeAssumption
    <3>2. replayCache[(i - 1) % CacheSize] = Id(log[i])
      BY <3>1 DEF IndInv, CacheWindow
    <3>3. (i - 1) % CacheSize \in Slots
      <4>1. i - 1 \in Nat
        BY <2>0, <3>1
      <4> QED BY <4>1, SlotInRange
    <3>4. Id(log[i]) = Id(m)
      BY <2>0, <2>2, <3>1
    <3> QED BY <1>3, <3>2, <3>3, <3>4 DEF PassChecked, Remembered
  <2> QED BY <2>0, <2>1, <2>2
<1> QED
  BY <1>1, <1>2, <1>3 DEF Next, SenderStep, LoadBootEpoch, SaveBootEpoch, SendStamped,
     SendUnstamped, Restart, Drain, DropVersion, PassUnchecked, DropReplay, RestartReceiver,
     receiverVars, vars

\* isReplay never lets an identity through twice within a window of CacheSize
\* recorded messages, for every cache size.
THEOREM ReplayWindow ==
  ASSUME DevMode = FALSE PROVE Spec => []AtMostOncePerWindow
<1>1. Init => AtMostOncePerWindow
  BY DEF Init, AtMostOncePerWindow
<1>2. IndInv /\ AtMostOncePerWindow /\ [Next]_vars => AtMostOncePerWindow'
  BY WindowStep
<1> QED BY <1>1, <1>2, ReplayInvariant, PTL DEF Spec

\* A remembered message was recorded in the same boot of the sender, and with the
\* same number unless the sequence number has gone round.
LEMMA RememberedWasRecorded ==
  ASSUME IndInv, NEW m \in sent, IsChecked(m), Remembered(m)
  PROVE  \E i \in 1 .. Len(log) :
           /\ log[i].mac = m.mac
           /\ log[i].boot = m.boot
           /\ \/ log[i].n = m.n
              \/ log[i].n + SeqModulus <= m.n
              \/ m.n + SeqModulus <= log[i].n
<1>1. PICK c \in Slots : replayCache[c] = Id(m)
  BY DEF Remembered
<1>2. m \in Message
  BY DEF IndInv, TypeOK
<1>3. replayCache[c] # ZeroEntry
  BY <1>1, <1>2, NoMacAssumption DEF Id, ZeroEntry, Message
<1>4. PICK i \in 1 .. Len(log) : replayCache[c] = Id(log[i])
  BY <1>3 DEF IndInv, CacheFromLog
<1>5. log[i] \in sent /\ IsChecked(log[i]) /\ log[i] \in Message
  BY DEF IndInv, TypeOK, CacheFromLog
<1>6. log[i].mac = m.mac /\ log[i].epoch = m.epoch /\ log[i].seq = m.seq
  BY <1>1, <1>4 DEF Id
<1>7. log[i].boot = m.boot
  BY <1>5, <1>6 DEF IndInv, EpochNamesBoot
<1>8. (log[i].n + 1) % SeqModulus = (m.n + 1) % SeqModulus
  BY <1>5, <1>6 DEF IndInv, EpochsPersisted
<1>9. log[i].n \in Nat /\ m.n \in Nat
  BY <1>2, <1>5 DEF Message
<1>10. log[i].n = m.n \/ log[i].n + SeqModulus <= m.n \/ m.n + SeqModulus <= log[i].n
  BY <1>8, <1>9, SameSeqNum
<1> QED BY <1>6, <1>7, <1>10

\* One step cannot make a false replay.
LEMMA NoFalseReplayStep ==
  ASSUME IndInv, NoFalseReplay, [Next]_vars PROVE NoFalseReplay'
<1>1. CASE UNCHANGED <<log, last>>
  BY <1>1 DEF NoFalseReplay
<1>2. CASE last'.outcome # "replay"
  BY <1>2 DEF NoFalseReplay
<1>3. ASSUME NEW m \in sent \union ForeignFrames, DropReplay(m) PROVE NoFalseReplay'
  <2>1. m \in sent /\ IsChecked(m) /\ Remembered(m)
    BY <1>3, RecordedWasSent DEF DropReplay
  <2>2. last' = [msg |-> m, outcome |-> "replay"] /\ log' = log
    BY <1>3 DEF DropReplay
  <2> QED BY <2>1, <2>2, RememberedWasRecorded DEF NoFalseReplay
<1> QED
  BY <1>1, <1>2, <1>3 DEF Next, SenderStep, LoadBootEpoch, SaveBootEpoch, SendStamped,
     SendUnstamped, Restart, Drain, DropVersion, PassUnchecked, PassChecked, RestartReceiver,
     receiverVars, vars

\* In production mode drainRecvQueue never mistakes a new message of a restarted
\* sender for one it has handled, for every cache size.
THEOREM NoMessageMistakenForReplay ==
  ASSUME DevMode = FALSE PROVE Spec => []NoFalseReplay
<1>1. Init => NoFalseReplay
  BY DEF Init, NoFalseReplay
<1>2. IndInv /\ NoFalseReplay /\ [Next]_vars => NoFalseReplay'
  BY NoFalseReplayStep
<1> QED BY <1>1, <1>2, ReplayInvariant, PTL DEF Spec
=============================================================================
