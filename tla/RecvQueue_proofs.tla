-------------------------- MODULE RecvQueue_proofs --------------------------
(***************************************************************************)
(* The receive ring is correct for every queue size, every set of          *)
(* addresses and messages, and any number of arrivals.                     *)
(***************************************************************************)
EXTENDS RecvQueue, Integers, TLAPS, SequenceTheorems

-----------------------------------------------------------------------------
(* Remainders: the slots of a ring of n that numbers stand for *)

\* A remainder is a legal index of a ring of n slots.
LEMMA ModType ==
  ASSUME NEW n \in Nat \ {0}, NEW a \in Nat
  PROVE  a % n \in 0 .. (n - 1)
OBVIOUS

\* The division equation.
LEMMA ModDef ==
  ASSUME NEW n \in Nat \ {0}, NEW a \in Nat
  PROVE  a = n * (a \div n) + (a % n) /\ (a \div n) \in Nat
OBVIOUS

\* Multiples of n are at least n apart.
LEMMA MulLess ==
  ASSUME NEW n \in Nat \ {0}, NEW x \in Nat, NEW y \in Nat, x < y
  PROVE  n * x + n <= n * y
<1> DEFINE d == y - x
<1>1. d \in Nat /\ d >= 1 /\ y = x + d
  OBVIOUS
<1>2. n * y = n * x + n * d
  BY <1>1
<1> HIDE DEF d
<1>3. n * d >= n
  BY <1>1
<1> QED BY <1>1, <1>2, <1>3

\* A number between two multiples of n has one remainder only.
LEMMA ModUnique ==
  ASSUME NEW n \in Nat \ {0}, NEW x \in Nat, NEW r \in 0 .. (n - 1)
  PROVE  (n * x + r) % n = r
<1> DEFINE a == n * x + r
           y == a \div n
           s == a % n
<1>0. a \in Nat
  OBVIOUS
<1>1. a = n * y + s /\ y \in Nat /\ s \in 0 .. (n - 1)
  BY <1>0, ModDef, ModType
<1>2. CASE x < y
  <2>1. n * x + n <= n * y
    BY <1>1, <1>2, MulLess
  <2> QED BY <1>1, <2>1
<1>3. CASE y < x
  <2>1. n * y + n <= n * x
    BY <1>1, <1>3, MulLess
  <2> QED BY <1>1, <2>1
<1>4. CASE x = y
  BY <1>1, <1>4
<1> QED BY <1>1, <1>2, <1>3, <1>4

\* Fewer than n consecutive numbers occupy different slots of the ring.
LEMMA ModDistinct ==
  ASSUME NEW n \in Nat \ {0}, NEW a \in Nat, NEW b \in Nat, a < b, b < a + n
  PROVE  a % n # b % n
<1> DEFINE x == a \div n
           y == b \div n
<1>1. a = n * x + (a % n) /\ x \in Nat /\ a % n \in 0 .. (n - 1)
  BY ModDef, ModType
<1>2. b = n * y + (b % n) /\ y \in Nat /\ b % n \in 0 .. (n - 1)
  BY ModDef, ModType
<1>3. SUFFICES ASSUME a % n = b % n PROVE FALSE
  OBVIOUS
<1> HIDE DEF x, y
<1>4. n * x < n * y /\ n * y < n * x + n
  BY <1>1, <1>2, <1>3
<1>5. ~ (x < y)
  BY <1>1, <1>2, <1>4, MulLess
<1>6. ~ (y < x)
  BY <1>1, <1>2, <1>4, MulLess
<1> QED BY <1>1, <1>2, <1>4, <1>5, <1>6

\* Advancing an index modulo n is advancing the number it stands for.
LEMMA ModSucc ==
  ASSUME NEW n \in Nat \ {0}, NEW a \in Nat
  PROVE  ((a % n) + 1) % n = (a + 1) % n
<1> DEFINE x == a \div n
           r == a % n
<1>1. a = n * x + r /\ x \in Nat /\ r \in 0 .. (n - 1)
  BY ModDef, ModType
<1> HIDE DEF x, r
<1>2. SUFFICES (r + 1) % n = (a + 1) % n
  BY DEF r
<1>3. CASE r + 1 < n
  <2>1. (n * x + (r + 1)) % n = r + 1
    BY <1>1, <1>3, ModUnique
  <2>2. (n * 0 + (r + 1)) % n = r + 1
    BY <1>1, <1>3, ModUnique
  <2>3. a + 1 = n * x + (r + 1) /\ r + 1 = n * 0 + (r + 1)
    BY <1>1
  <2> QED BY <2>1, <2>2, <2>3
<1>4. CASE r + 1 = n
  <2>1. (n * (x + 1) + 0) % n = 0
    BY <1>1, <1>4, ModUnique
  <2>2. (n * 1 + 0) % n = 0
    BY <1>1, <1>4, ModUnique
  <2>3. n * (x + 1) = n * x + n
    BY <1>1
  <2>4. a + 1 = n * (x + 1) + 0
    BY <1>1, <1>4, <2>3
  <2>5. r + 1 = n * 1 + 0
    BY <1>1, <1>4
  <2> QED BY <2>1, <2>2, <2>4, <2>5
<1> QED BY <1>1, <1>3, <1>4

\* Going once around the ring leads back to the same slot.
LEMMA ModPeriod ==
  ASSUME NEW n \in Nat \ {0}, NEW a \in Nat
  PROVE  (a + n) % n = a % n
<1> DEFINE x == a \div n
           r == a % n
<1>1. a = n * x + r /\ x \in Nat /\ r \in 0 .. (n - 1)
  BY ModDef, ModType
<1> HIDE DEF x, r
<1>2. (n * (x + 1) + r) % n = r
  BY <1>1, ModUnique
<1>3. n * (x + 1) = n * x + n
  BY <1>1
<1>4. a + n = n * (x + 1) + r
  BY <1>1, <1>3
<1> QED BY <1>2, <1>4 DEF r

\* The unsigned difference of two readings of a clock modulo n.
LEMMA ModDifference ==
  ASSUME NEW n \in Nat \ {0}, NEW t \in 0 .. (n - 1), NEW l \in 0 .. (n - 1)
  PROVE  ((t + n) - l) % n = IF t >= l THEN t - l ELSE (t + n) - l
<1>1. CASE t >= l
  <2>1. (n * 1 + (t - l)) % n = t - l
    BY <1>1, ModUnique
  <2>2. n * 1 + (t - l) = (t + n) - l
    OBVIOUS
  <2> QED BY <1>1, <2>1, <2>2
<1>2. CASE ~ (t >= l)
  <2>1. (t + n) - l \in 0 .. (n - 1)
    BY <1>2
  <2>2. (n * 0 + ((t + n) - l)) % n = (t + n) - l
    BY <2>1, ModUnique
  <2>3. n * 0 + ((t + n) - l) = (t + n) - l
    OBVIOUS
  <2> QED BY <1>2, <2>2, <2>3
<1> QED BY <1>1, <1>2

\* Going on from the slot of a number leads to the slot of the number reached.
LEMMA ModAdd ==
  ASSUME NEW n \in Nat \ {0}, NEW a \in Nat, NEW j \in Nat
  PROVE  ((a % n) + j) % n = (a + j) % n
<1> DEFINE x == a \div n
           r == a % n
           y == (r + j) \div n
           s == (r + j) % n
<1>1. a = n * x + r /\ x \in Nat /\ r \in 0 .. (n - 1)
  BY ModDef, ModType
<1>2. r + j = n * y + s /\ y \in Nat /\ s \in 0 .. (n - 1)
  <2>1. r + j \in Nat
    BY <1>1
  <2> QED BY <2>1, ModDef, ModType
<1> HIDE DEF x, y, r, s
<1>3. (n * (x + y) + s) % n = s
  <2>1. x + y \in Nat
    BY <1>1, <1>2
  <2> QED BY <1>2, <2>1, ModUnique
<1>4. n * (x + y) = n * x + n * y
  BY <1>1, <1>2
<1>5. a + j = n * (x + y) + s
  BY <1>1, <1>2, <1>4
<1> QED BY <1>3, <1>5 DEF r, s

\* The distance of two numbers less than n apart is the distance of their slots.
LEMMA ModGap ==
  ASSUME NEW n \in Nat \ {0}, NEW a \in Nat, NEW b \in Nat, b <= a, a < b + n
  PROVE  (((a % n) + n) - (b % n)) % n = a - b
<1> DEFINE x == a \div n
           y == b \div n
           r == a % n
           s == b % n
<1>1. a = n * x + r /\ x \in Nat /\ r \in 0 .. (n - 1)
  BY ModDef, ModType
<1>2. b = n * y + s /\ y \in Nat /\ s \in 0 .. (n - 1)
  BY ModDef, ModType
<1>3. ((r + n) - s) % n = IF r >= s THEN r - s ELSE (r + n) - s
  BY <1>1, <1>2, ModDifference
<1> HIDE DEF x, y, r, s
<1>4. x = y \/ x = y + 1
  <2>1. x < y => n * x + n <= n * y
    BY <1>1, <1>2, MulLess
  <2>2. y + 1 < x => n * (y + 1) + n <= n * x
    BY <1>1, <1>2, MulLess
  <2>3. n * (y + 1) = n * y + n
    BY <1>2
  <2> QED BY <1>1, <1>2, <2>1, <2>2, <2>3
<1>5. n * (y + 1) = n * y + n
  BY <1>2
<1>6. a - b = IF r >= s THEN r - s ELSE (r + n) - s
  BY <1>1, <1>2, <1>4, <1>5
<1> QED BY <1>3, <1>6 DEF r, s

-----------------------------------------------------------------------------
(* Slots of recvQueue *)

\* The size as the facts above want it.
LEMMA SizePositive == QueueSize \in Nat \ {0}
BY QueueSizeAssumption

\* The slot after that of frame number k is the slot of frame number k + 1.
LEMMA SuccOfSlot ==
  ASSUME NEW k \in Nat
  PROVE  Succ(k % QueueSize) = (k + 1) % QueueSize
BY SizePositive, ModSucc DEF Succ

\* An index is the remainder of some number.
LEMMA SlotInIndex ==
  ASSUME NEW k \in Nat
  PROVE  k % QueueSize \in Index
BY SizePositive, ModType DEF Index

\* Frames fewer than QueueSize apart do not share a slot.
LEMMA SlotsDiffer ==
  ASSUME NEW j \in Nat, NEW k \in Nat, j < k, k < j + QueueSize
  PROVE  j % QueueSize # k % QueueSize
BY SizePositive, ModDistinct

\* The ring the constructor sets up satisfies the inductive invariant.
LEMMA InitIndInv == Init => IndInv
<1> SUFFICES ASSUME Init PROVE IndInv
  OBVIOUS
<1>1. 0 % QueueSize = 0
  BY SizePositive, ModUnique
<1>2. TypeOK
  BY QueueSizeAssumption DEF Init, TypeOK, Index, Slot, NoFrame
<1>3. RingIndices /\ RingBounds
  BY <1>1, QueueSizeAssumption DEF Init, RingIndices, RingBounds, Taken
<1>4. LiveSlots /\ CopyProgress /\ HandledInOrder
  BY DEF Init, LiveSlots, CopyProgress, HandledInOrder
<1> QED BY <1>2, <1>3, <1>4 DEF IndInv

\* A callback that drops its packet changes only the count of dropped packets.
LEMMA DropStep == IndInv /\ Drop => IndInv'
<1> SUFFICES ASSUME IndInv, Drop PROVE IndInv'
  OBVIOUS
<1> USE DEF Drop, mainVars
<1>1. TypeOK'
  BY DEF IndInv, TypeOK
<1>2. RingIndices' /\ RingBounds'
  BY DEF IndInv, RingIndices, RingBounds, Taken
<1>3. LiveSlots' /\ CopyProgress' /\ HandledInOrder'
  BY DEF IndInv, LiveSlots, CopyProgress, HandledInOrder
<1> QED BY <1>1, <1>2, <1>3 DEF IndInv

\* A callback that finds the queue not full finds room to spare: head is not one
\* slot behind tail, hence fewer than QueueSize - 1 frames are live.
LEMMA ArriveStep == ASSUME NEW f \in Frame PROVE IndInv /\ Arrive(f) => IndInv'
<1> SUFFICES ASSUME IndInv, Arrive(f) PROVE IndInv'
  OBVIOUS
<1> USE DEF Arrive, mainVars
<1>1. TypeOK'
  BY DEF IndInv, TypeOK, Frame, Slot
<1>2. RingIndices'
  BY DEF IndInv, RingIndices, Taken
<1>3. RingBounds'
  <2>1. Len(accepted) \in Nat /\ Taken \in Nat
    BY DEF IndInv, TypeOK, Taken
  <2>2. Len(accepted) # Taken + (QueueSize - 1)
    <3> SUFFICES ASSUME Len(accepted) = Taken + (QueueSize - 1) PROVE FALSE
      OBVIOUS
    <3>1. Len(accepted) + 1 = Taken + QueueSize
      BY <2>1, QueueSizeAssumption
    <3>2. Succ(recvQueueHead) = (Taken + QueueSize) % QueueSize
      BY <2>1, <3>1, SuccOfSlot DEF IndInv, RingIndices
    <3>3. (Taken + QueueSize) % QueueSize = Taken % QueueSize
      BY <2>1, SizePositive, ModPeriod
    <3> QED BY <3>2, <3>3 DEF IsFull, IndInv, RingIndices
  <2> QED BY <2>1, <2>2, QueueSizeAssumption DEF IndInv, RingBounds, Taken
<1>4. LiveSlots' /\ CopyProgress' /\ HandledInOrder'
  BY DEF IndInv, LiveSlots, CopyProgress, HandledInOrder
<1> QED BY <1>1, <1>2, <1>3, <1>4 DEF IndInv

\* While the callback copies, the slot at head is none of the live ones.
LEMMA HeadSlotFree ==
  ASSUME IndInv, wpc # "idle",
         NEW k \in Len(handled) .. (Len(accepted) - 1)
  PROVE  k % QueueSize # recvQueueHead
<1>1. Len(accepted) \in Nat /\ Len(handled) \in Nat /\ k \in Nat
  BY DEF IndInv, TypeOK
<1>2. k < Len(accepted) /\ Len(accepted) < k + QueueSize
  BY <1>1, QueueSizeAssumption DEF IndInv, RingBounds, Taken
<1> QED BY <1>1, <1>2, SlotsDiffer DEF IndInv, RingIndices

\* The first memcpy touches no live slot.
LEMMA CopySourceStep == IndInv /\ CopySource => IndInv'
<1> SUFFICES ASSUME IndInv, CopySource PROVE IndInv'
  OBVIOUS
<1> USE DEF CopySource, mainVars
<1>0. recvQueueHead \in Index /\ recvQueue \in [Index -> Slot] /\ packet \in Frame
  BY DEF IndInv, TypeOK, CopyProgress
<1>1. TypeOK'
  BY <1>0 DEF IndInv, TypeOK, Slot, Frame
<1>2. RingIndices' /\ RingBounds'
  BY DEF IndInv, RingIndices, RingBounds, Taken
<1>3. LiveSlots'
  <2> SUFFICES ASSUME NEW k \in Len(handled) .. (Len(accepted) - 1)
               PROVE  recvQueue'[k % QueueSize] = accepted[k + 1]
    BY DEF LiveSlots
  <2>1. k % QueueSize # recvQueueHead
    BY HeadSlotFree
  <2>2. k % QueueSize \in Index
    BY SlotInIndex DEF IndInv, TypeOK
  <2>3. recvQueue[k % QueueSize] = accepted[k + 1]
    BY DEF IndInv, LiveSlots
  <2> QED BY <1>0, <2>1, <2>2, <2>3
<1>4. CopyProgress' /\ HandledInOrder'
  BY <1>0 DEF IndInv, CopyProgress, HandledInOrder, Slot
<1> QED BY <1>1, <1>2, <1>3, <1>4 DEF IndInv

\* Nor does the second one.
LEMMA CopyMessageStep == IndInv /\ CopyMessage => IndInv'
<1> SUFFICES ASSUME IndInv, CopyMessage PROVE IndInv'
  OBVIOUS
<1> USE DEF CopyMessage, mainVars
<1>0. recvQueueHead \in Index /\ recvQueue \in [Index -> Slot] /\ packet \in Frame
  BY DEF IndInv, TypeOK, CopyProgress
<1>1. TypeOK'
  BY <1>0 DEF IndInv, TypeOK, Slot, Frame
<1>2. RingIndices' /\ RingBounds'
  BY DEF IndInv, RingIndices, RingBounds, Taken
<1>3. LiveSlots'
  <2> SUFFICES ASSUME NEW k \in Len(handled) .. (Len(accepted) - 1)
               PROVE  recvQueue'[k % QueueSize] = accepted[k + 1]
    BY DEF LiveSlots
  <2>1. k % QueueSize # recvQueueHead
    BY HeadSlotFree
  <2>2. k % QueueSize \in Index
    BY SlotInIndex DEF IndInv, TypeOK
  <2>3. recvQueue[k % QueueSize] = accepted[k + 1]
    BY DEF IndInv, LiveSlots
  <2> QED BY <1>0, <2>1, <2>2, <2>3
<1>4. CopyProgress' /\ HandledInOrder'
  BY <1>0 DEF IndInv, CopyProgress, HandledInOrder, Slot
<1> QED BY <1>1, <1>2, <1>3, <1>4 DEF IndInv

\* Publishing makes the copied slot live, with the packet in it.
LEMMA PublishStep == IndInv /\ Publish => IndInv'
<1> SUFFICES ASSUME IndInv, Publish PROVE IndInv'
  OBVIOUS
<1> USE DEF Publish, mainVars
<1>0. /\ packet \in Frame /\ accepted \in Seq(Frame) /\ handled \in Seq(Slot)
      /\ accepted' \in Seq(Frame) /\ Len(accepted') = Len(accepted) + 1
      /\ \A i \in 1 .. Len(accepted) : accepted'[i] = accepted[i]
      /\ accepted'[Len(accepted) + 1] = packet
      /\ Len(accepted) \in Nat /\ Len(handled) \in Nat
  BY DEF IndInv, TypeOK, CopyProgress
<1>1. recvQueue[recvQueueHead] = packet
  <2>1. recvQueue[recvQueueHead] \in Slot /\ packet \in Slot
    BY DEF IndInv, TypeOK
  <2> QED BY <2>1 DEF IndInv, CopyProgress, Slot
<1>2. recvQueueHead' = Len(accepted') % QueueSize
  BY <1>0, SuccOfSlot DEF IndInv, RingIndices
<1>3. TypeOK'
  <2>1. recvQueueHead' \in Index
    BY <1>0, <1>2, SlotInIndex
  <2> QED BY <1>0, <2>1 DEF IndInv, TypeOK, NoFrame, Slot
<1>4. RingIndices' /\ RingBounds'
  BY <1>0, <1>2, QueueSizeAssumption DEF IndInv, RingIndices, RingBounds, Taken
<1>5. LiveSlots'
  <2> SUFFICES ASSUME NEW k \in Len(handled') .. (Len(accepted') - 1)
               PROVE  recvQueue'[k % QueueSize] = accepted'[k + 1]
    BY DEF LiveSlots
  <2>0. k \in Len(handled) .. Len(accepted) /\ recvQueue' = recvQueue
    BY <1>0
  <2>1. CASE k = Len(accepted)
    BY <1>0, <1>1, <2>0, <2>1 DEF IndInv, RingIndices
  <2>2. CASE k < Len(accepted)
    BY <1>0, <2>0, <2>2 DEF IndInv, LiveSlots
  <2> QED BY <1>0, <2>0, <2>1, <2>2
<1>6. CopyProgress' /\ HandledInOrder'
  BY <1>0 DEF IndInv, CopyProgress, HandledInOrder
<1> QED BY <1>3, <1>4, <1>5, <1>6 DEF IndInv

\* The loop condition finds a live frame when it goes on.
LEMMA LoopTestStep == IndInv /\ LoopTest => IndInv'
<1> SUFFICES ASSUME IndInv, LoopTest PROVE IndInv'
  OBVIOUS
<1> USE DEF LoopTest, wifiVars
<1>1. TypeOK'
  BY DEF IndInv, TypeOK
<1>2. RingIndices'
  BY DEF IndInv, RingIndices, Taken
<1>3. RingBounds'
  <2>1. Len(accepted) \in Nat /\ Len(handled) \in Nat
    BY DEF IndInv, TypeOK
  <2>2. recvQueueTail # recvQueueHead => Taken # Len(accepted)
    BY DEF IndInv, RingIndices
  <2> QED BY <2>1, <2>2 DEF IndInv, RingBounds, Taken
<1>4. LiveSlots' /\ CopyProgress' /\ HandledInOrder'
  BY DEF IndInv, LiveSlots, CopyProgress, HandledInOrder
<1> QED BY <1>1, <1>2, <1>3, <1>4 DEF IndInv

\* Taking an entry frees its slot for counting but keeps it live.
LEMMA TakeEntryStep == IndInv /\ TakeEntry => IndInv'
<1> SUFFICES ASSUME IndInv, TakeEntry PROVE IndInv'
  OBVIOUS
<1> USE DEF TakeEntry, wifiVars
<1>0. /\ Len(accepted) \in Nat /\ Len(handled) \in Nat
      /\ Taken = Len(handled) /\ Taken' = Len(handled) + 1
  BY DEF IndInv, TypeOK, Taken
<1>1. recvQueueTail' = Taken' % QueueSize
  BY <1>0, SuccOfSlot DEF IndInv, RingIndices
<1>2. TypeOK'
  <2>1. recvQueueTail' \in Index
    BY <1>0, <1>1, SlotInIndex
  <2> QED BY <2>1 DEF IndInv, TypeOK
<1>3. RingIndices' /\ RingBounds'
  BY <1>0, <1>1, QueueSizeAssumption DEF IndInv, RingIndices, RingBounds
<1>4. LiveSlots' /\ CopyProgress' /\ HandledInOrder'
  BY DEF IndInv, LiveSlots, CopyProgress, HandledInOrder
<1> QED BY <1>2, <1>3, <1>4 DEF IndInv

\* In a state of the inductive invariant the reference of the handler points at
\* the oldest frame not yet handled.
LEMMA IndInvImpliesEntryIntact == IndInv => EntryIntact
<1> SUFFICES ASSUME IndInv, mpc = "handle"
             PROVE  /\ Len(handled) < Len(accepted)
                    /\ recvQueue[entry] = accepted[Len(handled) + 1]
  BY DEF EntryIntact
<1>1. Len(accepted) \in Nat /\ Len(handled) \in Nat
  BY DEF IndInv, TypeOK
<1>2. Len(handled) < Len(accepted)
  BY <1>1 DEF IndInv, RingBounds, Taken
<1> QED BY <1>1, <1>2 DEF IndInv, RingIndices, LiveSlots

\* When the handler returns it has seen the next published frame.
LEMMA HandleEntryStep == IndInv /\ HandleEntry => IndInv'
<1> SUFFICES ASSUME IndInv, HandleEntry PROVE IndInv'
  OBVIOUS
<1> USE DEF HandleEntry, wifiVars
<1>0. /\ accepted \in Seq(Frame) /\ handled \in Seq(Slot)
      /\ handled' \in Seq(Slot) /\ Len(handled') = Len(handled) + 1
      /\ \A i \in 1 .. Len(handled) : handled'[i] = handled[i]
      /\ handled'[Len(handled) + 1] = recvQueue[entry]
      /\ Len(accepted) \in Nat /\ Len(handled) \in Nat
  BY DEF IndInv, TypeOK
<1>1. Len(handled) < Len(accepted) /\ recvQueue[entry] = accepted[Len(handled) + 1]
  BY IndInvImpliesEntryIntact DEF EntryIntact
<1>2. TypeOK'
  BY <1>0 DEF IndInv, TypeOK
<1>3. RingIndices' /\ RingBounds'
  BY <1>0 DEF IndInv, RingIndices, RingBounds, Taken
<1>4. LiveSlots'
  BY <1>0 DEF IndInv, LiveSlots
<1>5. CopyProgress'
  BY DEF IndInv, CopyProgress
<1>6. HandledInOrder'
  BY <1>0, <1>1 DEF IndInv, HandledInOrder
<1> QED BY <1>2, <1>3, <1>4, <1>5, <1>6 DEF IndInv

\* Every step of either task preserves the inductive invariant.
LEMMA NextIndInv == IndInv /\ [Next]_vars => IndInv'
<1> SUFFICES ASSUME IndInv, [Next]_vars PROVE IndInv'
  OBVIOUS
<1>1. ASSUME NEW f \in Frame, Arrive(f) PROVE IndInv'
  BY <1>1, ArriveStep
<1>2. CASE Drop
  BY <1>2, DropStep
<1>3. CASE CopySource
  BY <1>3, CopySourceStep
<1>4. CASE CopyMessage
  BY <1>4, CopyMessageStep
<1>5. CASE Publish
  BY <1>5, PublishStep
<1>6. CASE LoopTest
  BY <1>6, LoopTestStep
<1>7. CASE TakeEntry
  BY <1>7, TakeEntryStep
<1>8. CASE HandleEntry
  BY <1>8, HandleEntryStep
<1>9. CASE UNCHANGED vars
  <2> USE <1>9 DEF vars, wifiVars, mainVars
  <2>1. TypeOK' /\ RingIndices' /\ RingBounds'
    BY DEF IndInv, TypeOK, RingIndices, RingBounds, Taken
  <2>2. LiveSlots' /\ CopyProgress' /\ HandledInOrder'
    BY DEF IndInv, LiveSlots, CopyProgress, HandledInOrder
  <2> QED BY <2>1, <2>2 DEF IndInv
<1> QED
  BY <1>1, <1>2, <1>3, <1>4, <1>5, <1>6, <1>7, <1>8, <1>9 DEF Next, Wifi, Main

\* The inductive invariant holds in every reachable state, for every queue size.
THEOREM RingInvariant == Spec => []IndInv
BY InitIndInv, NextIndInv, PTL DEF Spec

\* Type correctness of the ring between onDataRecvCallback and drainRecvQueue.
THEOREM TypeCorrect == Spec => []TypeOK
<1>1. IndInv => TypeOK
  BY DEF IndInv
<1> QED BY <1>1, RingInvariant, PTL

\* The frame a handler of drainRecvQueue reads through its reference is never
\* overwritten by onDataRecvCallback, whatever the size of the ring, although
\* tail has moved past its slot before it is read.
THEOREM EntryNeverOverwritten == Spec => []EntryIntact
BY RingInvariant, IndInvImpliesEntryIntact, PTL

\* Frames are handled exactly once, whole, and in the order they were published.
THEOREM FramesHandledInOrder == Spec => []HandledInOrder
<1>1. IndInv => HandledInOrder
  BY DEF IndInv
<1> QED BY <1>1, RingInvariant, PTL

-----------------------------------------------------------------------------
(* The ring implements BoundedFifo.                                        *)

\* What the refinement mapping makes of the ring: the published frames that are
\* not taken yet, oldest first.
Waiting == [i \in 1 .. (Len(accepted) - Taken) |-> accepted[Taken + i]]

LEMMA PendingIsWaiting == IndInv => Pending = Waiting
<1> SUFFICES ASSUME IndInv PROVE Pending = Waiting
  OBVIOUS
<1>1. /\ Len(accepted) \in Nat /\ Len(handled) \in Nat /\ Taken \in Nat
      /\ Len(handled) <= Taken /\ Taken <= Len(accepted)
      /\ Len(accepted) < Taken + QueueSize
  BY QueueSizeAssumption DEF IndInv, TypeOK, RingBounds, Taken
<1>2. ((recvQueueHead + QueueSize) - recvQueueTail) % QueueSize = Len(accepted) - Taken
  BY <1>1, SizePositive, ModGap DEF IndInv, RingIndices
<1>3. ASSUME NEW i \in 1 .. (Len(accepted) - Taken)
      PROVE  recvQueue[(recvQueueTail + (i - 1)) % QueueSize] = accepted[Taken + i]
  <2>1. (recvQueueTail + (i - 1)) % QueueSize = (Taken + (i - 1)) % QueueSize
    <3>1. i - 1 \in Nat /\ recvQueueTail = Taken % QueueSize
      BY <1>1 DEF IndInv, RingIndices
    <3> QED BY <1>1, <3>1, SizePositive, ModAdd
  <2>2. Taken + (i - 1) \in Len(handled) .. (Len(accepted) - 1)
    BY <1>1
  <2>3. recvQueue[(Taken + (i - 1)) % QueueSize] = accepted[(Taken + (i - 1)) + 1]
    BY <2>2 DEF IndInv, LiveSlots
  <2>4. (Taken + (i - 1)) + 1 = Taken + i
    BY <1>1
  <2> QED BY <2>1, <2>3, <2>4
<1> QED BY <1>2, <1>3 DEF Pending, Waiting

\* Waiting is a sequence of frames, no longer than the ring has room for.
LEMMA WaitingType ==
  IndInv => /\ Waiting \in Seq(Frame)
            /\ Len(Waiting) = Len(accepted) - Taken
            /\ Len(Waiting) \in 0 .. (QueueSize - 1)
<1> SUFFICES ASSUME IndInv
             PROVE  /\ Waiting \in Seq(Frame)
                    /\ Len(Waiting) = Len(accepted) - Taken
                    /\ Len(Waiting) \in 0 .. (QueueSize - 1)
  OBVIOUS
<1>1. /\ accepted \in Seq(Frame) /\ Len(accepted) \in Nat /\ Taken \in Nat
      /\ Taken <= Len(accepted) /\ Len(accepted) <= Taken + (QueueSize - 1)
  BY DEF IndInv, TypeOK, RingBounds, Taken
<1>2. Len(accepted) - Taken \in 0 .. (QueueSize - 1)
  BY <1>1, QueueSizeAssumption
<1>3. \A i \in 1 .. (Len(accepted) - Taken) : accepted[Taken + i] \in Frame
  BY <1>1
<1> QED BY <1>2, <1>3 DEF Waiting

\* The frame being handled, as the refinement mapping has it.
Current == IF mpc = "handle" THEN recvQueue[entry] ELSE NoFrame

\* It is the oldest frame not yet handled, and a real one.
LEMMA CurrentIsOldest ==
  IndInv => /\ mpc = "handle" => Current = accepted[Len(handled) + 1] /\ Current \in Frame
            /\ mpc # "handle" => Current = NoFrame
            /\ NoFrame \notin Frame
<1> SUFFICES ASSUME IndInv
             PROVE  /\ mpc = "handle" => Current = accepted[Len(handled) + 1] /\ Current \in Frame
                    /\ mpc # "handle" => Current = NoFrame
                    /\ NoFrame \notin Frame
  OBVIOUS
<1>1. NoFrame \notin Frame
  BY ZeroAssumption DEF NoFrame, Frame
<1>2. mpc = "handle" => Current = accepted[Len(handled) + 1] /\ Len(handled) < Len(accepted)
  BY IndInvImpliesEntryIntact DEF EntryIntact, Current
<1>3. accepted \in Seq(Frame) /\ Len(accepted) \in Nat /\ Len(handled) \in Nat
  BY DEF IndInv, TypeOK
<1> QED BY <1>1, <1>2, <1>3 DEF Current

\* The FIFO as the ring shows it, in a state and in the next one.
FifoView ==
  /\ Pending = Waiting
  /\ Waiting \in Seq(Frame)
  /\ Len(Waiting) = Len(accepted) - Taken
  /\ mpc = "handle" => Current = accepted[Len(handled) + 1]

LEMMA FifoViewHolds == IndInv => FifoView
BY PendingIsWaiting, WaitingType, CurrentIsOldest DEF FifoView

LEMMA FifoViewNext == IndInv' => FifoView'
BY FifoViewHolds, PTL

\* The constructor leaves an empty FIFO.
LEMMA FifoInit == Init => Fifo!Init
<1> SUFFICES ASSUME Init PROVE Fifo!Init
  OBVIOUS
<1>1. Pending = Waiting
  BY InitIndInv, PendingIsWaiting
<1>2. Waiting = << >>
  BY DEF Init, Waiting, Taken
<1> QED BY <1>1, <1>2 DEF Init, Fifo!Init

\* A packet refused by the callback is refused by the FIFO: all of its room is taken.
LEMMA DropRefuses == IndInv /\ IndInv' /\ Drop => Fifo!Refuse
<1> SUFFICES ASSUME IndInv, IndInv', Drop PROVE Fifo!Refuse
  OBVIOUS
<1>1. Pending = Waiting /\ Pending' = Waiting'
  BY FifoViewHolds, FifoViewNext DEF FifoView
<1>2. Len(Waiting) = QueueSize - 1
  <2>1. /\ Len(accepted) \in Nat /\ Taken \in Nat /\ Taken <= Len(accepted)
        /\ Len(accepted) <= Taken + (QueueSize - 1)
    BY DEF IndInv, TypeOK, RingBounds, Taken
  <2>2. (Len(accepted) + 1) % QueueSize = Taken % QueueSize
    BY <2>1, SuccOfSlot DEF Drop, IsFull, IndInv, RingIndices
  <2>3. ~(Len(accepted) + 1 < Taken + QueueSize)
    BY <2>1, <2>2, SlotsDiffer
  <2> QED BY <2>1, <2>3, WaitingType, QueueSizeAssumption
<1>3. Waiting' = Waiting
  BY DEF Drop, mainVars, Waiting, Taken
<1> QED BY <1>1, <1>2, <1>3 DEF Drop, mainVars, Fifo!Refuse

\* Publishing a packet is accepting it.
LEMMA PublishAccepts == IndInv /\ IndInv' /\ Publish => \E f \in Frame : Fifo!Accept(f)
<1> SUFFICES ASSUME IndInv, IndInv', Publish PROVE \E f \in Frame : Fifo!Accept(f)
  OBVIOUS
<1>1. Pending = Waiting /\ Pending' = Waiting'
  BY FifoViewHolds, FifoViewNext DEF FifoView
<1>2. packet \in Frame
  BY DEF Publish, IndInv, CopyProgress
<1>3. Len(Waiting) < QueueSize - 1
  <2>1. Len(accepted) \in Nat /\ Taken \in Nat /\ Len(accepted) < Taken + (QueueSize - 1)
    BY DEF Publish, IndInv, TypeOK, RingBounds, Taken
  <2> QED BY <2>1, WaitingType, QueueSizeAssumption
<1>4. Waiting' = Append(Waiting, packet)
  <2>1. Taken' = Taken /\ Taken \in Nat /\ Len(accepted) \in Nat /\ Taken <= Len(accepted)
    BY DEF Publish, mainVars, IndInv, TypeOK, RingBounds, Taken
  <2>2. /\ Len(accepted') = Len(accepted) + 1
        /\ \A i \in 1 .. Len(accepted) : accepted'[i] = accepted[i]
        /\ accepted'[Len(accepted) + 1] = packet
    BY <1>2 DEF Publish, IndInv, TypeOK
  <2>3. /\ Waiting \in Seq(Frame) /\ Len(Waiting) = Len(accepted) - Taken
        /\ Waiting' \in Seq(Frame) /\ Len(Waiting') = Len(accepted') - Taken'
    BY FifoViewHolds, FifoViewNext DEF FifoView
  <2>4. /\ Append(Waiting, packet) \in Seq(Frame)
        /\ Len(Append(Waiting, packet)) = Len(Waiting')
        /\ \A i \in 1 .. Len(Waiting) : Append(Waiting, packet)[i] = Waiting[i]
        /\ Append(Waiting, packet)[Len(Waiting) + 1] = packet
    BY <1>2, <2>1, <2>2, <2>3, AppendProperties
  <2>5. ASSUME NEW i \in 1 .. Len(Waiting') PROVE Waiting'[i] = Append(Waiting, packet)[i]
    <3>1. CASE i = Len(Waiting) + 1
      BY <2>1, <2>2, <2>3, <2>4, <3>1 DEF Waiting
    <3>2. CASE i \in 1 .. Len(Waiting)
      BY <2>1, <2>2, <2>3, <2>4, <3>2 DEF Waiting
    <3> QED BY <2>1, <2>2, <2>3, <3>1, <3>2
  <2> QED BY <2>3, <2>4, <2>5, SeqEqual
<1>5. Current' = Current
  BY DEF Publish, mainVars, Current
<1> QED BY <1>1, <1>2, <1>3, <1>4, <1>5 DEF Publish, mainVars, Fifo!Accept, Current

\* Taking an entry is beginning with the head of the FIFO.
LEMMA TakeEntryBegins == IndInv /\ IndInv' /\ TakeEntry => Fifo!Begin
<1> SUFFICES ASSUME IndInv, IndInv', TakeEntry PROVE Fifo!Begin
  OBVIOUS
<1>1. Pending = Waiting /\ Pending' = Waiting'
  BY FifoViewHolds, FifoViewNext DEF FifoView
<1>2. /\ Taken = Len(handled) /\ Taken' = Taken + 1 /\ accepted' = accepted
      /\ Taken \in Nat /\ Len(accepted) \in Nat /\ Taken < Len(accepted)
  BY DEF TakeEntry, wifiVars, IndInv, TypeOK, RingBounds, Taken
<1>3. Waiting \in Seq(Frame) /\ Len(Waiting) = Len(accepted) - Taken
  BY WaitingType
<1>4. Waiting # << >> /\ Head(Waiting) = accepted[Taken + 1]
  <2>1. Len(Waiting) \in Nat \ {0} /\ Waiting[1] = accepted[Taken + 1]
    BY <1>2, <1>3 DEF Waiting
  <2> QED BY <1>3, <2>1, EmptySeq
<1>5. Waiting' = Tail(Waiting)
  <2>1. /\ Tail(Waiting) \in Seq(Frame) /\ Len(Tail(Waiting)) = Len(Waiting) - 1
        /\ \A i \in 1 .. Len(Tail(Waiting)) : Tail(Waiting)[i] = Waiting[i + 1]
    BY <1>3, <1>4, HeadTailProperties
  <2>2. Waiting' \in Seq(Frame) /\ Len(Waiting') = Len(accepted') - Taken'
    BY FifoViewNext DEF FifoView
  <2>3. Len(Waiting') = Len(Tail(Waiting))
    BY <1>2, <1>3, <2>1, <2>2
  <2>4. ASSUME NEW i \in 1 .. Len(Waiting') PROVE Waiting'[i] = Tail(Waiting)[i]
    <3>1. /\ i \in 1 .. (Len(accepted) - (Taken + 1)) /\ i + 1 \in 1 .. (Len(accepted) - Taken)
          /\ (Taken + 1) + i = Taken + (i + 1)
      BY <1>2, <2>2
    <3>2. Waiting'[i] = accepted[(Taken + 1) + i]
      BY <1>2, <3>1 DEF Waiting
    <3>3. Waiting[i + 1] = accepted[Taken + (i + 1)]
      BY <3>1 DEF Waiting
    <3>4. Tail(Waiting)[i] = Waiting[i + 1]
      BY <2>1, <2>3
    <3> QED BY <3>1, <3>2, <3>3, <3>4
  <2> QED BY <2>1, <2>2, <2>3, <2>4, SeqEqual
<1>6. Current = NoFrame
  BY DEF TakeEntry, Current
<1>7. Current' = Head(Waiting)
  <2>1. mpc' = "handle" /\ handled' = handled
    BY DEF TakeEntry
  <2>2. Current' = accepted'[Len(handled') + 1]
    BY <2>1, FifoViewNext DEF FifoView
  <2> QED BY <1>2, <1>4, <2>1, <2>2
<1> QED BY <1>1, <1>4, <1>5, <1>6, <1>7 DEF TakeEntry, wifiVars, Fifo!Begin, Current

\* Handling it is finishing with it.
LEMMA HandleEntryFinishes == IndInv /\ IndInv' /\ HandleEntry => Fifo!Finish
<1> SUFFICES ASSUME IndInv, IndInv', HandleEntry PROVE Fifo!Finish
  OBVIOUS
<1>1. Pending = Waiting /\ Pending' = Waiting'
  BY FifoViewHolds, FifoViewNext DEF FifoView
<1>2. Waiting' = Waiting
  <2>1. Taken' = Taken /\ accepted' = accepted
    BY DEF HandleEntry, wifiVars, IndInv, TypeOK, Taken
  <2> QED BY <2>1 DEF Waiting
<1>3. Current # NoFrame
  BY CurrentIsOldest DEF HandleEntry
<1>4. Current' = NoFrame /\ handled' = Append(handled, Current)
  BY DEF HandleEntry, Current
<1> QED BY <1>1, <1>2, <1>3, <1>4 DEF HandleEntry, wifiVars, Fifo!Finish, Current

\* The other steps are not visible: a packet arrives or is copied into a slot that
\* holds no frame, or the main task looks at the indices.
LEMMA InnerStepsStutter ==
  ASSUME IndInv, IndInv',
         CopySource \/ CopyMessage \/ LoopTest \/ (\E f \in Frame : Arrive(f)) \/ UNCHANGED vars
  PROVE  UNCHANGED Fifo!vars
<1>1. Pending = Waiting /\ Pending' = Waiting'
  BY FifoViewHolds, FifoViewNext DEF FifoView
<1>2. UNCHANGED <<accepted, handled, dropped>> /\ (mpc' = "handle" <=> mpc = "handle")
  BY DEF CopySource, CopyMessage, LoopTest, Arrive, vars, wifiVars, mainVars
<1>3. Waiting' = Waiting
  BY <1>2 DEF Waiting, Taken
<1>4. Current' = Current
  <2>1. CASE mpc = "handle"
    <3>1. Current = accepted[Len(handled) + 1] /\ Current' = accepted'[Len(handled') + 1]
      BY <1>2, <2>1, FifoViewHolds, FifoViewNext DEF FifoView
    <3> QED BY <1>2, <3>1
  <2>2. CASE mpc # "handle"
    BY <1>2, <2>2 DEF Current
  <2> QED BY <2>1, <2>2
<1> QED BY <1>1, <1>2, <1>3, <1>4 DEF Fifo!vars, Current

\* Step by step, the WiFi task and the main task together do nothing that the
\* bounded FIFO of QueueSize - 1 frames does not do.
THEOREM RingImplementsFifo == Spec => ImplementsFifo
<1>1. IndInv /\ IndInv' /\ [Next]_vars => [Fifo!Next]_(Fifo!vars)
  <2> SUFFICES ASSUME IndInv, IndInv', [Next]_vars PROVE [Fifo!Next]_(Fifo!vars)
    OBVIOUS
  <2>1. CASE Drop
    BY <2>1, DropRefuses DEF Fifo!Next
  <2>2. CASE Publish
    BY <2>2, PublishAccepts DEF Fifo!Next
  <2>3. CASE TakeEntry
    BY <2>3, TakeEntryBegins DEF Fifo!Next
  <2>4. CASE HandleEntry
    BY <2>4, HandleEntryFinishes DEF Fifo!Next
  <2>5. CASE CopySource \/ CopyMessage \/ LoopTest \/ (\E f \in Frame : Arrive(f)) \/ UNCHANGED vars
    BY <2>5, InnerStepsStutter
  <2> QED BY <2>1, <2>2, <2>3, <2>4, <2>5 DEF Next, Wifi, Main
<1> QED BY FifoInit, RingInvariant, <1>1, PTL DEF Spec, ImplementsFifo, Fifo!Safety
=============================================================================
