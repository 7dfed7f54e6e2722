----------------------------- MODULE RecvQueue -----------------------------
(***************************************************************************)
(* The lock-free single-producer single-consumer ring between the WiFi     *)
(* task and the main task (Mesh.h, recvQueue / recvQueueHead /             *)
(* recvQueueTail).                                                         *)
(*                                                                         *)
(* Producer: Mesh::onDataRecvCallback, run by the WiFi task for each       *)
(* received packet.  Its shared accesses are steps of their own: the test  *)
(* for a full queue, the two memcpys into the slot (source MAC, then       *)
(* message), and the store that publishes the new head.  The stores become *)
(* visible in program order: the message is copied by a call to memcpy,    *)
(* and head is volatile.  A packet shorter than a mesh_message returns     *)
(* before it touches any state, hence it is a stuttering step.             *)
(*                                                                         *)
(* Consumer: Mesh::drainRecvQueue, run by the main task.  It advances tail *)
(* BEFORE it handles the entry, and it handles the entry through a         *)
(* reference into the ring: the slot it reads no longer counts as occupied *)
(* while it is being read.  What the handlers do with the frame is the     *)
(* subject of other modules; here handling a frame is reading it until the *)
(* handler returns.                                                        *)
(***************************************************************************)
EXTENDS Naturals, Sequences

CONSTANTS
  QueueSize,    \* RECV_QUEUE_SIZE
  Mac,          \* source addresses of received packets
  Message,      \* their contents
  NoMac,        \* the all-zero address and
  NoMessage,    \* the all-zero message: what memset leaves in a slot
  MaxArrivals   \* bound on the packets received in one behaviour

ASSUME QueueSizeAssumption == QueueSize \in Nat /\ QueueSize >= 2
ASSUME MaxArrivalsAssumption == MaxArrivals \in Nat
ASSUME ZeroAssumption == NoMac \notin Mac /\ NoMessage \notin Message

Frame == [src : Mac, msg : Message]
NoFrame == [src |-> NoMac, msg |-> NoMessage]
Slot == [src : Mac \union {NoMac}, msg : Message \union {NoMessage}]
Index == 0 .. (QueueSize - 1)

VARIABLES
  recvQueue,      \* Index -> Slot
  recvQueueHead,  \* next slot to fill, written by the WiFi task only
  recvQueueTail,  \* next slot to drain, written by the main task only
  packet,         \* the packet onDataRecvCallback is working on, or NoFrame
  wpc,            \* where the WiFi task is in onDataRecvCallback
  mpc,            \* where the main task is in drainRecvQueue
  entry,          \* the slot the main task's reference points to
  \* History, not state of the program:
  accepted,       \* frames published so far, in order
  handled,        \* frames as the handlers saw them, in order
  dropped         \* number of packets refused by the callback

wifiVars == <<recvQueueHead, packet, wpc, accepted, dropped>>
mainVars == <<recvQueueTail, mpc, entry, handled>>
vars == <<recvQueue, wifiVars, mainVars>>

-----------------------------------------------------------------------------
(* Mutants: what the code would be with a plausible bug in it.             *)

IsFull_NoSpareSlot == FALSE

IsFull_TwoSpareSlots ==
  recvQueueTail \in {(recvQueueHead + 1) % QueueSize, (recvQueueHead + 2) % QueueSize}

CopySource_PublishFirst ==
  /\ wpc = "copySource"
  /\ wpc' = "idle"
  /\ packet' = NoFrame
  /\ recvQueueHead' = (recvQueueHead + 1) % QueueSize
  /\ accepted' = Append(accepted, packet)
  /\ UNCHANGED <<recvQueue, dropped, mainVars>>

LoopTest_LessThan ==
  /\ mpc = "test"
  /\ mpc' = IF recvQueueTail < recvQueueHead THEN "take" ELSE "test"
  /\ UNCHANGED <<recvQueue, wifiVars, recvQueueTail, entry, handled>>

-----------------------------------------------------------------------------
(* onDataRecvCallback, in the WiFi task *)

Succ(i) == (i + 1) % QueueSize

IsFull == Succ(recvQueueHead) = recvQueueTail

\* A packet arrives and the callback finds the queue full: it returns.
Drop ==
  /\ wpc = "idle"
  /\ Len(accepted) + dropped < MaxArrivals
  /\ IsFull
  /\ dropped' = dropped + 1
  /\ UNCHANGED <<recvQueue, recvQueueHead, packet, wpc, accepted, mainVars>>

\* A packet arrives and the callback finds room for it.
Arrive(f) ==
  /\ wpc = "idle"
  /\ Len(accepted) + dropped < MaxArrivals
  /\ ~IsFull
  /\ packet' = f
  /\ wpc' = "copySource"
  /\ UNCHANGED <<recvQueue, recvQueueHead, accepted, dropped, mainVars>>

\* memcpy(slot.srcMac, ...)
CopySource ==
  /\ wpc = "copySource"
  /\ recvQueue' = [recvQueue EXCEPT ![recvQueueHead].src = packet.src]
  /\ wpc' = "copyMessage"
  /\ UNCHANGED <<recvQueueHead, packet, accepted, dropped, mainVars>>

\* memcpy(&slot.msg, ...)
CopyMessage ==
  /\ wpc = "copyMessage"
  /\ recvQueue' = [recvQueue EXCEPT ![recvQueueHead].msg = packet.msg]
  /\ wpc' = "publish"
  /\ UNCHANGED <<recvQueueHead, packet, accepted, dropped, mainVars>>

\* recvQueueHead = nextHead, and the callback returns.
Publish ==
  /\ wpc = "publish"
  /\ recvQueueHead' = Succ(recvQueueHead)
  /\ accepted' = Append(accepted, packet)
  /\ packet' = NoFrame
  /\ wpc' = "idle"
  /\ UNCHANGED <<recvQueue, dropped, mainVars>>

-----------------------------------------------------------------------------
(* drainRecvQueue, in the main task *)

\* The loop condition.  When the queue is empty drainRecvQueue returns, and
\* the next pass of the main loop calls it again.
LoopTest ==
  /\ mpc = "test"
  /\ mpc' = IF recvQueueTail # recvQueueHead THEN "take" ELSE "test"
  /\ UNCHANGED <<recvQueue, wifiVars, recvQueueTail, entry, handled>>

\* Bind the reference to the slot, then advance the tail past it.
TakeEntry ==
  /\ mpc = "take"
  /\ entry' = recvQueueTail
  /\ recvQueueTail' = Succ(recvQueueTail)
  /\ mpc' = "handle"
  /\ UNCHANGED <<recvQueue, wifiVars, handled>>

\* The handler returns; what it saw is what the slot holds.
HandleEntry ==
  /\ mpc = "handle"
  /\ handled' = Append(handled, recvQueue[entry])
  /\ mpc' = "test"
  /\ UNCHANGED <<recvQueue, wifiVars, recvQueueTail, entry>>

-----------------------------------------------------------------------------

\* The constructor: memset(recvQueue, 0, ...), head and tail 0.
Init ==
  /\ recvQueue = [i \in Index |-> NoFrame]
  /\ recvQueueHead = 0
  /\ recvQueueTail = 0
  /\ packet = NoFrame
  /\ wpc = "idle"
  /\ mpc = "test"
  /\ entry = 0
  /\ accepted = <<>>
  /\ handled = <<>>
  /\ dropped = 0

Wifi == Drop \/ CopySource \/ CopyMessage \/ Publish \/ \E f \in Frame : Arrive(f)
Main == LoopTest \/ TakeEntry \/ HandleEntry
Next == Wifi \/ Main

\* loop() runs for ever on the main task, and the WiFi task finishes a callback
\* it has begun; nothing obliges packets to arrive.
Fairness ==
  /\ WF_vars(LoopTest) /\ WF_vars(TakeEntry) /\ WF_vars(HandleEntry)
  /\ WF_vars(CopySource) /\ WF_vars(CopyMessage) /\ WF_vars(Publish)

Spec == Init /\ [][Next]_vars
FairSpec == Spec /\ Fairness

-----------------------------------------------------------------------------
(* Correctness *)

\* Every variable has its type.
TypeOK ==
  /\ recvQueue \in [Index -> Slot]
  /\ recvQueueHead \in Index
  /\ recvQueueTail \in Index
  /\ packet \in Slot
  /\ wpc \in {"idle", "copySource", "copyMessage", "publish"}
  /\ mpc \in {"test", "take", "handle"}
  /\ entry \in Index
  /\ accepted \in Seq(Frame)
  /\ handled \in Seq(Slot)
  /\ dropped \in Nat

\* While a handler of drainRecvQueue works through its reference into the ring,
\* the slot behind it holds the frame that was taken, whole and unchanged, even
\* though tail has already moved past the slot and the WiFi task keeps filling
\* the ring.
EntryIntact ==
  mpc = "handle" =>
    /\ Len(handled) < Len(accepted)
    /\ recvQueue[entry] = accepted[Len(handled) + 1]

\* What the handlers saw so far is a prefix of what the callback published:
\* nothing is lost once accepted, nothing handled twice, torn or out of order.
HandledInOrder ==
  /\ Len(handled) <= Len(accepted)
  /\ \A k \in 1 .. Len(handled) : handled[k] = accepted[k]

\* The argument behind the two invariants.  Number the published frames 1, 2, ...;
\* frame k lives in slot (k-1) % QueueSize.  Head and tail stand for the number
\* of frames published and taken; they never differ by more than QueueSize - 1,
\* and by less while the callback is copying, so that the slot it copies into is
\* none of those that hold a frame waiting or being handled.
Taken == Len(handled) + (IF mpc = "handle" THEN 1 ELSE 0)

RingIndices ==
  /\ recvQueueHead = Len(accepted) % QueueSize
  /\ recvQueueTail = Taken % QueueSize
  /\ mpc = "handle" => entry = Len(handled) % QueueSize

RingBounds ==
  /\ Taken <= Len(accepted)
  /\ Len(accepted) <= Taken + (QueueSize - 1)
  /\ mpc = "take" => Taken < Len(accepted)
  /\ wpc # "idle" => Len(accepted) < Taken + (QueueSize - 1)

LiveSlots ==
  \A k \in Len(handled) .. (Len(accepted) - 1) :
    recvQueue[k % QueueSize] = accepted[k + 1]

CopyProgress ==
  /\ wpc # "idle" => packet \in Frame
  /\ wpc \in {"copyMessage", "publish"} => recvQueue[recvQueueHead].src = packet.src
  /\ wpc = "publish" => recvQueue[recvQueueHead].msg = packet.msg

\* The inductive invariant of the ring: indices, bounds, the contents of the live
\* slots, and how far the copy in progress has got.
IndInv ==
  TypeOK /\ RingIndices /\ RingBounds /\ LiveSlots /\ CopyProgress /\ HandledInOrder

\* The ring implements the bounded FIFO with one entry less than it has slots.
Pending ==
  [i \in 1 .. ((recvQueueHead + QueueSize) - recvQueueTail) % QueueSize |->
     recvQueue[(recvQueueTail + (i - 1)) % QueueSize]]

Fifo == INSTANCE BoundedFifo WITH
  Capacity  <- QueueSize - 1,
  queue     <- Pending,
  current   <- IF mpc = "handle" THEN recvQueue[entry] ELSE NoFrame,
  delivered <- handled,
  lost      <- dropped

\* The interleaving of the WiFi task and the main task is indistinguishable from
\* a bounded FIFO that refuses a frame only when QueueSize - 1 frames wait.
ImplementsFifo == Fifo!Safety

\* Every frame the callback published is eventually handled, and the drain loop is as
\* fair as the FIFO is: with ImplementsFifo, Fifo!Spec.
EventuallyHandled ==
  /\ \A k \in 1 .. MaxArrivals : Len(accepted) >= k ~> Len(handled) >= k
  /\ Fifo!Fairness
=============================================================================
