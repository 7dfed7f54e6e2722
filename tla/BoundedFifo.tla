---------------------------- MODULE BoundedFifo ----------------------------
(***************************************************************************)
(* What the mesh promises of its receive path, without saying how: frames  *)
(* handed over by the radio task wait in a FIFO of at most Capacity        *)
(* entries, the main loop handles them one at a time and in order, and a   *)
(* frame is lost only when it arrives while Capacity frames are waiting.   *)
(* RecvQueue implements this with the ring buffer of Mesh.h.               *)
(***************************************************************************)
EXTENDS Naturals, Sequences

CONSTANTS
  Frame,      \* the frames the radio can hand over
  Capacity,   \* how many of them can wait
  NoFrame     \* the main loop is not handling any frame

VARIABLES
  queue,      \* frames waiting, oldest first
  current,    \* the frame being handled, or NoFrame
  delivered,  \* frames handled so far, in the order they were handled
  lost        \* number of frames refused because the queue was full

vars == <<queue, current, delivered, lost>>

Init ==
  /\ queue = <<>>
  /\ current = NoFrame
  /\ delivered = <<>>
  /\ lost = 0

Accept(f) ==
  /\ Len(queue) < Capacity
  /\ queue' = Append(queue, f)
  /\ UNCHANGED <<current, delivered, lost>>

Refuse ==
  /\ Len(queue) = Capacity
  /\ lost' = lost + 1
  /\ UNCHANGED <<queue, current, delivered>>

Begin ==
  /\ current = NoFrame
  /\ queue # <<>>
  /\ current' = Head(queue)
  /\ queue' = Tail(queue)
  /\ UNCHANGED <<delivered, lost>>

Finish ==
  /\ current # NoFrame
  /\ delivered' = Append(delivered, current)
  /\ current' = NoFrame
  /\ UNCHANGED <<queue, lost>>

Next == Refuse \/ Begin \/ Finish \/ \E f \in Frame : Accept(f)

\* What may happen.
Safety == Init /\ [][Next]_vars

\* The main loop never stops polling, so a waiting frame is eventually taken
\* and a frame being handled is eventually finished with.
Fairness == WF_vars(Begin) /\ WF_vars(Finish)

Spec == Safety /\ Fairness
=============================================================================
