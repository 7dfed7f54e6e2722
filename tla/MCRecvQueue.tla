---------------------------- MODULE MCRecvQueue ----------------------------
(* RecvQueue with three slots (two usable), so that the ring wraps, fills   *)
(* and is overrun within MaxArrivals packets.                               *)
EXTENDS RecvQueue
CONSTANTS a, b, p, q
MCMac == {a, b}
MCMessage == {p, q}
=============================================================================
