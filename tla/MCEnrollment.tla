--------------------------- MODULE MCEnrollment ---------------------------
(* Two nodes that want to join, and room for one of them beside the default  *)
(* peer.                                                                     *)
EXTENDS Enrollment
CONSTANTS x, y, d
MCNode == {x, y}
MCDefaultPeers == {d}
=============================================================================
