--------------------------- MODULE MCMeshNetwork ---------------------------
(* A master m, a node a that it reaches, and a node b that only a reaches.  *)
(* All of them have each other in their peer lists.                         *)
EXTENDS MeshNetwork
CONSTANTS m, a, b
MCNode == {m, a, b}
MCLink == {<<m, a>>, <<a, m>>, <<a, b>>, <<b, a>>}
MCMaxSent == [n \in MCNode |-> IF n = m THEN 2 ELSE IF n = a THEN 1 ELSE 0]
MCPeers == [n \in MCNode |-> MCNode]
=============================================================================
