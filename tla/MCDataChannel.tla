--------------------------- MODULE MCDataChannel ---------------------------
(***************************************************************************)
(* One channel between two peers, with one stream id.  The opener sends    *)
(* two messages.                                                           *)
(***************************************************************************)
EXTENDS DataChannel

CONSTANTS A, B

MCPeers == {A, B}
MCSids == {0}
MCConfigs == {cf \in [ordered : BOOLEAN, negotiated : BOOLEAN] :
                cf.ordered \/ ~cf.negotiated}
MCMaxMessages == [p \in MCPeers |-> IF p = A THEN 2 ELSE 0]
=============================================================================
