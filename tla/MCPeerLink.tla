------------------------------ MODULE MCPeerLink ------------------------------
(* Instances of PeerLink for TLC. *)
EXTENDS PeerLinkClaims

\* Link identities: with LocalId 5, peer 1 accepts us and peer 2 is dialled.
MCPeerId == [p \in Peers |-> IF p = 1 THEN 3 ELSE 7]

MCBackoff == <<1>>
NoBackoff == <<>>
=============================================================================
