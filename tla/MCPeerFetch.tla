----------------------------- MODULE MCPeerFetch -----------------------------
(* A small instance of PeerFetch for TLC: a peer whose bundle has two       *)
(* entity files and the manifest, and then loses the first.  Its hook       *)
(* commits a bundle that a write came into the middle of.                   *)
EXTENDS PeerFetch

CONSTANTS f1, f2

ThreeFiles == 1..3

LosesOne == [v \in Version |-> IF v = 1 THEN {1, 2, 3} ELSE {2, 3}]

OneMixed == {<<1, 1, 2>>}
=============================================================================
