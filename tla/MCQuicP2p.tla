----------------------------- MODULE MCQuicP2p -----------------------------
(* Values for the constants of QuicP2p that a .cfg file cannot write.       *)
EXTENDS QuicP2p

CONSTANTS p1, p2

EmptyCache == {<<>>}
BothCached == {<<p1, p2>>}
=============================================================================
