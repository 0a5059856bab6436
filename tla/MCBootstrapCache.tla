-------------------------- MODULE MCBootstrapCache --------------------------
(* Values for the constants of BootstrapCache.                              *)
EXTENDS BootstrapCache, TLC

CONSTANTS n1, n2, n3, n4, n5

NoProxies == {<<>>}
SomeProxies == {<<>>, <<n1>>, <<n1, n2>>}

\* The nodes that are not hard coded are interchangeable.
NodeSymmetry == Permutations(Node \ HardCoded)
=============================================================================
