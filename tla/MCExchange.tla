---------------------------- MODULE MCExchange -----------------------------
(* Clients are interchangeable. *)
EXTENDS Exchange, TLC

Symmetry == Permutations(Client)
=============================================================================
