--------------------------- MODULE BootstrapPeers ---------------------------
(***************************************************************************)
(* The in-memory list of the bootstrap cache (bootstrap_cache.rs), as      *)
(* operators on a sequence whose last element is the most recent peer.     *)
(* What add_peer writes to disk is the subject of module BootstrapCache.   *)
(***************************************************************************)
EXTENDS Naturals, Sequences, FiniteSetsExt

CONSTANTS
  HardCoded,      \* hard_coded_contacts
  MaxCacheSize    \* MAX_CACHE_SIZE

ASSUME CacheSizeAssumption == MaxCacheSize \in Nat \ {0}

\* Mutated form: the list is cut only once it is longer than the bound allows.
InsertWithLateCut(peers, p) ==
  IF Len(peers) > MaxCacheSize THEN Append(Tail(peers), p) ELSE Append(peers, p)

\* insert_new: push_back, then pop_front when the list is too long
InsertNew(peers, p) ==
  LET longer == Append(peers, p)
  IN  IF Len(longer) > MaxCacheSize THEN Tail(longer) ELSE longer

\* Mutated form: a peer that is in the list stays where it is.
MoveNowhere(peers, p) == peers

\* peers.remove(i)
RemoveIndex(peers, i) == SubSeq(peers, 1, i - 1) \o SubSeq(peers, i + 1, Len(peers))

\* move_to_cache_top: the first occurrence moves to the back
MoveToCacheTop(peers, p) ==
  LET position == Min({i \in DOMAIN peers : peers[i] = p})
  IN  Append(RemoveIndex(peers, position), p)

\* add_peer
AddPeer(peers, p) ==
  IF p \in HardCoded THEN peers
  ELSE IF p \in Range(peers) THEN MoveToCacheTop(peers, p)
  ELSE InsertNew(peers, p)

\* peers().iter().rev()
NewestFirst(peers) == [i \in 1..Len(peers) |-> peers[(Len(peers) - i) + 1]]

\* The orders in which a HashSet of contacts may be iterated.
Iterations(S) == Injection(1..Cardinality(S), S)
=============================================================================
