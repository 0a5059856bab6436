--------------------------- MODULE BootstrapCache ---------------------------
(***************************************************************************)
(* The bootstrap cache and its file (bootstrap_cache.rs, the disk helpers  *)
(* of utils.rs, Builder::build of lib.rs) across crashes and restarts.     *)
(*                                                                         *)
(* write_to_disk creates, that is truncates, the file and then writes it:  *)
(* these are two steps, and the process may die between them.  Nothing     *)
(* else of the cache happens in between, the write is synchronous.         *)
(***************************************************************************)
EXTENDS BootstrapPeers

CONSTANTS
  Node,          \* NodeInfo: an address with a certificate
  SyncAfter,     \* the 9 of "add_count > 9"
  ProxyLists,    \* what with_proxies may be given
  MaxUses        \* bound: calls of add_peer after one start

ASSUME CacheAssumption ==
  /\ HardCoded \subseteq Node
  /\ SyncAfter \in Nat
  /\ ProxyLists \subseteq Seq(Node)
  /\ MaxUses \in Nat

VARIABLES
  peers,      \* the list in memory
  addCount,   \* add_count
  disk,       \* the file
  process,    \* of the program that holds the cache
  uses,       \* what the list was started with, then every peer that was added
  failedWrites  \* not in the code: writes of this process that failed since its last success

vars == <<peers, addCount, disk, process, uses, failedWrites>>

NoFile == [kind |-> "none", peers |-> <<>>]
Torn == [kind |-> "torn", peers |-> <<>>]
Saved(s) == [kind |-> "saved", peers |-> s]

TypeOK ==
  /\ peers \in Seq(Node)
  /\ addCount \in 0..(SyncAfter + 1)
  /\ process = "up" => addCount <= SyncAfter
  /\ disk \in [kind : {"none", "torn", "saved"}, peers : Seq(Node)]
  /\ process \in {"down", "up", "writing", "cannot start"}
  /\ uses \in Seq(Node)
  /\ failedWrites \in Nat

Init ==
  /\ peers = <<>> /\ uses = <<>>
  /\ addCount = 0
  /\ disk = NoFile
  /\ process = "down"
  /\ failedWrites = 0

\* Builder::build after BootstrapCache::new read the list from the file
Started(list, proxies, exclusively) ==
  IF exclusively THEN proxies ELSE list \o proxies

\* BootstrapCache::new and Builder::build
Start ==
  /\ process = "down"
  /\ disk.kind # "torn"
  /\ \E proxies \in ProxyLists, exclusively \in BOOLEAN :
       peers' = Started(disk.peers, proxies, exclusively)
  /\ uses' = peers'
  /\ addCount' = 0
  /\ process' = "up"
  /\ UNCHANGED <<disk, failedWrites>>

\* read_from_disk fails on a torn file, and with it build().  Failures for other
\* reasons (a directory that cannot be created, a file that may not be read) change
\* neither the list nor the file and are left out.
StartFails ==
  /\ process = "down"
  /\ disk.kind = "torn"
  /\ process' = "cannot start"
  /\ UNCHANGED <<peers, addCount, disk, uses, failedWrites>>

\* Mutated form: a peer that replaces the oldest one is not counted.
CountedWhileGrowing(n) ==
  addCount + (IF n \in HardCoded \/ n \in Range(peers) \/ Len(peers) = MaxCacheSize THEN 0 ELSE 1)

\* add_count after add_peer(n): only a new peer counts.
Counted(n) ==
  addCount + (IF n \in HardCoded \/ n \in Range(peers) THEN 0 ELSE 1)

\* Mutated form: the list is written one peer later.
SyncIsLate(count) == count > SyncAfter + 1

\* try_sync_to_disk
SyncIsDue(count) == count > SyncAfter

Use(n) ==
  /\ process = "up"
  /\ Len(uses) < MaxUses
  /\ peers' = AddPeer(peers, n)
  /\ uses' = IF n \in HardCoded THEN uses ELSE Append(uses, n)

\* add_peer that writes nothing
AddPeerInMemory(n) ==
  /\ Use(n)
  /\ ~SyncIsDue(Counted(n))
  /\ addCount' = Counted(n)
  /\ UNCHANGED <<disk, process, failedWrites>>

\* add_peer up to the truncation of the file
AddPeerAndTruncate(n) ==
  /\ Use(n)
  /\ SyncIsDue(Counted(n))
  /\ addCount' = Counted(n)
  /\ disk' = Torn
  /\ process' = "writing"
  /\ UNCHANGED failedWrites

\* add_peer where File::create fails: the error is logged, the count is reset.
AddPeerAndFailToCreate(n) ==
  /\ Use(n)
  /\ SyncIsDue(Counted(n))
  /\ addCount' = 0
  /\ failedWrites' = failedWrites + 1
  /\ UNCHANGED <<disk, process>>

\* The list is written, or the write fails and leaves the file as it is.
FinishWrite(succeeds) ==
  /\ process = "writing"
  /\ disk' = IF succeeds THEN Saved(peers) ELSE disk
  /\ failedWrites' = IF succeeds THEN 0 ELSE failedWrites + 1
  /\ addCount' = 0
  /\ process' = "up"
  /\ UNCHANGED <<peers, uses>>

\* The program ends, in any way; nothing is written on the way out.
Stop ==
  /\ process \in {"up", "writing"}
  /\ process' = "down"
  /\ peers' = <<>> /\ uses' = <<>>
  /\ addCount' = 0 /\ failedWrites' = 0
  /\ UNCHANGED disk

Next ==
  \/ Start \/ StartFails \/ Stop
  \/ \E n \in Node : AddPeerInMemory(n) \/ AddPeerAndTruncate(n) \/ AddPeerAndFailToCreate(n)
  \/ \E succeeds \in BOOLEAN : FinishWrite(succeeds)

Spec == Init /\ [][Next]_vars

-----------------------------------------------------------------------------
(* Properties                                                               *)

\* In the uses s, the last one of x came before the last one of y.
UsedBefore(s, x, y) ==
  \E j \in DOMAIN s : s[j] = y /\ \A i \in DOMAIN s : s[i] = x => i < j

\* The list holds the most recently used peers in the order of their last use,
\* however inserting, moving and cutting were interleaved: a peer that was used and
\* is missing was used before all of a full list (bootstrap_cache.rs:82).
HoldsMostRecent ==
  /\ Range(peers) \subseteq Range(uses)
  /\ \A i, j \in DOMAIN peers : i < j => UsedBefore(uses, peers[i], peers[j])
  /\ \A x \in Range(uses) \ Range(peers) :
       /\ Len(peers) = MaxCacheSize
       /\ \A y \in Range(peers) : UsedBefore(uses, x, y)

\* The list never exceeds MAX_CACHE_SIZE (bootstrap_cache.rs:17), holds no peer
\* twice and no hard coded contact (bootstrap_cache.rs:83).
CacheIsSound ==
  /\ Len(peers) <= MaxCacheSize
  /\ IsInjective(peers)
  /\ Range(peers) \cap HardCoded = {}

\* Peers that were due and that failed writes left unsaved.
LeftUnsaved == failedWrites * (SyncAfter + 1)

\* A crash loses at most the peers counted since the last attempt to write and, as the
\* count is reset though the write failed, one batch for each attempt that failed since
\* the last success: everything else of the list is in the file, unless a write that
\* failed half-way left none (bootstrap_cache.rs:111).
SavedUpToAddCount ==
  process = "up" /\ disk.kind # "torn" =>
    Cardinality(Range(peers) \ Range(disk.peers)) <= addCount + LeftUnsaved

\* The list never exceeds its bound (bootstrap_cache.rs:17), whatever proxies
\* the upper layer gave to the builder.
CacheIsBounded == Len(peers) <= MaxCacheSize

\* The cache is there to re-join the network after any restart (README.md:39).
RestartsAlways == process # "cannot start"
=============================================================================
