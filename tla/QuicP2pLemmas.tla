--------------------------- MODULE QuicP2pLemmas ----------------------------
(***************************************************************************)
(* Facts about the pieces of QuicP2p. The first half is about IndInv: what *)
(* the operators on entries, connections and groups change, and IndInv     *)
(* taken apart by peer. Almost every handler touches one peer, so a step   *)
(* is shown to keep the part of its own peer (LocalForm, LocalStep).       *)
(* SeverKeeps is connections.remove, InitiateKeeps the start of an         *)
(* attempt, ExitKeeps the end of the thread; DetailsKeep covers the steps  *)
(* that change no half of an entry.                                        *)
(*                                                                         *)
(* The second half sorts the steps by what they do to the map (PeerStep,   *)
(* Ends) and shows, kind by kind, which event of PeerEvents a step is      *)
(* (PeerStepEvents), that it leaves the buffers of an entry as they have   *)
(* to be (PeerStepEntryInv), and that it keeps a client from bootstrapping *)
(* twice (OnceInv).                                                        *)
(***************************************************************************)
EXTENDS QuicP2p, TLAPS

\* add_peer makes a list of peers of one (bootstrap_cache.rs:82): a hypothesis of the
\* lemmas about handlers that call it, and a fact by AddPeerType.
AddPeerTyped == \A s \in Seq(Peer), p \in Peer : AddPeer(s, p) \in Seq(Peer)

\* t runs the same driver, reader, streams and writes as u.
SameTasks(t, u) ==
  /\ t.driver = u.driver
  /\ t.reader = u.reader
  /\ t.streams = u.streams
  /\ t.writes = u.writes

\* What is written and what is dispatched when an attempt succeeds are counts of
\* messages (connect.rs:233, 247).
LEMMA BuffersTyped ==
  ASSUME NEW e \in Connection
  PROVE  Flushed(e) \in Msgs /\ Drained(e) \in Msgs
<1>1. NoMsgs \in Msgs
  BY DEF NoMsgs, Msgs
<1> QED BY Zenon, <1>1 DEF Connection, Flushed, Drained

\* Dropping an entry signals the attempt it waits for and closes what it owns;
\* nothing else of a connection changes (to_peer.rs:87, q_conn.rs:37).
LEMMA ReleaseFields ==
  ASSUME NEW q \in [Conn -> QConn], NEW e, NEW c \in Conn
  PROVE  /\ Release(q, e)[c] \in QConn
         /\ Release(q, e)[c].peer = q[c].peer
         /\ Release(q, e)[c].leaf = q[c].leaf
         /\ SameTasks(Release(q, e)[c], q[c])
         /\ Release(q, e)[c].signal <=>
              q[c].signal \/ (e.to = "Initiated" /\ e.toConn = c /\ q[c].leaf)
         /\ Release(q, e)[c].open <=> q[c].open /\ ~Owns(e, c)
<1> DEFINE s == q[c].signal \/ (e.to = "Initiated" /\ e.toConn = c /\ q[c].leaf)
           o == q[c].open /\ ~Owns(e, c)
<1>1. Release(q, e)[c] = [q[c] EXCEPT !.signal = s, !.open = o]
  BY DEF Release
<1>2. s \in BOOLEAN /\ o \in BOOLEAN
  BY DEF QConn
<1>3. q[c] \in QConn
  OBVIOUS
<1> HIDE DEF s, o
<1>4. /\ Release(q, e)[c] \in QConn
      /\ Release(q, e)[c].peer = q[c].peer
      /\ Release(q, e)[c].leaf = q[c].leaf
      /\ SameTasks(Release(q, e)[c], q[c])
      /\ Release(q, e)[c].signal = s
      /\ Release(q, e)[c].open = o
  BY Zenon, <1>1, <1>2, <1>3 DEF QConn, SameTasks
<1> QED BY Zenon, <1>4 DEF s, o

\* A signal to some terminators changes nothing but the signals.
LEMMA SignalFields ==
  ASSUME NEW q \in [Conn -> QConn], NEW S, NEW c \in Conn
  PROVE  /\ Signal(q, S)[c] \in QConn
         /\ Signal(q, S)[c].peer = q[c].peer
         /\ Signal(q, S)[c].leaf = q[c].leaf
         /\ SameTasks(Signal(q, S)[c], q[c])
         /\ Signal(q, S)[c].signal = (q[c].signal \/ (c \in S /\ q[c].leaf))
         /\ q[c].signal => Signal(q, S)[c].signal
         /\ Signal(q, S)[c].open = q[c].open
  BY DEF Signal, QConn, SameTasks

\* The same of all connections at once.
LEMMA SignalKeeps ==
  ASSUME NEW q \in [Conn -> QConn], NEW S, NEW r, r = Signal(q, S)
  PROVE  /\ r \in [Conn -> QConn]
         /\ \A d \in Conn : /\ r[d] \in QConn
                            /\ r[d].peer = q[d].peer
                            /\ r[d].leaf = q[d].leaf
                            /\ r[d].open = q[d].open
                            /\ SameTasks(r[d], q[d])
                            /\ q[d].signal => r[d].signal
<1>1. ASSUME NEW d \in Conn
      PROVE  /\ r[d] \in QConn
             /\ r[d].peer = q[d].peer
             /\ r[d].leaf = q[d].leaf
             /\ r[d].open = q[d].open
             /\ SameTasks(r[d], q[d])
             /\ q[d].signal => r[d].signal
  BY SignalFields
<1>2. r \in [Conn -> QConn]
  BY Zenon, <1>1 DEF Signal
<1> QED BY Zenon, <1>1, <1>2

\* A dropped reference fires the failure event only if it was the last one and
\* the group had no success (bootstrap_group.rs:107).
LEMMA DropGroupRefFields ==
  ASSUME NEW s \in GroupState, NEW p \in Peer, NEW isLast \in BOOLEAN
  PROVE  /\ DropGroupRef(s, p, isLast) \in GroupState
         /\ DropGroupRef(s, p, isLast).used = s.used
         /\ DropGroupRef(s, p, isLast).success = s.success
         /\ DropGroupRef(s, p, isLast).bootstrapped = s.bootstrapped
         /\ DropGroupRef(s, p, isLast).failed <=> s.failed \/ (isLast /\ ~s.success)
  BY Zenon, NullAssumption DEF DropGroupRef, DropGroup, GroupState

\* The initial state has its type.
LEMMA InitType == ASSUME Init PROVE TypeOK
<1> USE DEF Init, TypeOK
<1>1. connections \in [Peer -> Connection]
  BY Zenon, NullAssumption DEF NoEntry, Connection, NoMsgs, Msgs, ToPeer, FromPeer
<1>2. qconn \in [Conn -> QConn]
  BY Zenon, NullAssumption DEF Unused, QConn, NoMsgs, Msgs
<1>3. group \in [Group -> GroupState]
  BY NullAssumption DEF UnusedGroup, GroupState, NoTerminators
<1>4. boot \in [maker : Group \union {NoGroup}, todo : Seq(Peer)]
  BY NullAssumption DEF Idle
<1>5. cache \in Seq(Peer)
  BY Zenon, ContactsAssumption
<1> QED BY <1>1, <1>2, <1>3, <1>4, <1>5 DEF PeerView

\* The variables that the pieces of handlers do not fix keep their types; no
\* timer of an incomplete entry other than p's is taken away.
RestKept(p) ==
  /\ boot' \in [maker : Group \union {NoGroup}, todo : Seq(Peer)]
  /\ boot'.maker = boot.maker
  /\ killers' \in [Peer -> Nat]
  /\ \A r \in Peer \ {p} : killers'[r] = killers[r]
  /\ cache' \in Seq(Peer)
  /\ query' \in {"never", "waiting", "answered", "panicked"}

\* q is qconn after some task of a connection with p took a step.
TaskEnded(q, p) ==
  \A c \in Conn :
    /\ q[c].peer = qconn[c].peer
    /\ q[c].open = qconn[c].open
    /\ TaskShape(q[c])
    /\ \/ q[c].leaf = qconn[c].leaf /\ q[c].signal = qconn[c].signal
       \/ qconn[c].peer = p /\ ~q[c].leaf

\* connections.remove keeps the invariant, whichever task of whichever entry of p
\* calls it: the one fact that makes tasks that outlive their entry harmless.
LEMMA SeverKeeps ==
  ASSUME IndInv, NEW p \in Peer, NEW q \in [Conn -> QConn],
         TaskEnded(q, p), Sever(p, q), RestKept(p)
  PROVE  IndInv'
<1> DEFINE e == connections[p]
<1>1. /\ e \in Connection
      /\ connections \in [Peer -> Connection]
      /\ qconn \in [Conn -> QConn]
      /\ group \in [Group -> GroupState]
      /\ seen \in [Peer -> PeerView]
  BY Zenon DEF IndInv, TypeOK
<1>2. /\ connections' = [connections EXCEPT ![p] = NoEntry]
      /\ qconn' = Release(q, e)
      /\ loop' = loop
  BY DEF Sever
<1>3. /\ NoEntry \in Connection
      /\ NoEntry.to = "Absent" /\ NoEntry.from = "NoConnection"
      /\ NoEntry.group = NoGroup
  BY NullAssumption DEF NoEntry, Connection, NoMsgs, Msgs, ToPeer, FromPeer
<1>4. /\ connections' \in [Peer -> Connection]
      /\ connections'[p] = NoEntry
      /\ \A r \in Peer : r # p => connections'[r] = connections[r]
  BY Zenon, <1>1, <1>2, <1>3
<1>5. \A c \in Conn :
        /\ qconn'[c] \in QConn
        /\ qconn'[c].peer = qconn[c].peer
        /\ qconn'[c].leaf = q[c].leaf
        /\ SameTasks(qconn'[c], q[c])
        /\ qconn'[c].signal <=> q[c].signal \/ (e.to = "Initiated" /\ e.toConn = c /\ q[c].leaf)
        /\ qconn'[c].open <=> qconn[c].open /\ ~Owns(e, c)
  BY <1>2, ReleaseFields DEF TaskEnded
<1>6. qconn' \in [Conn -> QConn]
  BY Zenon, <1>2, <1>5 DEF Release
<1>7. \A c \in Conn : \/ q[c].leaf = qconn[c].leaf /\ q[c].signal = qconn[c].signal
                      \/ qconn[c].peer = p /\ ~q[c].leaf
  BY DEF TaskEnded
<1> HIDE DEF e
<1>10. \A r \in Peer : EntryShape(connections[r])' /\ Halves(r)'
  <2> SUFFICES ASSUME NEW r \in Peer PROVE EntryShape(connections[r])' /\ Halves(r)'
    OBVIOUS
  <2>0. EntryShape(connections[r]) /\ Halves(r)
    BY Zenon DEF IndInv
  <2>1. CASE r = p
    BY Zenon, <2>1, <1>3, <1>4 DEF EntryShape, Halves
  <2>2. CASE r # p
    <3>1. EntryShape(connections[r])'
      BY Zenon, <2>0, <2>2, <1>4 DEF EntryShape, Complete, Settled
    <3>2. Halves(r)'
      BY <2>0, <2>2, <1>4, <1>5, <1>7 DEF Halves
    <3> QED BY Zenon, <3>1, <3>2
  <2> QED BY Zenon, <2>1, <2>2
<1>11. \A c \in Conn : TaskShape(qconn[c])'
  <2> SUFFICES ASSUME NEW c \in Conn PROVE TaskShape(qconn[c])'
    BY Zenon
  <2>1. TaskShape(q[c]) /\ q[c].peer = qconn[c].peer /\ q[c].open = qconn[c].open
    BY Zenon DEF TaskEnded
  <2>2. qconn'[c].open => q[c].open
    BY Zenon, <2>1, <1>5
  <2> QED BY Zenon, <2>1, <2>2, <1>5 DEF TaskShape, SameTasks
<1>12. LiveAttemptIsCurrent'
  <2> SUFFICES ASSUME NEW c \in Conn, qconn'[c].leaf, ~qconn'[c].signal
               PROVE  /\ connections'[qconn'[c].peer].to = "Initiated"
                      /\ connections'[qconn'[c].peer].toConn = c
    BY Zenon DEF LiveAttemptIsCurrent
  <2>1. qconn[c].leaf /\ ~qconn[c].signal
    BY Zenon, <1>5, <1>7
  <2>2. /\ connections[qconn[c].peer].to = "Initiated"
        /\ connections[qconn[c].peer].toConn = c
    BY Zenon, <2>1 DEF IndInv, LiveAttemptIsCurrent
  <2>3. qconn[c].peer \in Peer
    BY Zenon, <2>1, <1>1 DEF IndInv, TaskShape, Unused, QConn
  <2>4. qconn[c].peer # p
    BY Zenon, <2>1, <2>2, <1>5 DEF e
  <2> QED BY <2>2, <2>3, <2>4, <1>4, <1>5
<1>13. EventsMatchMap'
  <2> SUFFICES ASSUME NEW r \in Peer
               PROVE  seen'[r] = IF Complete(connections'[r]) THEN "connected" ELSE "disconnected"
    BY Zenon DEF EventsMatchMap
  <2>1. seen[r] = IF Complete(connections[r]) THEN "connected" ELSE "disconnected"
    BY Zenon DEF IndInv, EventsMatchMap
  <2>2. seen' = [seen EXCEPT ![p] = IF Complete(e) THEN SeeFailure(@) ELSE @]
    BY DEF Sever, e
  <2>3. ~Complete(NoEntry)
    BY Zenon, <1>3 DEF Complete, Settled
  <2> QED BY Zenon, <2>1, <2>2, <2>3, <1>1, <1>4 DEF SeeFailure, e
<1>14. OpenIffOwned'
  <2> SUFFICES ASSUME NEW c \in Conn
               PROVE  qconn'[c].open <=>
                        \E r \in Peer : qconn'[c].peer = r /\ Owns(connections'[r], c)
    BY Zenon DEF OpenIffOwned
  <2>1. qconn[c].open <=> \E r \in Peer : qconn[c].peer = r /\ Owns(connections[r], c)
    BY Zenon DEF IndInv, OpenIffOwned
  <2>2. ~Owns(connections'[p], c)
    BY Zenon, <1>3, <1>4 DEF Owns
  <2>3. Owns(e, c) => qconn[c].peer = p
    BY Zenon DEF IndInv, Halves, Owns, e
  <2>4. CASE qconn[c].peer = p
    BY Zenon, <2>1, <2>2, <2>4, <1>5 DEF e
  <2>5. CASE qconn[c].peer # p
    BY Zenon, <2>1, <2>3, <2>5, <1>4, <1>5
  <2> QED BY Zenon, <2>4, <2>5
<1>15. IncompleteHasTimer'
  BY Zenon, <1>3, <1>4 DEF IndInv, IncompleteHasTimer, Incomplete, RestKept
<1>16. \A g \in Group : group'[g] \in GroupState /\ GroupShape(g)'
  <2> SUFFICES ASSUME NEW g \in Group PROVE group'[g] \in GroupState /\ GroupShape(g)'
    BY Zenon
  <2> DEFINE last == boot.maker # g /\ \A r \in Peer \ {p} : ~HoldsRef(g, r)
  <2>1. group'[g] = IF HoldsRef(g, p) THEN DropGroupRef(group[g], p, last) ELSE group[g]
    BY Zenon DEF Sever
  <2>2. group[g] \in GroupState /\ GroupShape(g) /\ g # NoGroup
    BY Zenon, <1>1, NullAssumption DEF IndInv
  <2>3. /\ boot'.maker = boot.maker
        /\ ~HoldsRef(g, p)'
        /\ \A r \in Peer : r # p => (HoldsRef(g, r)' <=> HoldsRef(g, r))
    BY Zenon, <1>3, <1>4, <2>2 DEF RestKept, HoldsRef
  <2>4. CASE ~HoldsRef(g, p)
    BY ZenonT(30), <2>1, <2>2, <2>3, <2>4 DEF GroupShape
  <2>5. CASE HoldsRef(g, p)
    <3>1. group'[g] = DropGroupRef(group[g], p, last)
      BY Zenon, <2>1, <2>5
    <3>2. group[g].used /\ ~group[g].failed
      BY Zenon, <2>2, <2>5 DEF GroupShape
    <3>3. last \in BOOLEAN
      BY Zenon
    <3>4. last <=> ~(boot'.maker = g \/ \E r \in Peer : HoldsRef(g, r)')
      BY Zenon, <2>3
    <3> HIDE DEF last
    <3>5. /\ group'[g] \in GroupState
          /\ group'[g].used = group[g].used
          /\ group'[g].success = group[g].success
          /\ group'[g].bootstrapped = group[g].bootstrapped
          /\ group'[g].failed <=> group[g].failed \/ (last /\ ~group[g].success)
      BY <3>1, <3>3, <2>2, DropGroupRefFields
    <3> QED BY Zenon, <3>2, <3>4, <3>5, <2>2 DEF GroupShape
  <2> QED BY Zenon, <2>4, <2>5
<1>17. ConnectNeverPanics'
  BY Zenon, <1>2 DEF IndInv, ConnectNeverPanics
<1>18. TypeOK'
  <2>1. group' \in [Group -> GroupState]
    BY Zenon, <1>16 DEF Sever
  <2>2. seen' \in [Peer -> PeerView]
    BY Zenon, <1>1 DEF Sever, SeeFailure, PeerView
  <2>3. asked' \in [Peer -> BOOLEAN] /\ loop' \in {"running", "stopped"} \union Panic
    BY Zenon DEF Sever, IndInv, TypeOK
  <2> QED BY Zenon, <1>4, <1>6, <2>1, <2>2, <2>3 DEF TypeOK, RestKept
<1> QED
  BY Zenon, <1>10, <1>11, <1>12, <1>13, <1>14, <1>15, <1>16, <1>17, <1>18 DEF IndInv

-----------------------------------------------------------------------------
(* A step that concerns one peer.                                           *)

\* What the invariant says about one peer and its connections.
PeerOK(p) ==
  LET e == connections[p]
  IN  /\ EntryShape(e) /\ Halves(p)
      /\ \A c \in Conn : qconn[c].peer = p =>
           /\ qconn[c].leaf /\ ~qconn[c].signal => e.to = "Initiated" /\ e.toConn = c
           /\ qconn[c].open <=> Owns(e, c)
      /\ seen[p] = IF Complete(e) THEN "connected" ELSE "disconnected"
      /\ KilledByTimer(e) => killers[p] > 0

\* c stays with its peer; it may be told to give up.
LinkKept(c) ==
  /\ qconn'[c].peer = qconn[c].peer
  /\ qconn'[c].leaf = qconn[c].leaf
  /\ qconn'[c].open = qconn[c].open
  /\ qconn[c].signal => qconn'[c].signal

\* A step for p leaves the entries of the others alone.
OthersKept(p) ==
  /\ \A r \in Peer \ {p} : /\ connections'[r] = connections[r]
                            /\ seen'[r] = seen[r]
                            /\ killers'[r] = killers[r]
  /\ \A c \in Conn : \/ LinkKept(c)
                     \/ qconn[c].peer \in {p, NoPeer} /\ qconn'[c].peer = p

\* Of the entries there are, the timer kills those that are not complete.
LEMMA TimerCondition ==
  ASSUME NEW e, EntryShape(e)
  PROVE  KilledByTimer(e) <=> Incomplete(e)
  BY DEF EntryShape, KilledByTimer, Incomplete, Complete, Settled

\* The invariant is one about each peer, each connection and each group.
LEMMA LocalForm ==
  IndInv <=> /\ TypeOK
             /\ \A p \in Peer : PeerOK(p)
             /\ \A c \in Conn : TaskShape(qconn[c])
             /\ \A g \in Group : GroupShape(g)
             /\ ConnectNeverPanics
<1>1. ASSUME IndInv, NEW p \in Peer PROVE PeerOK(p)
  <2>1. EntryShape(connections[p])
    BY Zenon, <1>1 DEF IndInv
  <2>2. KilledByTimer(connections[p]) => killers[p] > 0
    BY Zenon, <1>1, <2>1, TimerCondition DEF IndInv, IncompleteHasTimer
  <2> QED
    BY <1>1, <2>2 DEF IndInv, PeerOK, LiveAttemptIsCurrent, OpenIffOwned, EventsMatchMap
<1>2. ASSUME TypeOK, \A p \in Peer : PeerOK(p), \A c \in Conn : TaskShape(qconn[c])
      PROVE  /\ LiveAttemptIsCurrent /\ OpenIffOwned /\ EventsMatchMap /\ IncompleteHasTimer
             /\ \A p \in Peer : EntryShape(connections[p]) /\ Halves(p)
  <2>1. \A c \in Conn : qconn[c].leaf \/ qconn[c].open => qconn[c].peer \in Peer
    BY Zenon, <1>2 DEF TypeOK, QConn, TaskShape
  <2>2. LiveAttemptIsCurrent
    BY <1>2, <2>1 DEF PeerOK, LiveAttemptIsCurrent
  <2>3. OpenIffOwned
    BY Zenon, <1>2, <2>1 DEF PeerOK, OpenIffOwned
  <2>4. IncompleteHasTimer
    BY Zenon, <1>2, TimerCondition DEF PeerOK, IncompleteHasTimer
  <2> QED BY Zenon, <1>2, <2>2, <2>3, <2>4 DEF PeerOK, EventsMatchMap
<1> QED BY Zenon, <1>1, <1>2 DEF IndInv

\* The same of the next state.
LEMMA LocalFormNext ==
  IndInv' <=> (/\ TypeOK
               /\ \A p \in Peer : PeerOK(p)
               /\ \A c \in Conn : TaskShape(qconn[c])
               /\ \A g \in Group : GroupShape(g)
               /\ ConnectNeverPanics)'
  BY LocalForm, PTL

\* A step for p that leaves the others alone keeps the invariant if it keeps what
\* the invariant says about p.
LEMMA LocalStep ==
  ASSUME IndInv, NEW p \in Peer, OthersKept(p),
         TypeOK', PeerOK(p)', loop' = loop,
         \A c \in Conn : TaskShape(qconn[c])',
         \A g \in Group : GroupShape(g)'
  PROVE  IndInv'
<1>1. \A r \in Peer : PeerOK(r)'
  <2> SUFFICES ASSUME NEW r \in Peer, r # p PROVE PeerOK(r)'
    OBVIOUS
  <2>1. PeerOK(r)
    BY Zenon, LocalForm
  <2>2. connections'[r] = connections[r] /\ seen'[r] = seen[r] /\ killers'[r] = killers[r]
    BY Zenon DEF OthersKept
  <2>3. \A c \in Conn : qconn'[c].peer = r \/ qconn[c].peer = r => LinkKept(c)
    <3>1. r # NoPeer
      BY NullAssumption
    <3>2. \A c \in Conn : LinkKept(c) \/ (qconn[c].peer \in {p, NoPeer} /\ qconn'[c].peer = p)
      BY ZenonT(30) DEF OthersKept
    <3> QED BY Zenon, <3>1, <3>2 DEF LinkKept
  <2>4. Halves(r)'
    BY <2>1, <2>2, <2>3 DEF PeerOK, Halves, LinkKept
  <2>5. EntryShape(connections[r])'
    BY Zenon, <2>1, <2>2 DEF PeerOK, EntryShape
  <2> QED BY <2>1, <2>2, <2>3, <2>4, <2>5 DEF PeerOK, LinkKept
<1>2. ConnectNeverPanics'
  BY Zenon DEF IndInv, ConnectNeverPanics
<1>3. (/\ TypeOK
       /\ \A r \in Peer : PeerOK(r)
       /\ \A c \in Conn : TaskShape(qconn[c])
       /\ \A g \in Group : GroupShape(g)
       /\ ConnectNeverPanics)'
  BY ZenonT(30), <1>1, <1>2
<1> QED BY ZenonT(30), <1>3, LocalFormNext

\* Groups keep their shape when no reference to them comes or goes.
LEMMA GroupsKept ==
  ASSUME IndInv, group' = group, boot'.maker = boot.maker,
         \A r \in Peer : connections'[r].group = connections[r].group
  PROVE  \A g \in Group : GroupShape(g)'
<1> SUFFICES ASSUME NEW g \in Group PROVE GroupShape(g)'
  BY Zenon
<1>1. GroupShape(g)
  BY Zenon DEF IndInv
<1>2. \A r \in Peer : HoldsRef(g, r)' <=> HoldsRef(g, r)
  BY DEF HoldsRef
<1> QED BY Zenon, <1>1, <1>2 DEF GroupShape

\* The entry of p changes in nothing but its buffers and its flag.
SameHalves(d, e) ==
  /\ d.to = e.to /\ d.toConn = e.toConn
  /\ d.from = e.from /\ d.fromConn = e.fromConn
  /\ d.group = e.group
  /\ e.to = "Absent" => d = e

\* c keeps what an entry can own of it; a new c of p is not owned.
LinkSame(c, p) ==
  /\ \/ qconn'[c].peer = qconn[c].peer /\ qconn'[c].signal = qconn[c].signal
     \/ qconn[c].peer = NoPeer /\ qconn'[c].peer = p
  /\ qconn'[c].leaf = qconn[c].leaf
  /\ qconn'[c].open = qconn[c].open

\* A step that changes no half of an entry and no event keeps the invariant.
LEMMA DetailsKeep ==
  ASSUME IndInv, NEW p \in Peer, TypeOK', RestKept(p),
         \A r \in Peer \ {p} : connections'[r] = connections[r],
         SameHalves(connections'[p], connections[p]),
         KilledByTimer(connections[p]) => killers'[p] > 0,
         \A c \in Conn : LinkSame(c, p) /\ TaskShape(qconn[c])',
         UNCHANGED <<group, seen, loop>>
  PROVE  IndInv'
<1>1. PeerOK(p) /\ \A c \in Conn : TaskShape(qconn[c])
  BY Zenon, LocalForm
<1>2. OthersKept(p)
  <2>1. \A r \in Peer \ {p} : seen'[r] = seen[r] /\ killers'[r] = killers[r]
    BY Zenon DEF RestKept
  <2>2. \A c \in Conn : \/ LinkKept(c)
                        \/ qconn[c].peer \in {p, NoPeer} /\ qconn'[c].peer = p
    BY Zenon DEF LinkKept, LinkSame
  <2> QED BY Zenon, <2>1, <2>2 DEF OthersKept
<1>3. PeerOK(p)'
  <2>1. EntryShape(connections[p])'
    <3>1. EntryShape(connections[p])
      BY <1>1 DEF PeerOK
    <3>2. Complete(connections'[p]) <=> Complete(connections[p])
      BY Zenon DEF SameHalves, Complete, Settled
    <3> QED BY ZenonT(30), <3>1, <3>2 DEF EntryShape, SameHalves
  <2>2. Halves(p)'
    <3>1. Halves(p)
      BY <1>1 DEF PeerOK
    <3>2. \A c \in Conn : qconn[c].peer = p => qconn'[c].peer = p /\ qconn'[c].leaf = qconn[c].leaf
      BY Zenon, NullAssumption DEF LinkSame
    <3> QED BY ZenonT(30), <3>1, <3>2 DEF Halves, SameHalves
  <2>3. \A c \in Conn : qconn'[c].peer = p =>
          /\ qconn'[c].leaf = qconn[c].leaf
          /\ qconn[c].leaf => qconn'[c].signal = qconn[c].signal
          /\ qconn'[c].open = qconn[c].open
          /\ qconn[c].peer = p \/ (~qconn[c].leaf /\ ~qconn[c].open /\ qconn[c].peer = NoPeer)
    BY Zenon, <1>1 DEF LinkSame, TaskShape
  <2>4. \A c \in Conn : qconn'[c].peer = p =>
          /\ qconn'[c].leaf /\ ~qconn'[c].signal =>
               connections'[p].to = "Initiated" /\ connections'[p].toConn = c
          /\ qconn'[c].open <=> Owns(connections'[p], c)
    <3> SUFFICES ASSUME NEW c \in Conn, qconn'[c].peer = p
                 PROVE  /\ qconn'[c].leaf /\ ~qconn'[c].signal =>
                             connections'[p].to = "Initiated" /\ connections'[p].toConn = c
                        /\ qconn'[c].open <=> Owns(connections'[p], c)
      BY Zenon
    <3>1. Owns(connections'[p], c) <=> Owns(connections[p], c)
      BY Zenon DEF SameHalves, Owns
    <3>2. connections'[p].to = connections[p].to /\ connections'[p].toConn = connections[p].toConn
      BY Zenon DEF SameHalves
    <3>3. CASE qconn[c].peer = p
      BY ZenonT(30), <1>1, <2>3, <3>1, <3>2, <3>3 DEF PeerOK
    <3>4. CASE qconn[c].peer # p
      <4>1. ~qconn'[c].leaf /\ ~qconn'[c].open /\ qconn[c].peer # p
        BY Zenon, <2>3, <3>4
      <4>2. ~Owns(connections[p], c)
        BY Zenon, <1>1, <4>1 DEF PeerOK, Halves, Owns
      <4> QED BY Zenon, <4>1, <4>2, <3>1
    <3> QED BY Zenon, <3>3, <3>4
  <2>5. seen'[p] = IF Complete(connections'[p]) THEN "connected" ELSE "disconnected"
    BY Zenon, <1>1 DEF PeerOK, SameHalves, Complete
  <2>6. KilledByTimer(connections'[p]) => killers'[p] > 0
    BY Zenon DEF KilledByTimer, SameHalves
  <2> QED BY Zenon, <2>1, <2>2, <2>4, <2>5, <2>6 DEF PeerOK
<1>4. \A g \in Group : GroupShape(g)'
  BY Zenon, GroupsKept DEF RestKept, SameHalves
<1> QED BY Zenon, <1>2, <1>3, <1>4, LocalStep

-----------------------------------------------------------------------------
(* Announce: the entry of p becomes complete.                               *)

\* terminate_group sets the flag and counts the event.
LEMMA TerminateGroupFields ==
  ASSUME NEW s \in GroupState
  PROVE  /\ TerminateGroup(s) \in GroupState
         /\ TerminateGroup(s).used = s.used
         /\ TerminateGroup(s).success = TRUE
         /\ TerminateGroup(s).bootstrapped = s.bootstrapped + 1
         /\ TerminateGroup(s).failed = s.failed
<1>1. NoTerminators \in [Peer -> Conn \union {NoConn}]
  BY DEF NoTerminators
<1>2. \A b \in BOOLEAN, T \in [Peer -> Conn \union {NoConn}], n \in Nat :
        [s EXCEPT !.success = b, !.terminators = T, !.bootstrapped = n] \in GroupState
  BY Zenon DEF GroupState
<1>3. TRUE \in BOOLEAN /\ s.bootstrapped + 1 \in Nat
  BY DEF GroupState
<1>4. TerminateGroup(s) \in GroupState
  BY Zenon, <1>1, <1>2, <1>3 DEF TerminateGroup
<1> QED BY Zenon, <1>4 DEF TerminateGroup, GroupState

\* What completing the entry of p does to the map, the tasks and the groups.
Announced(p, e, q, view) ==
  /\ connections' \in [Peer -> Connection]
  /\ \A r \in Peer \ {p} : connections'[r] = connections[r] /\ seen'[r] = seen[r]
  /\ connections'[p].to = e.to /\ connections'[p].toConn = e.toConn
  /\ connections'[p].from = e.from /\ connections'[p].fromConn = e.fromConn
  /\ connections'[p].group = NoGroup
  /\ qconn' \in [Conn -> QConn]
  /\ \A d \in Conn : /\ qconn'[d].peer = q[d].peer
                     /\ qconn'[d].leaf = q[d].leaf
                     /\ qconn'[d].open = q[d].open
                     /\ SameTasks(qconn'[d], q[d])
                     /\ q[d].signal => qconn'[d].signal
  /\ seen' \in [Peer -> PeerView] /\ seen'[p] = view
  /\ group' \in [Group -> GroupState]
  /\ \A g \in Group : GroupShape(g)'
  /\ asked' = asked /\ loop' = loop

LEMMA AnnounceFacts ==
  ASSUME IndInv, NEW p \in Peer, NEW e \in Connection, NEW q \in [Conn -> QConn],
         NEW view \in PeerView, Announce(p, e, q, view), boot'.maker = boot.maker
  PROVE  Announced(p, e, q, view)
<1>1. /\ connections \in [Peer -> Connection]
      /\ group \in [Group -> GroupState]
      /\ seen \in [Peer -> PeerView]
  BY DEF IndInv, TypeOK
<1>2. connections' = [connections EXCEPT ![p] = [e EXCEPT !.group = NoGroup]]
  BY DEF Announce
<1>3. /\ [e EXCEPT !.group = NoGroup] \in Connection
      /\ [e EXCEPT !.group = NoGroup].to = e.to
      /\ [e EXCEPT !.group = NoGroup].toConn = e.toConn
      /\ [e EXCEPT !.group = NoGroup].from = e.from
      /\ [e EXCEPT !.group = NoGroup].fromConn = e.fromConn
      /\ [e EXCEPT !.group = NoGroup].group = NoGroup
  BY DEF Connection
<1>4. /\ connections' \in [Peer -> Connection]
      /\ \A r \in Peer \ {p} : connections'[r] = connections[r]
      /\ connections'[p] = [e EXCEPT !.group = NoGroup]
  BY Zenon, <1>1, <1>2, <1>3
<1>5. PICK S : qconn' = Signal(q, S)
  BY Zenon DEF Announce
<1>6. \A d \in Conn : /\ qconn'[d] \in QConn
                      /\ qconn'[d].peer = q[d].peer
                      /\ qconn'[d].leaf = q[d].leaf
                      /\ qconn'[d].open = q[d].open
                      /\ SameTasks(qconn'[d], q[d])
                      /\ q[d].signal => qconn'[d].signal
  BY ZenonT(30), <1>5, SignalFields
<1>7. qconn' \in [Conn -> QConn]
  BY Zenon, <1>5, <1>6 DEF Signal
<1>8. seen' \in [Peer -> PeerView] /\ seen'[p] = view /\ \A r \in Peer \ {p} : seen'[r] = seen[r]
  BY <1>1 DEF Announce
<1>9. \A g \in Group : group'[g] \in GroupState /\ GroupShape(g)'
  <2> SUFFICES ASSUME NEW g \in Group PROVE group'[g] \in GroupState /\ GroupShape(g)'
    BY Zenon
  <2>1. group'[g] = IF HoldsRef(g, p) THEN TerminateGroup(group[g]) ELSE group[g]
    BY Zenon DEF Announce
  <2>2. group[g] \in GroupState /\ GroupShape(g) /\ g # NoGroup
    BY Zenon, <1>1, NullAssumption DEF IndInv
  <2>3. /\ ~HoldsRef(g, p)'
        /\ \A r \in Peer : r # p => (HoldsRef(g, r)' <=> HoldsRef(g, r))
    BY Zenon, <1>3, <1>4, <2>2 DEF HoldsRef
  <2>4. CASE ~HoldsRef(g, p)
    BY Zenon, <2>1, <2>2, <2>3, <2>4 DEF GroupShape
  <2>5. CASE HoldsRef(g, p)
    <3>1. group[g].used /\ ~group[g].failed
      BY Zenon, <2>2, <2>5 DEF GroupShape
    <3>2. /\ group'[g] \in GroupState
          /\ group'[g].used /\ group'[g].success /\ ~group'[g].failed
          /\ group'[g].bootstrapped = group[g].bootstrapped + 1
      BY ZenonT(30), <2>1, <2>2, <2>5, <3>1, TerminateGroupFields
    <3>3. group'[g].bootstrapped > 0
      BY <2>2, <3>2 DEF GroupState
    <3> QED BY ZenonT(30), <3>2, <3>3 DEF GroupShape
  <2> QED BY <2>4, <2>5
<1>10. group' \in [Group -> GroupState]
  BY Zenon, <1>9 DEF Announce
<1>11. asked' = asked /\ loop' = loop
  BY Zenon DEF Announce
<1> QED BY Zenon, <1>3, <1>4, <1>6, <1>7, <1>8, <1>9, <1>10, <1>11 DEF Announced

\* A new entry has a timer (connection/mod.rs:97).
LEMMA SpawnKillerFacts ==
  ASSUME IndInv, NEW p \in Peer, NEW isCalled \in BOOLEAN, SpawnKiller(p, isCalled)
  PROVE  /\ killers' \in [Peer -> Nat]
         /\ \A r \in Peer \ {p} : killers'[r] = killers[r]
         /\ killers[p] > 0 => killers'[p] > 0
         /\ isCalled /\ connections[p].to = "Absent" => killers'[p] > 0
<1>1. killers \in [Peer -> Nat] /\ killers[p] \in Nat
  BY Zenon DEF IndInv, TypeOK
<1>2. CASE isCalled /\ connections[p].to = "Absent"
  <2>1. killers' = [killers EXCEPT ![p] = @ + 1]
    BY Zenon, <1>2 DEF SpawnKiller
  <2> QED BY <1>1, <2>1
<1>3. CASE ~(isCalled /\ connections[p].to = "Absent")
  <2>1. killers' = killers
    BY <1>3 DEF SpawnKiller
  <2> QED BY Zenon, <1>1, <1>3, <2>1
<1> QED BY Zenon, <1>2, <1>3

-----------------------------------------------------------------------------
(* Initiate: an attempt is started for p.                                   *)

\* Every task of q is in a state that an entry of the map does not see.
TasksOnly(q) ==
  \A d \in Conn : /\ q[d].peer = qconn[d].peer
                  /\ q[d].leaf = qconn[d].leaf
                  /\ q[d].signal = qconn[d].signal
                  /\ q[d].open = qconn[d].open
                  /\ TaskShape(q[d])

\* A new attempt is running and not open.
LEMMA AttemptFields ==
  ASSUME NEW p \in Peer
  PROVE  Attempt(p) \in QConn /\ Attempt(p).peer = p /\ Attempt(p).leaf /\ ~Attempt(p).open
<1>1. NoMsgs \in Msgs
  BY Zenon DEF NoMsgs, Msgs
<1>2. Unused \in QConn /\ ~Unused.open
  BY Zenon, <1>1 DEF Unused, QConn
<1>3. \A l \in BOOLEAN : LET u == [Unused EXCEPT !.peer = p, !.leaf = l]
                        IN  u \in QConn /\ u.peer = p /\ u.leaf = l /\ u.open = Unused.open
  BY Zenon, <1>2 DEF QConn
<1> QED BY Zenon, <1>2, <1>3 DEF Attempt

\* A new member changes nothing but the terminators of its group.
LEMMA AddMemberFields ==
  ASSUME NEW s \in GroupState, NEW p \in Peer, NEW c \in Conn
  PROVE  /\ AddMember(s, p, c) \in GroupState
         /\ AddMember(s, p, c).used = s.used
         /\ AddMember(s, p, c).success = s.success
         /\ AddMember(s, p, c).bootstrapped = s.bootstrapped
         /\ AddMember(s, p, c).failed = s.failed
  BY DEF AddMember, GroupState

\* connect_to starts an attempt for an entry without an outgoing half.
LEMMA InitiateKeeps ==
  ASSUME IndInv, NEW p \in Peer, NEW c \in Conn, NEW pending \in Msgs,
         NEW g \in {NoGroup, boot.maker}, NEW byUser \in BOOLEAN, NEW q \in [Conn -> QConn],
         connections[p].to \in {"Absent", "NoConnection"},
         ~(OurType = "Client" /\ connections[p].from # "NoConnection"),
         TasksOnly(q), Fresh(c), Initiate(p, c, pending, g, byUser, q),
         RestKept(p), killers'[p] > 0
  PROVE  IndInv'
<1> DEFINE e == connections[p]
           i == OrInsert(e)
           joins == g # NoGroup /\ i.group = NoGroup
           x == connections'[p]
           q1 == [q EXCEPT ![c] = Attempt(p)]
<1>1. /\ connections \in [Peer -> Connection]
      /\ qconn \in [Conn -> QConn]
      /\ seen \in [Peer -> PeerView]
      /\ group \in [Group -> GroupState]
      /\ boot.maker \in Group \union {NoGroup}
      /\ TypeOK
  BY DEF IndInv, TypeOK
<1>2. PeerOK(p) /\ EntryShape(e) /\ Halves(p) /\ \A d \in Conn : TaskShape(qconn[d])
  BY Zenon, LocalForm DEF PeerOK
<1>3. /\ i \in Connection /\ i.from = e.from /\ i.fromConn = e.fromConn
      /\ i.group = NoGroup
  <2>1. CASE e.to = "Absent"
    <3>1. NoEntry \in Connection /\ NoEntry.group = NoGroup
      BY Zenon, NullAssumption DEF NoEntry, Connection, NoMsgs, Msgs, ToPeer, FromPeer
    <3>2. e = NoEntry /\ i = [NoEntry EXCEPT !.to = "NoConnection"]
      BY Zenon, <2>1, <1>2 DEF EntryShape, OrInsert, NewEntry
    <3> HIDE DEF i, e
    <3> QED BY Zenon, <3>1, <3>2 DEF Connection, ToPeer
  <2>2. CASE e.to = "NoConnection"
    BY Zenon, <2>2, <1>1, <1>2 DEF EntryShape, OrInsert
  <2> QED BY Zenon, <2>1, <2>2
<1>4. x = [i EXCEPT !.to = "Initiated", !.toConn = c, !.sends = pending,
                    !.from = IF OurType = "Client" THEN "NotNeeded" ELSE @,
                    !.group = IF joins THEN g ELSE @,
                    !.contacted = @ \/ byUser]
  BY Zenon, <1>1 DEF Initiate
<1> HIDE DEF e, i
<1>5. /\ x \in Connection /\ x.to = "Initiated" /\ x.toConn = c
      /\ x.from = (IF OurType = "Client" THEN "NotNeeded" ELSE e.from)
      /\ x.fromConn = e.fromConn
      /\ x.group = g
  <2> DEFINE b == i.contacted \/ byUser
             f == IF OurType = "Client" THEN "NotNeeded" ELSE i.from
             h == IF joins THEN g ELSE i.group
  <2>1. b \in BOOLEAN /\ f \in FromPeer /\ h = g /\ h \in Group \union {NoGroup}
    BY Zenon, <1>1, <1>3 DEF Connection, FromPeer
  <2>2. x = [i EXCEPT !.to = "Initiated", !.toConn = c, !.sends = pending,
                      !.from = f, !.group = h, !.contacted = b]
    BY Zenon, <1>4
  <2> HIDE DEF b, f, h, x
  <2>3. x \in Connection /\ x.to = "Initiated" /\ x.toConn = c /\ x.from = f
        /\ x.fromConn = i.fromConn /\ x.group = h
    BY Zenon, <2>1, <2>2, <1>3 DEF Connection, ToPeer
  <2> QED BY Zenon, <2>1, <2>3, <1>3 DEF f
<1>6. /\ connections' \in [Peer -> Connection]
      /\ \A r \in Peer \ {p} : connections'[r] = connections[r]
  <2>1. PICK y : connections' = [connections EXCEPT ![p] = y]
    BY Zenon DEF Initiate
  <2>2. y \in Connection
    BY Zenon, <2>1, <1>1, <1>5
  <2> QED BY <2>1, <2>2, <1>1
<1> HIDE DEF x
<1>7. /\ qconn' \in [Conn -> QConn]
      /\ qconn'[c].peer = p /\ qconn'[c].leaf /\ ~qconn'[c].open
      /\ \A d \in Conn \ {c} : LinkKept(d)
      /\ \A d \in Conn : TaskShape(qconn[d])'
  <2>1. q1 \in [Conn -> QConn] /\ q1[c] = Attempt(p) /\ \A d \in Conn \ {c} : q1[d] = q[d]
    BY Zenon, AttemptFields
  <2>2. PICK S : qconn' = Signal(q1, S)
    BY Zenon DEF Initiate
  <2> HIDE DEF q1
  <2>3. /\ qconn' \in [Conn -> QConn]
        /\ \A d \in Conn : /\ qconn'[d] \in QConn
                           /\ qconn'[d].peer = q1[d].peer
                           /\ qconn'[d].leaf = q1[d].leaf
                           /\ qconn'[d].open = q1[d].open
                           /\ SameTasks(qconn'[d], q1[d])
                           /\ q1[d].signal => qconn'[d].signal
    BY <2>1, <2>2, SignalKeeps
  <2>5. qconn'[c].peer = p /\ qconn'[c].leaf /\ ~qconn'[c].open
    BY <2>1, <2>3, AttemptFields
  <2>6. \A d \in Conn \ {c} : LinkKept(d)
    BY <2>1, <2>3 DEF LinkKept, TasksOnly
  <2>7. ASSUME NEW d \in Conn PROVE TaskShape(qconn[d])'
    <3>1. CASE d = c
      <4>1. p # NoPeer
        BY Zenon, NullAssumption
      <4> QED BY Zenon, <3>1, <2>5, <4>1 DEF TaskShape
    <3>2. CASE d # c
      <4>1. /\ qconn'[d].peer = q[d].peer /\ qconn'[d].leaf = q[d].leaf
            /\ qconn'[d].open = q[d].open /\ SameTasks(qconn'[d], q[d])
        BY ZenonT(30), <3>2, <2>1, <2>3
      <4> QED BY Zenon, <4>1 DEF TaskShape, TasksOnly, SameTasks
    <3> QED BY Zenon, <3>1, <3>2
  <2> QED BY Zenon, <2>3, <2>5, <2>6, <2>7
<1>8. qconn[c].peer = NoPeer /\ ~qconn[c].open
  BY Zenon, <1>2 DEF Fresh, TaskShape
<1>9. OthersKept(p)
  BY Zenon, <1>6, <1>7, <1>8 DEF OthersKept, RestKept, Initiate
<1>10. ~Complete(x) /\ ~Complete(e) /\ seen' = seen /\ loop' = loop
  BY Zenon, <1>5 DEF Complete, Settled, Initiate, e
<1>11. PeerOK(p)'
  <2>1. EntryShape(x)
    BY ZenonT(30), <1>2, <1>5, <1>10, OurTypeAssumption DEF EntryShape, e
  <2>2. Halves(p)'
    <3>1. x.from = "Established" => x.fromConn \in Conn /\ qconn'[x.fromConn].peer = p
      BY <1>2, <1>5, <1>7 DEF Halves, e, LinkKept
    <3>2. /\ x.to = "Initiated" /\ x.toConn = c
          /\ c \in Conn /\ qconn'[c].peer = p /\ qconn'[c].leaf
      BY Zenon, <1>5, <1>7
    <3> QED BY ZenonT(30), <3>1, <3>2 DEF Halves, x
  <2>3. ASSUME NEW d \in Conn, qconn'[d].peer = p
        PROVE  /\ qconn'[d].leaf /\ ~qconn'[d].signal => x.to = "Initiated" /\ x.toConn = d
               /\ qconn'[d].open <=> Owns(x, d)
    <3>1. CASE d = c
      <4>1. ~Owns(x, c)
        BY Zenon, <1>2, <1>5, <1>8, NullAssumption DEF Owns, Halves, e
      <4> QED BY Zenon, <3>1, <4>1, <1>5, <1>7
    <3>2. CASE d # c
      <4>1. LinkKept(d) /\ qconn[d].peer = p
        BY Zenon, <3>2, <2>3, <1>7 DEF LinkKept
      <4>2. /\ qconn[d].leaf /\ ~qconn[d].signal => e.to = "Initiated"
            /\ qconn[d].open <=> Owns(e, d)
        BY ZenonT(30), <4>1, <1>2 DEF PeerOK, e
      <4>3. Owns(x, d) <=> Owns(e, d)
        BY Zenon, <1>2, <1>5 DEF Owns, e, EntryShape
      <4> QED BY ZenonT(30), <4>1, <4>2, <4>3 DEF LinkKept, e
    <3> QED BY <3>1, <3>2
  <2>4. seen'[p] = "disconnected"
    BY ZenonT(30), <1>2, <1>10 DEF PeerOK, e
  <2> QED BY ZenonT(30), <2>1, <2>2, <2>3, <2>4, <1>10 DEF PeerOK, x
<1>12. \A h \in Group : group'[h] \in GroupState /\ GroupShape(h)'
  <2> SUFFICES ASSUME NEW h \in Group PROVE group'[h] \in GroupState /\ GroupShape(h)'
    OBVIOUS
  <2>1. group[h] \in GroupState /\ GroupShape(h) /\ h # NoGroup
    BY Zenon, <1>1, NullAssumption DEF IndInv
  <2>2. group'[h] = IF joins /\ h = g THEN AddMember(group[h], p, c) ELSE group[h]
    <3>1. group' = [k \in Group |-> IF joins /\ k = g THEN AddMember(group[k], p, c) ELSE group[k]]
      BY ZenonT(30) DEF Initiate, i, e
    <3> HIDE DEF joins
    <3> QED BY Zenon, <3>1
  <2>3. /\ group'[h] \in GroupState
        /\ group'[h].used = group[h].used /\ group'[h].success = group[h].success
        /\ group'[h].bootstrapped = group[h].bootstrapped /\ group'[h].failed = group[h].failed
    BY <2>1, <2>2, AddMemberFields
  <2>4. boot'.maker = boot.maker /\ (g = h => boot.maker = h)
    BY Zenon, <2>1 DEF RestKept
  <2>5. e.group = NoGroup
    BY <1>2 DEF EntryShape, e
  <2>6. \A r \in Peer : HoldsRef(h, r)' <=> (IF r = p THEN g = h ELSE HoldsRef(h, r))
    BY Zenon, <1>5, <1>6 DEF HoldsRef, x
  <2>7. ~HoldsRef(h, p)
    BY Zenon, <2>1, <2>5 DEF HoldsRef, e
  <2>8. (boot.maker = h \/ \E r \in Peer : HoldsRef(h, r))' <=>
           (boot.maker = h \/ \E r \in Peer : HoldsRef(h, r))
    BY <2>4, <2>6, <2>7
  <2> QED BY <2>1, <2>3, <2>8 DEF GroupShape
<1>13. TypeOK'
  <2>1. group' \in [Group -> GroupState]
    BY Zenon, <1>12 DEF Initiate
  <2>2. asked' \in [Peer -> BOOLEAN]
    BY Zenon, <1>1 DEF Initiate, TypeOK
  <2> QED BY Zenon, <1>1, <1>6, <1>7, <1>10, <2>1, <2>2 DEF TypeOK, RestKept
<1> QED BY Zenon, <1>7, <1>9, <1>10, <1>11, <1>12, <1>13, LocalStep

\* A step of a task that no entry sees is the end of a task of any peer.
LEMMA TasksOnlyEnded ==
  ASSUME NEW q, NEW p, TasksOnly(q)
  PROVE  TaskEnded(q, p)
  BY DEF TasksOnly, TaskEnded

\* connect_to with each of its outcomes (connect.rs:25).
LEMMA ConnectToKeeps ==
  ASSUME IndInv, NEW p \in Peer, NEW pending \in Msgs, NEW g \in {NoGroup, boot.maker},
         NEW byUser \in BOOLEAN, NEW how \in ConnectOutcome, NEW q \in [Conn -> QConn],
         TasksOnly(q), ConnectTo(p, pending, g, byUser, how, q), RestKept(p),
         killers[p] > 0 => killers'[p] > 0,
         how # "bad certificate" /\ connections[p].to = "Absent" => killers'[p] > 0
  PROVE  IndInv'
<1> DEFINE e == connections[p]
<1>1. PeerOK(p) /\ EntryShape(e) /\ TypeOK
  BY ZenonT(30), LocalForm DEF PeerOK
<1>2. CASE Sever(p, q)
  BY ZenonT(30), <1>2, TasksOnlyEnded, SeverKeeps
<1>3. CASE /\ how # "bad certificate"
           /\ e.to \notin {"Absent", "NoConnection"}
  <2>1. /\ qconn' = q
        /\ asked' = [asked EXCEPT ![p] = @ \/ byUser]
        /\ UNCHANGED <<connections, group, seen, loop>>
    BY ZenonT(30), <1>3 DEF ConnectTo
  <2>2. TypeOK'
    BY ZenonT(30), <1>1, <2>1 DEF TypeOK, RestKept
  <2>3. \A c \in Conn : LinkSame(c, p) /\ TaskShape(qconn[c])'
    BY ZenonT(30), <2>1 DEF LinkSame, TasksOnly, TaskShape
  <2>4. KilledByTimer(e) => killers'[p] > 0
    <3>1. KilledByTimer(e) => killers[p] > 0
      BY Zenon, <1>1 DEF PeerOK
    <3> QED BY ZenonT(30), <3>1
  <2>5. SameHalves(connections'[p], e)
    BY Zenon, <2>1 DEF SameHalves
  <2> QED BY ZenonT(30), <2>1, <2>2, <2>3, <2>4, <2>5, DetailsKeep
<1>4. CASE /\ how = "attempted"
           /\ e.to \in {"Absent", "NoConnection"}
  <2>1. ~(OurType = "Client" /\ e.from # "NoConnection")
    BY <1>1, <1>4, OurTypeAssumption DEF EntryShape, NoEntry
  <2>2. PICK c \in Conn : Fresh(c) /\ Initiate(p, c, pending, g, byUser, q)
    BY Zenon, <1>4, <2>1 DEF ConnectTo
  <2>3. killers'[p] > 0
    <3>1. e.to = "NoConnection" => killers[p] > 0
      BY <1>1 DEF PeerOK, KilledByTimer, Settled
    <3> QED BY Zenon, <1>4, <3>1
  <2> QED BY ZenonT(30), <1>4, <2>1, <2>2, <2>3, InitiateKeeps
<1>5. CASE /\ how = "refused"
           /\ e.to \in {"Absent", "NoConnection"}
  <2>1. ~(OurType = "Client" /\ e.from # "NoConnection")
    BY <1>1, <1>5, OurTypeAssumption DEF EntryShape, NoEntry
  <2> QED BY ZenonT(30), <1>2, <1>5, <2>1 DEF ConnectTo
<1>6. CASE how = "bad certificate"
  BY ZenonT(30), <1>2, <1>6 DEF ConnectTo
<1> QED BY ZenonT(30), <1>3, <1>4, <1>5, <1>6 DEF ConnectOutcome

-----------------------------------------------------------------------------
(* The end of the loop, and the client's handshake.                         *)

\* The end of the thread drops every entry and every task.
LEMMA ExitKeeps ==
  ASSUME IndInv, NEW how \in {"stopped", "panic at communicate.rs:254"}, Exit(how),
         boot.maker = NoGroup, boot' = boot, killers' = killers, cache' = cache,
         query' \in {"never", "waiting", "answered", "panicked"}
  PROVE  IndInv'
<1>1. TypeOK /\ EventsMatchMap
  BY Zenon DEF IndInv
<1>2. /\ NoEntry \in Connection /\ Unused \in QConn
      /\ NoEntry.to = "Absent" /\ NoEntry.from = "NoConnection" /\ NoEntry.group = NoGroup
      /\ ~Unused.leaf /\ ~Unused.open
  <2>1. NoMsgs \in Msgs
    BY Zenon DEF NoMsgs, Msgs
  <2>2. Unused \in QConn /\ ~Unused.leaf /\ ~Unused.open
    BY Zenon, <2>1 DEF Unused, QConn
  <2> QED BY Zenon, <2>1, <2>2, NullAssumption DEF NoEntry, Connection, ToPeer, FromPeer
<1>3. /\ connections' = [p \in Peer |-> NoEntry]
      /\ qconn' = [c \in Conn |-> Unused]
      /\ loop' = how
  BY Zenon DEF Exit
<1>4. ~Complete(NoEntry) /\ ~KilledByTimer(NoEntry) /\ EntryShape(NoEntry)
  BY Zenon, <1>2 DEF Complete, Settled, KilledByTimer, EntryShape
<1>5. \A c \in Conn : TaskShape(qconn[c])'
  <2>1. TaskShape(Unused)
    BY Zenon DEF TaskShape, Unused
  <2> QED BY Zenon, <1>3, <2>1
<1>6. \A g \in Group : group'[g] \in GroupState /\ GroupShape(g)'
  <2> SUFFICES ASSUME NEW g \in Group PROVE group'[g] \in GroupState /\ GroupShape(g)'
    BY Zenon
  <2> DEFINE s == [group[g] EXCEPT !.terminators = NoTerminators]
             isReferred == boot.maker = g \/ \E p \in Peer : HoldsRef(g, p)
  <2>1. group[g] \in GroupState /\ GroupShape(g) /\ g # NoGroup
    BY Zenon, <1>1, NullAssumption DEF IndInv, TypeOK
  <2>2. /\ s \in GroupState /\ s.used = group[g].used /\ s.success = group[g].success
        /\ s.bootstrapped = group[g].bootstrapped /\ s.failed = group[g].failed
    <3>1. NoTerminators \in [Peer -> Conn \union {NoConn}]
      BY Zenon DEF NoTerminators
    <3> QED BY Zenon, <2>1, <3>1 DEF GroupState
  <2>3. group'[g] = IF isReferred THEN DropGroup(s) ELSE group[g]
    BY Zenon DEF Exit
  <2>4. ~(boot.maker = g \/ \E p \in Peer : HoldsRef(g, p))'
    BY ZenonT(30), <2>1, <1>2, <1>3 DEF HoldsRef
  <2> HIDE DEF s
  <2>5. CASE isReferred
    <3>1. /\ DropGroup(s) \in GroupState
          /\ DropGroup(s).used = s.used /\ DropGroup(s).success = s.success
          /\ DropGroup(s).bootstrapped = s.bootstrapped
          /\ DropGroup(s).failed <=> s.failed \/ ~s.success
      BY Zenon, <2>2 DEF DropGroup, GroupState
    <3> QED BY Zenon, <2>1, <2>2, <2>3, <2>4, <2>5, <3>1 DEF GroupShape
  <2>6. CASE ~isReferred
    BY ZenonT(30), <2>1, <2>3, <2>4, <2>6 DEF GroupShape
  <2> QED BY Zenon, <2>5, <2>6
<1>7. TypeOK' /\ EventsMatchMap'
  <2>1. connections' \in [Peer -> Connection] /\ qconn' \in [Conn -> QConn]
    BY Zenon, <1>2, <1>3
  <2>2. group' \in [Group -> GroupState]
    BY Zenon, <1>6 DEF Exit
  <2>3. seen' = [p \in Peer |-> "disconnected"]
    BY Zenon, <1>1 DEF Exit, EventsMatchMap, SeeFailure
  <2>4. asked' \in [Peer -> BOOLEAN] /\ loop' \in {"running", "stopped"} \union Panic
    BY Zenon DEF Exit, Panic
  <2> QED BY Zenon, <1>1, <1>3, <1>4, <2>1, <2>2, <2>3, <2>4 DEF TypeOK, EventsMatchMap, PeerView
<1>8. \A p \in Peer : EntryShape(connections[p])' /\ Halves(p)'
  BY Zenon, <1>2, <1>3, <1>4 DEF Halves
<1>9. LiveAttemptIsCurrent' /\ ConnectNeverPanics' /\ IncompleteHasTimer'
  BY Zenon, <1>2, <1>3, <1>4
     DEF LiveAttemptIsCurrent, ConnectNeverPanics, IncompleteHasTimer, Incomplete
<1>10. OpenIffOwned'
  BY Zenon, <1>2, <1>3 DEF OpenIffOwned, Owns
<1> QED BY Zenon, <1>5, <1>6, <1>7, <1>8, <1>9, <1>10 DEF IndInv

-----------------------------------------------------------------------------
(* What a step does to the map, whichever task takes it.                    *)

\* An entry is removed.
Severs(p) == \E q \in [Conn -> QConn] : TaskEnded(q, p) /\ Sever(p, q) /\ cache' = cache

\* An attempt is started.
Connects(p) ==
  /\ connections[p].to \in {"Absent", "NoConnection"}
  /\ ~(OurType = "Client" /\ connections[p].from # "NoConnection")
  /\ \E c \in Conn, pending \in Msgs, g \in {NoGroup, boot.maker}, byUser \in BOOLEAN,
        q \in [Conn -> QConn] :
       TasksOnly(q) /\ Fresh(c) /\ Initiate(p, c, pending, g, byUser, q)
  /\ cache' = cache

\* The attempt that the entry waits for succeeds.
Establishes(p) ==
  /\ boot.maker = NoGroup
  /\ connections[p].to = "Initiated"
  /\ \E c \in Conn : ResultPolled(c) /\ p = qconn[c].peer /\ Establish(c, connections[p])

\* A connection of the peer is accepted.
Accepts(p) == IncomingConnection(p) /\ connections[p].from = "NoConnection"

\* The handshake of a client completes the entry.
Greets(p) ==
  /\ connections[p].to = "NoConnection"
  /\ \E q \in [Conn -> QConn] : TasksOnly(q) /\ HandleClientHandshake(p, q)

\* No half of an entry, no event and no group changes.
Quiet(p) ==
  /\ \A r \in Peer \ {p} : connections'[r] = connections[r] /\ asked'[r] = asked[r]
  /\ SameHalves(connections'[p], connections[p])
  /\ connections[p].to = "Established" => /\ connections'[p].sends = connections[p].sends
                                          /\ connections'[p].reads = connections[p].reads
  /\ connections'[p].contacted => connections[p].contacted \/ asked'[p]
  /\ asked[p] => asked'[p]
  /\ \A c \in Conn : qconn[c].signal /\ qconn[c].peer # NoPeer => qconn'[c].signal
  /\ UNCHANGED <<group, seen, loop>>
  /\ \/ cache' = cache
     \/ connections[p].to = "Established" /\ cache' = Remember(connections[p], p)

\* A step that concerns the entry of p.
PeerStep(p) ==
  /\ boot'.maker = boot.maker
  /\ Severs(p) \/ Connects(p) \/ Establishes(p) \/ Accepts(p) \/ Greets(p) \/ Quiet(p)

\* The thread ends.
Ends ==
  /\ \E how \in {"stopped", "panic at communicate.rs:254"} : Exit(how)
  /\ boot.maker = NoGroup /\ boot' = boot /\ cache' = cache

-----------------------------------------------------------------------------
(* The events refine the lifecycle that PeerEvents promises.                *)

Outcomes == [g \in Group |-> Outcome(group[g])]

\* What decides the outcome of a call of bootstrap().
LEMMA OutcomeFields ==
  ASSUME NEW s, NEW t, t.failed <=> s.failed, t.bootstrapped = s.bootstrapped
  PROVE  Outcome(t) = Outcome(s)
BY Zenon DEF Outcome

\* A group that is referred to is undecided or had a success.
LEMMA ReferredOutcome ==
  ASSUME IndInv, NEW g \in Group, boot.maker = g \/ \E p \in Peer : HoldsRef(g, p)
  PROVE  /\ group[g] \in GroupState
         /\ ~group[g].failed
         /\ group[g].success <=> group[g].bootstrapped > 0
         /\ Outcomes[g] = IF group[g].success THEN "bootstrapped" ELSE "none"
<1>1. group[g] \in GroupState /\ GroupShape(g)
  BY Zenon DEF IndInv, TypeOK
<1>2. ~group[g].failed /\ (group[g].success <=> group[g].bootstrapped > 0)
  BY Zenon, <1>1 DEF GroupShape
<1> QED BY Zenon, <1>1, <1>2 DEF Outcomes, Outcome

\* No event, and no other outcome: a step that PeerEvents does not see.
LEMMA NoEvent ==
  ASSUME seen' = seen, loop' = loop,
         \A g \in Group : /\ group'[g].failed <=> group[g].failed
                          /\ group'[g].bootstrapped = group[g].bootstrapped
  PROVE  UNCHANGED Events!vars
<1>1. \A g \in Group : Outcome(group'[g]) = Outcome(group[g])
  BY Zenon, OutcomeFields
<1>2. [g \in Group |-> Outcome(group[g])]' = [g \in Group |-> Outcome(group[g])]
  BY Zenon, <1>1
<1> QED BY Zenon, <1>2 DEF Events!vars

\* An entry that is removed fires ConnectionFailure if it was complete, and
\* BootstrapFailure if it was the last one of an undecided group.
LEMMA SeversEvents ==
  ASSUME IndInv, loop = "running", NEW p \in Peer, Severs(p)
  PROVE  [Events!Next]_(Events!vars)
<1> DEFINE e == connections[p]
           last(g) == boot.maker # g /\ \A r \in Peer \ {p} : ~HoldsRef(g, r)
<1>1. /\ e.group \in Group \union {NoGroup} /\ seen \in [Peer -> PeerView]
      /\ group \in [Group -> GroupState] /\ NoGroup \notin Group
  BY NullAssumption DEF IndInv, TypeOK, Connection
<1>2. /\ group' = [g \in Group |-> IF HoldsRef(g, p) THEN DropGroupRef(group[g], p, last(g))
                                   ELSE group[g]]
      /\ seen' = [seen EXCEPT ![p] = IF Complete(e) THEN SeeFailure(@) ELSE @]
      /\ loop' = loop
  BY Zenon DEF Severs, Sever
<1>3. \A g \in Group : ~HoldsRef(g, p) => group'[g] = group[g]
  BY Zenon, <1>2
<1>4. CASE Complete(e)
  <2>1. e.group = NoGroup /\ seen[p] = "connected"
    BY Zenon, <1>4 DEF IndInv, EntryShape, EventsMatchMap
  <2>2. \A g \in Group : group'[g] = group[g]
    BY Zenon, <1>1, <1>3, <2>1 DEF HoldsRef
  <2>3. [g \in Group |-> Outcome(group[g])]' = [g \in Group |-> Outcome(group[g])]
    BY Zenon, <2>2
  <2>4. seen' = [seen EXCEPT ![p] = "disconnected"]
    BY Zenon, <1>2, <1>4, <2>1 DEF SeeFailure
  <2>5. Events!ConnectionFailure(p)
    BY Zenon, <1>2, <2>1, <2>3, <2>4 DEF Events!ConnectionFailure
  <2> QED BY Zenon, <2>5 DEF Events!Next
<1>5. CASE ~Complete(e)
  <2>1. seen' = seen
    BY Zenon, <1>1, <1>2, <1>5
  <2>2. CASE e.group = NoGroup
    <3>1. \A g \in Group : group'[g] = group[g]
      BY Zenon, <1>1, <1>3, <2>2 DEF HoldsRef
    <3> QED BY Zenon, <1>2, <2>1, <3>1, NoEvent
  <2>3. CASE e.group # NoGroup
    <3> DEFINE g == e.group
    <3>1. g \in Group /\ HoldsRef(g, p) /\ last(g) \in BOOLEAN
      BY Zenon, <1>1, <2>3 DEF HoldsRef
    <3>2. group'[g] = DropGroupRef(group[g], p, last(g))
      BY Zenon, <1>2, <3>1
    <3> HIDE DEF last
    <3>3. /\ group'[g].bootstrapped = group[g].bootstrapped
          /\ group'[g].failed <=> group[g].failed \/ (last(g) /\ ~group[g].success)
      <4>1. group[g] \in GroupState
        BY Zenon, <1>1, <3>1
      <4>2. \A b \in BOOLEAN :
              /\ DropGroupRef(group[g], p, b).bootstrapped = group[g].bootstrapped
              /\ DropGroupRef(group[g], p, b).failed <=> group[g].failed \/ (b /\ ~group[g].success)
        BY Zenon, <4>1, DropGroupRefFields
      <4> QED BY Zenon, <3>1, <3>2, <4>2
    <3>4. \A h \in Group \ {g} : group'[h] = group[h]
      BY Zenon, <1>3 DEF HoldsRef
    <3>5. CASE last(g) /\ ~group[g].success
      <4>1. Outcomes[g] = "none" /\ Outcome(group'[g]) = "failed"
        BY Zenon, <3>1, <3>3, <3>5, ReferredOutcome DEF Outcome
      <4>2. [h \in Group |-> Outcome(group[h])]' = [Outcomes EXCEPT ![g] = "failed"]
        BY Zenon, <3>1, <3>4, <4>1 DEF Outcomes
      <4>3. Events!BootstrapFailure(g)
        BY Zenon, <1>2, <2>1, <4>1, <4>2 DEF Events!BootstrapFailure, Outcomes
      <4> QED BY Zenon, <3>1, <4>3 DEF Events!Next
    <3>6. CASE ~(last(g) /\ ~group[g].success)
      <4>1. \A h \in Group : /\ group'[h].failed <=> group[h].failed
                             /\ group'[h].bootstrapped = group[h].bootstrapped
        BY Zenon, <3>3, <3>4, <3>6
      <4> QED BY Zenon, <1>2, <2>1, <4>1, NoEvent
    <3> QED BY Zenon, <3>5, <3>6
  <2> QED BY Zenon, <2>2, <2>3
<1> QED BY Zenon, <1>4, <1>5

\* An entry that becomes complete fires BootstrappedTo if it is the member of a
\* group, ConnectedTo otherwise.
LEMMA AnnounceEvents ==
  ASSUME IndInv, loop = "running", NEW p \in Peer, NEW e, NEW q,
         ~Complete(connections[p]), Announce(p, e, q, "connected")
  PROVE  [Events!Next]_(Events!vars)
<1> DEFINE g == connections[p].group
<1>1. /\ g \in Group \union {NoGroup} /\ group \in [Group -> GroupState]
      /\ NoGroup \notin Group
  BY NullAssumption DEF IndInv, TypeOK, Connection
<1>2. /\ group' = [h \in Group |-> IF HoldsRef(h, p) THEN TerminateGroup(group[h]) ELSE group[h]]
      /\ seen' = [seen EXCEPT ![p] = "connected"]
      /\ loop' = loop
  BY Zenon DEF Announce
<1>3. seen[p] = "disconnected"
  BY Zenon DEF IndInv, EventsMatchMap
<1>4. \A h \in Group : h # g => group'[h] = group[h]
  BY Zenon, <1>2 DEF HoldsRef
<1>5. CASE g = NoGroup
  <2>1. [h \in Group |-> Outcome(group[h])]' = [h \in Group |-> Outcome(group[h])]
    BY Zenon, <1>1, <1>4, <1>5
  <2>2. Events!ConnectedTo(p)
    BY Zenon, <1>2, <1>3, <2>1 DEF Events!ConnectedTo
  <2> QED BY Zenon, <2>2 DEF Events!Next
<1>6. CASE g # NoGroup
  <2>1. g \in Group /\ HoldsRef(g, p)
    BY Zenon, <1>1, <1>6 DEF HoldsRef
  <2>2. group'[g] = TerminateGroup(group[g])
    BY Zenon, <1>2, <2>1
  <2>3. ~group'[g].failed /\ group'[g].bootstrapped = group[g].bootstrapped + 1
    BY Zenon, <1>1, <2>1, <2>2, ReferredOutcome, TerminateGroupFields
  <2>4. group'[g].bootstrapped > 0
    <3>1. group[g].bootstrapped \in Nat
      BY Zenon, <1>1, <2>1 DEF GroupState
    <3> QED BY <2>3, <3>1
  <2>5. Outcome(group'[g]) = "bootstrapped" /\ Outcomes[g] # "failed"
    BY Zenon, <2>1, <2>3, <2>4, ReferredOutcome DEF Outcome
  <2>6. [h \in Group |-> Outcome(group[h])]' = [Outcomes EXCEPT ![g] = "bootstrapped"]
    BY Zenon, <1>4, <2>1, <2>5 DEF Outcomes
  <2>7. Events!BootstrappedTo(p, g)
    BY Zenon, <1>2, <1>3, <2>5, <2>6 DEF Events!BootstrappedTo, Outcomes
  <2> QED BY Zenon, <2>1, <2>7 DEF Events!Next
<1> QED BY Zenon, <1>5, <1>6

\* The loop ends: complete entries fire ConnectionFailure, undecided groups that
\* are dropped with it BootstrapFailure, and nothing comes after.
LEMMA EndsEvents ==
  ASSUME IndInv, loop = "running", Ends
  PROVE  [Events!Next]_(Events!vars)
<1> DEFINE isReferred(g) == boot.maker = g \/ \E p \in Peer : HoldsRef(g, p)
           t(g) == [group[g] EXCEPT !.terminators = NoTerminators]
<1>1. /\ group' = [g \in Group |-> IF isReferred(g) THEN DropGroup(t(g)) ELSE group[g]]
      /\ seen' = [p \in Peer |-> IF Complete(connections[p]) THEN SeeFailure(seen[p]) ELSE seen[p]]
      /\ loop' \in {"stopped", "panic at communicate.rs:254"}
  BY Zenon DEF Ends, Exit
<1>2. seen' = [p \in Peer |-> "disconnected"]
  <2>1. \A p \in Peer : seen[p] = IF Complete(connections[p]) THEN "connected" ELSE "disconnected"
    BY Zenon DEF IndInv, EventsMatchMap
  <2> QED BY Zenon, <1>1, <2>1 DEF SeeFailure
<1>3. loop' # "running"
  BY <1>1
<1>4. ASSUME NEW g \in Group
      PROVE  \/ Outcome(group'[g]) = Outcomes[g]
             \/ Outcome(group'[g]) = "failed" /\ Outcomes[g] = "none"
  <2>1. CASE isReferred(g)
    <3>1. group'[g] = DropGroup(t(g))
      BY Zenon, <1>1, <2>1
    <3>2. t(g) \in GroupState /\ t(g).success = group[g].success /\ t(g).failed = group[g].failed
          /\ t(g).bootstrapped = group[g].bootstrapped
      <4>1. NoTerminators \in [Peer -> Conn \union {NoConn}]
        BY Zenon DEF NoTerminators
      <4> QED BY <2>1, <4>1, ReferredOutcome DEF GroupState
    <3> HIDE DEF t
    <3>3. /\ group'[g].failed <=> ~group[g].success
          /\ group'[g].bootstrapped = group[g].bootstrapped
      BY Zenon, <2>1, <3>1, <3>2, ReferredOutcome DEF DropGroup, GroupState
    <3> QED BY Zenon, <2>1, <3>3, ReferredOutcome DEF Outcome
  <2>2. CASE ~isReferred(g)
    <3>1. group'[g] = group[g]
      BY Zenon, <1>1, <2>2
    <3> QED BY Zenon, <3>1 DEF Outcomes
  <2> QED BY Zenon, <2>1, <2>2
<1> DEFINE S == {g \in Group : Outcomes[g] = "none" /\ Outcome(group'[g]) = "failed"}
<1>5. /\ S \in SUBSET {g \in Group : Outcomes[g] = "none"}
      /\ [g \in Group |-> Outcome(group[g])]'
           = [g \in Group |-> IF g \in S THEN "failed" ELSE Outcomes[g]]
  BY Zenon, <1>4
<1> HIDE DEF S
<1>6. Events!LoopEnds
  <2>1. Outcomes = [g \in Group |-> Outcome(group[g])]
    BY Zenon DEF Outcomes
  <2> QED BY Zenon, <1>2, <1>3, <1>5, <2>1 DEF Events!LoopEnds
<1> QED BY Zenon, <1>6 DEF Events!Next

\* A step that concerns one peer.
LEMMA PeerStepEvents ==
  ASSUME IndInv, loop = "running", NEW p \in Peer, PeerStep(p)
  PROVE  [Events!Next]_(Events!vars)
<1> DEFINE e == connections[p]
<1>1. /\ seen \in [Peer -> PeerView] /\ group \in [Group -> GroupState]
      /\ seen[p] = IF Complete(e) THEN "connected" ELSE "disconnected"
  BY Zenon DEF IndInv, TypeOK, EventsMatchMap
<1>2. CASE Severs(p)
  BY Zenon, <1>2, SeversEvents
<1>3. CASE Connects(p)
  <2>1. PICK c \in Conn, pending \in Msgs, g \in {NoGroup, boot.maker}, byUser \in BOOLEAN,
             q \in [Conn -> QConn] : Initiate(p, c, pending, g, byUser, q)
    BY Zenon, <1>3 DEF Connects
  <2>2. /\ seen' = seen /\ loop' = loop
        /\ \A h \in Group : group'[h] = group[h] \/ group'[h] = AddMember(group[h], p, c)
    BY Zenon, <2>1 DEF Initiate
  <2>3. \A h \in Group : /\ group'[h].failed <=> group[h].failed
                         /\ group'[h].bootstrapped = group[h].bootstrapped
    <3>1. \A h \in Group : group[h] \in GroupState
      BY Zenon, <1>1
    <3>2. ASSUME NEW h \in Group
          PROVE  /\ AddMember(group[h], p, c).failed = group[h].failed
                 /\ AddMember(group[h], p, c).bootstrapped = group[h].bootstrapped
      BY Zenon, <3>1, AddMemberFields
    <3> QED BY Zenon, <2>2, <3>2
  <2> QED BY Zenon, <2>2, <2>3, NoEvent
<1>4. CASE Establishes(p)
  <2>1. PICK c \in Conn : p = qconn[c].peer /\ Establish(c, e)
    BY Zenon, <1>4 DEF Establishes
  <2>2. ~Complete(e) /\ seen[p] = "disconnected"
    BY <1>1, <1>4 DEF Establishes, Complete, Settled
  <2>3. CASE e.from = "NoConnection"
    <3>1. seen' = seen /\ loop' = loop /\ group' = group
      BY Zenon, <2>1, <2>3 DEF Establish
    <3> QED BY Zenon, <3>1, NoEvent
  <2>4. CASE e.from # "NoConnection"
    <3>1. \E e1, q, view : /\ view \in {SeeConnected(seen[p]), SeeMessage(SeeConnected(seen[p]))}
                           /\ Announce(p, e1, q, view)
      BY Zenon, <2>1, <2>4 DEF Establish
    <3>2. \E e1, q : Announce(p, e1, q, "connected")
      BY Zenon, <2>2, <3>1 DEF SeeConnected, SeeMessage
    <3> QED BY Zenon, <2>2, <3>2, AnnounceEvents
  <2> QED BY Zenon, <2>3, <2>4
<1>5. CASE Accepts(p)
  <2>1. /\ ~Complete(e) /\ seen[p] = "disconnected"
        /\ e.from = "NoConnection" /\ OrInsert(e).from = "NoConnection"
    <3>1. e.from = "NoConnection" /\ NewEntry.from = "NoConnection"
      BY <1>5 DEF Accepts, NewEntry, NoEntry
    <3> QED BY <1>1, <3>1 DEF Complete, Settled, OrInsert
  <2>2. \/ UNCHANGED <<group, seen, loop>>
        \/ \E e1, q : Announce(p, e1, q, SeeConnected(seen[p]))
    BY Zenon, <1>5, <2>1 DEF Accepts, IncomingConnection
  <2>3. CASE UNCHANGED <<group, seen, loop>>
    BY Zenon, <2>3, NoEvent
  <2>4. CASE \E e1, q : Announce(p, e1, q, SeeConnected(seen[p]))
    <3>1. \E e1, q : Announce(p, e1, q, "connected")
      BY Zenon, <2>1, <2>4 DEF SeeConnected
    <3> QED BY Zenon, <2>1, <3>1, AnnounceEvents
  <2> QED BY Zenon, <2>2, <2>3, <2>4
<1>6. CASE Greets(p)
  <2>1. seen[p] = "disconnected"
    BY <1>1, <1>6 DEF Greets, Complete, Settled
  <2>2. /\ seen' = [seen EXCEPT ![p] = SeeConnected(@)] /\ group' = group /\ loop' = loop
    BY Zenon, <1>6 DEF Greets, HandleClientHandshake
  <2>3. seen' = [seen EXCEPT ![p] = "connected"]
    BY Zenon, <2>1, <2>2 DEF SeeConnected
  <2>4. Events!ConnectedTo(p)
    BY Zenon, <2>1, <2>2, <2>3 DEF Events!ConnectedTo
  <2> QED BY Zenon, <2>4 DEF Events!Next
<1>7. CASE Quiet(p)
  <2>1. seen' = seen /\ loop' = loop /\ group' = group
    BY Zenon, <1>7 DEF Quiet
  <2> QED BY Zenon, <2>1, NoEvent
<1> QED BY Zenon, <1>2, <1>3, <1>4, <1>5, <1>6, <1>7 DEF PeerStep

\* The call itself is not an event; its group may be dropped with the maker.
LEMMA BootstrapEvents ==
  ASSUME IndInv, loop = "running", BootstrapStart \/ BootstrapEnd
  PROVE  [Events!Next]_(Events!vars)
<1>1. group \in [Group -> GroupState]
  BY Zenon DEF IndInv, TypeOK
<1>2. CASE BootstrapStart
  <2>1. /\ seen' = seen /\ loop' = loop
        /\ \E g \in Group : group' = [group EXCEPT ![g].used = TRUE]
    BY Zenon, <1>2 DEF BootstrapStart
  <2>2. PICK g \in Group : group' = [group EXCEPT ![g].used = TRUE]
    BY Zenon, <2>1
  <2>3. \A h \in Group : /\ group'[h].failed <=> group[h].failed
                         /\ group'[h].bootstrapped = group[h].bootstrapped
    BY <1>1, <2>2 DEF GroupState
  <2> QED BY Zenon, <2>1, <2>3, NoEvent
<1>3. CASE BootstrapEnd
  <2> DEFINE g == boot.maker
  <2>1. g \in Group
    BY Zenon, <1>3 DEF BootstrapEnd, IndInv, TypeOK
  <2>2. /\ seen' = seen /\ loop' = loop
        /\ \A h \in Group \ {g} : group'[h] = group[h]
        /\ group'[g] = IF \E p \in Peer : HoldsRef(g, p) THEN group[g] ELSE DropGroup(group[g])
    BY Zenon, <1>1, <1>3, <2>1 DEF BootstrapEnd
  <2>3. /\ Outcomes[g] = IF group[g].success THEN "bootstrapped" ELSE "none"
        /\ ~group[g].failed /\ group[g] \in GroupState
    BY Zenon, <2>1, ReferredOutcome
  <2>4. /\ DropGroup(group[g]).failed <=> ~group[g].success
        /\ DropGroup(group[g]).bootstrapped = group[g].bootstrapped
    BY Zenon, <2>3 DEF DropGroup, GroupState
  <2>5. CASE group'[g] = DropGroup(group[g]) /\ ~group[g].success
    <3>1. Outcome(group'[g]) = "failed"
      BY Zenon, <2>4, <2>5 DEF Outcome
    <3>2. [h \in Group |-> Outcome(group[h])]' = [Outcomes EXCEPT ![g] = "failed"]
      BY Zenon, <2>1, <2>2, <3>1 DEF Outcomes
    <3>3. Events!BootstrapFailure(g)
      BY Zenon, <2>2, <2>3, <2>5, <3>2 DEF Events!BootstrapFailure, Outcomes
    <3> QED BY Zenon, <2>1, <3>3 DEF Events!Next
  <2>6. CASE group'[g] = group[g] \/ group[g].success
    <3>1. /\ group'[g].failed <=> group[g].failed
          /\ group'[g].bootstrapped = group[g].bootstrapped
      BY Zenon, <2>2, <2>3, <2>4, <2>6
    <3>2. \A h \in Group : /\ group'[h].failed <=> group[h].failed
                           /\ group'[h].bootstrapped = group[h].bootstrapped
      BY Zenon, <2>2, <3>1
    <3> QED BY Zenon, <2>2, <3>2, NoEvent
  <2> QED BY Zenon, <2>2, <2>5, <2>6
<1> QED BY Zenon, <1>2, <1>3

-----------------------------------------------------------------------------
(* The buffers of an entry, and who asked for it.                           *)

\* The buffers of an established half are empty, and an entry marked as contacted
\* is one the upper layer asked to contact.
EntryInv(p) ==
  /\ connections[p].to = "Established" =>
       connections[p].sends = NoMsgs /\ connections[p].reads = NoMsgs
  /\ connections[p].contacted => asked[p]

\* Only the entry of p has to be looked at.
LEMMA EntryInvLocal ==
  ASSUME NEW p \in Peer, \A r \in Peer : EntryInv(r),
         \A r \in Peer \ {p} : connections'[r] = connections[r] /\ asked'[r] = asked[r],
         EntryInv(p)'
  PROVE  \A r \in Peer : EntryInv(r)'
<1>1. ASSUME NEW r \in Peer \ {p} PROVE EntryInv(r)'
  BY Zenon, <1>1 DEF EntryInv
<1> QED BY Zenon, <1>1

\* NoEntry has the empty buffers and was not contacted.
LEMMA NoEntryInv ==
  ASSUME NEW p \in Peer, connections'[p] = NoEntry
  PROVE  EntryInv(p)'
<1>1. NoEntry.to = "Absent" /\ NoEntry.contacted = FALSE
  BY DEF NoEntry
<1>2. NoEntry.to # "Established"
  BY <1>1
<1> QED BY Zenon, <1>1, <1>2 DEF EntryInv

\* or_insert_with keeps an entry or makes one that was not contacted.
LEMMA OrInsertFields ==
  ASSUME NEW e \in Connection
  PROVE  /\ OrInsert(e) \in Connection
         /\ OrInsert(e).contacted => e.contacted
         /\ OrInsert(e).to = "Established" =>
              e.to = "Established" /\ OrInsert(e).sends = e.sends /\ OrInsert(e).reads = e.reads
<1>1. NoMsgs \in Msgs
  BY Zenon DEF NoMsgs, Msgs
<1>2. NewEntry \in Connection /\ NewEntry.to = "NoConnection" /\ NewEntry.contacted = FALSE
  BY Zenon, <1>1 DEF NewEntry, NoEntry, Connection, ToPeer, FromPeer
<1>3. NewEntry.to # "Established"
  BY <1>2
<1> QED BY Zenon, <1>2, <1>3 DEF OrInsert

\* A step that concerns the entry of p keeps its buffers as they have to be.
LEMMA PeerStepEntryInv ==
  ASSUME IndInv, NEW p \in Peer, PeerStep(p), \A r \in Peer : EntryInv(r)
  PROVE  \A r \in Peer : EntryInv(r)'
<1> DEFINE e == connections[p]
<1>1. /\ connections \in [Peer -> Connection] /\ asked \in [Peer -> BOOLEAN]
      /\ e \in Connection /\ EntryInv(p)
  BY Zenon DEF IndInv, TypeOK
<1>2. CASE Severs(p)
  <2>1. connections' = [connections EXCEPT ![p] = NoEntry] /\ asked' = [asked EXCEPT ![p] = FALSE]
    BY Zenon, <1>2 DEF Severs, Sever
  <2>2. connections'[p] = NoEntry
    BY Zenon, <1>1, <2>1
  <2>3. \A r \in Peer \ {p} : connections'[r] = connections[r] /\ asked'[r] = asked[r]
    BY Zenon, <1>1, <2>1
  <2> QED BY Zenon, <2>2, <2>3, NoEntryInv, EntryInvLocal
<1>3. CASE Connects(p)
  <2>1. PICK c \in Conn, pending \in Msgs, g \in {NoGroup, boot.maker}, byUser \in BOOLEAN,
             q \in [Conn -> QConn] : Initiate(p, c, pending, g, byUser, q)
    BY Zenon, <1>3 DEF Connects
  <2> DEFINE d == OrInsert(e)
             f(from, h, b) == [d EXCEPT !.to = "Initiated", !.toConn = c, !.sends = pending,
                                        !.from = from, !.group = h, !.contacted = b]
  <2>2. /\ \E from, h : connections' = [connections EXCEPT ![p] = f(from, h, d.contacted \/ byUser)]
        /\ asked' = [asked EXCEPT ![p] = @ \/ byUser]
    BY Zenon, <2>1 DEF Initiate
  <2>3. d \in Connection /\ (d.contacted => e.contacted)
    BY Zenon, <1>1, OrInsertFields
  <2> HIDE DEF d
  <2>4. \A from, h, b : f(from, h, b).to = "Initiated" /\ f(from, h, b).contacted = b
    BY Zenon, <2>3 DEF Connection
  <2> HIDE DEF f
  <2>5. /\ connections'[p].to = "Initiated" /\ connections'[p].contacted = (d.contacted \/ byUser)
        /\ asked'[p] = (asked[p] \/ byUser)
    <3>1. PICK from, h, b : /\ connections' = [connections EXCEPT ![p] = f(from, h, b)]
                            /\ b = (d.contacted \/ byUser)
      BY Zenon, <2>2
    <3>2. connections'[p] = f(from, h, b)
      BY Zenon, <1>1, <3>1
    <3>3. asked'[p] = (asked[p] \/ byUser)
      BY Zenon, <1>1, <2>2
    <3>4. connections'[p].to = "Initiated" /\ connections'[p].contacted = b
      BY <2>4, <3>2
    <3> QED BY Zenon, <3>1, <3>3, <3>4
  <2>6. EntryInv(p)'
    <3>1. "Initiated" # "Established"
      OBVIOUS
    <3> QED BY Zenon, <1>1, <2>3, <2>5, <3>1 DEF EntryInv
  <2>7. \A r \in Peer \ {p} : connections'[r] = connections[r] /\ asked'[r] = asked[r]
    BY Zenon, <1>1, <2>2
  <2> QED BY Zenon, <2>6, <2>7, EntryInvLocal
<1>4. CASE Establishes(p)
  <2>1. PICK c \in Conn : p = qconn[c].peer /\ Establish(c, e)
    BY Zenon, <1>4 DEF Establishes
  <2> DEFINE d == EstablishedEntry(e, c)
  <2>2. /\ d \in Connection /\ d.sends = NoMsgs /\ d.reads = NoMsgs /\ d.contacted = e.contacted
        /\ LET f == [d EXCEPT !.group = NoGroup]
           IN  f.sends = NoMsgs /\ f.reads = NoMsgs /\ f.contacted = e.contacted
    <3>1. NoMsgs \in Msgs /\ "Established" \in ToPeer
      BY Zenon DEF NoMsgs, Msgs, ToPeer
    <3> QED BY Zenon, <1>1, <3>1 DEF EstablishedEntry, Connection
  <2>3. /\ \/ connections' = [connections EXCEPT ![p] = d]
           \/ connections' = [connections EXCEPT ![p] = [d EXCEPT !.group = NoGroup]]
        /\ asked' = asked
    BY Zenon, <2>1 DEF Establish, Announce
  <2> HIDE DEF d
  <2>4. /\ connections'[p].sends = NoMsgs /\ connections'[p].reads = NoMsgs
        /\ connections'[p].contacted = e.contacted
    BY Zenon, <1>1, <2>2, <2>3
  <2>5. EntryInv(p)'
    BY Zenon, <1>1, <2>3, <2>4 DEF EntryInv
  <2>6. \A r \in Peer \ {p} : connections'[r] = connections[r] /\ asked'[r] = asked[r]
    BY Zenon, <1>1, <2>3
  <2> QED BY Zenon, <2>5, <2>6, EntryInvLocal
<1>5. CASE Accepts(p)
  <2> DEFINE d == OrInsert(e)
             f(c) == [d EXCEPT !.from = "Established", !.fromConn = c]
  <2>1. PICK c \in Conn :
          /\ \/ connections' = [connections EXCEPT ![p] = d]
             \/ connections' = [connections EXCEPT ![p] = f(c)]
             \/ connections' = [connections EXCEPT ![p] = [f(c) EXCEPT !.group = NoGroup]]
             \/ connections' = connections
          /\ asked' = asked
    BY Zenon, <1>5 DEF Accepts, IncomingConnection, Announce, Ignore
  <2>2. /\ d \in Connection /\ (d.contacted => e.contacted)
        /\ d.to = "Established" =>
             e.to = "Established" /\ d.sends = e.sends /\ d.reads = e.reads
    BY Zenon, <1>1, OrInsertFields
  <2> HIDE DEF d
  <2> DEFINE same(x, y) == /\ x.to = y.to /\ x.sends = y.sends /\ x.reads = y.reads
                           /\ x.contacted = y.contacted
  <2>3. f(c) \in Connection /\ same(f(c), d)
    <3>1. "Established" \in FromPeer
      BY DEF FromPeer
    <3> QED BY Zenon, <2>2, <3>1 DEF Connection
  <2> HIDE DEF f
  <2>4. same([f(c) EXCEPT !.group = NoGroup], d)
    BY Zenon, <2>3 DEF Connection
  <2>5. same(connections'[p], d) \/ connections'[p] = e
    BY Zenon, <1>1, <2>1, <2>3, <2>4
  <2>6. EntryInv(p)'
    BY Zenon, <1>1, <2>1, <2>2, <2>5 DEF EntryInv
  <2>7. \A r \in Peer \ {p} : connections'[r] = connections[r] /\ asked'[r] = asked[r]
    BY Zenon, <1>1, <2>1
  <2> QED BY Zenon, <2>6, <2>7, EntryInvLocal
<1>6. CASE Greets(p)
  <2>1. /\ connections' = [connections EXCEPT ![p].to = "NotNeeded"] /\ asked' = asked
    BY Zenon, <1>6 DEF Greets, HandleClientHandshake
  <2>2. connections'[p].to = "NotNeeded" /\ connections'[p].contacted = e.contacted
    BY Zenon, <1>1, <2>1 DEF Connection
  <2>3. EntryInv(p)'
    <3>1. "NotNeeded" # "Established"
      OBVIOUS
    <3> QED BY Zenon, <1>1, <2>1, <2>2, <3>1 DEF EntryInv
  <2>4. \A r \in Peer \ {p} : connections'[r] = connections[r] /\ asked'[r] = asked[r]
    BY Zenon, <1>1, <2>1
  <2> QED BY Zenon, <2>3, <2>4, EntryInvLocal
<1>7. CASE Quiet(p)
  <2>1. EntryInv(p)'
    BY Zenon, <1>1, <1>7 DEF EntryInv, Quiet, SameHalves
  <2> QED BY Zenon, <1>7, <2>1, EntryInvLocal DEF Quiet
<1> QED BY Zenon, <1>2, <1>3, <1>4, <1>5, <1>6, <1>7 DEF PeerStep

-----------------------------------------------------------------------------
(* A client bootstraps once.                                                *)

\* A member of a group that was answered has been signalled; a member of one that
\* was not can be, through the terminator the group holds for it.
Cancellable(p) ==
  LET e == connections[p]
      s == group[e.group]
  IN  e.group # NoGroup => IF s.success THEN qconn[e.toConn].signal
                           ELSE s.terminators[p] = e.toConn

\* A group that members are still added to was not answered.
GroupsOnce ==
  /\ boot.maker # NoGroup => ~group[boot.maker].success
  /\ \A g \in Group : group[g].success => group[g].used
  /\ BootstrapsOnce

OnceInv == (\A p \in Peer : Cancellable(p)) /\ GroupsOnce

\* The attempt of a member is one of its own peer.
LEMMA MemberFacts ==
  ASSUME IndInv, NEW p \in Peer, connections[p].group # NoGroup
  PROVE  /\ connections[p].group \in Group
         /\ connections[p].toConn \in Conn
         /\ qconn[connections[p].toConn].peer = p
         /\ OurType = "Client" => connections[p].to = "Initiated" /\ qconn[connections[p].toConn].leaf
<1> DEFINE e == connections[p]
<1>1. e \in Connection /\ EntryShape(e) /\ Halves(p)
  BY Zenon DEF IndInv, TypeOK
<1>2. e.group \in Group
  BY Zenon, <1>1 DEF Connection
<1>3. e.to \in {"Initiated", "Established"} /\ ~Complete(e)
  BY Zenon, <1>1 DEF EntryShape
<1>4. e.toConn \in Conn /\ qconn[e.toConn].peer = p
  BY Zenon, <1>1, <1>3 DEF Halves
<1>5. ASSUME OurType = "Client" PROVE e.to = "Initiated" /\ qconn[e.toConn].leaf
  <2>1. e.to # "Absent"
    BY <1>3
  <2>2. e.from = "NotNeeded"
    BY Zenon, <1>1, <1>5, <2>1 DEF EntryShape
  <2>3. e.to = "Initiated"
    BY <1>3, <2>2 DEF Complete, Settled
  <2> QED BY Zenon, <1>1, <2>3 DEF Halves
<1> QED BY Zenon, <1>2, <1>4, <1>5

\* A step that concerns p leaves the members for other peers cancellable.
LEMMA CancellableOthers ==
  ASSUME IndInv, NEW p \in Peer, \A r \in Peer : Cancellable(r),
         \A r \in Peer \ {p} : connections'[r] = connections[r],
         \A g \in Group : group'[g].success = group[g].success,
         \A g \in Group : \A r \in Peer \ {p} : group'[g].terminators[r] = group[g].terminators[r],
         \A c \in Conn : qconn[c].peer \in Peer \ {p} /\ qconn[c].signal => qconn'[c].signal
  PROVE  \A r \in Peer \ {p} : Cancellable(r)'
<1> SUFFICES ASSUME NEW r \in Peer \ {p} PROVE Cancellable(r)'
  OBVIOUS
<1>1. connections'[r] = connections[r]
  OBVIOUS
<1>2. CASE connections[r].group = NoGroup
  BY Zenon, <1>1, <1>2 DEF Cancellable
<1>3. CASE connections[r].group # NoGroup
  <2>1. /\ connections[r].group \in Group /\ connections[r].toConn \in Conn
        /\ qconn[connections[r].toConn].peer = r
    BY Zenon, <1>3, MemberFacts
  <2>2. /\ group'[connections[r].group].success = group[connections[r].group].success
        /\ group'[connections[r].group].terminators[r] = group[connections[r].group].terminators[r]
        /\ qconn[connections[r].toConn].signal => qconn'[connections[r].toConn].signal
    BY Zenon, <2>1
  <2>3. IF group[connections[r].group].success THEN qconn[connections[r].toConn].signal
        ELSE group[connections[r].group].terminators[r] = connections[r].toConn
    BY Zenon, <1>3 DEF Cancellable
  <2>4. IF group'[connections[r].group].success THEN qconn'[connections[r].toConn].signal
        ELSE group'[connections[r].group].terminators[r] = connections[r].toConn
    BY Zenon, <2>2, <2>3
  <2> QED BY Zenon, <1>1, <2>4 DEF Cancellable
<1> QED BY Zenon, <1>2, <1>3

\* A step without an answer to a call of bootstrap().
LEMMA GroupsOnceSame ==
  ASSUME IndInv, GroupsOnce, boot'.maker = boot.maker,
         \A g \in Group : /\ group'[g].success = group[g].success
                          /\ group'[g].used = group[g].used
                          /\ group'[g].bootstrapped = group[g].bootstrapped
  PROVE  GroupsOnce'
<1>1. boot.maker # NoGroup => boot.maker \in Group
  BY Zenon DEF IndInv, TypeOK
<1> QED BY Zenon, <1>1 DEF GroupsOnce, BootstrapsOnce

\* Dropping a reference takes the terminator of its own peer only.
LEMMA DropGroupRefTerminators ==
  ASSUME NEW s \in GroupState, NEW p \in Peer, NEW isLast \in BOOLEAN, NEW r \in Peer \ {p}
  PROVE  DropGroupRef(s, p, isLast).terminators[r] = s.terminators[r]
  BY Zenon DEF DropGroupRef, DropGroup, GroupState

\* An entry is removed.
LEMMA SeversOnce ==
  ASSUME IndInv, NEW p \in Peer, Severs(p), boot'.maker = boot.maker, OnceInv
  PROVE  OnceInv'
<1> DEFINE e == connections[p]
           last(g) == boot.maker # g /\ \A r \in Peer \ {p} : ~HoldsRef(g, r)
<1>1. /\ connections \in [Peer -> Connection] /\ group \in [Group -> GroupState]
      /\ qconn \in [Conn -> QConn]
  BY Zenon DEF IndInv, TypeOK
<1>2. PICK q \in [Conn -> QConn] : TaskEnded(q, p) /\ Sever(p, q)
  BY Zenon DEF Severs
<1>3. /\ connections' = [connections EXCEPT ![p] = NoEntry]
      /\ qconn' = Release(q, e)
      /\ group' = [g \in Group |-> IF HoldsRef(g, p) THEN DropGroupRef(group[g], p, last(g))
                                   ELSE group[g]]
  BY Zenon, <1>2 DEF Sever
<1>4. ASSUME NEW g \in Group
      PROVE  /\ group'[g].success = group[g].success
             /\ group'[g].used = group[g].used
             /\ group'[g].bootstrapped = group[g].bootstrapped
             /\ \A r \in Peer \ {p} : group'[g].terminators[r] = group[g].terminators[r]
  <2>1. group[g] \in GroupState /\ last(g) \in BOOLEAN
    BY Zenon, <1>1
  <2>2. group'[g] = IF HoldsRef(g, p) THEN DropGroupRef(group[g], p, last(g)) ELSE group[g]
    BY Zenon, <1>3
  <2> HIDE DEF last
  <2>3. CASE HoldsRef(g, p)
    <3>1. PICK b \in BOOLEAN : group'[g] = DropGroupRef(group[g], p, b)
      BY Zenon, <2>1, <2>2, <2>3
    <3>2. /\ DropGroupRef(group[g], p, b).success = group[g].success
          /\ DropGroupRef(group[g], p, b).used = group[g].used
          /\ DropGroupRef(group[g], p, b).bootstrapped = group[g].bootstrapped
      BY ZenonT(60), <2>1, DropGroupRefFields
    <3>3. \A r \in Peer \ {p} :
            DropGroupRef(group[g], p, b).terminators[r] = group[g].terminators[r]
      BY Zenon, <2>1, DropGroupRefTerminators
    <3> QED BY Zenon, <3>1, <3>2, <3>3
  <2>4. CASE ~HoldsRef(g, p)
    BY Zenon, <2>2, <2>4
  <2> QED BY Zenon, <2>3, <2>4
<1>5. ASSUME NEW c \in Conn, qconn[c].peer \in Peer \ {p}, qconn[c].signal
      PROVE  qconn'[c].signal
  <2>1. q[c].signal
    BY Zenon, <1>2, <1>5 DEF TaskEnded
  <2> QED BY Zenon, <1>3, <2>1, ReleaseFields
<1>6. \A r \in Peer \ {p} : connections'[r] = connections[r]
  BY Zenon, <1>1, <1>3
<1>7. \A r \in Peer \ {p} : Cancellable(r)'
  BY Zenon, <1>4, <1>5, <1>6, CancellableOthers DEF OnceInv
<1>8. Cancellable(p)'
  <2>1. NoEntry.group = NoGroup
    BY DEF NoEntry
  <2>2. connections'[p].group = NoGroup
    BY Zenon, <1>1, <1>3, <2>1
  <2> QED BY Zenon, <2>2 DEF Cancellable
<1>9. GroupsOnce'
  BY Zenon, <1>4, GroupsOnceSame DEF OnceInv
<1> QED BY Zenon, <1>7, <1>8, <1>9 DEF OnceInv

\* An attempt is started, possibly as a member of the group being made.
LEMMA ConnectsOnce ==
  ASSUME IndInv, NEW p \in Peer, Connects(p), boot'.maker = boot.maker, OnceInv
  PROVE  OnceInv'
<1> DEFINE e == connections[p]
           d == OrInsert(e)
<1>1. /\ connections \in [Peer -> Connection] /\ group \in [Group -> GroupState]
      /\ qconn \in [Conn -> QConn] /\ e \in Connection /\ EntryShape(e)
      /\ boot.maker \in Group \union {NoGroup}
  BY Zenon DEF IndInv, TypeOK
<1>2. PICK c \in Conn, pending \in Msgs, g \in {NoGroup, boot.maker}, byUser \in BOOLEAN,
           q \in [Conn -> QConn] :
        TasksOnly(q) /\ Fresh(c) /\ Initiate(p, c, pending, g, byUser, q)
  BY Zenon DEF Connects
<1>3. d.group = NoGroup /\ d \in Connection
  <2>1. e.group = NoGroup
    <3>1. e.to \notin {"Initiated", "Established"}
      BY DEF Connects
    <3> QED BY Zenon, <1>1, <3>1 DEF EntryShape
  <2>2. NewEntry.group = NoGroup
    BY DEF NewEntry, NoEntry
  <2> QED BY Zenon, <1>1, <2>1, <2>2, OrInsertFields DEF OrInsert
<1> DEFINE f(from, b) == [d EXCEPT !.to = "Initiated", !.toConn = c, !.sends = pending,
                                   !.from = from, !.group = g, !.contacted = b]
           S == IF g # NoGroup THEN {group[g].terminators[p]} ELSE {}
           q1 == [q EXCEPT ![c] = Attempt(p)]
<1>4. /\ \E from, b : connections' = [connections EXCEPT ![p] = f(from, b)]
      /\ qconn' = Signal(q1, S)
      /\ group' = [h \in Group |-> IF g # NoGroup /\ h = g THEN AddMember(group[h], p, c)
                                   ELSE group[h]]
  <2>1. (g # NoGroup /\ d.group = NoGroup) <=> g # NoGroup
    BY Zenon, <1>3
  <2>2. (IF g # NoGroup THEN g ELSE d.group) = g
    BY Zenon, <1>3
  <2> QED BY ZenonT(30), <1>2, <2>1, <2>2 DEF Initiate
<1> HIDE DEF d
<1>5. \A from, b : f(from, b).group = g /\ f(from, b).toConn = c
  BY Zenon, <1>3 DEF Connection
<1> HIDE DEF f
<1>6. connections'[p].group = g /\ connections'[p].toConn = c
  <2>1. PICK from, b : connections'[p] = f(from, b)
    BY Zenon, <1>1, <1>4
  <2> QED BY Zenon, <1>5, <2>1
<1>7. \A r \in Peer \ {p} : connections'[r] = connections[r]
  BY Zenon, <1>1, <1>4
<1>8. ASSUME NEW h \in Group
      PROVE  /\ group'[h].success = group[h].success
             /\ group'[h].used = group[h].used
             /\ group'[h].bootstrapped = group[h].bootstrapped
             /\ \A r \in Peer \ {p} : group'[h].terminators[r] = group[h].terminators[r]
             /\ h = g => group'[h].terminators[p] = c
  <2>1. group[h] \in GroupState
    BY Zenon, <1>1
  <2>2. /\ AddMember(group[h], p, c).success = group[h].success
        /\ AddMember(group[h], p, c).used = group[h].used
        /\ AddMember(group[h], p, c).bootstrapped = group[h].bootstrapped
    BY Zenon, <2>1, AddMemberFields
  <2>3. /\ \A r \in Peer \ {p} : AddMember(group[h], p, c).terminators[r] = group[h].terminators[r]
        /\ AddMember(group[h], p, c).terminators[p] = c
    BY <2>1 DEF AddMember, GroupState
  <2>4. h # NoGroup
    BY Zenon, NullAssumption
  <2>5. CASE h = g
    <3>1. group'[h] = AddMember(group[h], p, c)
      BY Zenon, <1>4, <2>4, <2>5
    <3> QED BY Zenon, <2>2, <2>3, <3>1
  <2>6. CASE h # g
    <3>1. group'[h] = group[h]
      BY Zenon, <1>4, <2>6
    <3> QED BY Zenon, <2>6, <3>1
  <2> QED BY Zenon, <2>5, <2>6
<1>9. ASSUME NEW b \in Conn, qconn[b].peer \in Peer \ {p}, qconn[b].signal
      PROVE  qconn'[b].signal
  <2>1. b # c
    BY Zenon, <1>2, <1>9, NullAssumption DEF Fresh
  <2>2. q1 \in [Conn -> QConn] /\ q1[b] = q[b]
    BY Zenon, <1>2, <2>1, AttemptFields
  <2>3. q1[b].signal
    BY Zenon, <1>2, <1>9, <2>2 DEF TasksOnly
  <2> HIDE DEF q1, S
  <2> QED BY Zenon, <1>4, <2>2, <2>3, SignalKeeps
<1>10. \A r \in Peer \ {p} : Cancellable(r)'
  BY Zenon, <1>7, <1>8, <1>9, CancellableOthers DEF OnceInv
<1>11. Cancellable(p)'
  <2>1. CASE g = NoGroup
    BY Zenon, <1>6, <2>1 DEF Cancellable
  <2>2. CASE g # NoGroup
    <3>1. g \in Group /\ g = boot.maker
      BY Zenon, <1>1, <2>2
    <3>2. ~group[g].success
      BY Zenon, <2>2, <3>1 DEF OnceInv, GroupsOnce
    <3> QED BY Zenon, <1>6, <1>8, <3>1, <3>2 DEF Cancellable
  <2> QED BY Zenon, <2>1, <2>2
<1>12. GroupsOnce'
  BY Zenon, <1>8, GroupsOnceSame DEF OnceInv
<1> QED BY Zenon, <1>10, <1>11, <1>12 DEF OnceInv

\* An attempt of a client succeeds: it was not cancelled, so its group was not
\* answered yet, and all the other members are cancelled with the answer.
LEMMA EstablishesOnce ==
  ASSUME IndInv, OurType = "Client", NEW p \in Peer, Establishes(p), boot'.maker = boot.maker,
         OnceInv
  PROVE  OnceInv'
<1> DEFINE e == connections[p]
           g == e.group
           members(h) == {group[h].terminators[r] : r \in Peer}
           S == UNION {members(h) : h \in {i \in Group : HoldsRef(i, p)}}
<1>1. /\ connections \in [Peer -> Connection] /\ group \in [Group -> GroupState]
      /\ qconn \in [Conn -> QConn] /\ e \in Connection /\ EntryShape(e)
      /\ NoGroup \notin Group
  BY Zenon, NullAssumption DEF IndInv, TypeOK
<1>2. PICK c \in Conn : ResultPolled(c) /\ p = qconn[c].peer /\ Establish(c, e)
  BY Zenon DEF Establishes
<1>3. e.toConn = c /\ ~qconn[c].signal /\ boot.maker = NoGroup
  BY Zenon, <1>2 DEF Establishes, ResultPolled, IndInv, LiveAttemptIsCurrent
<1>4. e.from # "NoConnection"
  <2>1. e.to # "Absent" /\ "NotNeeded" # "NoConnection"
    BY DEF Establishes
  <2> QED BY Zenon, <1>1, <2>1 DEF EntryShape
<1>5. PICK q \in [Conn -> QConn] :
        /\ \A b \in Conn \ {c} : /\ q[b].leaf = qconn[b].leaf
                                 /\ qconn[b].signal => q[b].signal
        /\ \E e1 \in Connection : \E view : Announce(p, e1, q, view)
  <2>1. PICK w \in [WireMsg -> Nat] : \E e1 \in Connection : \E view :
          LET q1 == [qconn EXCEPT ![c] = [@ EXCEPT !.leaf = FALSE, !.signal = FALSE,
                                           !.driver = TRUE, !.open = TRUE,
                                           !.reader = (e.from = "NotNeeded"),
                                           !.writes = w]]
          IN  Announce(p, e1, Signal(q1, {e.toConn}), view)
    <3> DEFINE greets(m) == \/ e.from = "NoConnection" /\ m = "HandshakeNode"
                            \/ e.from = "NotNeeded" /\ m = "HandshakeClient"
               written(m) == qconn[c].writes[m] + Flushed(e)[m]
                               + (IF greets(m) THEN 1 ELSE 0)
                               + (IF m = "EchoResp" THEN Drained(e)["EchoReq"] ELSE 0)
               w == [m \in WireMsg |-> written(m)]
    <3>1. w \in [WireMsg -> Nat]
      <4>1. qconn[c].writes \in Msgs /\ Flushed(e) \in Msgs /\ Drained(e) \in Msgs
        BY Zenon, <1>1, BuffersTyped DEF QConn
      <4>2. ASSUME NEW m \in WireMsg PROVE written(m) \in Nat
        BY <4>1 DEF Msgs, WireMsg
      <4> QED BY Zenon, <4>2
    <3>2. EstablishedEntry(e, c) \in Connection
      <4>1. NoMsgs \in Msgs /\ "Established" \in ToPeer
        BY Zenon DEF NoMsgs, Msgs, ToPeer
      <4> QED BY Zenon, <1>1, <4>1 DEF EstablishedEntry, Connection
    <3> QED BY Zenon, <1>2, <1>4, <3>1, <3>2 DEF Establish
  <2> DEFINE u == [qconn[c] EXCEPT !.leaf = FALSE, !.signal = FALSE, !.driver = TRUE,
                                   !.open = TRUE, !.reader = (e.from = "NotNeeded"), !.writes = w]
             q1 == [qconn EXCEPT ![c] = u]
  <2>2. \E e1 \in Connection : \E view : Announce(p, e1, Signal(q1, {e.toConn}), view)
    BY Zenon, <1>1, <2>1
  <2>3. u \in QConn
    <3>1. (e.from = "NotNeeded") \in BOOLEAN /\ w \in Msgs /\ qconn[c] \in QConn
      BY Zenon, <1>1 DEF Msgs
    <3> QED BY Zenon, <3>1 DEF QConn
  <2> HIDE DEF u
  <2>4. q1 \in [Conn -> QConn] /\ \A b \in Conn \ {c} : q1[b] = qconn[b]
    BY Zenon, <1>1, <2>3
  <2> HIDE DEF q1
  <2>5. PICK q : q = Signal(q1, {e.toConn})
    BY Zenon
  <2>6. /\ q \in [Conn -> QConn]
        /\ \A b \in Conn : q[b].leaf = q1[b].leaf /\ (q1[b].signal => q[b].signal)
    BY <2>4, <2>5, SignalKeeps
  <2> QED BY Zenon, <2>2, <2>4, <2>5, <2>6
<1>6. PICK e1 \in Connection :
        /\ connections' = [connections EXCEPT ![p] = [e1 EXCEPT !.group = NoGroup]]
        /\ qconn' = Signal(q, S)
        /\ group' = [h \in Group |-> IF HoldsRef(h, p) THEN TerminateGroup(group[h]) ELSE group[h]]
  BY Zenon, <1>5 DEF Announce
<1>7. \A r \in Peer \ {p} : connections'[r] = connections[r]
  BY Zenon, <1>1, <1>6
<1>8. \A h \in Group : group'[h] = IF h = g THEN TerminateGroup(group[h]) ELSE group[h]
  BY Zenon, <1>6 DEF HoldsRef
<1>9. connections'[p].group = NoGroup
  <2>1. [e1 EXCEPT !.group = NoGroup].group = NoGroup
    BY Zenon DEF Connection
  <2> QED BY Zenon, <1>1, <1>6, <2>1
<1>10. \A r \in Peer : Cancellable(r)'
  <2>1. Cancellable(p)'
    BY Zenon, <1>9 DEF Cancellable
  <2>2. ASSUME NEW r \in Peer \ {p}, connections[r].group # NoGroup PROVE Cancellable(r)'
    <3> DEFINE h == connections[r].group
               b == connections[r].toConn
    <3>1. h \in Group /\ b \in Conn /\ qconn[b].peer = r /\ qconn[b].leaf
      BY Zenon, <2>2, MemberFacts
    <3>2. b # c
      BY Zenon, <1>2, <3>1
    <3>3. q[b].leaf /\ (qconn[b].signal => q[b].signal)
      BY Zenon, <1>5, <3>1, <3>2
    <3>4. qconn'[b].signal = (q[b].signal \/ (b \in S /\ q[b].leaf))
      <4> HIDE DEF S
      <4> QED BY <1>6, <3>1, SignalFields
    <3>5. Cancellable(r)
      BY Zenon DEF OnceInv
    <3>6. connections'[r] = connections[r]
      BY Zenon, <1>7
    <3>7. CASE h = g
      <4>1. group'[h].success
        <5>1. group'[h] = TerminateGroup(group[h]) /\ group[h] \in GroupState
          BY Zenon, <1>1, <1>8, <3>1, <3>7
        <5> QED BY Zenon, <5>1, TerminateGroupFields
      <4>2. qconn[b].signal \/ b \in S
        <5>1. group[h].terminators[r] = b => b \in S
          <6>1. group[h].terminators[r] \in members(h)
            BY Zenon
          <6>2. h \in {i \in Group : HoldsRef(i, p)}
            BY Zenon, <3>1, <3>7 DEF HoldsRef
          <6> HIDE DEF members
          <6> QED BY Zenon, <6>1, <6>2
        <5> QED BY Zenon, <2>2, <3>5, <5>1 DEF Cancellable
      <4>3. qconn'[b].signal
        BY Zenon, <3>3, <3>4, <4>2
      <4> QED BY Zenon, <3>6, <4>1, <4>3 DEF Cancellable
    <3>8. CASE h # g
      <4>1. group'[h] = group[h]
        BY Zenon, <1>8, <3>1, <3>8
      <4>2. qconn[b].signal => qconn'[b].signal
        BY Zenon, <3>3, <3>4
      <4> QED BY Zenon, <3>5, <3>6, <4>1, <4>2 DEF Cancellable
    <3> QED BY Zenon, <3>7, <3>8
  <2>3. ASSUME NEW r \in Peer \ {p}, connections[r].group = NoGroup PROVE Cancellable(r)'
    BY Zenon, <1>7, <2>3 DEF Cancellable
  <2> QED BY Zenon, <2>1, <2>2, <2>3
<1>11. GroupsOnce'
  <2>1. ASSUME NEW h \in Group
        PROVE  (group'[h].success => group'[h].used) /\ group'[h].bootstrapped <= 1
    <3>1. CASE h = g
      <4>1. group'[h] = TerminateGroup(group[h]) /\ group[h] \in GroupState
        BY Zenon, <1>1, <1>8, <3>1
      <4>2. group'[h].used = group[h].used /\ group'[h].bootstrapped = group[h].bootstrapped + 1
        BY Zenon, <4>1, TerminateGroupFields
      <4>3. ~group[h].success
        BY Zenon, <1>1, <1>3, <3>1 DEF OnceInv, Cancellable
      <4>4. group[h].used /\ ~(group[h].bootstrapped > 0)
        BY Zenon, <3>1, <4>3 DEF IndInv, GroupShape, HoldsRef
      <4>5. group[h].bootstrapped \in Nat
        BY Zenon, <4>1 DEF GroupState
      <4>6. group'[h].bootstrapped <= 1
        BY <4>2, <4>4, <4>5
      <4> QED BY Zenon, <4>2, <4>4, <4>6
    <3>2. CASE h # g
      <4>1. group'[h] = group[h]
        BY Zenon, <1>8, <3>2
      <4> QED BY Zenon, <4>1 DEF OnceInv, GroupsOnce, BootstrapsOnce
    <3> QED BY Zenon, <3>1, <3>2
  <2>2. boot'.maker = NoGroup
    BY Zenon, <1>3
  <2> QED BY Zenon, <2>1, <2>2 DEF GroupsOnce, BootstrapsOnce
<1> QED BY Zenon, <1>10, <1>11 DEF OnceInv

\* A step that leaves the halves and the groups as they are.
LEMMA QuietOnce ==
  ASSUME IndInv, NEW p \in Peer, Quiet(p) \/ Greets(p), boot'.maker = boot.maker, OnceInv
  PROVE  OnceInv'
<1> DEFINE e == connections[p]
<1>1. connections \in [Peer -> Connection] /\ e \in Connection /\ EntryShape(e)
  BY Zenon DEF IndInv, TypeOK
<1>2. /\ group' = group
      /\ \A r \in Peer \ {p} : connections'[r] = connections[r]
      /\ \A c \in Conn : qconn[c].signal /\ qconn[c].peer # NoPeer => qconn'[c].signal
      /\ connections'[p].group = e.group
      /\ e.group # NoGroup => connections'[p].toConn = e.toConn
  <2>1. CASE Quiet(p)
    BY Zenon, <2>1 DEF Quiet, SameHalves
  <2>2. CASE Greets(p)
    <3>1. PICK q \in [Conn -> QConn] : TasksOnly(q) /\ HandleClientHandshake(p, q)
      BY Zenon, <2>2 DEF Greets
    <3>2. /\ connections' = [connections EXCEPT ![p].to = "NotNeeded"]
          /\ qconn' = q /\ group' = group
      BY Zenon, <2>2, <3>1 DEF Greets, HandleClientHandshake
    <3>3. connections'[p].group = e.group /\ connections'[p].toConn = e.toConn
      BY Zenon, <1>1, <3>2 DEF Connection
    <3>4. \A r \in Peer \ {p} : connections'[r] = connections[r]
      BY Zenon, <1>1, <3>2
    <3> QED BY Zenon, <3>1, <3>2, <3>3, <3>4 DEF TasksOnly
  <2> QED BY Zenon, <2>1, <2>2
<1>3. \A c \in Conn : qconn[c].peer \in Peer \ {p} /\ qconn[c].signal => qconn'[c].signal
  BY Zenon, <1>2, NullAssumption
<1>4. \A r \in Peer \ {p} : Cancellable(r)'
  BY Zenon, <1>2, <1>3, CancellableOthers DEF OnceInv
<1>5. Cancellable(p)'
  <2>1. CASE e.group = NoGroup
    BY Zenon, <1>2, <2>1 DEF Cancellable
  <2>2. CASE e.group # NoGroup
    <3>1. qconn[e.toConn].signal => qconn'[e.toConn].signal
      <4>1. e.toConn \in Conn /\ qconn[e.toConn].peer = p /\ p # NoPeer
        BY Zenon, <2>2, MemberFacts, NullAssumption
      <4> QED BY Zenon, <1>2, <4>1
    <3>2. Cancellable(p)
      BY Zenon DEF OnceInv
    <3> QED BY Zenon, <1>2, <2>2, <3>1, <3>2 DEF Cancellable
  <2> QED BY Zenon, <2>1, <2>2
<1>6. GroupsOnce'
  BY Zenon, <1>2, GroupsOnceSame DEF OnceInv
<1> QED BY Zenon, <1>4, <1>5, <1>6 DEF OnceInv

\* The thread ends.
LEMMA EndsOnce ==
  ASSUME IndInv, Ends, OnceInv
  PROVE  OnceInv'
<1> DEFINE t(g) == [group[g] EXCEPT !.terminators = NoTerminators]
<1>1. PICK how : Exit(how)
  BY Zenon DEF Ends
<1>2. /\ \A p \in Peer : connections'[p] = NoEntry
      /\ \A g \in Group : group'[g] = group[g] \/ group'[g] = DropGroup(t(g))
  BY Zenon, <1>1 DEF Exit
<1>3. NoEntry.group = NoGroup
  BY DEF NoEntry
<1>4. \A p \in Peer : Cancellable(p)'
  BY Zenon, <1>2, <1>3 DEF Cancellable
<1>5. ASSUME NEW g \in Group
      PROVE  /\ group'[g].success = group[g].success
             /\ group'[g].used = group[g].used
             /\ group'[g].bootstrapped = group[g].bootstrapped
  <2>1. group[g] \in GroupState /\ NoTerminators \in [Peer -> Conn \union {NoConn}]
    BY Zenon DEF IndInv, TypeOK, NoTerminators
  <2>2. /\ t(g) \in GroupState /\ t(g).success = group[g].success
        /\ t(g).used = group[g].used /\ t(g).bootstrapped = group[g].bootstrapped
    BY Zenon, <2>1 DEF GroupState
  <2> HIDE DEF t
  <2>3. /\ DropGroup(t(g)).success = group[g].success
        /\ DropGroup(t(g)).used = group[g].used
        /\ DropGroup(t(g)).bootstrapped = group[g].bootstrapped
    BY Zenon, <2>2 DEF DropGroup, GroupState
  <2> QED BY Zenon, <1>2, <2>3
<1>6. boot'.maker = boot.maker
  BY Zenon DEF Ends
<1>7. GroupsOnce'
  BY Zenon, <1>5, <1>6, GroupsOnceSame DEF OnceInv
<1> QED BY Zenon, <1>4, <1>7 DEF OnceInv

\* The group of a new call was not answered; its maker's end changes no answer.
LEMMA BootstrapOnce ==
  ASSUME IndInv, BootstrapStart \/ BootstrapEnd, OnceInv
  PROVE  OnceInv'
<1>1. group \in [Group -> GroupState] /\ boot \in [maker : Group \union {NoGroup}, todo : Seq(Peer)]
  BY Zenon DEF IndInv, TypeOK
<1>2. connections' = connections /\ qconn' = qconn
  BY Zenon DEF BootstrapStart, BootstrapEnd
<1>3. PICK g \in Group :
        /\ \A h \in Group \ {g} : group'[h] = group[h]
        /\ \/ boot'.maker = g /\ ~group[g].used /\ group'[g] = [group[g] EXCEPT !.used = TRUE]
           \/ boot'.maker = NoGroup /\ (group'[g] = group[g] \/ group'[g] = DropGroup(group[g]))
  <2>1. CASE BootstrapStart
    <3>1. PICK g \in Group, contacts \in Iterations(HardCoded) :
            /\ ~group[g].used /\ group' = [group EXCEPT ![g].used = TRUE]
            /\ boot' = [maker |-> g, todo |-> NewestFirst(cache) \o contacts]
      BY Zenon, <2>1 DEF BootstrapStart
    <3>2. boot'.maker = g
      BY <3>1
    <3> QED BY Zenon, <1>1, <3>1, <3>2
  <2>2. CASE BootstrapEnd
    <3>1. boot.maker \in Group /\ boot' = Idle
      BY Zenon, <1>1, <2>2 DEF BootstrapEnd
    <3>2. boot'.maker = NoGroup
      BY <3>1 DEF Idle
    <3> QED BY Zenon, <1>1, <2>2, <3>1, <3>2 DEF BootstrapEnd
  <2> QED BY Zenon, <2>1, <2>2
<1>4. /\ group'[g].success = group[g].success
      /\ group[g].used => group'[g].used
      /\ group'[g].bootstrapped = group[g].bootstrapped
      /\ group'[g].terminators = group[g].terminators
  <2>1. group[g] \in GroupState
    BY Zenon, <1>1
  <2>2. LET s == [group[g] EXCEPT !.used = TRUE]
        IN  /\ s.success = group[g].success /\ s.used = TRUE
            /\ s.bootstrapped = group[g].bootstrapped /\ s.terminators = group[g].terminators
    BY Zenon, <2>1 DEF GroupState
  <2>3. LET s == DropGroup(group[g])
        IN  /\ s.success = group[g].success /\ s.used = group[g].used
            /\ s.bootstrapped = group[g].bootstrapped /\ s.terminators = group[g].terminators
    BY Zenon, <2>1 DEF DropGroup, GroupState
  <2> QED BY Zenon, <1>3, <2>2, <2>3
<1>5. ASSUME NEW h \in Group
      PROVE  /\ group'[h].success = group[h].success
             /\ group[h].used => group'[h].used
             /\ group'[h].bootstrapped = group[h].bootstrapped
             /\ group'[h].terminators = group[h].terminators
  BY Zenon, <1>3, <1>4
<1>6. ASSUME NEW p \in Peer PROVE Cancellable(p)'
  <2>1. connections[p].group # NoGroup => connections[p].group \in Group
    BY Zenon, MemberFacts
  <2>2. Cancellable(p)
    BY Zenon DEF OnceInv
  <2> QED BY Zenon, <1>2, <1>5, <2>1, <2>2 DEF Cancellable
<1>7. GroupsOnce'
  <2>1. boot'.maker # NoGroup => ~group'[boot'.maker].success
    BY Zenon, <1>3, <1>5 DEF OnceInv, GroupsOnce
  <2> QED BY Zenon, <1>5, <2>1 DEF OnceInv, GroupsOnce, BootstrapsOnce
<1> QED BY Zenon, <1>6, <1>7 DEF OnceInv

-----------------------------------------------------------------------------
(* How a call of bootstrap() comes to its end.                              *)

\* An entry joins no group but the one that is being made.
LEMMA PeerStepMembers ==
  ASSUME IndInv, NEW p \in Peer, PeerStep(p), NEW g \in Group, boot.maker # g,
         NEW r \in Peer, HoldsRef(g, r)'
  PROVE  HoldsRef(g, r)
<1> DEFINE e == connections[p]
<1>1. /\ connections \in [Peer -> Connection] /\ e \in Connection /\ g # NoGroup
      /\ connections'[r].group = g
  BY Zenon, NullAssumption DEF IndInv, TypeOK, HoldsRef
<1>2. CASE Severs(p)
  <2>1. connections' = [connections EXCEPT ![p] = NoEntry]
    BY Zenon, <1>2 DEF Severs, Sever
  <2>2. NoEntry.group = NoGroup
    BY DEF NoEntry
  <2> QED BY Zenon, <1>1, <2>1, <2>2 DEF HoldsRef
<1>3. CASE Connects(p)
  <2>1. PICK c \in Conn, pending \in Msgs, h \in {NoGroup, boot.maker}, byUser \in BOOLEAN,
             q \in [Conn -> QConn] : Initiate(p, c, pending, h, byUser, q)
    BY Zenon, <1>3 DEF Connects
  <2> DEFINE d == OrInsert(e)
             f(from, k, b) == [d EXCEPT !.to = "Initiated", !.toConn = c, !.sends = pending,
                                        !.from = from, !.group = k, !.contacted = b]
  <2>2. \E from, b : \E k \in {h, d.group} : connections' = [connections EXCEPT ![p] = f(from, k, b)]
    BY ZenonT(30), <2>1 DEF Initiate
  <2>3. d \in Connection /\ d.group \in {NoGroup, e.group}
    <3>1. NewEntry.group = NoGroup
      BY DEF NewEntry, NoEntry
    <3> QED BY Zenon, <1>1, <3>1, OrInsertFields DEF OrInsert
  <2> HIDE DEF d
  <2>4. \A from, k, b : f(from, k, b).group = k
    BY Zenon, <2>3 DEF Connection
  <2> HIDE DEF f
  <2>5. CASE r = p
    <3>1. PICK from, b, k : /\ connections' = [connections EXCEPT ![p] = f(from, k, b)]
                            /\ k \in {h, d.group}
      BY Zenon, <2>2
    <3>2. connections'[p] = f(from, k, b)
      BY Zenon, <1>1, <3>1
    <3>3. connections'[p].group = k
      BY <2>4, <3>2
    <3>4. k = g /\ h # g
      BY Zenon, <1>1, <2>5, <3>3
    <3> QED BY Zenon, <1>1, <2>3, <2>5, <3>1, <3>4 DEF HoldsRef
  <2>6. CASE r # p
    BY Zenon, <1>1, <2>2, <2>6 DEF HoldsRef
  <2> QED BY Zenon, <2>5, <2>6
<1>4. CASE Establishes(p)
  <2>1. PICK c \in Conn : p = qconn[c].peer /\ Establish(c, e)
    BY Zenon, <1>4 DEF Establishes
  <2> DEFINE d == EstablishedEntry(e, c)
  <2>2. \/ connections' = [connections EXCEPT ![p] = d]
        \/ connections' = [connections EXCEPT ![p] = [d EXCEPT !.group = NoGroup]]
    BY Zenon, <2>1 DEF Establish, Announce
  <2>3. d.group = e.group /\ [d EXCEPT !.group = NoGroup].group = NoGroup
    BY Zenon, <1>1 DEF EstablishedEntry, Connection
  <2> HIDE DEF d
  <2> QED BY Zenon, <1>1, <2>2, <2>3 DEF HoldsRef
<1>5. CASE Greets(p)
  <2>1. connections'[p].group = e.group /\ \A s \in Peer \ {p} : connections'[s] = connections[s]
    BY <1>1, <1>5 DEF Greets, HandleClientHandshake, Connection
  <2> QED BY Zenon, <1>1, <2>1 DEF HoldsRef
<1>6. CASE Quiet(p)
  BY Zenon, <1>1, <1>6 DEF Quiet, SameHalves, HoldsRef
<1>7. CASE Accepts(p)
  <2> DEFINE d == OrInsert(e)
             f(c) == [d EXCEPT !.from = "Established", !.fromConn = c]
  <2>1. PICK c \in Conn :
          \/ connections' = [connections EXCEPT ![p] = f(c)]
          \/ connections' = [connections EXCEPT ![p] = [f(c) EXCEPT !.group = NoGroup]]
          \/ connections' = connections
    BY Zenon, <1>7 DEF Accepts, IncomingConnection, Announce, Ignore
  <2>2. d \in Connection /\ d.group \in {NoGroup, e.group}
    <3>1. NewEntry.group = NoGroup
      BY DEF NewEntry, NoEntry
    <3> QED BY Zenon, <1>1, <3>1, OrInsertFields DEF OrInsert
  <2> HIDE DEF d
  <2>3. f(c) \in Connection /\ f(c).group = d.group
    <3>1. "Established" \in FromPeer
      BY DEF FromPeer
    <3> QED BY Zenon, <2>2, <3>1 DEF Connection
  <2> HIDE DEF f
  <2>4. [f(c) EXCEPT !.group = NoGroup].group = NoGroup
    BY Zenon, <2>3 DEF Connection
  <2> QED BY Zenon, <1>1, <2>1, <2>2, <2>3, <2>4 DEF HoldsRef
<1> QED BY Zenon, <1>2, <1>3, <1>4, <1>5, <1>6, <1>7 DEF PeerStep
=============================================================================
