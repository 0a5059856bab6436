---------------------------- MODULE QuicP2pTasks ----------------------------
(***************************************************************************)
(* Every step of a task of a connection (the attempt, the driver, the loop *)
(* over incoming streams, the reads and the writes) keeps IndInv, and is   *)
(* of one of the kinds that QuicP2pLemmas names.  Every step of the system *)
(* keeps the ledger: the buffers of an entry hold its messages.            *)
(***************************************************************************)
EXTENDS QuicP2pLemmas

-----------------------------------------------------------------------------
(* Establish: the attempt that the entry of its peer waits for succeeds.     *)

\* An attempt succeeds: handle_new_connection_res (connect.rs:115).
LEMMA EstablishKeeps ==
  ASSUME AddPeerTyped, IndInv, NEW c \in Conn, NEW p \in Peer, ResultPolled(c),
         p = qconn[c].peer, Establish(c, connections[p]), UNCHANGED <<boot, killers>>
  PROVE  IndInv'
<1> DEFINE e == connections[p]
           greets(m) == \/ e.from = "NoConnection" /\ m = "HandshakeNode"
                        \/ e.from = "NotNeeded" /\ m = "HandshakeClient"
           written(m) == qconn[c].writes[m] + Flushed(e)[m]
                           + (IF greets(m) THEN 1 ELSE 0)
                           + (IF m = "EchoResp" THEN Drained(e)["EchoReq"] ELSE 0)
           w == [m \in WireMsg |-> written(m)]
           t == [qconn[c] EXCEPT !.leaf = FALSE, !.signal = FALSE, !.driver = TRUE,
                                 !.open = TRUE, !.reader = (e.from = "NotNeeded"), !.writes = w]
           q1 == [qconn EXCEPT ![c] = t]
           q2 == Signal(q1, {e.toConn})
           e1 == [e EXCEPT !.to = "Established", !.toConn = c, !.sends = NoMsgs, !.reads = NoMsgs]
           v == SeeConnected(seen[p])
           view == IF Drained(e)["UserMsg"] > 0 THEN SeeMessage(v) ELSE v
<1>1. /\ connections \in [Peer -> Connection]
      /\ qconn \in [Conn -> QConn]
      /\ seen \in [Peer -> PeerView]
      /\ group \in [Group -> GroupState]
      /\ TypeOK
  BY Zenon DEF IndInv, TypeOK
<1>2. qconn[c].leaf /\ ~qconn[c].signal
  BY DEF ResultPolled
<1>3. p \in Peer
  BY Zenon
<1>4. e \in Connection /\ e.to = "Initiated" /\ e.toConn = c
  BY Zenon, <1>1, <1>2, <1>3 DEF IndInv, LiveAttemptIsCurrent
<1>5. PeerOK(p) /\ \A d \in Conn : TaskShape(qconn[d])
  BY ZenonT(30), <1>3, LocalForm
<1>6. w \in Msgs
  <2>1. Flushed(e) \in Msgs /\ Drained(e) \in Msgs
    BY Zenon, <1>4, BuffersTyped
  <2> QED BY <1>1, <2>1 DEF Msgs, QConn, WireMsg
<1>7. /\ t \in QConn /\ t.peer = p /\ ~t.leaf /\ t.open
  <2>1. qconn[c] \in QConn
    BY Zenon, <1>1
  <2> DEFINE b == (e.from = "NotNeeded")
  <2>2. b \in BOOLEAN
    OBVIOUS
  <2> HIDE DEF w, b
  <2>3. t = [qconn[c] EXCEPT !.leaf = FALSE, !.signal = FALSE, !.driver = TRUE,
                             !.open = TRUE, !.reader = b, !.writes = w]
    BY DEF b
  <2> HIDE DEF t
  <2>4. \A l, s, d, o \in BOOLEAN :
          [qconn[c] EXCEPT !.leaf = l, !.signal = s, !.driver = d, !.open = o,
                           !.reader = b, !.writes = w] \in QConn
    BY ZenonT(30), <2>1, <2>2, <1>6 DEF QConn
  <2>5. t \in QConn
    BY Zenon, <2>3, <2>4
  <2> QED BY Zenon, <2>1, <2>3, <2>5 DEF QConn
<1>8. /\ e1 \in Connection /\ e1.to = "Established" /\ e1.toConn = c
      /\ e1.from = e.from /\ e1.fromConn = e.fromConn /\ e1.group = e.group
  <2>1. NoMsgs \in Msgs
    BY DEF NoMsgs, Msgs
  <2> QED BY Zenon, <2>1, <1>4 DEF Connection, ToPeer
<1> HIDE DEF w, t
<1>9. /\ q2 \in [Conn -> QConn]
      /\ q2[c].peer = p /\ ~q2[c].leaf /\ q2[c].open
      /\ \A d \in Conn \ {c} : /\ q2[d].peer = qconn[d].peer
                               /\ q2[d].leaf = qconn[d].leaf
                               /\ q2[d].open = qconn[d].open
                               /\ SameTasks(q2[d], qconn[d])
                               /\ qconn[d].signal => q2[d].signal
  <2>1. q1 \in [Conn -> QConn] /\ q1[c] = t /\ \A d \in Conn \ {c} : q1[d] = qconn[d]
    BY <1>1, <1>7
  <2> HIDE DEF q1
  <2>2. /\ q2 \in [Conn -> QConn]
        /\ \A d \in Conn : /\ q2[d] \in QConn
                           /\ q2[d].peer = q1[d].peer
                           /\ q2[d].leaf = q1[d].leaf
                           /\ q2[d].open = q1[d].open
                           /\ SameTasks(q2[d], q1[d])
                           /\ q1[d].signal => q2[d].signal
    <3>1. PICK S : q2 = Signal(q1, S)
      OBVIOUS
    <3> HIDE DEF q2
    <3> QED BY <2>1, <3>1, SignalKeeps
  <2> QED BY ZenonT(30), <2>1, <2>2, <1>7
<1>10. /\ IF e.from = "NoConnection"
          THEN /\ connections' = [connections EXCEPT ![p] = e1]
               /\ qconn' = q2
               /\ UNCHANGED <<group, seen, asked, loop>>
          ELSE Announce(p, e1, q2, view)
       /\ IF Drained(e) = NoMsgs THEN query' = query
          ELSE \E m \in WireMsg : Drained(e)[m] > 0 /\ query' = TxTaken(m)
       /\ cache' = Remember(e, p)
  BY Zenon DEF Establish, EstablishedEntry, w, t
<1> HIDE DEF e, q1, q2, e1, v, view
<1>11. /\ boot' = boot /\ killers' = killers
       /\ cache' \in Seq(Peer)
       /\ query' \in {"never", "waiting", "answered", "panicked"}
  <2>1. cache' \in Seq(Peer)
    BY Zenon, <1>1, <1>3, <1>10 DEF TypeOK, Remember, AddPeerTyped
  <2>2. query' \in {"never", "waiting", "answered", "panicked"}
    BY Zenon, <1>1, <1>10 DEF TypeOK, TxTaken
  <2> QED BY <2>1, <2>2
<1> DEFINE x == connections'[p]
<1>12. /\ connections' \in [Peer -> Connection]
       /\ \A r \in Peer \ {p} : connections'[r] = connections[r] /\ seen'[r] = seen[r]
       /\ x.to = "Established" /\ x.toConn = c
       /\ x.from = e.from /\ x.fromConn = e.fromConn
       /\ x.group # NoGroup => x.from = "NoConnection"
       /\ qconn' \in [Conn -> QConn]
       /\ \A d \in Conn : /\ qconn'[d].peer = q2[d].peer
                          /\ qconn'[d].leaf = q2[d].leaf
                          /\ qconn'[d].open = q2[d].open
                          /\ SameTasks(qconn'[d], q2[d])
                          /\ q2[d].signal => qconn'[d].signal
       /\ seen' \in [Peer -> PeerView]
       /\ seen'[p] = IF Complete(x) THEN "connected" ELSE "disconnected"
       /\ group' \in [Group -> GroupState]
       /\ \A g \in Group : GroupShape(g)'
       /\ asked' = asked /\ loop' = loop
  <2>0. seen[p] = "disconnected"
    BY Zenon, <1>4, <1>5 DEF PeerOK, Complete, Settled, e
  <2>1. CASE e.from = "NoConnection"
    <3>1. /\ connections' \in [Peer -> Connection] /\ x = e1
          /\ \A r \in Peer \ {p} : connections'[r] = connections[r]
      BY Zenon, <1>1, <1>3, <1>8, <1>10, <2>1
    <3>2. \A g \in Group : GroupShape(g)'
      <4>1. group' = group /\ boot'.maker = boot.maker
        BY Zenon, <1>10, <1>11, <2>1
      <4>2. \A r \in Peer : connections'[r].group = connections[r].group
        BY Zenon, <3>1, <1>8 DEF e
      <4> QED BY Zenon, <4>1, <4>2, GroupsKept
    <3>3. ~Complete(x)
      BY Zenon, <3>1, <2>1, <1>8 DEF Complete, Settled
    <3>4. qconn' = q2 /\ group' = group /\ seen' = seen /\ asked' = asked /\ loop' = loop
      BY Zenon, <1>10, <2>1
    <3> HIDE DEF x
    <3> QED BY ZenonT(30), <2>0, <2>1, <3>1, <3>2, <3>3, <3>4, <1>1, <1>8, <1>9 DEF SameTasks
  <2>2. CASE e.from # "NoConnection"
    <3>1. Announce(p, e1, q2, view) /\ boot'.maker = boot.maker
      BY Zenon, <1>10, <1>11, <2>2
    <3>2. view = "connected"
      BY Zenon, <2>0 DEF view, v, SeeConnected, SeeMessage
    <3>3. view \in PeerView
      BY <3>2 DEF PeerView
    <3>5. Announced(p, e1, q2, view)
      BY Zenon, <3>1, <3>3, <1>3, <1>8, <1>9, AnnounceFacts
    <3>4. Complete(x)
      <4>1. x.to = e1.to /\ x.from = e1.from
        BY Zenon, <3>5 DEF Announced
      <4>2. e.from \in FromPeer
        BY Zenon, <1>4 DEF Connection
      <4> QED BY Zenon, <4>1, <4>2, <2>2, <1>8 DEF Complete, Settled, FromPeer
    <3> QED BY Zenon, <3>2, <3>4, <3>5, <1>8 DEF Announced
  <2> QED BY Zenon, <2>1, <2>2
<1> HIDE DEF x
<1>13. \A d \in Conn : TaskShape(qconn[d])'
  <2> SUFFICES ASSUME NEW d \in Conn PROVE TaskShape(qconn[d])'
    OBVIOUS
  <2>1. CASE d = c
    <3>1. qconn'[c].peer = p /\ ~qconn'[c].leaf
      BY Zenon, <1>9, <1>12
    <3>2. p # NoPeer
      BY ZenonT(30), <1>3, NullAssumption
    <3> QED BY Zenon, <2>1, <3>1, <3>2 DEF TaskShape
  <2>2. CASE d # c
    BY <2>2, <1>5, <1>9, <1>12 DEF TaskShape, SameTasks
  <2> QED BY Zenon, <2>1, <2>2
<1>14. OthersKept(p)
  <2>1. \A d \in Conn \ {c} : LinkKept(d)
    BY <1>9, <1>12 DEF LinkKept
  <2>2. qconn[c].peer = p /\ qconn'[c].peer = p
    BY Zenon, <1>9, <1>12
  <2> QED BY ZenonT(30), <2>1, <2>2, <1>11, <1>12 DEF OthersKept
<1>15. PeerOK(p)'
  <2>1. EntryShape(e) /\ Halves(p)
    BY ZenonT(30), <1>5 DEF PeerOK, e
  <2>2. EntryShape(x)
    <3>1. x.from = "NoConnection" => ~Complete(x)
      BY ZenonT(30) DEF Complete, Settled
    <3> QED BY Zenon, <2>1, <3>1, <1>4, <1>12 DEF EntryShape
  <2>3. /\ qconn'[c].peer = p /\ ~qconn'[c].leaf /\ qconn'[c].open
        /\ \A d \in Conn \ {c} : /\ qconn'[d].peer = qconn[d].peer
                                 /\ qconn'[d].leaf = qconn[d].leaf
                                 /\ qconn'[d].open = qconn[d].open
                                 /\ qconn[d].signal => qconn'[d].signal
    BY <1>9, <1>12
  <2>4. Halves(p)'
    <3>1. x.from = "Established" => x.fromConn \in Conn /\ qconn'[x.fromConn].peer = p
      <4>1. e.from = "Established" => e.fromConn \in Conn /\ qconn[e.fromConn].peer = p
        BY Zenon, <2>1 DEF Halves, e
      <4> QED BY <4>1, <2>3, <1>12
    <3> QED BY ZenonT(30), <2>3, <3>1, <1>12 DEF Halves, x
  <2>6. ASSUME NEW d \in Conn, qconn'[d].peer = p
        PROVE  /\ qconn'[d].leaf => qconn'[d].signal
               /\ qconn'[d].open <=> Owns(x, d)
    <3>1. CASE d = c
      BY Zenon, <3>1, <2>3, <1>12 DEF Owns
    <3>2. CASE d # c
      <4>1. /\ qconn[d].leaf /\ ~qconn[d].signal => e.toConn = d
            /\ qconn[d].open <=> Owns(e, d)
        BY Zenon, <2>3, <2>6, <3>2, <1>5 DEF PeerOK, e
      <4> QED BY ZenonT(30), <2>3, <3>2, <4>1, <1>4, <1>12 DEF Owns
    <3> QED BY Zenon, <3>1, <3>2
  <2>5. KilledByTimer(x) => killers'[p] > 0
    <3>1. KilledByTimer(e)
      BY ZenonT(30), <1>4 DEF KilledByTimer, Settled
    <3> QED BY Zenon, <3>1, <1>5, <1>11 DEF PeerOK, e
  <2> QED BY Zenon, <2>2, <2>4, <2>5, <2>6, <1>12 DEF PeerOK, x
<1>16. TypeOK'
  BY Zenon, <1>1, <1>11, <1>12 DEF TypeOK
<1> QED BY Zenon, <1>3, <1>12, <1>13, <1>14, <1>15, <1>16, LocalStep

\* A second incoming half is dropped at once; its driver goes on.
LEMMA AcceptedFields ==
  ASSUME NEW p \in Peer, NEW isDuplicate \in BOOLEAN
  PROVE  /\ Accepted(p, isDuplicate) \in QConn
         /\ Accepted(p, isDuplicate).peer = p
         /\ ~Accepted(p, isDuplicate).leaf
         /\ Accepted(p, isDuplicate).open <=> ~isDuplicate
         /\ TaskShape(Accepted(p, isDuplicate))
<1>1. NoMsgs \in Msgs
  BY Zenon DEF NoMsgs, Msgs
<1>2. Unused \in QConn /\ ~Unused.leaf
  BY Zenon, <1>1 DEF Unused, QConn
<1>3. (~isDuplicate) \in BOOLEAN /\ TRUE \in BOOLEAN
  OBVIOUS
<1>4. \A d, o, r \in BOOLEAN :
        LET t == [Unused EXCEPT !.peer = p, !.driver = d, !.open = o, !.reader = r]
        IN  t \in QConn /\ t.peer = p /\ t.leaf = Unused.leaf /\ t.open = o
  BY ZenonT(60), <1>2 DEF QConn
<1>5. /\ Accepted(p, isDuplicate) \in QConn
      /\ Accepted(p, isDuplicate).peer = p
      /\ ~Accepted(p, isDuplicate).leaf
      /\ Accepted(p, isDuplicate).open <=> ~isDuplicate
  BY Zenon, <1>2, <1>3, <1>4 DEF Accepted
<1> QED BY Zenon, <1>5, NullAssumption DEF TaskShape

\* A peer connects to us: handle_new_conn (listener.rs:31).
LEMMA IncomingKeeps ==
  ASSUME IndInv, NEW p \in Peer, IncomingConnection(p)
  PROVE  IndInv'
<1> DEFINE e == OrInsert(connections[p])
           isDuplicate == e.from # "NoConnection"
<1>1. /\ TypeOK /\ PeerOK(p) /\ EntryShape(connections[p]) /\ Halves(p)
      /\ connections[p] \in Connection
      /\ \A d \in Conn : TaskShape(qconn[d])
  BY Zenon, LocalForm DEF PeerOK, TypeOK
<1>2. /\ e \in Connection
      /\ e.toConn = connections[p].toConn
      /\ e.from = connections[p].from
      /\ e.group = connections[p].group
      /\ connections[p].to # "Absent" => e = connections[p]
      /\ connections[p].to = "Absent" => e.to = "NoConnection" /\ e.from = "NoConnection"
                                         /\ e.group = NoGroup
  <2>1. NoMsgs \in Msgs
    BY Zenon DEF NoMsgs, Msgs
  <2>2. NewEntry \in Connection /\ NewEntry.to = "NoConnection" /\ NewEntry.from = "NoConnection"
        /\ NewEntry.toConn = NoConn /\ NewEntry.group = NoGroup
    BY Zenon, <2>1 DEF NewEntry, NoEntry, Connection, ToPeer, FromPeer
  <2>3. connections[p].to = "Absent" => connections[p].from = "NoConnection"
          /\ connections[p].toConn = NoConn /\ connections[p].group = NoGroup
    BY <1>1 DEF EntryShape, NoEntry
  <2> QED BY <1>1, <2>2, <2>3 DEF OrInsert
<1>3. PICK c \in Conn :
        LET e1 == [e EXCEPT !.from = "Established", !.fromConn = c]
            q1 == [qconn EXCEPT ![c] = Accepted(p, isDuplicate)]
        IN  /\ Fresh(c)
            /\ IF isDuplicate THEN Ignore(q1)
               ELSE IF e.to = "Established" THEN Announce(p, e1, q1, SeeConnected(seen[p]))
               ELSE /\ connections' = [connections EXCEPT ![p] = e1]
                    /\ qconn' = q1
                    /\ UNCHANGED <<group, seen, asked, loop>>
  BY Zenon DEF IncomingConnection
<1> DEFINE e1 == [e EXCEPT !.from = "Established", !.fromConn = c]
           q1 == [qconn EXCEPT ![c] = Accepted(p, isDuplicate)]
<1>4. SpawnKiller(p, TRUE) /\ boot' = boot /\ cache' = cache /\ query' = query
      /\ OurType = "Node"
  BY Zenon DEF IncomingConnection
<1>5. /\ killers' \in [Peer -> Nat]
      /\ \A r \in Peer \ {p} : killers'[r] = killers[r]
      /\ killers[p] > 0 => killers'[p] > 0
      /\ connections[p].to = "Absent" => killers'[p] > 0
  BY Zenon, <1>4, SpawnKillerFacts
<1>6. RestKept(p)
  BY Zenon, <1>1, <1>4, <1>5 DEF RestKept, TypeOK
<1>7. KilledByTimer(connections[p]) => killers'[p] > 0
  BY Zenon, <1>1, <1>5 DEF PeerOK
<1>8. /\ qconn[c].peer = NoPeer /\ ~qconn[c].leaf /\ ~qconn[c].open
  BY Zenon, <1>1, <1>3 DEF Fresh, TaskShape
<1>9. isDuplicate \in BOOLEAN
  BY Zenon
<1>10. /\ q1 \in [Conn -> QConn]
       /\ \A d \in Conn : d # c => q1[d] = qconn[d]
       /\ q1[c].peer = p /\ ~q1[c].leaf /\ (q1[c].open <=> ~isDuplicate)
       /\ \A d \in Conn : TaskShape(q1[d])
  <2> HIDE DEF isDuplicate
  <2>1. Accepted(p, isDuplicate) \in QConn
    BY Zenon, <1>9, AcceptedFields
  <2>2. qconn \in [Conn -> QConn]
    BY Zenon, <1>1 DEF TypeOK
  <2>3. q1 \in [Conn -> QConn] /\ q1[c] = Accepted(p, isDuplicate)
        /\ \A d \in Conn : d # c => q1[d] = qconn[d]
    BY Zenon, <2>1, <2>2
  <2> QED BY Zenon, <1>1, <1>9, <2>3, AcceptedFields
<1>11. CASE isDuplicate
  <2>1. connections[p].to # "Absent" /\ Ignore(q1)
    BY Zenon, <1>2, <1>3, <1>11
  <2>2. qconn' = q1 /\ UNCHANGED <<connections, group, seen, asked, loop>>
    BY Zenon, <2>1 DEF Ignore
  <2> HIDE DEF q1, e
  <2>3. TypeOK'
    BY Zenon, <1>1, <1>6, <1>10, <2>2 DEF TypeOK, RestKept
  <2>4. \A d \in Conn : LinkSame(d, p)
    <3>1. \A d \in Conn : qconn[d] \in QConn /\ qconn'[d] \in QConn
      BY Zenon, <1>1, <1>10, <2>2 DEF TypeOK
    <3>2. ~qconn'[c].open /\ ~qconn'[c].leaf
      BY ZenonT(30), <1>10, <1>11, <2>2
    <3>3. LinkSame(c, p)
      BY Zenon, <1>8, <1>10, <2>2, <3>1, <3>2 DEF LinkSame, QConn
    <3> QED BY Zenon, <1>10, <2>2, <3>3 DEF LinkSame
  <2>5. SameHalves(connections'[p], connections[p])
    BY ZenonT(30), <2>2 DEF SameHalves
  <2> QED BY Zenon, <1>6, <1>7, <1>10, <2>2, <2>3, <2>4, <2>5, DetailsKeep
<1>12. CASE ~isDuplicate
  <2>1. /\ e1 \in Connection /\ e1.to = e.to /\ e1.toConn = e.toConn
        /\ e1.from = "Established" /\ e1.fromConn = c /\ e1.group = e.group
    BY Zenon, <1>2 DEF Connection, FromPeer
  <2>2. killers'[p] > 0 /\ ~Complete(connections[p]) /\ seen[p] = "disconnected"
    <3>1. connections[p].from = "NoConnection"
      BY Zenon, <1>2, <1>12
    <3>2. ~Complete(connections[p])
      BY Zenon, <3>1 DEF Complete, Settled
    <3>3. connections[p].to # "Absent" => KilledByTimer(connections[p])
      BY Zenon, <3>1 DEF KilledByTimer, Settled
    <3> QED BY Zenon, <1>1, <1>5, <1>7, <3>2, <3>3 DEF PeerOK
  <2>3. /\ connections' \in [Peer -> Connection]
        /\ qconn' \in [Conn -> QConn]
        /\ group' \in [Group -> GroupState] /\ \A g \in Group : GroupShape(g)'
        /\ seen' \in [Peer -> PeerView]
        /\ asked' = asked /\ loop' = loop
        /\ \A r \in Peer \ {p} : connections'[r] = connections[r] /\ seen'[r] = seen[r]
        /\ connections'[p].to = e.to /\ connections'[p].toConn = e.toConn
        /\ connections'[p].from = "Established" /\ connections'[p].fromConn = c
        /\ connections'[p].group # NoGroup => e.to # "Established" /\ e.group # NoGroup
        /\ \A d \in Conn : /\ qconn'[d].peer = q1[d].peer
                           /\ qconn'[d].leaf = q1[d].leaf
                           /\ qconn'[d].open = q1[d].open
                           /\ SameTasks(qconn'[d], q1[d])
                           /\ q1[d].signal => qconn'[d].signal
        /\ seen'[p] = IF e.to = "Established" THEN "connected" ELSE "disconnected"
    <3>1. CASE e.to = "Established"
      <4>1. Announce(p, e1, q1, SeeConnected(seen[p]))
        BY Zenon, <1>3, <1>12, <3>1
      <4>2. SeeConnected(seen[p]) = "connected" /\ SeeConnected(seen[p]) \in PeerView
        BY Zenon, <2>2 DEF SeeConnected, PeerView
      <4> HIDE DEF e1, q1
      <4>3. boot'.maker = boot.maker /\ q1 \in [Conn -> QConn] /\ e1 \in Connection
        BY Zenon, <1>4, <1>10, <2>1
      <4>4. Announced(p, e1, q1, SeeConnected(seen[p]))
        BY Zenon, <4>1, <4>2, <4>3, AnnounceFacts
      <4> QED BY Zenon, <2>1, <3>1, <4>2, <4>4 DEF Announced
    <3>2. CASE e.to # "Established"
      <4>1. /\ connections' = [connections EXCEPT ![p] = e1] /\ qconn' = q1
            /\ group' = group /\ seen' = seen /\ asked' = asked /\ loop' = loop
        BY Zenon, <1>3, <1>12, <3>2
      <4> HIDE DEF e1, q1, e
      <4>2. /\ connections' \in [Peer -> Connection] /\ connections'[p] = e1
            /\ \A r \in Peer \ {p} : connections'[r] = connections[r]
        BY Zenon, <1>1, <2>1, <4>1 DEF TypeOK
      <4>3. \A r \in Peer : connections'[r].group = connections[r].group
        BY Zenon, <1>2, <2>1, <4>2
      <4>4. \A g \in Group : GroupShape(g)'
        BY Zenon, <1>4, <4>1, <4>3, GroupsKept
      <4>5. seen \in [Peer -> PeerView] /\ group \in [Group -> GroupState]
        BY Zenon, <1>1 DEF TypeOK
      <4> QED BY Zenon, <1>10, <2>1, <2>2, <3>2, <4>1, <4>2, <4>4, <4>5 DEF SameTasks
    <3> QED BY Zenon, <3>1, <3>2
  <2> HIDE DEF e1, q1, e
  <2>4. TypeOK'
    BY Zenon, <1>1, <1>6, <2>3 DEF TypeOK, RestKept
  <2>5. OthersKept(p)
    <3>1. \A d \in Conn : d # c => LinkKept(d)
      BY <1>10, <2>3 DEF LinkKept
    <3> QED BY ZenonT(30), <1>5, <1>8, <1>10, <2>3, <3>1 DEF OthersKept
  <2>6. \A d \in Conn : TaskShape(qconn[d])'
    <3>1. \A d \in Conn : /\ qconn'[d].peer = q1[d].peer /\ qconn'[d].leaf = q1[d].leaf
                         /\ qconn'[d].open = q1[d].open /\ SameTasks(qconn'[d], q1[d])
      BY Zenon, <2>3
    <3>2. \A d \in Conn : TaskShape(q1[d])
      BY ZenonT(30), <1>10
    <3> QED BY Zenon, <3>1, <3>2 DEF TaskShape, SameTasks
  <2>7. EntryShape(connections[p])'
    BY Zenon, <1>1, <1>2, <1>4, <1>12, <2>3 DEF EntryShape, Complete, Settled
  <2>8. Halves(p)'
    <3> DEFINE d == connections'[p].toConn
    <3>1. e.to \in {"Initiated", "Established"} =>
            /\ e.toConn \in Conn /\ qconn[e.toConn].peer = p
            /\ e.to = "Initiated" => qconn[e.toConn].leaf
      BY Zenon, <1>1, <1>2 DEF Halves
    <3>2. connections'[p].to \in {"Initiated", "Established"} =>
            /\ d \in Conn /\ d # c /\ qconn[d].peer = p
            /\ connections'[p].to = "Initiated" => qconn[d].leaf
      <4>1. connections'[p].to = e.to /\ d = e.toConn
        BY Zenon, <2>3
      <4>2. qconn[c].peer # p
        BY ZenonT(30), <1>8, NullAssumption
      <4> QED BY Zenon, <3>1, <4>1, <4>2
    <3>3. \A b \in Conn : b # c => qconn'[b].peer = qconn[b].peer /\ qconn'[b].leaf = qconn[b].leaf
      BY <1>10, <2>3
    <3>4. connections'[p].to \in {"Initiated", "Established"} =>
            /\ d \in Conn /\ qconn'[d].peer = p
            /\ connections'[p].to = "Initiated" => qconn'[d].leaf
      BY Zenon, <3>2, <3>3
    <3>5. connections'[p].fromConn \in Conn /\ qconn'[connections'[p].fromConn].peer = p
      BY ZenonT(30), <1>10, <2>3
    <3> QED BY Zenon, <3>4, <3>5 DEF Halves
  <2>9. \A d \in Conn : qconn'[d].peer = p =>
          /\ qconn'[d].leaf /\ ~qconn'[d].signal =>
               connections'[p].to = "Initiated" /\ connections'[p].toConn = d
          /\ qconn'[d].open <=> Owns(connections'[p], d)
    <3> SUFFICES ASSUME NEW d \in Conn, qconn'[d].peer = p
                 PROVE  /\ qconn'[d].leaf /\ ~qconn'[d].signal =>
                             connections'[p].to = "Initiated" /\ connections'[p].toConn = d
                        /\ qconn'[d].open <=> Owns(connections'[p], d)
      BY Zenon
    <3>1. CASE d = c
      BY ZenonT(30), <1>10, <1>12, <2>3, <3>1 DEF Owns
    <3>2. CASE d # c
      <4>1. /\ qconn[d].peer = p /\ qconn'[d].leaf = qconn[d].leaf
            /\ qconn'[d].open = qconn[d].open /\ (qconn[d].signal => qconn'[d].signal)
        <5>1. /\ q1[d].peer = qconn[d].peer /\ q1[d].leaf = qconn[d].leaf
              /\ q1[d].open = qconn[d].open /\ (qconn[d].signal => q1[d].signal)
          BY Zenon, <1>10, <3>2
        <5>2. /\ qconn'[d].peer = q1[d].peer /\ qconn'[d].leaf = q1[d].leaf
              /\ qconn'[d].open = q1[d].open /\ (q1[d].signal => qconn'[d].signal)
          BY ZenonT(30), <2>3
        <5> QED BY Zenon, <5>1, <5>2
      <4>2. /\ qconn[d].leaf /\ ~qconn[d].signal =>
                 connections[p].to = "Initiated" /\ connections[p].toConn = d
            /\ qconn[d].open <=> Owns(connections[p], d)
        BY Zenon, <1>1, <4>1 DEF PeerOK
      <4>3. /\ connections'[p].to = e.to /\ connections'[p].toConn = e.toConn
            /\ connections'[p].from = "Established" /\ connections'[p].fromConn = c
        BY Zenon, <2>3
      <4>4. Owns(connections'[p], d) <=> Owns(connections[p], d)
        BY Zenon, <1>2, <1>12, <3>2, <4>3 DEF Owns
      <4>5. e.to = connections[p].to \/ connections[p].to # "Initiated"
        BY Zenon, <1>2
      <4> QED BY Zenon, <1>2, <4>1, <4>2, <4>3, <4>4
    <3> QED BY <3>1, <3>2
  <2>10. seen'[p] = IF Complete(connections'[p]) THEN "connected" ELSE "disconnected"
    <3>1. e.to # "NotNeeded"
      BY ZenonT(30), <1>1, <1>2, <1>12 DEF EntryShape
    <3> QED BY Zenon, <2>3, <3>1 DEF Complete, Settled
  <2>11. PeerOK(p)'
    BY Zenon, <2>2, <2>7, <2>8, <2>9, <2>10 DEF PeerOK
  <2> QED BY Zenon, <2>3, <2>4, <2>5, <2>6, <2>11, LocalStep
<1> QED BY <1>11, <1>12

-----------------------------------------------------------------------------
(* What each task leaves of its connection.                                 *)

\* A step of one task of c, seen as a step of all connections.
LEMMA OneTask ==
  ASSUME IndInv, NEW q \in [Conn -> QConn], TasksOnly(q), NEW c \in Conn, NEW t \in QConn,
         t.peer = q[c].peer, t.leaf = q[c].leaf, t.signal = q[c].signal,
         t.open = q[c].open, TaskShape(t)
  PROVE  [q EXCEPT ![c] = t] \in [Conn -> QConn] /\ TasksOnly([q EXCEPT ![c] = t])
<1> DEFINE r == [q EXCEPT ![c] = t]
<1>1. r \in [Conn -> QConn] /\ r[c] = t /\ \A d \in Conn : d # c => r[d] = q[d]
  BY Zenon
<1> HIDE DEF r
<1>2. TasksOnly(r)
  BY ZenonT(30), <1>1 DEF TasksOnly
<1> QED BY Zenon, <1>1, <1>2 DEF r

\* No step of a task at all.
LEMMA NoTasks ==
  ASSUME IndInv
  PROVE  qconn \in [Conn -> QConn] /\ TasksOnly(qconn)
  BY Zenon DEF IndInv, TypeOK, TasksOnly

\* A connection with a task has a peer.
LEMMA TaskPeer ==
  ASSUME IndInv, NEW c \in Conn,
         \/ qconn[c].leaf \/ qconn[c].driver \/ qconn[c].reader \/ qconn[c].streams > 0
         \/ \E m \in WireMsg : qconn[c].writes[m] > 0
  PROVE  qconn[c].peer \in Peer
<1>1. qconn[c] \in QConn /\ TaskShape(qconn[c])
  BY Zenon DEF IndInv, TypeOK
<1> QED BY <1>1 DEF QConn, TaskShape, NoMsgs

\* A stream was read.
LEMMA StreamDoneTask ==
  ASSUME IndInv, NEW c \in Conn, qconn[c].streams > 0
  PROVE  StreamDone(c) \in [Conn -> QConn] /\ TasksOnly(StreamDone(c))
<1> DEFINE t == [qconn[c] EXCEPT !.streams = @ - 1]
<1>1. qconn[c] \in QConn /\ qconn[c].peer \in Peer /\ TaskShape(qconn[c])
  BY Zenon, TaskPeer DEF IndInv, TypeOK
<1>2. qconn[c].streams - 1 \in Nat
  BY <1>1 DEF QConn
<1>3. /\ t \in QConn /\ t.peer = qconn[c].peer /\ t.leaf = qconn[c].leaf
      /\ t.signal = qconn[c].signal /\ t.open = qconn[c].open
  BY Zenon, <1>1, <1>2 DEF QConn
<1>4. StreamDone(c) = [qconn EXCEPT ![c] = t]
  BY Zenon DEF StreamDone
<1> HIDE DEF t
<1>5. TaskShape(t)
  BY Zenon, <1>1, <1>3, NullAssumption DEF TaskShape
<1>6. [qconn EXCEPT ![c] = t] \in [Conn -> QConn] /\ TasksOnly([qconn EXCEPT ![c] = t])
  BY Zenon, <1>3, <1>5, NoTasks, OneTask
<1> QED BY Zenon, <1>4, <1>6

\* A stream was accepted.
LEMMA StreamAddedTask ==
  ASSUME IndInv, NEW c \in Conn, qconn[c].reader
  PROVE  /\ [qconn EXCEPT ![c].streams = @ + 1] \in [Conn -> QConn]
         /\ TasksOnly([qconn EXCEPT ![c].streams = @ + 1])
<1> DEFINE t == [qconn[c] EXCEPT !.streams = @ + 1]
<1>1. qconn[c] \in QConn /\ qconn[c].peer \in Peer /\ TaskShape(qconn[c])
  BY Zenon, TaskPeer DEF IndInv, TypeOK
<1>2. qconn[c].streams + 1 \in Nat
  BY <1>1 DEF QConn
<1>3. /\ t \in QConn /\ t.peer = qconn[c].peer /\ t.leaf = qconn[c].leaf
      /\ t.signal = qconn[c].signal /\ t.open = qconn[c].open
  BY Zenon, <1>1, <1>2 DEF QConn
<1>4. [qconn EXCEPT ![c].streams = @ + 1] = [qconn EXCEPT ![c] = t]
  BY Zenon
<1> HIDE DEF t
<1>5. TaskShape(t)
  BY Zenon, <1>1, <1>3, NullAssumption DEF TaskShape
<1> QED BY Zenon, <1>3, <1>4, <1>5, NoTasks, OneTask

\* The loop over the incoming streams ended.
LEMMA ReaderDoneTask ==
  ASSUME IndInv, NEW c \in Conn, qconn[c].reader
  PROVE  /\ [qconn EXCEPT ![c].reader = FALSE] \in [Conn -> QConn]
         /\ TasksOnly([qconn EXCEPT ![c].reader = FALSE])
<1> DEFINE t == [qconn[c] EXCEPT !.reader = FALSE]
<1>1. qconn[c] \in QConn /\ qconn[c].peer \in Peer /\ TaskShape(qconn[c])
  BY TaskPeer DEF IndInv, TypeOK
<1>2. \A b \in BOOLEAN : LET u == [qconn[c] EXCEPT !.reader = b]
                         IN  /\ u \in QConn /\ u.peer = qconn[c].peer /\ u.leaf = qconn[c].leaf
                             /\ u.signal = qconn[c].signal /\ u.open = qconn[c].open
  BY Zenon, <1>1 DEF QConn
<1>3. /\ t \in QConn /\ t.peer = qconn[c].peer /\ t.leaf = qconn[c].leaf
      /\ t.signal = qconn[c].signal /\ t.open = qconn[c].open
  BY Zenon, <1>2
<1>4. [qconn EXCEPT ![c].reader = FALSE] = [qconn EXCEPT ![c] = t]
  BY Zenon
<1> HIDE DEF t
<1>5. TaskShape(t)
  BY <1>1, <1>3, NullAssumption DEF TaskShape
<1> QED BY Zenon, <1>3, <1>4, <1>5, NoTasks, OneTask

\* The driver of a connection ended.
LEMMA DriverDoneTask ==
  ASSUME IndInv, NEW c \in Conn, qconn[c].driver
  PROVE  /\ [qconn EXCEPT ![c].driver = FALSE] \in [Conn -> QConn]
         /\ TasksOnly([qconn EXCEPT ![c].driver = FALSE])
<1> DEFINE t == [qconn[c] EXCEPT !.driver = FALSE]
<1>1. qconn[c] \in QConn /\ qconn[c].peer \in Peer /\ TaskShape(qconn[c])
  BY Zenon, TaskPeer DEF IndInv, TypeOK
<1>2. \A b \in BOOLEAN : LET u == [qconn[c] EXCEPT !.driver = b]
                         IN  /\ u \in QConn /\ u.peer = qconn[c].peer /\ u.leaf = qconn[c].leaf
                             /\ u.signal = qconn[c].signal /\ u.open = qconn[c].open
  BY Zenon, <1>1 DEF QConn
<1>3. /\ t \in QConn /\ t.peer = qconn[c].peer /\ t.leaf = qconn[c].leaf
      /\ t.signal = qconn[c].signal /\ t.open = qconn[c].open
  BY Zenon, <1>2
<1>4. [qconn EXCEPT ![c].driver = FALSE] = [qconn EXCEPT ![c] = t]
  BY Zenon
<1> HIDE DEF t
<1>5. TaskShape(t)
  BY Zenon, <1>1, <1>3, NullAssumption DEF TaskShape
<1> QED BY ZenonT(30), <1>3, <1>4, <1>5, NoTasks, OneTask

\* A write ended.
LEMMA WriteDoneTask ==
  ASSUME IndInv, NEW c \in Conn, NEW m \in WireMsg, qconn[c].writes[m] > 0
  PROVE  WriteDone(c, m) \in [Conn -> QConn] /\ TasksOnly(WriteDone(c, m))
<1> DEFINE w == Minus(qconn[c].writes, m)
           t == [qconn[c] EXCEPT !.writes = w]
<1>1. qconn[c] \in QConn /\ qconn[c].peer \in Peer /\ TaskShape(qconn[c])
  BY Zenon, TaskPeer DEF IndInv, TypeOK
<1>2. w \in Msgs
  BY <1>1 DEF QConn, Minus, Msgs
<1>3. WriteDone(c, m) = [qconn EXCEPT ![c] = t]
  BY Zenon DEF WriteDone
<1> HIDE DEF w
<1>4. /\ t \in QConn /\ t.peer = qconn[c].peer /\ t.leaf = qconn[c].leaf
      /\ t.signal = qconn[c].signal /\ t.open = qconn[c].open
  BY Zenon, <1>1, <1>2 DEF QConn
<1> HIDE DEF t
<1>5. TaskShape(t)
  BY Zenon, <1>1, <1>4, NullAssumption DEF TaskShape
<1>6. [qconn EXCEPT ![c] = t] \in [Conn -> QConn] /\ TasksOnly([qconn EXCEPT ![c] = t])
  BY Zenon, <1>4, <1>5, NoTasks, OneTask
<1> QED BY Zenon, <1>3, <1>6

\* A write was spawned.
LEMMA WriteTask ==
  ASSUME IndInv, NEW q \in [Conn -> QConn], TasksOnly(q),
         NEW c \in Conn, qconn[c].peer \in Peer, NEW m \in WireMsg
  PROVE  Write(q, c, m) \in [Conn -> QConn] /\ TasksOnly(Write(q, c, m))
<1> DEFINE w == Plus(q[c].writes, m)
           t == [q[c] EXCEPT !.writes = w]
<1>1. q[c] \in QConn /\ q[c].peer \in Peer /\ TaskShape(q[c])
  BY Zenon DEF TasksOnly
<1>2. w \in Msgs
  BY <1>1 DEF QConn, Plus, Msgs
<1>3. Write(q, c, m) = [q EXCEPT ![c] = t]
  BY Zenon DEF Write
<1> HIDE DEF w
<1>4. /\ t \in QConn /\ t.peer = q[c].peer /\ t.leaf = q[c].leaf
      /\ t.signal = q[c].signal /\ t.open = q[c].open
  BY Zenon, <1>1, <1>2 DEF QConn
<1> HIDE DEF t
<1>5. TaskShape(t)
  BY Zenon, <1>1, <1>4, NullAssumption DEF TaskShape
<1>6. [q EXCEPT ![c] = t] \in [Conn -> QConn] /\ TasksOnly([q EXCEPT ![c] = t])
  BY Zenon, <1>4, <1>5, OneTask
<1> QED BY Zenon, <1>3, <1>6

\* The select of an attempt ended.
LEMMA LeafDoneTask ==
  ASSUME IndInv, NEW c \in Conn, qconn[c].leaf
  PROVE  LeafDone(c) \in [Conn -> QConn] /\ TaskEnded(LeafDone(c), qconn[c].peer)
<1> DEFINE t == [qconn[c] EXCEPT !.leaf = FALSE, !.signal = FALSE]
<1>1. /\ qconn[c] \in QConn /\ qconn[c].peer \in Peer
      /\ qconn \in [Conn -> QConn] /\ \A d \in Conn : TaskShape(qconn[d])
  BY Zenon, TaskPeer DEF IndInv, TypeOK
<1>2. \A a, b \in BOOLEAN : LET u == [qconn[c] EXCEPT !.leaf = a, !.signal = b]
                            IN  /\ u \in QConn /\ u.peer = qconn[c].peer /\ u.leaf = a
                                /\ u.open = qconn[c].open
  BY ZenonT(30), <1>1 DEF QConn
<1>3. t \in QConn /\ t.peer = qconn[c].peer /\ ~t.leaf /\ t.open = qconn[c].open
  BY Zenon, <1>2
<1>4. LeafDone(c) = [qconn EXCEPT ![c] = t]
  BY Zenon DEF LeafDone
<1> HIDE DEF t
<1>5. TaskShape(t)
  BY Zenon, <1>1, <1>3, NullAssumption DEF TaskShape
<1>6. /\ LeafDone(c) \in [Conn -> QConn] /\ LeafDone(c)[c] = t
      /\ \A d \in Conn : d # c => LeafDone(c)[d] = qconn[d]
  BY Zenon, <1>1, <1>3, <1>4
<1> QED BY ZenonT(30), <1>1, <1>3, <1>5, <1>6 DEF TaskEnded

-----------------------------------------------------------------------------
(* The actions.                                                             *)

\* A step that leaves the timers, the cache and the query alone.
LEMMA RestSame ==
  ASSUME IndInv, UNCHANGED <<boot, killers, cache, query>>, NEW p \in Peer
  PROVE  RestKept(p)
  BY Zenon DEF IndInv, TypeOK, RestKept

\* A task ended and nothing else happened.
LEMMA IgnoreKeeps ==
  ASSUME IndInv, NEW p \in Peer, NEW q \in [Conn -> QConn], TasksOnly(q),
         Ignore(q), RestKept(p), killers[p] > 0 => killers'[p] > 0
  PROVE  IndInv'
<1>1. qconn' = q /\ UNCHANGED <<connections, group, seen, asked, loop>>
  BY Zenon DEF Ignore
<1>2. TypeOK'
  BY Zenon, <1>1 DEF IndInv, TypeOK, RestKept
<1>3. SameHalves(connections'[p], connections[p])
  BY Zenon, <1>1 DEF SameHalves
<1>4. \A c \in Conn : LinkSame(c, p) /\ TaskShape(qconn[c])'
  BY Zenon, <1>1 DEF LinkSame, TasksOnly, TaskShape
<1>5. KilledByTimer(connections[p]) => killers'[p] > 0
  BY Zenon, LocalForm DEF PeerOK
<1> QED BY Zenon, <1>1, <1>2, <1>3, <1>4, <1>5, DetailsKeep

\* A message is dispatched for a complete entry.
LEMMA DispatchKeeps ==
  ASSUME AddPeerTyped, IndInv, NEW p \in Peer, NEW q \in [Conn -> QConn], TasksOnly(q),
         NEW m \in WireMsg,
         NEW d \in Conn, qconn[d].peer = p, Complete(connections[p]),
         Dispatch(p, m, q, d), boot' = boot
  PROVE  IndInv'
<1>1. TypeOK /\ seen[p] = "connected"
  BY Zenon DEF IndInv, EventsMatchMap
<1>2. seen' = seen
  <2>1. [seen EXCEPT ![p] = SeeMessage(@)] = seen
    BY ZenonT(30), <1>1 DEF TypeOK, SeeMessage
  <2> QED BY Zenon, <2>1 DEF Dispatch
<1>3. qconn' \in [Conn -> QConn] /\ TasksOnly(qconn')
  <2>1. "EchoResp" \in WireMsg
    BY Zenon DEF WireMsg
  <2>2. Write(q, d, "EchoResp") \in [Conn -> QConn] /\ TasksOnly(Write(q, d, "EchoResp"))
    BY Zenon, <2>1, WriteTask
  <2> QED BY Zenon, <2>2 DEF Dispatch
<1>4. UNCHANGED <<connections, group, asked, loop, killers>>
  BY Zenon DEF Dispatch
<1>5. RestKept(p)
  <2>1. cache' \in Seq(Peer)
    BY Zenon, <1>1 DEF Dispatch, TypeOK, Remember, AddPeerTyped
  <2>2. query' \in {"never", "waiting", "answered", "panicked"}
    BY Zenon, <1>1 DEF Dispatch, TxTaken, TypeOK
  <2> QED BY Zenon, <1>1, <1>4, <2>1, <2>2 DEF RestKept, TypeOK
<1>6. TypeOK'
  BY Zenon, <1>1, <1>2, <1>3, <1>4, <1>5 DEF TypeOK, RestKept
<1>7. SameHalves(connections'[p], connections[p])
  BY Zenon, <1>4 DEF SameHalves
<1>8. \A c \in Conn : LinkSame(c, p) /\ TaskShape(qconn[c])'
  BY Zenon, <1>3 DEF LinkSame, TasksOnly, TaskShape
<1>9. KilledByTimer(connections[p]) => killers'[p] > 0
  BY Zenon, <1>4, LocalForm DEF PeerOK
<1> QED BY ZenonT(30), <1>2, <1>4, <1>5, <1>6, <1>7, <1>8, <1>9, DetailsKeep

\* A message other than a handshake, the panic of communicate.rs:254 included.
LEMMA HandleDataKeeps ==
  ASSUME AddPeerTyped, IndInv, NEW p \in Peer, NEW q \in [Conn -> QConn], TasksOnly(q),
         NEW m \in WireMsg,
         HandleData(p, m, q), boot' = boot, boot.maker = NoGroup
  PROVE  IndInv'
<1> DEFINE e == connections[p]
<1>1. /\ TypeOK /\ EntryShape(e) /\ Halves(p) /\ e \in Connection
      /\ e.from \in {"NoConnection", "NotNeeded", "Established"}
  BY DEF IndInv, TypeOK, Connection, FromPeer
<1>2. CASE /\ Ignore(q)
           /\ UNCHANGED <<cache, query, killers>>
  BY Zenon, <1>2, RestSame, IgnoreKeeps
<1>3. CASE e.to # "Absent" /\ e.from = "NoConnection"
  <2>1. /\ Exit("panic at communicate.rs:254")
        /\ query' = Awaiting(query)
        /\ cache' = cache /\ killers' = killers
    BY Zenon, <1>3 DEF HandleData
  <2>2. query' \in {"never", "waiting", "answered", "panicked"}
    BY ZenonT(30), <1>1, <2>1 DEF Awaiting, TypeOK
  <2> QED BY Zenon, <2>1, <2>2, ExitKeeps
<1>4. CASE e.to = "Established" /\ e.from # "NoConnection"
  <2>1. Dispatch(p, m, q, e.toConn)
    BY Zenon, <1>4 DEF HandleData
  <2>2. e.toConn \in Conn /\ qconn[e.toConn].peer = p
    BY Zenon, <1>1, <1>4 DEF Halves
  <2>3. Complete(e)
    BY Zenon, <1>1, <1>4 DEF Complete, Settled
  <2> QED BY Zenon, <2>1, <2>2, <2>3, DispatchKeeps
<1>5. CASE e.to = "NotNeeded" /\ e.from = "Established"
  <2>1. Dispatch(p, m, q, e.fromConn)
    BY Zenon, <1>5 DEF HandleData
  <2>2. e.fromConn \in Conn /\ qconn[e.fromConn].peer = p
    BY Zenon, <1>1, <1>5 DEF Halves
  <2>3. Complete(e)
    BY Zenon, <1>5 DEF Complete, Settled
  <2> QED BY Zenon, <2>1, <2>2, <2>3, DispatchKeeps
<1>6. CASE e.to \notin {"Absent", "Established", "NotNeeded"} /\ e.from = "Established"
  <2>1. /\ connections' = [connections EXCEPT ![p].reads = Plus(@, m)]
        /\ qconn' = q
        /\ UNCHANGED <<group, seen, asked, loop, cache, query, killers>>
    BY Zenon, <1>6 DEF HandleData
  <2>2. Plus(e.reads, m) \in Msgs
    BY <1>1 DEF Plus, Msgs, Connection
  <2> DEFINE d == [e EXCEPT !.reads = Plus(e.reads, m)]
  <2>3. d \in Connection /\ SameHalves(d, e)
    BY Zenon, <1>1, <1>6, <2>2 DEF SameHalves, Connection
  <2>4. connections' = [connections EXCEPT ![p] = d]
    BY Zenon, <2>1
  <2> HIDE DEF d
  <2>5. /\ connections' \in [Peer -> Connection] /\ connections'[p] = d
        /\ \A r \in Peer \ {p} : connections'[r] = connections[r]
    BY Zenon, <1>1, <2>3, <2>4 DEF TypeOK
  <2>6. RestKept(p)
    BY Zenon, <2>1, RestSame
  <2>7. TypeOK'
    BY Zenon, <1>1, <2>1, <2>5, <2>6 DEF TypeOK, RestKept
  <2>8. \A c \in Conn : LinkSame(c, p) /\ TaskShape(qconn[c])'
    BY Zenon, <2>1 DEF LinkSame, TasksOnly, TaskShape
  <2>9. KilledByTimer(connections[p]) => killers'[p] > 0
    BY Zenon, <2>1, LocalForm DEF PeerOK
  <2> QED BY Zenon, <2>1, <2>3, <2>5, <2>6, <2>7, <2>8, <2>9, DetailsKeep
<1> QED BY ZenonT(30), <1>1, <1>2, <1>3, <1>4, <1>5, <1>6 DEF HandleData

\* The handshake of a client completes an entry.
LEMMA HandleClientHandshakeKeeps ==
  ASSUME IndInv, NEW p \in Peer, NEW q \in [Conn -> QConn], TasksOnly(q),
         HandleClientHandshake(p, q), boot' = boot
  PROVE  IndInv'
<1> DEFINE e == connections[p]
<1>1. TypeOK /\ PeerOK(p) /\ EntryShape(e) /\ Halves(p) /\ e \in Connection
  BY LocalForm DEF PeerOK, TypeOK
<1>2. RestKept(p) /\ killers' = killers
  BY Zenon, RestSame DEF HandleClientHandshake
<1>3. CASE e.to # "NoConnection"
  BY Zenon, <1>2, <1>3, IgnoreKeeps DEF HandleClientHandshake
<1>4. CASE e.to = "NoConnection"
  <2> DEFINE d == [e EXCEPT !.to = "NotNeeded"]
  <2>1. /\ connections' = [connections EXCEPT ![p] = d]
        /\ seen' = [seen EXCEPT ![p] = SeeConnected(@)]
        /\ qconn' = q /\ group' = group /\ asked' = asked /\ loop' = loop
    BY Zenon, <1>4 DEF HandleClientHandshake
  <2>2. /\ d \in Connection /\ d.to = "NotNeeded" /\ d.from = "Established"
        /\ d.fromConn = e.fromConn /\ d.group = e.group /\ e.group = NoGroup
    BY Zenon, <1>1, <1>4 DEF EntryShape, Connection, ToPeer
  <2> HIDE DEF d
  <2>3. /\ connections' \in [Peer -> Connection] /\ connections'[p] = d
        /\ \A r \in Peer \ {p} : connections'[r] = connections[r]
    BY Zenon, <1>1, <2>1, <2>2 DEF TypeOK
  <2>4. seen[p] = "disconnected"
    BY Zenon, <1>1, <1>4 DEF PeerOK, Complete, Settled
  <2>5. /\ seen' \in [Peer -> PeerView] /\ seen'[p] = "connected"
        /\ \A r \in Peer \ {p} : seen'[r] = seen[r]
    BY Zenon, <1>1, <2>1, <2>4 DEF TypeOK, SeeConnected, PeerView
  <2>6. TypeOK'
    BY Zenon, <1>1, <1>2, <2>1, <2>3, <2>5 DEF TypeOK, RestKept
  <2>7. OthersKept(p)
    BY ZenonT(30), <1>2, <2>1, <2>3, <2>5 DEF OthersKept, LinkKept, TasksOnly
  <2>8. \A c \in Conn : TaskShape(qconn[c])'
    BY Zenon, <2>1 DEF TasksOnly, TaskShape
  <2>9. \A g \in Group : GroupShape(g)'
    BY Zenon, <2>1, <2>2, <2>3, GroupsKept
  <2>10. PeerOK(p)'
    <3>1. Complete(connections'[p]) /\ ~KilledByTimer(connections'[p])
      BY Zenon, <2>2, <2>3 DEF Complete, KilledByTimer, Settled
    <3>2. EntryShape(connections[p])'
      BY Zenon, <1>1, <1>4, <2>2, <2>3 DEF EntryShape
    <3>3. Halves(p)'
      BY ZenonT(60), <1>1, <1>4, <2>1, <2>2, <2>3 DEF Halves, EntryShape, TasksOnly
    <3>4. \A c \in Conn : qconn'[c].peer = p =>
            /\ qconn'[c].leaf /\ ~qconn'[c].signal =>
                 connections'[p].to = "Initiated" /\ connections'[p].toConn = c
            /\ qconn'[c].open <=> Owns(connections'[p], c)
      BY <1>1, <1>4, <2>1, <2>2, <2>3 DEF PeerOK, Owns, TasksOnly, EntryShape
    <3> QED BY Zenon, <2>5, <3>1, <3>2, <3>3, <3>4 DEF PeerOK
  <2> QED BY Zenon, <2>1, <2>6, <2>7, <2>8, <2>9, <2>10, LocalStep
<1> QED BY ZenonT(30), <1>3, <1>4

\* The handshake of a node makes us connect back.
LEMMA HandleNodeHandshakeKeeps ==
  ASSUME IndInv, NEW p \in Peer, NEW q \in [Conn -> QConn], TasksOnly(q),
         HandleNodeHandshake(p, q), boot' = boot
  PROVE  IndInv'
<1>1. /\ TypeOK /\ cache' = cache /\ killers' = killers /\ query' = Awaiting(query)
      /\ NoMsgs \in Msgs
  BY ZenonT(30) DEF HandleNodeHandshake, IndInv, NoMsgs, Msgs
<1>2. RestKept(p)
  BY <1>1 DEF TypeOK, RestKept, Awaiting
<1>3. CASE connections[p].to # "NoConnection"
  BY Zenon, <1>1, <1>2, <1>3, IgnoreKeeps DEF HandleNodeHandshake
<1>4. CASE connections[p].to = "NoConnection"
  <2>1. PICK how \in ConnectOutcome : ConnectTo(p, NoMsgs, NoGroup, FALSE, how, q)
    BY Zenon, <1>4 DEF HandleNodeHandshake
  <2>2. FALSE \in BOOLEAN /\ NoGroup \in {NoGroup, boot.maker}
    OBVIOUS
  <2> QED BY Zenon, <1>1, <1>2, <1>4, <2>1, <2>2, ConnectToKeeps
<1> QED BY <1>3, <1>4

\* Any message that is read.
LEMMA StreamReadKeeps ==
  ASSUME AddPeerTyped, IndInv, NEW c \in Conn, NEW m \in WireMsg, StreamRead(c, m)
  PROVE  IndInv'
<1>1. PICK p \in Peer : p = qconn[c].peer
  BY Zenon, TaskPeer DEF StreamRead
<1>2. StreamDone(c) \in [Conn -> QConn] /\ TasksOnly(StreamDone(c))
  BY Zenon, StreamDoneTask DEF StreamRead
<1>3. boot' = boot /\ boot.maker = NoGroup
  BY Zenon DEF StreamRead, Running
<1>4. CASE HandleNodeHandshake(p, StreamDone(c))
  BY Zenon, <1>2, <1>3, <1>4, HandleNodeHandshakeKeeps
<1>5. CASE HandleClientHandshake(p, StreamDone(c))
  BY Zenon, <1>2, <1>3, <1>5, HandleClientHandshakeKeeps
<1>6. CASE HandleData(p, m, StreamDone(c))
  BY Zenon, <1>2, <1>3, <1>6, HandleDataKeeps
<1> QED BY Zenon, <1>1, <1>4, <1>5, <1>6 DEF StreamRead

\* A task that ends with an error removes the entry of its peer.
LEMMA FailureKeeps ==
  ASSUME IndInv, NEW c \in Conn, qconn[c].peer \in Peer, NEW q \in [Conn -> QConn],
         TaskEnded(q, qconn[c].peer), Sever(qconn[c].peer, q),
         UNCHANGED <<boot, killers, cache, query>>
  PROVE  IndInv'
<1>1. PICK p \in Peer : p = qconn[c].peer
  BY Zenon
<1>2. TaskEnded(q, p) /\ Sever(p, q)
  BY Zenon, <1>1
<1>3. RestKept(p)
  BY Zenon, RestSame
<1> QED BY Zenon, <1>2, <1>3, SeverKeeps

\* An attempt succeeds; the two other branches are not reachable.
LEMMA AttemptSucceedsKeeps ==
  ASSUME AddPeerTyped, IndInv, NEW c \in Conn, AttemptSucceeds(c)
  PROVE  IndInv'
<1>1. ResultPolled(c) /\ UNCHANGED <<boot, killers>>
  BY Zenon DEF AttemptSucceeds
<1>2. PICK p \in Peer : p = qconn[c].peer
  BY Zenon, <1>1, TaskPeer DEF ResultPolled
<1>3. connections[p].to = "Initiated"
  BY Zenon, <1>1, <1>2 DEF ResultPolled, IndInv, LiveAttemptIsCurrent
<1>4. Establish(c, connections[p])
  BY Zenon, <1>2, <1>3 DEF AttemptSucceeds
<1> QED BY Zenon, <1>1, <1>2, <1>4, EstablishKeeps

\* Every step of a task of a connection.
LEMMA ConnectionStepKeeps ==
  ASSUME AddPeerTyped, IndInv, NEW c \in Conn,
         \/ AttemptCancelled(c) \/ AttemptFails(c) \/ AttemptSucceeds(c)
         \/ IncomingStream(c) \/ ReaderFails(c) \/ StreamFails(c) \/ DriverFails(c)
         \/ \E m \in WireMsg : StreamRead(c, m) \/ WriteSucceeds(c, m) \/ WriteFails(c, m)
  PROVE  IndInv'
<1>1. CASE AttemptCancelled(c)
  BY Zenon, <1>1, LeafDoneTask, TaskPeer, FailureKeeps DEF AttemptCancelled
<1>2. CASE AttemptFails(c)
  BY ZenonT(30), <1>2, LeafDoneTask, TaskPeer, FailureKeeps DEF AttemptFails, ResultPolled
<1>3. CASE AttemptSucceeds(c)
  BY Zenon, <1>3, AttemptSucceedsKeeps
<1>4. CASE IncomingStream(c)
  <2>1. PICK p \in Peer : p = qconn[c].peer
    BY Zenon, <1>4, TaskPeer DEF IncomingStream
  <2>2. RestKept(p) /\ killers' = killers
    BY Zenon, <1>4, RestSame DEF IncomingStream
  <2> DEFINE q == [qconn EXCEPT ![c].streams = @ + 1]
  <2>3. q \in [Conn -> QConn] /\ TasksOnly(q) /\ Ignore(q)
    BY Zenon, <1>4, StreamAddedTask DEF IncomingStream
  <2> HIDE DEF q
  <2> QED BY Zenon, <2>2, <2>3, IgnoreKeeps
<1>5. CASE ReaderFails(c)
  <2> DEFINE q == [qconn EXCEPT ![c].reader = FALSE]
  <2>1. /\ q \in [Conn -> QConn] /\ TasksOnly(q) /\ Sever(qconn[c].peer, q)
        /\ UNCHANGED <<boot, killers, cache, query>> /\ qconn[c].peer \in Peer
    BY Zenon, <1>5, ReaderDoneTask, TaskPeer DEF ReaderFails
  <2> HIDE DEF q
  <2> QED BY Zenon, <2>1, TasksOnlyEnded, FailureKeeps
<1>6. CASE StreamFails(c)
  BY ZenonT(30), <1>6, StreamDoneTask, TasksOnlyEnded, TaskPeer, FailureKeeps DEF StreamFails
<1>7. CASE DriverFails(c)
  <2> DEFINE q == [qconn EXCEPT ![c].driver = FALSE]
  <2>1. /\ q \in [Conn -> QConn] /\ TasksOnly(q) /\ Sever(qconn[c].peer, q)
        /\ UNCHANGED <<boot, killers, cache, query>> /\ qconn[c].peer \in Peer
    BY Zenon, <1>7, DriverDoneTask, TaskPeer DEF DriverFails
  <2> HIDE DEF q
  <2> QED BY <2>1, TasksOnlyEnded, FailureKeeps
<1>8. ASSUME NEW m \in WireMsg, StreamRead(c, m) PROVE IndInv'
  BY Zenon, <1>8, StreamReadKeeps
<1>9. ASSUME NEW m \in WireMsg, WriteSucceeds(c, m) PROVE IndInv'
  <2>1. PICK p \in Peer : p = qconn[c].peer
    BY Zenon, <1>9, TaskPeer DEF WriteSucceeds
  <2>2. RestKept(p) /\ killers' = killers
    BY Zenon, <1>9, RestSame DEF WriteSucceeds
  <2>3. WriteDone(c, m) \in [Conn -> QConn] /\ TasksOnly(WriteDone(c, m)) /\ Ignore(WriteDone(c, m))
    BY Zenon, <1>9, WriteDoneTask DEF WriteSucceeds
  <2> QED BY Zenon, <2>2, <2>3, IgnoreKeeps
<1>10. ASSUME NEW m \in WireMsg, WriteFails(c, m) PROVE IndInv'
  <2>1. WriteDone(c, m) \in [Conn -> QConn] /\ TasksOnly(WriteDone(c, m))
    BY ZenonT(30), <1>10, WriteDoneTask DEF WriteFails
  <2>2. qconn[c].peer \in Peer
    BY Zenon, <1>10, TaskPeer DEF WriteFails
  <2> QED BY Zenon, <1>10, <2>1, <2>2, TasksOnlyEnded, FailureKeeps DEF WriteFails
<1> QED BY ZenonT(30), <1>1, <1>2, <1>3, <1>4, <1>5, <1>6, <1>7, <1>8, <1>9, <1>10

-----------------------------------------------------------------------------
(* Every step of a task is of one of the kinds.                             *)

\* A task ends, or a timer, and nothing else happens.
LEMMA IgnoreIsQuiet ==
  ASSUME IndInv, NEW p \in Peer, NEW q \in [Conn -> QConn], TasksOnly(q), Ignore(q), cache' = cache
  PROVE  Quiet(p)
<1>1. /\ connections' = connections /\ group' = group /\ seen' = seen
      /\ asked' = asked /\ loop' = loop /\ qconn' = q
  BY Zenon DEF Ignore
<1>2. SameHalves(connections'[p], connections[p])
  BY Zenon, <1>1 DEF SameHalves
<1>3. \A c \in Conn : qconn'[c].signal = qconn[c].signal
  BY Zenon, <1>1 DEF TasksOnly
<1> QED BY Zenon, <1>1, <1>2, <1>3 DEF Quiet

\* connect_to starts an attempt, removes the entry or leaves it as it is.
LEMMA ConnectToKind ==
  ASSUME IndInv, NEW p \in Peer, NEW pending \in Msgs, NEW g \in {NoGroup, boot.maker},
         NEW byUser \in BOOLEAN, NEW how \in ConnectOutcome, NEW q \in [Conn -> QConn],
         TasksOnly(q), ConnectTo(p, pending, g, byUser, how, q), cache' = cache
  PROVE  Severs(p) \/ Connects(p) \/ Quiet(p)
<1> DEFINE e == connections[p]
<1>1. EntryShape(e) /\ asked \in [Peer -> BOOLEAN]
  BY Zenon DEF IndInv, TypeOK
<1>2. CASE Sever(p, q)
  BY Zenon, <1>2, TasksOnlyEnded DEF Severs
<1>3. CASE how # "bad certificate" /\ e.to \notin {"Absent", "NoConnection"}
  <2>1. /\ qconn' = q
        /\ asked' = [asked EXCEPT ![p] = @ \/ byUser]
        /\ connections' = connections /\ group' = group /\ seen' = seen /\ loop' = loop
    BY Zenon, <1>3 DEF ConnectTo
  <2>2. (asked[p] => asked'[p]) /\ \A r \in Peer \ {p} : asked'[r] = asked[r]
    BY Zenon, <1>1, <2>1
  <2>3. SameHalves(connections'[p], connections[p])
    BY Zenon, <2>1 DEF SameHalves
  <2>4. \A c \in Conn : qconn'[c].signal = qconn[c].signal
    BY Zenon, <2>1 DEF TasksOnly
  <2> QED BY Zenon, <2>1, <2>2, <2>3, <2>4 DEF Quiet
<1>4. CASE how # "bad certificate" /\ e.to \in {"Absent", "NoConnection"}
  <2>1. ~(OurType = "Client" /\ e.from # "NoConnection")
    <3>1. e.to = "Absent" => e.from = "NoConnection"
      <4>1. NoEntry.from = "NoConnection"
        BY DEF NoEntry
      <4> QED BY Zenon, <1>1, <4>1 DEF EntryShape
    <3>2. e.to = "NoConnection" => OurType = "Node"
      BY Zenon, <1>1 DEF EntryShape
    <3> QED BY Zenon, <1>4, <3>1, <3>2
  <2>2. CASE how = "refused"
    BY Zenon, <1>2, <1>4, <2>1, <2>2 DEF ConnectTo
  <2>3. CASE how # "refused"
    <3>1. \E c \in Conn : Fresh(c) /\ Initiate(p, c, pending, g, byUser, q)
      BY Zenon, <1>4, <2>1, <2>3 DEF ConnectTo
    <3> QED BY Zenon, <1>4, <2>1, <3>1 DEF Connects
  <2> QED BY Zenon, <2>2, <2>3
<1>5. CASE how = "bad certificate"
  BY Zenon, <1>2, <1>5 DEF ConnectTo
<1> QED BY Zenon, <1>3, <1>4, <1>5

\* try_write_to_peer connects, or changes no half.
LEMMA TryWriteToPeerKind ==
  ASSUME IndInv, NEW p \in Peer, NEW m \in WireMsg, NEW byUser \in BOOLEAN,
         TryWriteToPeer(p, m, byUser), cache' = cache
  PROVE  Severs(p) \/ Connects(p) \/ Quiet(p)
<1> DEFINE e == connections[p]
<1>1. e \in Connection /\ connections \in [Peer -> Connection] /\ asked \in [Peer -> BOOLEAN]
  BY Zenon DEF IndInv, TypeOK
<1>2. CASE e.to \in {"Absent", "NoConnection"}
  <2>1. PICK how \in ConnectOutcome : ConnectTo(p, Plus(NoMsgs, m), NoGroup, byUser, how, qconn)
    BY Zenon, <1>2 DEF TryWriteToPeer
  <2>2. Plus(NoMsgs, m) \in Msgs /\ NoGroup \in {NoGroup, boot.maker}
    BY DEF Plus, NoMsgs, Msgs
  <2> QED BY Zenon, <2>1, <2>2, NoTasks, ConnectToKind
<1>3. CASE e.to \notin {"Absent", "NoConnection"}
  <2> DEFINE e1 == IF e.to = "Initiated" THEN [e EXCEPT !.sends = Plus(@, m)] ELSE e
             d == Contacted(e1, byUser)
  <2>1. /\ connections' = [connections EXCEPT ![p] = d]
        /\ qconn' = IF e.to = "Established" THEN Write(qconn, e.toConn, m) ELSE qconn
        /\ asked' = [asked EXCEPT ![p] = @ \/ byUser]
        /\ group' = group /\ seen' = seen /\ loop' = loop
    BY Zenon, <1>3 DEF TryWriteToPeer
  <2>2. SameHalves(e1, e) /\ e1.contacted = e.contacted /\ e1.reads = e.reads
    <3>1. LET f == [e EXCEPT !.sends = Plus(e.sends, m)]
          IN  SameHalves(f, e) /\ f.contacted = e.contacted /\ f.reads = e.reads
      BY Zenon, <1>1, <1>3 DEF SameHalves, Connection
    <3> QED BY Zenon, <3>1 DEF SameHalves
  <2>3. e.to = "Established" => e1 = e
    BY Zenon
  <2>4. e1 \in Connection
    <3>1. Plus(e.sends, m) \in Msgs
      BY <1>1 DEF Plus, Msgs, Connection
    <3> QED BY Zenon, <1>1, <3>1 DEF Connection
  <2> HIDE DEF e1
  <2>5. /\ SameHalves(d, e) /\ d.sends = e1.sends /\ d.reads = e1.reads
        /\ d.contacted => e.contacted \/ byUser
    <3>1. \A b \in BOOLEAN : LET f == [e1 EXCEPT !.contacted = b]
                             IN  /\ SameHalves(f, e) /\ f.contacted = b
                                 /\ f.sends = e1.sends /\ f.reads = e1.reads
      BY Zenon, <1>3, <2>2, <2>4 DEF SameHalves, Connection
    <3>2. (e1.contacted \/ (byUser /\ e1.to # "Absent")) \in BOOLEAN
      BY Zenon
    <3> QED BY Zenon, <2>2, <3>1, <3>2 DEF Contacted
  <2> HIDE DEF d
  <2>6. connections'[p] = d /\ \A r \in Peer \ {p} : connections'[r] = connections[r]
    BY Zenon, <1>1, <2>1
  <2>7. /\ asked[p] \/ byUser => asked'[p]
        /\ \A r \in Peer \ {p} : asked'[r] = asked[r]
    BY Zenon, <1>1, <2>1
  <2>8. \A c \in Conn : qconn'[c].signal = qconn[c].signal
    <3>1. e.to = "Established" => e.toConn \in Conn /\ qconn[e.toConn].peer \in Peer
      BY Zenon DEF IndInv, Halves
    <3>2. TasksOnly(qconn')
      BY Zenon, <2>1, <3>1, NoTasks, WriteTask
    <3> QED BY Zenon, <3>2 DEF TasksOnly
  <2> QED BY Zenon, <2>1, <2>3, <2>5, <2>6, <2>7, <2>8 DEF Quiet
<1> QED BY Zenon, <1>2, <1>3

\* Messages leave the halves of the entry alone, but for the handshakes.
LEMMA StreamReadKind ==
  ASSUME IndInv, NEW c \in Conn, NEW m \in WireMsg, StreamRead(c, m)
  PROVE  (\E p \in Peer : PeerStep(p)) \/ Ends
<1>1. PICK p \in Peer : p = qconn[c].peer
  BY Zenon, TaskPeer DEF StreamRead
<1> DEFINE e == connections[p]
           q == StreamDone(c)
<1>2. q \in [Conn -> QConn] /\ TasksOnly(q)
  BY Zenon, StreamDoneTask DEF StreamRead
<1>3. boot' = boot /\ boot.maker = NoGroup
  BY Zenon DEF StreamRead, Running
<1> HIDE DEF q
<1>4. CASE HandleNodeHandshake(p, q)
  <2>1. cache' = cache /\ NoMsgs \in Msgs
    BY Zenon, <1>4 DEF HandleNodeHandshake, NoMsgs, Msgs
  <2>2. CASE e.to = "NoConnection"
    <3>1. PICK how \in ConnectOutcome : ConnectTo(p, NoMsgs, NoGroup, FALSE, how, q)
      BY Zenon, <1>4, <2>2 DEF HandleNodeHandshake
    <3> QED BY Zenon, <1>2, <1>3, <2>1, <3>1, ConnectToKind DEF PeerStep
  <2>3. CASE e.to # "NoConnection"
    BY Zenon, <1>2, <1>3, <1>4, <2>1, <2>3, IgnoreIsQuiet DEF HandleNodeHandshake, PeerStep
  <2> QED BY Zenon, <2>2, <2>3
<1>5. CASE HandleClientHandshake(p, q)
  <2>1. CASE e.to = "NoConnection"
    BY Zenon, <1>2, <1>3, <1>5, <2>1 DEF PeerStep, Greets
  <2>2. CASE e.to # "NoConnection"
    BY Zenon, <1>2, <1>3, <1>5, <2>2, IgnoreIsQuiet DEF HandleClientHandshake, PeerStep
  <2> QED BY Zenon, <2>1, <2>2
<1>6. CASE HandleData(p, m, q)
  <2>1. /\ EntryShape(e) /\ Halves(p) /\ EventsMatchMap /\ e \in Connection
        /\ e.from \in FromPeer /\ connections \in [Peer -> Connection]
        /\ seen \in [Peer -> PeerView]
    BY Zenon DEF IndInv, TypeOK, Connection
  <2>2. CASE Ignore(q) /\ UNCHANGED <<cache, query, killers>>
    BY Zenon, <1>2, <1>3, <2>2, IgnoreIsQuiet DEF PeerStep
  <2>3. CASE e.to # "Absent" /\ e.from = "NoConnection"
    BY Zenon, <1>3, <1>6, <2>3 DEF HandleData, Ends
  <2>4. ASSUME NEW d \in Conn, qconn[d].peer = p, Complete(e), Dispatch(p, m, q, d)
        PROVE  Quiet(p)
    <3>1. seen' = seen
      <4>1. seen[p] = "connected"
        BY Zenon, <2>1, <2>4 DEF EventsMatchMap
      <4>2. [seen EXCEPT ![p] = SeeMessage(@)] = seen
        BY Zenon, <2>1, <4>1 DEF SeeMessage
      <4> QED BY Zenon, <2>4, <4>2 DEF Dispatch
    <3>2. TasksOnly(qconn')
      <4>1. "EchoResp" \in WireMsg
        BY Zenon DEF WireMsg
      <4>2. TasksOnly(Write(q, d, "EchoResp"))
        BY Zenon, <1>2, <2>4, <4>1, WriteTask
      <4> QED BY Zenon, <1>2, <2>4, <4>2 DEF Dispatch
    <3>3. \A b \in Conn : qconn'[b].signal = qconn[b].signal
      BY Zenon, <3>2 DEF TasksOnly
    <3>4. /\ connections' = connections /\ group' = group /\ asked' = asked /\ loop' = loop
          /\ \/ cache' = cache
             \/ e.to = "Established" /\ cache' = Remember(e, p)
      BY Zenon, <2>4 DEF Dispatch
    <3>5. SameHalves(connections'[p], e)
      BY Zenon, <3>4 DEF SameHalves
    <3> QED BY Zenon, <3>1, <3>3, <3>4, <3>5 DEF Quiet
  <2>5. CASE e.to = "Established" /\ e.from # "NoConnection"
    <3>1. Dispatch(p, m, q, e.toConn) /\ e.toConn \in Conn /\ qconn[e.toConn].peer = p
      BY Zenon, <1>6, <2>1, <2>5 DEF HandleData, Halves
    <3>2. Complete(e)
      BY Zenon, <2>1, <2>5 DEF Complete, Settled, FromPeer
    <3> QED BY Zenon, <1>3, <2>4, <3>1, <3>2 DEF PeerStep
  <2>6. CASE e.to = "NotNeeded" /\ e.from = "Established"
    <3>1. Dispatch(p, m, q, e.fromConn) /\ e.fromConn \in Conn /\ qconn[e.fromConn].peer = p
      BY Zenon, <1>6, <2>1, <2>6 DEF HandleData, Halves
    <3>2. Complete(e)
      BY Zenon, <2>6 DEF Complete, Settled
    <3> QED BY Zenon, <1>3, <2>4, <3>1, <3>2 DEF PeerStep
  <2>7. CASE e.to \notin {"Absent", "Established", "NotNeeded"} /\ e.from = "Established"
    <3> DEFINE f == [e EXCEPT !.reads = Plus(e.reads, m)]
    <3>1. /\ connections' = [connections EXCEPT ![p] = f]
          /\ qconn' = q /\ group' = group /\ seen' = seen /\ asked' = asked
          /\ loop' = loop /\ cache' = cache
      BY Zenon, <1>6, <2>7 DEF HandleData
    <3>2. SameHalves(f, e) /\ f.contacted = e.contacted
      BY Zenon, <2>1, <2>7 DEF SameHalves, Connection
    <3> HIDE DEF f
    <3>3. connections'[p] = f /\ \A r \in Peer \ {p} : connections'[r] = connections[r]
      BY Zenon, <2>1, <3>1
    <3>4. \A b \in Conn : qconn'[b].signal = qconn[b].signal
      BY Zenon, <1>2, <3>1 DEF TasksOnly
    <3>5. Quiet(p)
      BY Zenon, <2>7, <3>1, <3>2, <3>3, <3>4 DEF Quiet
    <3> QED BY Zenon, <1>3, <3>5 DEF PeerStep
  <2> QED BY ZenonT(30), <1>6, <2>1, <2>2, <2>3, <2>5, <2>6, <2>7 DEF HandleData, FromPeer
<1> QED BY Zenon, <1>1, <1>4, <1>5, <1>6 DEF StreamRead, q

\* A failing task removes the entry of its peer.
LEMMA FailureKind ==
  ASSUME IndInv, NEW c \in Conn, qconn[c].peer \in Peer, NEW q \in [Conn -> QConn],
         TaskEnded(q, qconn[c].peer), Sever(qconn[c].peer, q), boot' = boot, cache' = cache
  PROVE  \E p \in Peer : PeerStep(p)
<1>1. Severs(qconn[c].peer)
  BY Zenon DEF Severs
<1> QED BY Zenon, <1>1 DEF PeerStep

\* The steps of the tasks of a connection.
LEMMA ConnectionStepKind ==
  ASSUME IndInv, NEW c \in Conn,
         \/ AttemptCancelled(c) \/ AttemptFails(c) \/ AttemptSucceeds(c)
         \/ IncomingStream(c) \/ ReaderFails(c) \/ StreamFails(c) \/ DriverFails(c)
         \/ \E m \in WireMsg : StreamRead(c, m) \/ WriteSucceeds(c, m) \/ WriteFails(c, m)
  PROVE  (\E p \in Peer : PeerStep(p)) \/ Ends
<1>1. CASE AttemptCancelled(c)
  BY Zenon, <1>1, LeafDoneTask, TaskPeer, FailureKind DEF AttemptCancelled
<1>2. CASE AttemptFails(c)
  BY ZenonT(30), <1>2, LeafDoneTask, TaskPeer, FailureKind DEF AttemptFails, ResultPolled
<1>3. CASE AttemptSucceeds(c)
  <2>1. ResultPolled(c) /\ boot' = boot /\ boot.maker = NoGroup
    BY Zenon, <1>3 DEF AttemptSucceeds, Running
  <2>2. PICK p \in Peer : p = qconn[c].peer
    BY Zenon, <2>1, TaskPeer DEF ResultPolled
  <2>3. connections[p].to = "Initiated"
    BY Zenon, <2>1, <2>2 DEF ResultPolled, IndInv, LiveAttemptIsCurrent
  <2>4. Establish(c, connections[p])
    BY Zenon, <1>3, <2>2, <2>3 DEF AttemptSucceeds
  <2> QED BY Zenon, <2>1, <2>2, <2>3, <2>4 DEF Establishes, PeerStep
<1>4. CASE IncomingStream(c)
  <2> DEFINE q == [qconn EXCEPT ![c].streams = @ + 1]
  <2>1. /\ q \in [Conn -> QConn] /\ TasksOnly(q) /\ Ignore(q) /\ qconn[c].peer \in Peer
        /\ boot' = boot /\ cache' = cache
    BY Zenon, <1>4, StreamAddedTask, TaskPeer DEF IncomingStream
  <2> HIDE DEF q
  <2> QED BY Zenon, <2>1, IgnoreIsQuiet DEF PeerStep
<1>5. CASE ReaderFails(c)
  <2> DEFINE q == [qconn EXCEPT ![c].reader = FALSE]
  <2>1. /\ q \in [Conn -> QConn] /\ TasksOnly(q) /\ Sever(qconn[c].peer, q)
        /\ boot' = boot /\ cache' = cache /\ qconn[c].peer \in Peer
    BY Zenon, <1>5, ReaderDoneTask, TaskPeer DEF ReaderFails
  <2> HIDE DEF q
  <2> QED BY Zenon, <2>1, TasksOnlyEnded, FailureKind
<1>6. CASE StreamFails(c)
  BY ZenonT(30), <1>6, StreamDoneTask, TasksOnlyEnded, TaskPeer, FailureKind DEF StreamFails
<1>7. CASE DriverFails(c)
  <2> DEFINE q == [qconn EXCEPT ![c].driver = FALSE]
  <2>1. /\ q \in [Conn -> QConn] /\ TasksOnly(q) /\ Sever(qconn[c].peer, q)
        /\ boot' = boot /\ cache' = cache /\ qconn[c].peer \in Peer
    BY Zenon, <1>7, DriverDoneTask, TaskPeer DEF DriverFails
  <2> HIDE DEF q
  <2> QED BY Zenon, <2>1, TasksOnlyEnded, FailureKind
<1>8. ASSUME NEW m \in WireMsg, StreamRead(c, m) PROVE (\E p \in Peer : PeerStep(p)) \/ Ends
  BY Zenon, <1>8, StreamReadKind
<1>9. ASSUME NEW m \in WireMsg, WriteSucceeds(c, m) PROVE \E p \in Peer : PeerStep(p)
  <2>1. /\ WriteDone(c, m) \in [Conn -> QConn] /\ TasksOnly(WriteDone(c, m))
        /\ Ignore(WriteDone(c, m)) /\ boot' = boot /\ cache' = cache
    BY Zenon, <1>9, WriteDoneTask DEF WriteSucceeds
  <2>2. qconn[c].peer \in Peer
    BY Zenon, <1>9, TaskPeer DEF WriteSucceeds
  <2> QED BY Zenon, <2>1, <2>2, IgnoreIsQuiet DEF PeerStep
<1>10. ASSUME NEW m \in WireMsg, WriteFails(c, m) PROVE \E p \in Peer : PeerStep(p)
  <2>1. /\ WriteDone(c, m) \in [Conn -> QConn] /\ TasksOnly(WriteDone(c, m))
        /\ Sever(qconn[c].peer, WriteDone(c, m)) /\ boot' = boot /\ cache' = cache
    BY ZenonT(30), <1>10, WriteDoneTask DEF WriteFails
  <2>2. qconn[c].peer \in Peer
    BY Zenon, <1>10, TaskPeer DEF WriteFails
  <2> QED BY Zenon, <2>1, <2>2, TasksOnlyEnded, FailureKind
<1> QED BY ZenonT(30), <1>1, <1>2, <1>3, <1>4, <1>5, <1>6, <1>7, <1>8, <1>9, <1>10

-----------------------------------------------------------------------------
(* The ledger: the user messages of an entry are those its buffers hold.     *)

\* s user messages are taken and not written, r are accepted and not reported: the
\* buffers of e hold them, pending_sends only while an attempt is going on
\* (to_peer.rs:25), pending_reads only with an incoming half (from_peer.rs:18).
Booked(e, s, r) ==
  /\ s = e.sends["UserMsg"]
  /\ r = e.reads["UserMsg"]
  /\ e.to # "Initiated" => s = 0
  /\ e.from # "Established" => r = 0

LedgerInv ==
  /\ unsent \in [Peer -> Int]
  /\ unread \in [Peer -> Int]
  /\ \A p \in Peer : Booked(connections[p], unsent[p], unread[p])

\* The step gives p an entry and books for it.
Rebooks(p, d, s, r) ==
  /\ connections' = [connections EXCEPT ![p] = d]
  /\ unsent' = [unsent EXCEPT ![p] = s]
  /\ unread' = [unread EXCEPT ![p] = r]

LEMMA RebooksKeeps ==
  ASSUME LedgerInv, connections \in [Peer -> Connection],
         NEW p \in Peer, NEW d, NEW s \in Int, NEW r \in Int,
         Rebooks(p, d, s, r), Booked(d, s, r)
  PROVE  LedgerInv'
<1>1. unsent' \in [Peer -> Int] /\ unread' \in [Peer -> Int]
  BY DEF LedgerInv, Rebooks
<1>2. connections'[p] = d /\ unsent'[p] = s /\ unread'[p] = r
  BY Zenon DEF LedgerInv, Rebooks
<1>3. \A o \in Peer \ {p} : /\ connections'[o] = connections[o]
                            /\ unsent'[o] = unsent[o] /\ unread'[o] = unread[o]
  BY Zenon DEF LedgerInv, Rebooks
<1>4. \A o \in Peer : Booked(connections'[o], unsent'[o], unread'[o])
  BY Zenon, <1>2, <1>3 DEF LedgerInv
<1> QED BY Zenon, <1>1, <1>4 DEF LedgerInv, Booked

\* A step that leaves the map alone books nothing.
LEMMA LedgerSame ==
  ASSUME LedgerInv, connections' = connections, unsent' = unsent, unread' = unread
  PROVE  LedgerInv'
BY Zenon DEF LedgerInv, Booked

\* An address without an entry has no messages.
LEMMA NothingBooked == Booked(NoEntry, 0, 0)
BY DEF Booked, NoEntry, NoMsgs, WireMsg

\* The user messages of a buffer after one more message.
LEMMA PlusUser ==
  ASSUME NEW b \in Msgs, NEW m \in WireMsg
  PROVE  /\ Plus(b, m) \in Msgs
         /\ Plus(b, m)["UserMsg"] = b["UserMsg"] + Plus(NoMsgs, m)["UserMsg"]
         /\ Plus(NoMsgs, m)["UserMsg"] \in Nat
         /\ b["UserMsg"] \in Nat
         /\ m = "UserMsg" => Plus(NoMsgs, m)["UserMsg"] = 1
         /\ NoMsgs \in Msgs /\ NoMsgs["UserMsg"] = 0
BY DEF Plus, Msgs, NoMsgs, WireMsg

\* connections.remove drops the messages of its entry with it.
LEMMA SeverBooks ==
  ASSUME LedgerInv, connections \in [Peer -> Connection], NEW p \in Peer, NEW q, Sever(p, q)
  PROVE  LedgerInv'
<1>1. Rebooks(p, NoEntry, 0, 0)
  BY Zenon DEF Sever, Rebooks
<1>2. 0 \in Int
  OBVIOUS
<1> QED BY Zenon, <1>1, <1>2, NothingBooked, RebooksKeeps

\* So does the end of the thread, for every entry.
LEMMA ExitBooks ==
  ASSUME NEW how, Exit(how)
  PROVE  LedgerInv'
<1>1. \A p \in Peer : connections'[p] = NoEntry /\ unsent'[p] = 0 /\ unread'[p] = 0
  BY Zenon DEF Exit
<1>2. unsent' \in [Peer -> Int] /\ unread' \in [Peer -> Int]
  BY DEF Exit
<1>3. \A p \in Peer : Booked(connections'[p], unsent'[p], unread'[p])
  BY Zenon, <1>1, NothingBooked
<1> QED BY Zenon, <1>2, <1>3 DEF LedgerInv, Booked

\* A task that ends without effect books nothing.
LEMMA IgnoreBooks ==
  ASSUME LedgerInv, NEW q, Ignore(q)
  PROVE  LedgerInv'
BY Zenon, LedgerSame DEF Ignore, ledger

\* or_insert_with makes an entry without messages.
LEMMA OrInsertBuffers ==
  ASSUME NEW e \in Connection, EntryShape(e)
  PROVE  LET f == OrInsert(e)
         IN  f \in Connection /\ f.sends = e.sends /\ f.reads = e.reads /\ f.from = e.from
<1>1. OrInsert(e) \in Connection
  BY Zenon, OrInsertFields
<1>2. CASE e.to = "Absent"
  <2>1. e = NoEntry
    BY Zenon, <1>2 DEF EntryShape
  <2> QED BY <1>1, <1>2, <2>1 DEF OrInsert, NewEntry, NoEntry
<1>3. CASE e.to # "Absent"
  BY Zenon, <1>1, <1>3 DEF OrInsert
<1> QED BY Zenon, <1>2, <1>3

\* connect_to: what is handed over with the call is buffered (connect.rs:69).
LEMMA ConnectToBooks ==
  ASSUME LedgerInv, IndInv, NEW p \in Peer, NEW pending \in Msgs,
         NEW g, NEW byUser, NEW how, NEW q, ConnectTo(p, pending, g, byUser, how, q)
  PROVE  LedgerInv'
<1> DEFINE e == connections[p]
<1>1. /\ connections \in [Peer -> Connection] /\ e \in Connection /\ EntryShape(e)
      /\ Booked(e, unsent[p], unread[p])
  BY Zenon DEF IndInv, TypeOK, LedgerInv
<1>2. CASE Sever(p, q)
  BY Zenon, <1>1, <1>2, SeverBooks
<1>3. CASE UNCHANGED <<connections, group, seen, ledger, loop>>
  BY Zenon, <1>3, LedgerSame DEF ledger
<1>4. CASE Exit("panic at connect.rs:58")
  BY Zenon, <1>4, ExitBooks
<1>5. CASE /\ e.to \in {"Absent", "NoConnection"}
           /\ ~(OurType = "Client" /\ e.from # "NoConnection")
           /\ \E c \in Conn : Initiate(p, c, pending, g, byUser, q)
  <2>1. PICK c \in Conn : Initiate(p, c, pending, g, byUser, q)
    BY Zenon, <1>5
  <2> DEFINE f == OrInsert(e)
             x == IF OurType = "Client" THEN "NotNeeded" ELSE f.from
             y == IF g # NoGroup /\ f.group = NoGroup THEN g ELSE f.group
             z == f.contacted \/ byUser
             d == [f EXCEPT !.to = "Initiated", !.toConn = c, !.sends = pending,
                            !.from = x, !.group = y, !.contacted = z]
  <2>2. connections' = [connections EXCEPT ![p] = d]
    BY Zenon, <2>1 DEF Initiate
  <2>3. unsent' = [unsent EXCEPT ![p] = unsent[p] + pending["UserMsg"]] /\ unread' = unread
    BY Zenon, <2>1 DEF Initiate, LedgerInv
  <2>4. f \in Connection /\ f.reads = e.reads /\ f.from = e.from
    BY Zenon, <1>1, OrInsertBuffers
  <2>5. d.to = "Initiated" /\ d.sends = pending /\ d.from = x /\ d.reads = e.reads
    <3> HIDE DEF f, x, y, z
    <3> QED BY Zenon, <2>4 DEF d, Connection
  <2>6. unsent[p] = 0
    BY Zenon, <1>1, <1>5 DEF Booked
  <2>7. unread[p] = e.reads["UserMsg"] /\ (x # "Established" => unread[p] = 0)
    BY <1>1, <1>5, <2>4 DEF Booked
  <2>8. pending["UserMsg"] \in Int /\ 0 + pending["UserMsg"] = pending["UserMsg"] /\ unread[p] \in Int
    BY DEF Msgs, WireMsg, LedgerInv
  <2> HIDE DEF d, x
  <2>9. Rebooks(p, d, pending["UserMsg"], unread[p])
    <3>1. unread = [unread EXCEPT ![p] = unread[p]]
      BY Zenon DEF LedgerInv
    <3> QED BY Zenon, <2>2, <2>3, <2>6, <2>8, <3>1 DEF Rebooks
  <2>10. Booked(d, pending["UserMsg"], unread[p])
    BY Zenon, <2>5, <2>7 DEF Booked
  <2> QED BY Zenon, <1>1, <2>8, <2>9, <2>10, RebooksKeeps
<1>6. e.to \in {"Absent", "NoConnection"} \/ e.to \notin {"Absent", "NoConnection"}
  OBVIOUS
<1> QED BY Zenon, <1>2, <1>3, <1>4, <1>5, <1>6 DEF ConnectTo

\* An attempt succeeds: every buffered user message is written and every one that
\* was read early is reported, before the buffers are gone (connect.rs:153, 233, 247).
LEMMA EstablishBooks ==
  ASSUME LedgerInv, IndInv, NEW c \in Conn, NEW p \in Peer, ResultPolled(c),
         p = qconn[c].peer, Establish(c, connections[p])
  PROVE  LedgerInv'
<1> DEFINE e == connections[p]
           greets(m) == \/ e.from = "NoConnection" /\ m = "HandshakeNode"
                        \/ e.from = "NotNeeded" /\ m = "HandshakeClient"
           written(m) == qconn[c].writes[m] + Flushed(e)[m]
                           + (IF greets(m) THEN 1 ELSE 0)
                           + (IF m = "EchoResp" THEN Drained(e)["EchoReq"] ELSE 0)
           w == [m \in WireMsg |-> written(m)]
           t == [qconn[c] EXCEPT !.leaf = FALSE, !.signal = FALSE, !.driver = TRUE,
                                 !.open = TRUE, !.reader = (e.from = "NotNeeded"), !.writes = w]
           q1 == [qconn EXCEPT ![c] = t]
           q2 == Signal(q1, {e.toConn})
           e1 == EstablishedEntry(e, c)
           d == connections'[p]
<1>1. /\ connections \in [Peer -> Connection] /\ e \in Connection
      /\ qconn \in [Conn -> QConn] /\ qconn[c] \in QConn
      /\ Booked(e, unsent[p], unread[p]) /\ unsent[p] \in Int /\ unread[p] \in Int
  BY Zenon DEF IndInv, TypeOK, LedgerInv
<1>2. Flushed(e) \in Msgs /\ Drained(e) \in Msgs /\ qconn[c].writes \in Msgs
  <2>1. qconn[c].writes \in Msgs
    BY Zenon, <1>1 DEF QConn
  <2> QED BY Zenon, <1>1, <2>1, BuffersTyped
<1>3. w \in Msgs /\ w["UserMsg"] = qconn[c].writes["UserMsg"] + e.sends["UserMsg"]
  <2>1. ASSUME NEW m \in WireMsg PROVE written(m) \in Nat
    BY <1>2 DEF Msgs, WireMsg
  <2>2. written("UserMsg") = qconn[c].writes["UserMsg"] + Flushed(e)["UserMsg"]
    BY <1>2 DEF Msgs, WireMsg
  <2>3. "UserMsg" \in WireMsg
    BY DEF WireMsg
  <2> HIDE DEF written
  <2> QED BY Zenon, <2>1, <2>2, <2>3 DEF Msgs, Flushed
<1>4. t \in QConn /\ t.writes = w
  <2> DEFINE b == (e.from = "NotNeeded")
  <2>1. b \in BOOLEAN
    OBVIOUS
  <2> HIDE DEF w, b
  <2>2. t = [qconn[c] EXCEPT !.leaf = FALSE, !.signal = FALSE, !.driver = TRUE,
                             !.open = TRUE, !.reader = b, !.writes = w]
    BY DEF b
  <2> HIDE DEF t
  <2>3. \A l, s, dr, o \in BOOLEAN :
          [qconn[c] EXCEPT !.leaf = l, !.signal = s, !.driver = dr, !.open = o,
                           !.reader = b, !.writes = w] \in QConn
    BY ZenonT(30), <1>1, <1>3, <2>1 DEF QConn
  <2>4. t \in QConn
    BY Zenon, <2>2, <2>3
  <2> QED BY Zenon, <1>1, <2>2, <2>4 DEF QConn
<1>5. /\ \/ connections' = [connections EXCEPT ![p] = e1] /\ qconn' = q2
         \/ \E view : Announce(p, e1, q2, view)
      /\ unsent' = [unsent EXCEPT ![p] = unsent[p] - NewWrites(c)]
      /\ unread' = [unread EXCEPT ![p] = unread[p] - Drained(e)["UserMsg"]]
  BY Zenon DEF Establish, w, t, LedgerInv
<1> HIDE DEF w, t
<1>6. qconn'[c].writes = w
  <2>1. q1 \in [Conn -> QConn] /\ q1[c] = t
    BY Zenon, <1>1, <1>4
  <2> HIDE DEF q1
  <2>2. q2 \in [Conn -> QConn] /\ q2[c].writes = w
    <3>1. PICK S : q2 = Signal(q1, S)
      OBVIOUS
    <3> HIDE DEF q2
    <3>2. q2 \in [Conn -> QConn] /\ SameTasks(q2[c], q1[c])
      BY <2>1, <3>1, SignalKeeps
    <3> QED BY Zenon, <1>4, <2>1, <3>2 DEF SameTasks
  <2> HIDE DEF q2
  <2>3. qconn' = q2 \/ \E S : qconn' = Signal(q2, S)
    BY Zenon, <1>5 DEF Announce
  <2>4. ASSUME NEW S, qconn' = Signal(q2, S) PROVE qconn'[c].writes = w
    <3>1. SameTasks(qconn'[c], q2[c])
      BY <2>2, <2>4, SignalKeeps
    <3> QED BY Zenon, <2>2, <3>1 DEF SameTasks
  <2> QED BY Zenon, <2>2, <2>3, <2>4
<1>7. NewWrites(c) = e.sends["UserMsg"]
  <2>1. qconn[c].writes["UserMsg"] \in Nat /\ e.sends["UserMsg"] \in Nat
    BY <1>2 DEF Msgs, WireMsg, Flushed
  <2> QED BY <1>3, <1>6, <2>1 DEF NewWrites
<1>8. /\ d = e1 \/ d = [e1 EXCEPT !.group = NoGroup]
      /\ connections' = [connections EXCEPT ![p] = d]
  BY Zenon, <1>1, <1>5 DEF Announce
<1>9. d.sends = NoMsgs /\ d.reads = NoMsgs
  <2>1. e1 \in Connection /\ e1.sends = NoMsgs /\ e1.reads = NoMsgs
    <3>1. NoMsgs \in Msgs /\ "Established" \in ToPeer
      BY Zenon DEF NoMsgs, Msgs, ToPeer
    <3> QED BY Zenon, <1>1, <3>1 DEF EstablishedEntry, Connection
  <2> HIDE DEF e1, d
  <2> QED BY Zenon, <1>8, <2>1 DEF Connection
<1>10. Drained(e)["UserMsg"] = unread[p] /\ e.sends["UserMsg"] = unsent[p]
  BY <1>1 DEF Booked, Drained, NoMsgs, WireMsg
<1>11. unsent[p] - NewWrites(c) = 0 /\ unread[p] - Drained(e)["UserMsg"] = 0
  <2> HIDE DEF e
  <2> QED BY <1>1, <1>7, <1>10
<1>12. Booked(d, 0, 0)
  <2> HIDE DEF d
  <2> QED BY <1>9 DEF Booked, NoMsgs, WireMsg
<1>13. Rebooks(p, d, 0, 0)
  BY Zenon, <1>5, <1>8, <1>11 DEF Rebooks
<1>14. 0 \in Int
  OBVIOUS
<1> HIDE DEF d
<1> QED BY Zenon, <1>1, <1>12, <1>13, <1>14, RebooksKeeps

\* A step that gives p an entry with the same messages and books none.
LEMMA SameBuffersBook ==
  ASSUME LedgerInv, connections \in [Peer -> Connection], NEW p \in Peer, NEW d,
         connections' = [connections EXCEPT ![p] = d], unsent' = unsent, unread' = unread,
         d.sends = connections[p].sends, d.reads = connections[p].reads,
         connections[p].to = "Initiated" => d.to = "Initiated",
         connections[p].from = "Established" => d.from = "Established"
  PROVE  LedgerInv'
<1>1. Rebooks(p, d, unsent[p], unread[p])
  BY Zenon DEF Rebooks, LedgerInv
<1>2. Booked(d, unsent[p], unread[p])
  BY Zenon DEF Booked, LedgerInv
<1>3. unsent[p] \in Int /\ unread[p] \in Int
  BY Zenon DEF LedgerInv
<1> QED BY Zenon, <1>1, <1>2, <1>3, RebooksKeeps

\* A connection is accepted: the new incoming half has read nothing (listener.rs:50).
LEMMA AcceptBooks ==
  ASSUME LedgerInv, IndInv, NEW p \in Peer, IncomingConnection(p)
  PROVE  LedgerInv'
<1> DEFINE f == OrInsert(connections[p])
<1>1. /\ connections \in [Peer -> Connection] /\ connections[p] \in Connection
      /\ EntryShape(connections[p]) /\ unsent' = unsent /\ unread' = unread
  BY Zenon DEF IndInv, TypeOK, IncomingConnection, ledger
<1>2. /\ f \in Connection /\ f.sends = connections[p].sends /\ f.reads = connections[p].reads
      /\ f.from = connections[p].from /\ (connections[p].to = "Initiated" => f.to = "Initiated")
  <2>1. connections[p].to = "Initiated" => f = connections[p]
    BY DEF OrInsert
  <2> QED BY Zenon, <1>1, <2>1, OrInsertBuffers
<1>3. PICK c \in Conn : LET e1 == [f EXCEPT !.from = "Established", !.fromConn = c]
                        IN  \/ \E q : Ignore(q)
                            \/ connections' = [connections EXCEPT ![p] = e1]
                            \/ connections' = [connections EXCEPT ![p] = [e1 EXCEPT !.group = NoGroup]]
  BY Zenon DEF IncomingConnection, Announce
<1> DEFINE e1 == [f EXCEPT !.from = "Established", !.fromConn = c]
           e2 == [e1 EXCEPT !.group = NoGroup]
<1>4. /\ e1 \in Connection /\ e1.sends = f.sends /\ e1.reads = f.reads
      /\ e1.from = "Established" /\ e1.to = f.to
  <2> HIDE DEF f
  <2> QED BY Zenon, <1>2 DEF Connection, FromPeer
<1>5. /\ e2.sends = f.sends /\ e2.reads = f.reads /\ e2.from = "Established" /\ e2.to = f.to
  <2> HIDE DEF e1
  <2> QED BY Zenon, <1>4 DEF Connection
<1> HIDE DEF f
<1>6. CASE \E q : Ignore(q)
  BY Zenon, <1>6, IgnoreBooks
<1>7. CASE connections' = [connections EXCEPT ![p] = e1]
  <2> HIDE DEF e1
  <2> QED BY Zenon, <1>1, <1>2, <1>4, <1>7, SameBuffersBook
<1>8. CASE connections' = [connections EXCEPT ![p] = e2]
  <2> HIDE DEF e2
  <2> QED BY Zenon, <1>1, <1>2, <1>5, <1>8, SameBuffersBook
<1> QED BY Zenon, <1>3, <1>6, <1>7, <1>8

\* A message is read: it is dispatched at once, dropped for want of an entry, or
\* buffered (communicate.rs:181).
LEMMA HandleDataBooks ==
  ASSUME LedgerInv, IndInv, NEW p \in Peer, NEW m \in WireMsg, NEW q, HandleData(p, m, q)
  PROVE  LedgerInv'
<1> DEFINE e == connections[p]
<1>1. /\ connections \in [Peer -> Connection] /\ e \in Connection /\ EntryShape(e)
      /\ Booked(e, unsent[p], unread[p]) /\ unsent[p] \in Int /\ unread[p] \in Int
  BY Zenon DEF IndInv, TypeOK, LedgerInv
<1>2. CASE Ignore(q)
  BY Zenon, <1>2, IgnoreBooks
<1>3. CASE Exit("panic at communicate.rs:254")
  BY Zenon, <1>3, ExitBooks
<1>4. CASE \E r : Dispatch(p, m, q, r)
  BY Zenon, <1>4, LedgerSame DEF Dispatch, ledger
<1>5. CASE /\ e.from \notin {"NoConnection", "NotNeeded"}
           /\ connections' = [connections EXCEPT ![p].reads = Plus(@, m)]
           /\ unread' = [unread EXCEPT ![p] = @ + Plus(NoMsgs, m)["UserMsg"]]
           /\ unsent' = unsent
  <2> DEFINE d == [e EXCEPT !.reads = Plus(e.reads, m)]
             r == unread[p] + Plus(NoMsgs, m)["UserMsg"]
  <2>1. e.reads \in Msgs
    BY Zenon, <1>1 DEF Connection
  <2>2. Plus(e.reads, m)["UserMsg"] = r /\ r \in Int
    BY <1>1, <2>1, PlusUser DEF Booked
  <2>3. /\ d.reads = Plus(e.reads, m) /\ d.sends = e.sends /\ d.to = e.to /\ d.from = e.from
    BY Zenon, <1>1 DEF Connection
  <2>4. Rebooks(p, d, unsent[p], r)
    <3>1. connections' = [connections EXCEPT ![p] = d]
      BY <1>1, <1>5
    <3>2. unread' = [unread EXCEPT ![p] = r]
      BY Zenon, <1>5 DEF LedgerInv
    <3>3. unsent = [unsent EXCEPT ![p] = unsent[p]]
      BY Zenon DEF LedgerInv
    <3> QED BY Zenon, <1>5, <3>1, <3>2, <3>3 DEF Rebooks
  <2>5. e.from = "Established"
    BY <1>1, <1>5 DEF Connection, FromPeer
  <2> HIDE DEF d, r
  <2>6. Booked(d, unsent[p], r)
    BY Zenon, <1>1, <2>2, <2>3, <2>5 DEF Booked
  <2> QED BY Zenon, <1>1, <2>2, <2>4, <2>6, RebooksKeeps
<1> QED BY Zenon, <1>2, <1>3, <1>4, <1>5 DEF HandleData

\* The handshake of a client leaves pending_reads as it is (communicate.rs:314).
LEMMA ClientHandshakeBooks ==
  ASSUME LedgerInv, IndInv, NEW p \in Peer, NEW q, HandleClientHandshake(p, q)
  PROVE  LedgerInv'
<1> DEFINE e == connections[p]
           d == [e EXCEPT !.to = "NotNeeded"]
<1>1. connections \in [Peer -> Connection] /\ e \in Connection
  BY Zenon DEF IndInv, TypeOK
<1>2. CASE Ignore(q)
  BY Zenon, <1>2, IgnoreBooks
<1>3. CASE /\ e.to = "NoConnection" /\ UNCHANGED ledger
           /\ connections' = [connections EXCEPT ![p].to = "NotNeeded"]
  <2>1. d.sends = e.sends /\ d.reads = e.reads /\ d.from = e.from
    BY Zenon, <1>1 DEF Connection
  <2>2. connections' = [connections EXCEPT ![p] = d] /\ e.to # "Initiated"
    BY <1>1, <1>3
  <2>3. unsent' = unsent /\ unread' = unread
    BY Zenon, <1>3 DEF ledger
  <2> HIDE DEF d
  <2> QED BY Zenon, <1>1, <2>1, <2>2, <2>3, SameBuffersBook
<1>4. HandleClientHandshake(p, q) => Ignore(q) \/ (e.to = "NoConnection" /\ UNCHANGED ledger
        /\ connections' = [connections EXCEPT ![p].to = "NotNeeded"])
  BY Zenon DEF HandleClientHandshake, ledger
<1> QED BY Zenon, <1>2, <1>3, <1>4

\* A write that is spawned counts (communicate.rs:110).
LEMMA WriteIsNew ==
  ASSUME qconn \in [Conn -> QConn], NEW c \in Conn, NEW m \in WireMsg, qconn' = Write(qconn, c, m)
  PROVE  NewWrites(c) = Plus(NoMsgs, m)["UserMsg"]
<1> DEFINE n == Plus(NoMsgs, m)["UserMsg"]
           w == qconn[c].writes
<1>1. qconn[c] \in QConn
  BY Zenon
<1>2. w \in Msgs
  BY Zenon, <1>1 DEF QConn
<1>3. qconn'[c] = [qconn[c] EXCEPT !.writes = Plus(w, m)]
  BY <1>1 DEF Write
<1>4. qconn'[c].writes = Plus(w, m)
  BY Zenon, <1>1, <1>3 DEF QConn
<1>5. w["UserMsg"] \in Nat /\ n \in Nat /\ Plus(w, m)["UserMsg"] = w["UserMsg"] + n
  BY Zenon, <1>2, PlusUser
<1> HIDE DEF n
<1>6. NewWrites(c) = n
  BY <1>4, <1>5 DEF NewWrites
<1> QED BY Zenon, <1>6 DEF n

\* try_write_to_peer: the message is written, buffered, handed to connect_to or
\* refused (communicate.rs:24).
LEMMA TryWriteBooks ==
  ASSUME LedgerInv, IndInv, NEW p \in Peer, NEW m \in WireMsg, NEW byUser \in BOOLEAN,
         TryWriteToPeer(p, m, byUser)
  PROVE  LedgerInv'
<1> DEFINE e == connections[p]
           n == Plus(NoMsgs, m)["UserMsg"]
<1>1. /\ connections \in [Peer -> Connection] /\ e \in Connection /\ EntryShape(e) /\ Halves(p)
      /\ qconn \in [Conn -> QConn]
      /\ Booked(e, unsent[p], unread[p]) /\ unsent[p] \in Int /\ unread[p] \in Int
  BY Zenon DEF IndInv, TypeOK, LedgerInv
<1>2. e.sends \in Msgs /\ n \in Nat /\ Plus(NoMsgs, m) \in Msgs
      /\ Plus(e.sends, m)["UserMsg"] = e.sends["UserMsg"] + n
  <2>1. e.sends \in Msgs
    BY Zenon, <1>1 DEF Connection
  <2>2. NoMsgs \in Msgs
    BY DEF NoMsgs, Msgs
  <2> QED BY Zenon, <2>1, <2>2, PlusUser
<1>3. CASE e.to \in {"Absent", "NoConnection"}
  BY Zenon, <1>2, <1>3, ConnectToBooks DEF TryWriteToPeer
<1>4. CASE e.to \notin {"Absent", "NoConnection"}
  <2> DEFINE e1 == IF e.to = "Initiated" THEN [e EXCEPT !.sends = Plus(e.sends, m)] ELSE e
             d == Contacted(e1, byUser)
             k == IF e.to = "NotNeeded" THEN 0 ELSE n
             j == IF e.to = "Established" THEN NewWrites(e.toConn) ELSE 0
  <2>1. /\ connections' = [connections EXCEPT ![p] = d]
        /\ unsent' = [unsent EXCEPT ![p] = (unsent[p] + k) - j]
        /\ unread' = unread
        /\ e.to = "Established" => qconn' = Write(qconn, e.toConn, m)
    BY Zenon, <1>1, <1>4 DEF TryWriteToPeer, LedgerInv
  <2>2. /\ e1 \in Connection /\ e1.to = e.to /\ e1.from = e.from /\ e1.reads = e.reads
        /\ e1.sends = IF e.to = "Initiated" THEN Plus(e.sends, m) ELSE e.sends
    <3>1. Plus(e.sends, m) \in Msgs
      BY Zenon, <1>2, PlusUser
    <3>2. LET f == [e EXCEPT !.sends = Plus(e.sends, m)]
          IN  f \in Connection /\ f.to = e.to /\ f.from = e.from /\ f.reads = e.reads
              /\ f.sends = Plus(e.sends, m)
      BY Zenon, <1>1, <3>1 DEF Connection
    <3> QED BY Zenon, <1>1, <3>2
  <2> HIDE DEF e1
  <2>3. d.to = e1.to /\ d.from = e1.from /\ d.reads = e1.reads /\ d.sends = e1.sends
    <3>1. \A b \in BOOLEAN : LET f == [e1 EXCEPT !.contacted = b]
                             IN  /\ f.to = e1.to /\ f.from = e1.from
                                 /\ f.reads = e1.reads /\ f.sends = e1.sends
      BY Zenon, <2>2 DEF Connection
    <3>2. (e1.contacted \/ (byUser /\ e1.to # "Absent")) \in BOOLEAN
      BY Zenon
    <3> QED BY Zenon, <3>1, <3>2 DEF Contacted
  <2>4. e.to = "Established" => NewWrites(e.toConn) = n
    BY Zenon, <1>1, <2>1, WriteIsNew DEF Halves
  <2> HIDE DEF n
  <2>5. (unsent[p] + k) - j = d.sends["UserMsg"] /\ (e.to # "Initiated" => (unsent[p] + k) - j = 0)
    <3>1. e.sends["UserMsg"] = unsent[p] /\ (e.to # "Initiated" => unsent[p] = 0)
      BY Zenon, <1>1 DEF Booked
    <3>2. CASE e.to = "Initiated"
      BY <1>1, <1>2, <2>2, <2>3, <3>1, <3>2
    <3>3. CASE e.to = "Established"
      BY <1>1, <1>2, <2>2, <2>3, <2>4, <3>1, <3>3
    <3>4. CASE e.to = "NotNeeded"
      BY <1>1, <1>2, <2>2, <2>3, <3>1, <3>4
    <3> QED BY Zenon, <1>1, <1>4, <3>2, <3>3, <3>4 DEF Connection, ToPeer
  <2> DEFINE s == (unsent[p] + k) - j
  <2>6. s \in Int
    BY <1>1, <1>2, <2>4
  <2> HIDE DEF d, k, j, s
  <2>7. Rebooks(p, d, s, unread[p])
    BY Zenon, <2>1 DEF Rebooks, LedgerInv, s
  <2>8. Booked(d, s, unread[p])
    BY Zenon, <1>1, <2>2, <2>3, <2>5 DEF Booked, s
  <2> QED BY Zenon, <1>1, <2>6, <2>7, <2>8, RebooksKeeps
<1> QED BY Zenon, <1>3, <1>4

\* send() to a client writes at once or fails (communicate.rs:76).
LEMMA SendToClientBooks ==
  ASSUME LedgerInv, IndInv, NEW p \in Peer, UserSendToClient(p)
  PROVE  LedgerInv'
<1> DEFINE e == connections[p]
           c == WriteConn(e)
           d == Contacted(e, TRUE)
<1>1. /\ connections \in [Peer -> Connection] /\ e \in Connection /\ Halves(p)
      /\ qconn \in [Conn -> QConn] /\ unsent[p] \in Int
  BY Zenon DEF IndInv, TypeOK, LedgerInv
<1>2. /\ connections' = [connections EXCEPT ![p] = d]
      /\ qconn' = IF c = NoConn THEN qconn ELSE Write(qconn, c, "UserMsg")
      /\ unsent' = [unsent EXCEPT ![p] = IF c = NoConn THEN unsent[p] ELSE (unsent[p] + 1) - NewWrites(c)]
      /\ unread' = unread
  BY Zenon DEF UserSendToClient, LedgerInv
<1>3. d.sends = e.sends /\ d.reads = e.reads /\ d.to = e.to /\ d.from = e.from
  <2>1. \A b \in BOOLEAN : LET f == [e EXCEPT !.contacted = b]
                           IN  f.sends = e.sends /\ f.reads = e.reads /\ f.to = e.to /\ f.from = e.from
    BY Zenon, <1>1 DEF Connection
  <2>2. (e.contacted \/ (TRUE /\ e.to # "Absent")) \in BOOLEAN
    BY Zenon
  <2> QED BY Zenon, <2>1, <2>2 DEF Contacted
<1>4. c # NoConn => NewWrites(c) = 1
  <2>1. c # NoConn => c \in Conn
    BY Zenon, <1>1 DEF Halves, WriteConn
  <2>2. "UserMsg" \in WireMsg /\ Plus(NoMsgs, "UserMsg")["UserMsg"] = 1
    BY DEF WireMsg, Plus, NoMsgs
  <2> HIDE DEF c
  <2> QED BY Zenon, <1>1, <1>2, <2>1, <2>2, WriteIsNew
<1>5. unsent' = unsent
  <2>1. (unsent[p] + 1) - 1 = unsent[p]
    BY <1>1
  <2> HIDE DEF c
  <2> QED BY Zenon, <1>2, <1>4, <2>1 DEF LedgerInv
<1> HIDE DEF d
<1> QED BY Zenon, <1>1, <1>2, <1>3, <1>5, SameBuffersBook

\* Every step of the loop keeps the books.
LEMMA LedgerKept ==
  ASSUME LedgerInv, IndInv, [Next]_vars
  PROVE  LedgerInv'
<1>1. /\ connections \in [Peer -> Connection] /\ qconn \in [Conn -> QConn]
      /\ boot.todo \in Seq(Peer) /\ NoMsgs \in Msgs
  BY DEF IndInv, TypeOK, NoMsgs, Msgs
<1>2. ASSUME NEW p \in Peer,
             \/ UserConnectTo(p) \/ UserDisconnectFrom(p)
             \/ UserSendToNode(p) \/ UserSendToClient(p)
             \/ QueryIpEchoService(p)
             \/ IncomingConnection(p)
             \/ KillerFires(p)
      PROVE  LedgerInv'
  <2>1. CASE UserConnectTo(p)
    BY Zenon, <1>1, <2>1, ConnectToBooks DEF UserConnectTo
  <2>2. CASE UserDisconnectFrom(p)
    BY Zenon, <1>1, <2>2, SeverBooks DEF UserDisconnectFrom
  <2>3. CASE UserSendToNode(p) \/ QueryIpEchoService(p)
    <3>1. "UserMsg" \in WireMsg /\ "EchoReq" \in WireMsg /\ TRUE \in BOOLEAN /\ FALSE \in BOOLEAN
      BY DEF WireMsg
    <3> QED BY Zenon, <2>3, <3>1, TryWriteBooks DEF UserSendToNode, QueryIpEchoService
  <2>4. CASE UserSendToClient(p)
    BY Zenon, <2>4, SendToClientBooks
  <2>5. CASE IncomingConnection(p)
    BY Zenon, <2>5, AcceptBooks
  <2>6. CASE KillerFires(p)
    BY Zenon, <1>1, <2>6, SeverBooks, IgnoreBooks DEF KillerFires
  <2> QED BY Zenon, <1>2, <2>1, <2>2, <2>3, <2>4, <2>5, <2>6
<1>3. ASSUME NEW c \in Conn,
             \/ AttemptCancelled(c) \/ AttemptFails(c) \/ AttemptSucceeds(c)
             \/ IncomingStream(c) \/ ReaderFails(c) \/ StreamFails(c) \/ DriverFails(c)
             \/ \E m \in WireMsg : StreamRead(c, m) \/ WriteSucceeds(c, m) \/ WriteFails(c, m)
      PROVE  LedgerInv'
  <2> DEFINE p == qconn[c].peer
  <2>1. p \in Peer
    <3>1. /\ ResultPolled(c) => qconn[c].leaf
          /\ AttemptCancelled(c) => qconn[c].leaf
          /\ AttemptFails(c) \/ AttemptSucceeds(c) => ResultPolled(c)
          /\ IncomingStream(c) \/ ReaderFails(c) => qconn[c].reader
          /\ StreamFails(c) => qconn[c].streams > 0
          /\ DriverFails(c) => qconn[c].driver
          /\ \A m \in WireMsg : StreamRead(c, m) => qconn[c].streams > 0
          /\ \A m \in WireMsg : WriteSucceeds(c, m) \/ WriteFails(c, m) => qconn[c].writes[m] > 0
      BY Zenon DEF AttemptCancelled, AttemptFails, AttemptSucceeds, ResultPolled, IncomingStream,
                   ReaderFails, StreamFails, DriverFails, StreamRead, WriteSucceeds, WriteFails
    <3> QED BY Zenon, <1>3, <3>1, TaskPeer
  <2>2. CASE \E q : Sever(p, q)
    BY Zenon, <1>1, <2>1, <2>2, SeverBooks
  <2>3. CASE \E q : Ignore(q)
    BY Zenon, <2>3, IgnoreBooks
  <2>4. CASE AttemptSucceeds(c)
    BY Zenon, <2>1, <2>4, ExitBooks, IgnoreBooks, EstablishBooks DEF AttemptSucceeds
  <2>5. ASSUME NEW m \in WireMsg, StreamRead(c, m) PROVE LedgerInv'
    <3>1. CASE \E q : HandleNodeHandshake(p, q)
      BY Zenon, <1>1, <2>1, <3>1, ConnectToBooks, IgnoreBooks DEF HandleNodeHandshake
    <3>2. CASE \E q : HandleClientHandshake(p, q)
      BY Zenon, <2>1, <3>2, ClientHandshakeBooks
    <3>3. CASE \E q : HandleData(p, m, q)
      BY Zenon, <2>1, <3>3, HandleDataBooks
    <3> QED BY Zenon, <2>5, <3>1, <3>2, <3>3 DEF StreamRead
  <2> QED BY Zenon, <1>3, <2>2, <2>3, <2>4, <2>5
          DEF AttemptCancelled, AttemptFails, IncomingStream, ReaderFails, StreamFails,
              DriverFails, WriteSucceeds, WriteFails
<1>4. CASE BootstrapConnect
  <2>1. Head(boot.todo) \in Peer
    <3>1. boot.todo # <<>>
      BY Zenon, <1>4 DEF BootstrapConnect
    <3> QED BY <1>1, <3>1
  <2> QED BY Zenon, <1>1, <1>4, <2>1, ConnectToBooks DEF BootstrapConnect
<1>5. CASE BootstrapStart \/ BootstrapEnd \/ UNCHANGED vars
  BY Zenon, <1>5, LedgerSame DEF BootstrapStart, BootstrapEnd, vars, ledger
<1>6. CASE DropHandle
  BY Zenon, <1>6, ExitBooks DEF DropHandle
<1> QED BY Zenon, <1>2, <1>3, <1>4, <1>5, <1>6 DEF Next

\* Initially there is no message.
LEMMA LedgerInit ==
  ASSUME Init
  PROVE  LedgerInv
<1>1. unsent \in [Peer -> Int] /\ unread \in [Peer -> Int]
  BY DEF Init
<1>2. \A p \in Peer : connections[p] = NoEntry /\ unsent[p] = 0 /\ unread[p] = 0
  BY Zenon DEF Init
<1> QED BY Zenon, <1>1, <1>2, NothingBooked DEF LedgerInv
=============================================================================
