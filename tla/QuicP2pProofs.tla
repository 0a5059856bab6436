--------------------------- MODULE QuicP2pProofs ----------------------------
(***************************************************************************)
(* The safety properties of QuicP2p hold for every value of its constants. *)
(*                                                                         *)
(* They are proved from the inductive invariant IndInv: every step of a    *)
(* task (QuicP2pTasks), call or timer keeps it. What the invariant alone   *)
(* does not give, the refinement of PeerEvents first of all, is proved     *)
(* from the kinds of steps there are (StepKinds).                          *)
(***************************************************************************)
EXTENDS QuicP2pTasks, BootstrapPeersProofs

\* try_write_to_peer writes, buffers or connects.
LEMMA TryWriteToPeerKeeps ==
  ASSUME IndInv, NEW p \in Peer, NEW m \in WireMsg, NEW byUser \in BOOLEAN,
         TryWriteToPeer(p, m, byUser), boot' = boot, cache' = cache,
         query' \in {"never", "waiting", "answered", "panicked"}
  PROVE  IndInv'
<1> DEFINE e == connections[p]
<1>1. TypeOK /\ Halves(p) /\ e \in Connection
  BY Zenon DEF IndInv, TypeOK
<1>2. CASE e.to \in {"Absent", "NoConnection"}
  <2>1. PICK how \in ConnectOutcome :
          /\ ConnectTo(p, Plus(NoMsgs, m), NoGroup, byUser, how, qconn)
          /\ SpawnKiller(p, TRUE)
    BY Zenon, <1>2 DEF TryWriteToPeer
  <2>2. Plus(NoMsgs, m) \in Msgs /\ NoGroup \in {NoGroup, boot.maker}
    BY DEF Plus, NoMsgs, Msgs
  <2>3. /\ killers' \in [Peer -> Nat]
        /\ \A r \in Peer \ {p} : killers'[r] = killers[r]
        /\ killers[p] > 0 => killers'[p] > 0
        /\ connections[p].to = "Absent" => killers'[p] > 0
    BY Zenon, <2>1, SpawnKillerFacts
  <2>4. RestKept(p)
    BY Zenon, <1>1, <2>3 DEF RestKept, TypeOK
  <2> QED BY ZenonT(30), <2>1, <2>2, <2>3, <2>4, NoTasks, ConnectToKeeps
<1>3. CASE e.to \notin {"Absent", "NoConnection"}
  <2> DEFINE e1 == IF e.to = "Initiated" THEN [e EXCEPT !.sends = Plus(@, m)] ELSE e
             d == Contacted(e1, byUser)
  <2>1. /\ connections' = [connections EXCEPT ![p] = d]
        /\ qconn' = IF e.to = "Established" THEN Write(qconn, e.toConn, m) ELSE qconn
        /\ asked' = [asked EXCEPT ![p] = @ \/ byUser]
        /\ group' = group /\ seen' = seen /\ loop' = loop /\ killers' = killers
    BY Zenon, <1>3 DEF TryWriteToPeer
  <2>2. e1 \in Connection /\ SameHalves(e1, e)
    <3>1. Plus(e.sends, m) \in Msgs
      BY <1>1 DEF Plus, Msgs, Connection
    <3>2. LET f == [e EXCEPT !.sends = Plus(e.sends, m)] IN f \in Connection /\ SameHalves(f, e)
      BY Zenon, <1>1, <1>3, <3>1 DEF SameHalves, Connection
    <3> QED BY Zenon, <1>1, <3>2 DEF SameHalves
  <2> HIDE DEF e1
  <2>3. d \in Connection /\ SameHalves(d, e)
    <3>1. \A b \in BOOLEAN : LET f == [e1 EXCEPT !.contacted = b]
                             IN  f \in Connection /\ SameHalves(f, e)
      BY Zenon, <1>3, <2>2 DEF SameHalves, Connection
    <3>2. (e1.contacted \/ (byUser /\ e1.to # "Absent")) \in BOOLEAN
      BY Zenon, <2>2 DEF Connection
    <3> QED BY Zenon, <3>1, <3>2 DEF Contacted
  <2> HIDE DEF d
  <2>4. /\ connections' \in [Peer -> Connection] /\ connections'[p] = d
        /\ \A r \in Peer \ {p} : connections'[r] = connections[r]
    BY Zenon, <1>1, <2>1, <2>3 DEF TypeOK
  <2>5. qconn' \in [Conn -> QConn] /\ TasksOnly(qconn')
    <3>1. e.to = "Established" => e.toConn \in Conn /\ qconn[e.toConn].peer \in Peer
      BY Zenon, <1>1 DEF Halves
    <3> QED BY Zenon, <2>1, <3>1, NoTasks, WriteTask
  <2>6. RestKept(p)
    BY Zenon, <1>1, <2>1 DEF RestKept, TypeOK
  <2>7. TypeOK'
    BY Zenon, <1>1, <2>1, <2>4, <2>5, <2>6 DEF TypeOK, RestKept
  <2>8. \A c \in Conn : LinkSame(c, p) /\ TaskShape(qconn[c])'
    BY Zenon, <2>5 DEF LinkSame, TasksOnly, TaskShape
  <2>9. KilledByTimer(e) => killers'[p] > 0
    BY Zenon, <2>1, LocalForm DEF PeerOK
  <2> QED BY ZenonT(30), <2>1, <2>3, <2>4, <2>6, <2>7, <2>8, <2>9, DetailsKeep
<1> QED BY ZenonT(30), <1>2, <1>3

\* A send to a peer said to be a client.
LEMMA UserSendToClientKeeps ==
  ASSUME IndInv, NEW p \in Peer, UserSendToClient(p)
  PROVE  IndInv'
<1> DEFINE e == connections[p]
           c == WriteConn(e)
           d == Contacted(e, TRUE)
<1>1. TypeOK /\ Halves(p) /\ e \in Connection
  BY Zenon DEF IndInv, TypeOK
<1>2. /\ e.to # "Absent"
      /\ connections' = [connections EXCEPT ![p] = d]
      /\ qconn' = IF c = NoConn THEN qconn ELSE Write(qconn, c, "UserMsg")
      /\ asked' = [asked EXCEPT ![p] = TRUE]
      /\ UNCHANGED <<group, seen, loop, boot, killers, cache, query>>
  BY Zenon DEF UserSendToClient
<1>3. d \in Connection /\ SameHalves(d, e)
  <2>1. \A b \in BOOLEAN : LET f == [e EXCEPT !.contacted = b]
                           IN  f \in Connection /\ SameHalves(f, e)
    BY ZenonT(30), <1>1, <1>2 DEF SameHalves, Connection
  <2>2. (e.contacted \/ (TRUE /\ e.to # "Absent")) \in BOOLEAN
    BY Zenon
  <2> QED BY Zenon, <2>1, <2>2 DEF Contacted
<1>4. qconn' \in [Conn -> QConn] /\ TasksOnly(qconn')
  <2>1. c # NoConn => c \in Conn /\ qconn[c].peer \in Peer
    BY Zenon, <1>1 DEF Halves, WriteConn
  <2>2. "UserMsg" \in WireMsg
    BY Zenon DEF WireMsg
  <2> QED BY ZenonT(30), <1>2, <2>1, <2>2, NoTasks, WriteTask
<1> HIDE DEF c, d
<1>5. /\ connections' \in [Peer -> Connection] /\ connections'[p] = d
      /\ \A r \in Peer \ {p} : connections'[r] = connections[r]
  BY Zenon, <1>1, <1>2, <1>3 DEF TypeOK
<1>6. RestKept(p)
  BY ZenonT(30), <1>1, <1>2 DEF RestKept, TypeOK
<1>7. TypeOK'
  BY ZenonT(30), <1>1, <1>2, <1>4, <1>5, <1>6 DEF TypeOK, RestKept
<1>8. \A b \in Conn : LinkSame(b, p) /\ TaskShape(qconn[b])'
  BY Zenon, <1>4 DEF LinkSame, TasksOnly, TaskShape
<1>9. KilledByTimer(e) => killers'[p] > 0
  BY Zenon, <1>2, LocalForm DEF PeerOK
<1> QED BY ZenonT(30), <1>2, <1>3, <1>5, <1>6, <1>7, <1>8, <1>9, DetailsKeep

\* A timer of any entry of p fires.
LEMMA KillerFiresKeeps ==
  ASSUME IndInv, NEW p \in Peer, KillerFires(p)
  PROVE  IndInv'
<1>1. /\ TypeOK /\ killers[p] \in Nat /\ killers[p] > 0
      /\ killers' = [killers EXCEPT ![p] = @ - 1]
      /\ UNCHANGED <<boot, cache, query>>
  BY Zenon DEF IndInv, TypeOK, KillerFires
<1>2. RestKept(p)
  BY <1>1 DEF TypeOK, RestKept
<1>3. CASE KilledByTimer(connections[p])
  BY Zenon, <1>2, <1>3, NoTasks, TasksOnlyEnded, SeverKeeps DEF KillerFires
<1>4. CASE ~KilledByTimer(connections[p])
  <2>1. qconn' = qconn /\ UNCHANGED <<connections, group, seen, asked, loop>>
    BY Zenon, <1>4 DEF KillerFires, Ignore
  <2>2. TypeOK'
    BY Zenon, <1>1, <1>2, <2>1 DEF TypeOK, RestKept
  <2>3. SameHalves(connections'[p], connections[p])
    BY Zenon, <2>1 DEF SameHalves
  <2>4. \A c \in Conn : LinkSame(c, p) /\ TaskShape(qconn[c])'
    BY Zenon, <2>1, NoTasks DEF LinkSame, TasksOnly, TaskShape
  <2> QED BY Zenon, <1>2, <1>4, <2>1, <2>2, <2>3, <2>4, DetailsKeep
<1> QED BY Zenon, <1>3, <1>4

\* The peers bootstrap::start goes through are peers.
LEMMA ContactsType ==
  ASSUME NEW s \in Seq(Peer), NEW contacts \in Iterations(HardCoded)
  PROVE  NewestFirst(s) \o contacts \in Seq(Peer)
<1>1. Cardinality(HardCoded) \in Nat
  BY Zenon, ContactsAssumption
<1>2. contacts \in [1..Cardinality(HardCoded) -> HardCoded]
  BY Zenon DEF Iterations, Injection
<1>3. contacts \in [1..Cardinality(HardCoded) -> Peer]
  BY Zenon, <1>2, ContactsAssumption
<1>4. contacts \in Seq(Peer)
  <2> DEFINE n == Cardinality(HardCoded)
  <2>1. n \in Nat /\ contacts \in [1..n -> Peer]
    BY Zenon, <1>1, <1>3
  <2> HIDE DEF n
  <2> QED BY <2>1
<1>5. NewestFirst(s) \in Seq(Peer)
  <2>1. \A i \in 1..Len(s) : s[(Len(s) - i) + 1] \in Peer
    OBVIOUS
  <2> QED BY <2>1 DEF NewestFirst
<1> QED BY <1>4, <1>5

\* A group and its maker are created.
LEMMA BootstrapStartKeeps ==
  ASSUME IndInv, BootstrapStart
  PROVE  IndInv'
<1>1. PICK g \in Group, contacts \in Iterations(HardCoded) :
        /\ ~group[g].used
        /\ group' = [group EXCEPT ![g].used = TRUE]
        /\ boot' = [maker |-> g, todo |-> NewestFirst(cache) \o contacts]
  BY Zenon DEF BootstrapStart
<1>2. /\ UNCHANGED <<connections, qconn, killers, cache, query, seen, asked, loop>>
      /\ boot.maker = NoGroup
  BY Zenon DEF BootstrapStart, UserFree, Running
<1>3. TypeOK /\ group \in [Group -> GroupState]
  BY Zenon DEF IndInv, TypeOK
<1>4. boot' \in [maker : Group \union {NoGroup}, todo : Seq(Peer)] /\ boot'.maker = g
  BY Zenon, <1>1, <1>3, ContactsType DEF TypeOK
<1> DEFINE s == [group[g] EXCEPT !.used = TRUE]
<1>5. /\ s \in GroupState /\ s.used /\ s.success = group[g].success
      /\ s.bootstrapped = group[g].bootstrapped /\ s.failed = group[g].failed
  <2>1. \A b \in BOOLEAN : LET r == [group[g] EXCEPT !.used = b]
                           IN  /\ r \in GroupState /\ r.used = b
                               /\ r.success = group[g].success /\ r.failed = group[g].failed
                               /\ r.bootstrapped = group[g].bootstrapped
    BY Zenon, <1>3 DEF GroupState
  <2> QED BY Zenon, <2>1
<1>6. group' = [group EXCEPT ![g] = s]
  BY Zenon, <1>1
<1> HIDE DEF s
<1>7. /\ group' \in [Group -> GroupState] /\ group'[g] = s
      /\ \A h \in Group : h # g => group'[h] = group[h]
  BY Zenon, <1>3, <1>5, <1>6
<1>8. \A h \in Group : GroupShape(h)'
  <2> SUFFICES ASSUME NEW h \in Group PROVE GroupShape(h)'
    BY Zenon
  <2>1. GroupShape(h) /\ h # NoGroup
    BY Zenon, NullAssumption DEF IndInv
  <2>2. \A r \in Peer : HoldsRef(h, r)' <=> HoldsRef(h, r)
    BY Zenon, <1>2 DEF HoldsRef
  <2>3. CASE h = g
    BY Zenon, <1>1, <1>4, <1>5, <1>7, <2>1, <2>3 DEF GroupShape
  <2>4. CASE h # g
    BY ZenonT(30), <1>2, <1>4, <1>7, <2>1, <2>2, <2>4 DEF GroupShape
  <2> QED BY Zenon, <2>3, <2>4
<1>9. TypeOK'
  BY Zenon, <1>2, <1>3, <1>4, <1>7 DEF TypeOK
<1>10. /\ \A p \in Peer : EntryShape(connections[p])' /\ Halves(p)'
       /\ \A c \in Conn : TaskShape(qconn[c])'
       /\ LiveAttemptIsCurrent' /\ ConnectNeverPanics' /\ EventsMatchMap'
       /\ OpenIffOwned' /\ IncompleteHasTimer'
  BY Zenon, <1>2 DEF IndInv, Halves, LiveAttemptIsCurrent, ConnectNeverPanics, EventsMatchMap,
              OpenIffOwned, IncompleteHasTimer
<1> QED BY ZenonT(30), <1>8, <1>9, <1>10 DEF IndInv

\* The maker goes away; without members the group fails at once.
LEMMA BootstrapEndKeeps ==
  ASSUME IndInv, BootstrapEnd
  PROVE  IndInv'
<1> DEFINE g == boot.maker
           isReferred == \E p \in Peer : HoldsRef(g, p)
           s == IF isReferred THEN group[g] ELSE DropGroup(group[g])
<1>1. /\ boot.maker # NoGroup /\ boot' = Idle
      /\ group' = [group EXCEPT ![g] = s]
      /\ UNCHANGED <<connections, qconn, killers, cache, query, seen, asked, loop>>
  BY Zenon DEF BootstrapEnd
<1>2. TypeOK /\ group \in [Group -> GroupState] /\ g \in Group
  BY Zenon, <1>1 DEF IndInv, TypeOK
<1>3. boot' \in [maker : Group \union {NoGroup}, todo : Seq(Peer)] /\ boot'.maker = NoGroup
  BY <1>1 DEF Idle
<1>4. /\ s \in GroupState /\ s.used = group[g].used /\ s.success = group[g].success
      /\ s.bootstrapped = group[g].bootstrapped
      /\ s.failed <=> group[g].failed \/ (~isReferred /\ ~group[g].success)
  <2>1. \A b \in BOOLEAN : LET r == [group[g] EXCEPT !.failed = b]
                           IN  /\ r \in GroupState /\ r.failed = b
                               /\ r.used = group[g].used /\ r.success = group[g].success
                               /\ r.bootstrapped = group[g].bootstrapped
    BY ZenonT(30), <1>2 DEF GroupState
  <2>2. (group[g].failed \/ ~group[g].success) \in BOOLEAN
    BY Zenon
  <2>3. LET r == DropGroup(group[g])
        IN  /\ r \in GroupState /\ (r.failed <=> group[g].failed \/ ~group[g].success)
            /\ r.used = group[g].used /\ r.success = group[g].success
            /\ r.bootstrapped = group[g].bootstrapped
    BY Zenon, <2>1, <2>2 DEF DropGroup
  <2> QED BY Zenon, <1>2, <2>3
<1>5. PICK k \in Group : k = boot.maker
  BY Zenon, <1>2
<1> HIDE DEF s
<1>6. /\ group' \in [Group -> GroupState] /\ group'[k] = s
      /\ \A h \in Group : h # k => group'[h] = group[h]
  BY Zenon, <1>1, <1>2, <1>4, <1>5
<1>7. \A h \in Group : GroupShape(h)'
  <2> SUFFICES ASSUME NEW h \in Group PROVE GroupShape(h)'
    BY Zenon
  <2>1. GroupShape(h) /\ h # NoGroup
    BY Zenon, NullAssumption DEF IndInv
  <2>2. \A r \in Peer : HoldsRef(h, r)' <=> HoldsRef(h, r)
    BY Zenon, <1>1 DEF HoldsRef
  <2>3. CASE h = k
    BY Zenon, <1>3, <1>4, <1>5, <1>6, <2>1, <2>2, <2>3 DEF GroupShape
  <2>4. CASE h # k
    BY ZenonT(30), <1>3, <1>5, <1>6, <2>1, <2>2, <2>4 DEF GroupShape
  <2> QED BY Zenon, <2>3, <2>4
<1>8. TypeOK'
  BY Zenon, <1>1, <1>2, <1>3, <1>6 DEF TypeOK
<1>9. /\ \A p \in Peer : EntryShape(connections[p])' /\ Halves(p)'
      /\ \A c \in Conn : TaskShape(qconn[c])'
      /\ LiveAttemptIsCurrent' /\ ConnectNeverPanics' /\ EventsMatchMap'
      /\ OpenIffOwned' /\ IncompleteHasTimer'
  BY Zenon, <1>1 DEF IndInv, Halves, LiveAttemptIsCurrent, ConnectNeverPanics, EventsMatchMap,
              OpenIffOwned, IncompleteHasTimer
<1> QED BY Zenon, <1>7, <1>8, <1>9 DEF IndInv

\* bootstrap::start tries the next peer.
LEMMA BootstrapConnectKeeps ==
  ASSUME IndInv, BootstrapConnect
  PROVE  IndInv'
<1>1. TypeOK /\ boot.todo \in Seq(Peer) /\ boot.todo # <<>> /\ NoMsgs \in Msgs
  BY Zenon DEF IndInv, TypeOK, BootstrapConnect, NoMsgs, Msgs
<1>2. PICK p \in Peer : p = Head(boot.todo)
  BY <1>1
<1>3. PICK how \in ConnectOutcome :
        /\ ConnectTo(p, NoMsgs, boot.maker, FALSE, how, qconn)
        /\ SpawnKiller(p, how # "bad certificate")
  BY Zenon, <1>2 DEF BootstrapConnect
<1>4. /\ boot' = [boot EXCEPT !.todo = Tail(@)] /\ cache' = cache /\ query' = query
  BY Zenon DEF BootstrapConnect
<1>5. boot' \in [maker : Group \union {NoGroup}, todo : Seq(Peer)] /\ boot'.maker = boot.maker
  <2>1. Tail(boot.todo) \in Seq(Peer)
    BY <1>1
  <2> QED BY Zenon, <1>1, <1>4, <2>1 DEF TypeOK
<1>6. /\ killers' \in [Peer -> Nat]
      /\ \A r \in Peer \ {p} : killers'[r] = killers[r]
      /\ killers[p] > 0 => killers'[p] > 0
      /\ how # "bad certificate" /\ connections[p].to = "Absent" => killers'[p] > 0
  BY Zenon, <1>3, SpawnKillerFacts
<1>7. RestKept(p)
  BY ZenonT(30), <1>1, <1>4, <1>5, <1>6 DEF RestKept, TypeOK
<1>8. FALSE \in BOOLEAN /\ boot.maker \in {NoGroup, boot.maker}
  BY Zenon
<1> QED BY ZenonT(30), <1>1, <1>3, <1>6, <1>7, <1>8, NoTasks, ConnectToKeeps

\* The upper layer connects to a peer.
LEMMA UserConnectToKeeps ==
  ASSUME IndInv, NEW p \in Peer, UserConnectTo(p)
  PROVE  IndInv'
<1>1. TypeOK /\ NoMsgs \in Msgs
  BY Zenon DEF IndInv, NoMsgs, Msgs
<1>2. PICK how \in ConnectOutcome :
        /\ ConnectTo(p, NoMsgs, NoGroup, TRUE, how, qconn)
        /\ SpawnKiller(p, how # "bad certificate")
  BY Zenon DEF UserConnectTo
<1>3. boot' = boot /\ cache' = cache /\ query' = query
  BY Zenon DEF UserConnectTo
<1>4. /\ killers' \in [Peer -> Nat]
      /\ \A r \in Peer \ {p} : killers'[r] = killers[r]
      /\ killers[p] > 0 => killers'[p] > 0
      /\ how # "bad certificate" /\ connections[p].to = "Absent" => killers'[p] > 0
  BY Zenon, <1>2, SpawnKillerFacts
<1>5. RestKept(p)
  BY Zenon, <1>1, <1>3, <1>4 DEF RestKept, TypeOK
<1>6. TRUE \in BOOLEAN /\ NoGroup \in {NoGroup, boot.maker}
  BY Zenon
<1> QED BY ZenonT(30), <1>1, <1>2, <1>4, <1>5, <1>6, NoTasks, ConnectToKeeps

\* Every call of the upper layer, incoming connection and timer.
LEMMA PeerStepKeeps ==
  ASSUME IndInv, NEW p \in Peer,
         \/ UserConnectTo(p) \/ UserDisconnectFrom(p)
         \/ UserSendToNode(p) \/ UserSendToClient(p)
         \/ QueryIpEchoService(p)
         \/ IncomingConnection(p)
         \/ KillerFires(p)
  PROVE  IndInv'
<1>1. CASE UserConnectTo(p)
  BY ZenonT(30), <1>1, UserConnectToKeeps
<1>2. CASE UserDisconnectFrom(p)
  BY Zenon, <1>2, NoTasks, TasksOnlyEnded, RestSame, SeverKeeps DEF UserDisconnectFrom
<1>3. CASE UserSendToNode(p)
  <2>1. "UserMsg" \in WireMsg /\ TRUE \in BOOLEAN
    BY Zenon DEF WireMsg
  <2>2. query' \in {"never", "waiting", "answered", "panicked"}
    BY Zenon, <1>3 DEF UserSendToNode, IndInv, TypeOK
  <2> QED BY Zenon, <1>3, <2>1, <2>2, TryWriteToPeerKeeps DEF UserSendToNode
<1>4. CASE UserSendToClient(p)
  BY Zenon, <1>4, UserSendToClientKeeps
<1>5. CASE QueryIpEchoService(p)
  <2>1. "EchoReq" \in WireMsg /\ FALSE \in BOOLEAN
    BY Zenon DEF WireMsg
  <2>2. query' \in {"never", "waiting", "answered", "panicked"}
    BY Zenon, <1>5 DEF QueryIpEchoService, Awaiting
  <2> QED BY Zenon, <1>5, <2>1, <2>2, TryWriteToPeerKeeps DEF QueryIpEchoService
<1>6. CASE IncomingConnection(p)
  BY Zenon, <1>6, IncomingKeeps
<1>7. CASE KillerFires(p)
  BY Zenon, <1>7, KillerFiresKeeps
<1> QED BY ZenonT(30), <1>1, <1>2, <1>3, <1>4, <1>5, <1>6, <1>7

\* The initial state satisfies the invariant.
LEMMA InitInv == Init => IndInv
<1> SUFFICES ASSUME Init PROVE IndInv
  BY Zenon
<1>1. TypeOK
  BY Zenon, InitType
<1>2. /\ connections = [p \in Peer |-> NoEntry] /\ qconn = [c \in Conn |-> Unused]
      /\ group = [g \in Group |-> UnusedGroup] /\ boot.maker = NoGroup
      /\ seen = [p \in Peer |-> "disconnected"] /\ loop = "running"
  BY Zenon DEF Init, Idle
<1>3. /\ NoEntry.to = "Absent" /\ NoEntry.from = "NoConnection" /\ NoEntry.group = NoGroup
      /\ ~Unused.leaf /\ ~Unused.open /\ TaskShape(Unused)
  BY Zenon DEF NoEntry, Unused, TaskShape
<1>4. ~Complete(NoEntry) /\ ~KilledByTimer(NoEntry) /\ EntryShape(NoEntry)
  BY Zenon, <1>3 DEF Complete, Settled, KilledByTimer, EntryShape
<1>5. /\ \A p \in Peer : EntryShape(connections[p]) /\ Halves(p)
      /\ \A c \in Conn : TaskShape(qconn[c])
  BY Zenon, <1>2, <1>3, <1>4 DEF Halves
<1>6. \A g \in Group : GroupShape(g)
  <2>1. /\ ~UnusedGroup.used /\ ~UnusedGroup.failed /\ ~UnusedGroup.success
        /\ UnusedGroup.bootstrapped = 0
    BY Zenon DEF UnusedGroup
  <2>2. \A g \in Group : boot.maker # g /\ \A p \in Peer : ~HoldsRef(g, p)
    BY ZenonT(30), <1>2, <1>3, NullAssumption DEF HoldsRef
  <2> QED BY <1>2, <2>1, <2>2 DEF GroupShape
<1>7. /\ LiveAttemptIsCurrent /\ ConnectNeverPanics /\ EventsMatchMap /\ OpenIffOwned
      /\ IncompleteHasTimer
  BY Zenon, <1>2, <1>3, <1>4 DEF LiveAttemptIsCurrent, ConnectNeverPanics, EventsMatchMap,
                          OpenIffOwned, Owns, IncompleteHasTimer, Incomplete
<1> QED BY Zenon, <1>1, <1>5, <1>6, <1>7 DEF IndInv

\* Every step keeps the invariant.
LEMMA NextKeeps ==
  ASSUME AddPeerTyped, IndInv, [Next]_vars
  PROVE  IndInv'
<1>1. ASSUME NEW p \in Peer,
             \/ UserConnectTo(p) \/ UserDisconnectFrom(p)
             \/ UserSendToNode(p) \/ UserSendToClient(p)
             \/ QueryIpEchoService(p)
             \/ IncomingConnection(p)
             \/ KillerFires(p)
      PROVE  IndInv'
  BY Zenon, <1>1, PeerStepKeeps
<1>2. ASSUME NEW c \in Conn,
             \/ AttemptCancelled(c) \/ AttemptFails(c) \/ AttemptSucceeds(c)
             \/ IncomingStream(c) \/ ReaderFails(c) \/ StreamFails(c) \/ DriverFails(c)
             \/ \E m \in WireMsg : StreamRead(c, m) \/ WriteSucceeds(c, m) \/ WriteFails(c, m)
      PROVE  IndInv'
  BY Zenon, <1>2, ConnectionStepKeeps
<1>3. CASE BootstrapStart
  BY Zenon, <1>3, BootstrapStartKeeps
<1>4. CASE BootstrapConnect
  BY ZenonT(30), <1>4, BootstrapConnectKeeps
<1>5. CASE BootstrapEnd
  BY <1>5, BootstrapEndKeeps
<1>6. CASE DropHandle
  BY ZenonT(30), <1>6, ExitKeeps DEF DropHandle, Running, IndInv, TypeOK
<1>7. CASE UNCHANGED vars
  BY ZenonT(30), <1>7 DEF vars, IndInv, TypeOK, Halves, GroupShape, HoldsRef,
              LiveAttemptIsCurrent, ConnectNeverPanics, EventsMatchMap, OpenIffOwned, IncompleteHasTimer
<1> QED BY ZenonT(30), <1>1, <1>2, <1>3, <1>4, <1>5, <1>6, <1>7 DEF Next

-----------------------------------------------------------------------------
(* Every step is of one of the kinds.                                       *)

\* The calls of the upper layer, incoming connections and timers.
LEMMA PeerStepKind ==
  ASSUME IndInv, NEW p \in Peer,
         \/ UserConnectTo(p) \/ UserDisconnectFrom(p)
         \/ UserSendToNode(p) \/ UserSendToClient(p)
         \/ QueryIpEchoService(p)
         \/ IncomingConnection(p)
         \/ KillerFires(p)
  PROVE  PeerStep(p)
<1> DEFINE e == connections[p]
<1>1. /\ e \in Connection /\ connections \in [Peer -> Connection] /\ asked \in [Peer -> BOOLEAN]
      /\ EntryShape(e) /\ Halves(p) /\ qconn \in [Conn -> QConn]
  BY Zenon DEF IndInv, TypeOK
<1>2. CASE UserConnectTo(p)
  <2>1. NoMsgs \in Msgs /\ boot' = boot /\ cache' = cache
    BY Zenon, <1>2 DEF UserConnectTo, NoMsgs, Msgs
  <2>2. PICK how \in ConnectOutcome : ConnectTo(p, NoMsgs, NoGroup, TRUE, how, qconn)
    BY Zenon, <1>2 DEF UserConnectTo
  <2> QED BY Zenon, <2>1, <2>2, NoTasks, ConnectToKind DEF PeerStep
<1>3. CASE UserDisconnectFrom(p)
  BY Zenon, <1>3, NoTasks, TasksOnlyEnded DEF UserDisconnectFrom, Severs, PeerStep
<1>4. CASE UserSendToNode(p)
  <2>1. "UserMsg" \in WireMsg /\ boot' = boot /\ cache' = cache
    BY Zenon, <1>4 DEF UserSendToNode, WireMsg
  <2> QED BY Zenon, <1>4, <2>1, TryWriteToPeerKind DEF UserSendToNode, PeerStep
<1>5. CASE UserSendToClient(p)
  <2> DEFINE c == WriteConn(e)
             d == Contacted(e, TRUE)
  <2>1. /\ connections' = [connections EXCEPT ![p] = d]
        /\ qconn' = IF c = NoConn THEN qconn ELSE Write(qconn, c, "UserMsg")
        /\ asked' = [asked EXCEPT ![p] = TRUE] /\ e.to # "Absent"
        /\ group' = group /\ seen' = seen /\ loop' = loop /\ boot' = boot /\ cache' = cache
    BY Zenon, <1>5 DEF UserSendToClient
  <2>2. SameHalves(d, e) /\ d.sends = e.sends /\ d.reads = e.reads
    <3>1. \A b \in BOOLEAN : LET f == [e EXCEPT !.contacted = b]
                             IN  SameHalves(f, e) /\ f.sends = e.sends /\ f.reads = e.reads
      BY Zenon, <1>1, <2>1 DEF SameHalves, Connection
    <3>2. (e.contacted \/ (TRUE /\ e.to # "Absent")) \in BOOLEAN
      BY Zenon
    <3> QED BY Zenon, <3>1, <3>2 DEF Contacted
  <2>3. TasksOnly(qconn')
    <3>1. c # NoConn => c \in Conn /\ qconn[c].peer \in Peer
      BY Zenon, <1>1 DEF Halves, WriteConn
    <3>2. "UserMsg" \in WireMsg
      BY Zenon DEF WireMsg
    <3> QED BY Zenon, <2>1, <3>1, <3>2, NoTasks, WriteTask
  <2> HIDE DEF c, d
  <2>4. connections'[p] = d /\ \A r \in Peer \ {p} : connections'[r] = connections[r]
    BY Zenon, <1>1, <2>1
  <2>5. asked'[p] /\ \A r \in Peer \ {p} : asked'[r] = asked[r]
    BY Zenon, <1>1, <2>1
  <2>6. \A b \in Conn : qconn'[b].signal = qconn[b].signal
    BY Zenon, <2>3 DEF TasksOnly
  <2>7. Quiet(p)
    BY Zenon, <2>1, <2>2, <2>4, <2>5, <2>6 DEF Quiet
  <2> QED BY Zenon, <2>1, <2>7 DEF PeerStep
<1>6. CASE QueryIpEchoService(p)
  <2>1. "EchoReq" \in WireMsg /\ boot' = boot /\ cache' = cache
    BY Zenon, <1>6 DEF QueryIpEchoService, WireMsg
  <2> QED BY Zenon, <1>6, <2>1, TryWriteToPeerKind DEF QueryIpEchoService, PeerStep
<1>7. CASE IncomingConnection(p)
  <2>1. boot' = boot /\ cache' = cache
    BY Zenon, <1>7 DEF IncomingConnection
  <2>2. CASE e.from = "NoConnection"
    BY Zenon, <1>7, <2>1, <2>2 DEF Accepts, PeerStep
  <2>3. CASE e.from # "NoConnection"
    <3>1. OrInsert(e) = e
      <4>1. NoEntry.from = "NoConnection"
        BY DEF NoEntry
      <4> QED BY Zenon, <1>1, <2>3, <4>1 DEF EntryShape, OrInsert
    <3>2. PICK c \in Conn : Fresh(c) /\ Ignore([qconn EXCEPT ![c] = Accepted(p, TRUE)])
      BY Zenon, <1>7, <2>3, <3>1 DEF IncomingConnection
    <3>3. /\ connections' = connections /\ group' = group /\ seen' = seen /\ asked' = asked
          /\ loop' = loop /\ qconn' = [qconn EXCEPT ![c] = Accepted(p, TRUE)]
          /\ qconn[c].peer = NoPeer
      BY Zenon, <3>2 DEF Ignore, Fresh
    <3>4. \A b \in Conn : qconn[b].peer # NoPeer => qconn'[b] = qconn[b]
      BY Zenon, <1>1, <3>3
    <3>5. SameHalves(connections'[p], e)
      BY Zenon, <3>3 DEF SameHalves
    <3>6. Quiet(p)
      BY Zenon, <2>1, <3>3, <3>4, <3>5 DEF Quiet
    <3> QED BY Zenon, <2>1, <3>6 DEF PeerStep
  <2> QED BY Zenon, <2>2, <2>3
<1>8. CASE KillerFires(p)
  <2>1. boot' = boot /\ cache' = cache
    BY Zenon, <1>8 DEF KillerFires
  <2>2. CASE KilledByTimer(e)
    BY Zenon, <1>8, <2>1, <2>2, NoTasks, TasksOnlyEnded DEF KillerFires, Severs, PeerStep
  <2>3. CASE ~KilledByTimer(e)
    BY Zenon, <1>8, <2>1, <2>3, NoTasks, IgnoreIsQuiet DEF KillerFires, PeerStep
  <2> QED BY Zenon, <2>2, <2>3
<1> QED BY ZenonT(30), <1>2, <1>3, <1>4, <1>5, <1>6, <1>7, <1>8

\* The kinds of steps of a running loop.
LEMMA StepKinds ==
  ASSUME IndInv, Next
  PROVE  /\ loop = "running"
         /\ (\E p \in Peer : PeerStep(p)) \/ Ends \/ BootstrapStart \/ BootstrapEnd
<1>1. ASSUME NEW p \in Peer,
             \/ UserConnectTo(p) \/ UserDisconnectFrom(p)
             \/ UserSendToNode(p) \/ UserSendToClient(p)
             \/ QueryIpEchoService(p)
             \/ IncomingConnection(p)
             \/ KillerFires(p)
      PROVE  loop = "running" /\ PeerStep(p)
  <2>1. PeerStep(p)
    BY Zenon, <1>1, PeerStepKind
  <2>2. loop = "running"
    BY Zenon, <1>1 DEF UserConnectTo, UserDisconnectFrom, UserSendToNode, UserSendToClient,
          QueryIpEchoService, IncomingConnection, KillerFires, UserFree, Running
  <2> QED BY Zenon, <2>1, <2>2
<1>2. ASSUME NEW c \in Conn,
             \/ AttemptCancelled(c) \/ AttemptFails(c) \/ AttemptSucceeds(c)
             \/ IncomingStream(c) \/ ReaderFails(c) \/ StreamFails(c) \/ DriverFails(c)
             \/ \E m \in WireMsg : StreamRead(c, m) \/ WriteSucceeds(c, m) \/ WriteFails(c, m)
      PROVE  loop = "running" /\ ((\E p \in Peer : PeerStep(p)) \/ Ends)
  <2>1. (\E p \in Peer : PeerStep(p)) \/ Ends
    BY Zenon, <1>2, ConnectionStepKind
  <2>2. loop = "running"
    BY Zenon, <1>2 DEF AttemptCancelled, AttemptFails, AttemptSucceeds, IncomingStream,
          ReaderFails, StreamFails, DriverFails, StreamRead, WriteSucceeds, WriteFails, Running
  <2> QED BY Zenon, <2>1, <2>2
<1>3. CASE BootstrapConnect
  <2>1. boot.todo \in Seq(Peer) /\ boot.todo # <<>> /\ loop = "running" /\ cache' = cache
    BY Zenon, <1>3 DEF IndInv, TypeOK, BootstrapConnect
  <2>2. PICK p \in Peer : p = Head(boot.todo)
    BY <2>1
  <2>3. PICK how \in ConnectOutcome : ConnectTo(p, NoMsgs, boot.maker, FALSE, how, qconn)
    BY Zenon, <1>3, <2>2 DEF BootstrapConnect
  <2>4. boot'.maker = boot.maker /\ NoMsgs \in Msgs
    BY Zenon, <1>3 DEF BootstrapConnect, IndInv, TypeOK, NoMsgs, Msgs
  <2> QED BY Zenon, <2>1, <2>3, <2>4, NoTasks, ConnectToKind DEF PeerStep
<1>4. CASE DropHandle
  BY Zenon, <1>4 DEF DropHandle, Running, Ends
<1>5. CASE BootstrapStart \/ BootstrapEnd
  BY Zenon, <1>5 DEF BootstrapStart, BootstrapEnd, UserFree, Running
<1> QED BY ZenonT(30), <1>1, <1>2, <1>3, <1>4, <1>5 DEF Next

\* Every step keeps the buffers as they have to be.
LEMMA EntryInvKept ==
  ASSUME IndInv, [Next]_vars, \A p \in Peer : EntryInv(p)
  PROVE  \A p \in Peer : EntryInv(p)'
<1>1. CASE \E p \in Peer : PeerStep(p)
  BY Zenon, <1>1, PeerStepEntryInv
<1>2. CASE Ends
  <2>1. \A p \in Peer : connections'[p] = NoEntry
    BY Zenon, <1>2 DEF Ends, Exit
  <2> QED BY Zenon, <2>1, NoEntryInv
<1>3. CASE BootstrapStart \/ BootstrapEnd \/ UNCHANGED vars
  <2>1. connections' = connections /\ asked' = asked
    BY Zenon, <1>3 DEF BootstrapStart, BootstrapEnd, vars
  <2> QED BY Zenon, <2>1 DEF EntryInv
<1> QED BY Zenon, <1>1, <1>2, <1>3, StepKinds

\* Initially there is no entry.
LEMMA EntryInvInit ==
  ASSUME Init
  PROVE  \A p \in Peer : EntryInv(p)
<1>1. NoEntry.to # "Established" /\ NoEntry.contacted = FALSE
  BY DEF NoEntry
<1>2. \A p \in Peer : connections[p] = NoEntry
  BY Zenon DEF Init
<1> QED BY Zenon, <1>1, <1>2 DEF EntryInv

\* What a step adds to the bootstrap cache.
LEMMA CacheStep ==
  ASSUME IndInv, [Next]_vars, \A p \in Peer : EntryInv(p), NEW r \in Peer,
         r \in Range(cache'), r \notin Range(cache)
  PROVE  asked[r] /\ connections'[r].to = "Established"
<1>1. cache \in Seq(Peer) /\ connections \in [Peer -> Connection] /\ cache' # cache
  BY Zenon DEF IndInv, TypeOK
<1>2. PICK p \in Peer : PeerStep(p)
  <2>1. BootstrapStart \/ BootstrapEnd \/ Ends \/ UNCHANGED vars => cache' = cache
    BY Zenon DEF BootstrapStart, BootstrapEnd, Ends, vars
  <2> QED BY Zenon, <1>1, <2>1, StepKinds
<1>3. cache' = Remember(connections[p], p) /\ connections'[p].to = "Established"
  <2>1. Severs(p) \/ Connects(p) \/ Accepts(p) \/ Greets(p) => cache' = cache
    BY Zenon DEF Severs, Connects, Accepts, IncomingConnection, Greets, HandleClientHandshake
  <2>2. CASE Establishes(p)
    <3>1. PICK c \in Conn : p = qconn[c].peer /\ Establish(c, connections[p])
      BY Zenon, <2>2 DEF Establishes
    <3> DEFINE d == EstablishedEntry(connections[p], c)
    <3>2. /\ cache' = Remember(connections[p], p)
          /\ \/ connections' = [connections EXCEPT ![p] = d]
             \/ connections' = [connections EXCEPT ![p] = [d EXCEPT !.group = NoGroup]]
      BY Zenon, <3>1 DEF Establish, Announce
    <3>3. d \in Connection /\ d.to = "Established" /\ [d EXCEPT !.group = NoGroup].to = "Established"
      <4>1. NoMsgs \in Msgs /\ "Established" \in ToPeer /\ connections[p] \in Connection
        BY Zenon, <1>1 DEF NoMsgs, Msgs, ToPeer
      <4> QED BY Zenon, <4>1 DEF EstablishedEntry, Connection
    <3> HIDE DEF d
    <3> QED BY Zenon, <1>1, <3>2, <3>3
  <2>3. CASE Quiet(p)
    BY Zenon, <1>1, <2>3 DEF Quiet, SameHalves
  <2> QED BY Zenon, <1>1, <1>2, <2>1, <2>2, <2>3 DEF PeerStep
<1>4. connections[p].contacted /\ cache' = AddPeer(cache, p)
  BY Zenon, <1>1, <1>3 DEF Remember
<1>5. r = p
  BY Zenon, <1>1, <1>4, AddPeerType
<1> QED BY Zenon, <1>3, <1>4, <1>5 DEF EntryInv

\* Every step of a client keeps the invariant of its bootstrap groups.
LEMMA OnceKept ==
  ASSUME IndInv, OurType = "Client", [Next]_vars, OnceInv
  PROVE  OnceInv'
<1>1. ASSUME NEW p \in Peer, PeerStep(p) PROVE OnceInv'
  <2>1. boot'.maker = boot.maker
    BY Zenon, <1>1 DEF PeerStep
  <2>2. ~Accepts(p)
    <3>1. OurType # "Node"
      OBVIOUS
    <3> QED BY Zenon, <3>1 DEF Accepts, IncomingConnection
  <2> QED BY Zenon, <1>1, <2>1, <2>2, SeversOnce, ConnectsOnce, EstablishesOnce, QuietOnce
          DEF PeerStep
<1>2. CASE Ends \/ BootstrapStart \/ BootstrapEnd
  BY Zenon, <1>2, EndsOnce, BootstrapOnce
<1>3. CASE UNCHANGED vars
  <2>1. connections' = connections /\ qconn' = qconn /\ group' = group /\ boot' = boot
    BY Zenon, <1>3 DEF vars
  <2> QED BY Zenon, <2>1 DEF OnceInv, Cancellable, GroupsOnce, BootstrapsOnce
<1> QED BY Zenon, <1>1, <1>2, <1>3, StepKinds

\* Initially there is neither a member nor a group.
LEMMA OnceInit ==
  ASSUME Init
  PROVE  OnceInv
<1>1. /\ NoEntry.group = NoGroup /\ UnusedGroup.success = FALSE /\ UnusedGroup.bootstrapped = 0
      /\ Idle.maker = NoGroup
  BY DEF NoEntry, UnusedGroup, Idle
<1>2. /\ \A p \in Peer : connections[p] = NoEntry
      /\ \A g \in Group : group[g] = UnusedGroup
      /\ boot = Idle
  BY Zenon DEF Init
<1>3. \A g \in Group : group[g].bootstrapped <= 1 /\ ~group[g].success
  BY <1>1, <1>2
<1> QED BY Zenon, <1>1, <1>2, <1>3 DEF OnceInv, Cancellable, GroupsOnce, BootstrapsOnce

-----------------------------------------------------------------------------
(* The theorems.                                                            *)

\* add_peer keeps the cache a list of peers (bootstrap_cache.rs:82).
LEMMA AddPeerIsTyped == AddPeerTyped
BY Zenon, AddPeerType DEF AddPeerTyped

\* The invariant is inductive, for any set of peers, number of connections, bound
\* and kind of instance: it holds after any interleaving of the tasks of the loop
\* (connect.rs, listener.rs, communicate.rs, connection/).
THEOREM Invariance == Spec => []IndInv
<1>1. Init => IndInv
  BY Zenon, InitInv
<1>2. IndInv /\ [Next]_vars => IndInv'
  BY Zenon, NextKeeps, AddPeerIsTyped
<1> QED BY <1>1, <1>2, PTL DEF Spec

\* The state of an instance always has its type.
THEOREM TypeCorrect == Spec => []TypeOK
<1>1. IndInv => TypeOK
  BY Zenon DEF IndInv
<1> QED BY <1>1, Invariance, PTL

\* handle_new_connection_res finds the very entry its attempt was started for,
\* still Initiated, whatever other tasks did to the map in between.
THEOREM AttemptIsCurrent == Spec => []LiveAttemptIsCurrent
<1>1. IndInv => LiveAttemptIsCurrent
  BY Zenon DEF IndInv
<1> QED BY <1>1, Invariance, PTL

\* Neither the panic! nor the unreachable! of connect.rs is ever executed.
THEOREM NoPanicInConnect == Spec => []ConnectNeverPanics
<1>1. IndInv => ConnectNeverPanics
  BY Zenon DEF IndInv
<1> QED BY <1>1, Invariance, PTL

\* What the upper layer was told about a peer is what the map holds for it.
THEOREM EventsAreRight == Spec => []EventsMatchMap
<1>1. IndInv => EventsMatchMap
  BY Zenon DEF IndInv
<1> QED BY <1>1, Invariance, PTL

\* A QUIC connection is open exactly while an entry of its own address owns it.
THEOREM NoConnectionLeaks == Spec => []OpenIffOwned
<1>1. IndInv => OpenIffOwned
  BY Zenon DEF IndInv
<1> QED BY <1>1, Invariance, PTL

\* An entry that is not complete always has a timer that will remove it.
THEOREM TimerAhead == Spec => []IncompleteHasTimer
<1>1. IndInv => IncompleteHasTimer
  BY Zenon DEF IndInv
<1> QED BY <1>1, Invariance, PTL

\* A call of bootstrap() whose group is gone was answered, in one way only.
THEOREM BootstrapIsAnswered == Spec => []BootstrapAnswered
<1>1. IndInv => BootstrapAnswered
  BY DEF IndInv, GroupShape, BootstrapAnswered
<1> QED BY <1>1, Invariance, PTL

\* The events the upper layer receives are those PeerEvents allows: each step of
\* the loop maps to one event for one peer, one answer to bootstrap(), the end,
\* or nothing (event.rs, connection/mod.rs:73, bootstrap_group.rs:107).
THEOREM EventsRefine == Spec => EventsSpec
<1>1. Init => Events!Init
  <2> SUFFICES ASSUME Init PROVE Events!Init
    OBVIOUS
  <2>1. Outcome(UnusedGroup) = "none"
    BY DEF UnusedGroup, Outcome
  <2>2. [g \in Group |-> Outcome(group[g])] = [g \in Group |-> "none"]
    BY Zenon, <2>1 DEF Init
  <2> QED BY Zenon, <2>2 DEF Init, Events!Init
<1>2. IndInv /\ [Next]_vars => [Events!Next]_(Events!vars)
  <2> SUFFICES ASSUME IndInv, [Next]_vars PROVE [Events!Next]_(Events!vars)
    OBVIOUS
  <2>1. CASE Next
    BY Zenon, <2>1, StepKinds, PeerStepEvents, EndsEvents, BootstrapEvents
  <2>2. CASE UNCHANGED vars
    <3>1. seen' = seen /\ loop' = loop /\ group' = group
      BY Zenon, <2>2 DEF vars
    <3> QED BY Zenon, <3>1, NoEvent
  <2> QED BY Zenon, <2>1, <2>2
<1> QED BY <1>1, <1>2, Invariance, PTL DEF Spec, EventsSpec, Events!Spec

\* The invariant of the entries' details.
LEMMA EntryInvariance == Spec => [](\A p \in Peer : EntryInv(p))
<1>1. Init => \A p \in Peer : EntryInv(p)
  BY Zenon, EntryInvInit
<1>2. IndInv /\ (\A p \in Peer : EntryInv(p)) /\ [Next]_vars => (\A p \in Peer : EntryInv(p))'
  BY Zenon, EntryInvKept
<1> QED BY <1>1, <1>2, Invariance, PTL DEF Spec

\* The books are kept in every reachable state.
LEMMA LedgerInvariance == Spec => []LedgerInv
<1>1. Init => LedgerInv
  BY Zenon, LedgerInit
<1>2. LedgerInv /\ IndInv /\ [Next]_vars => LedgerInv'
  BY Zenon, LedgerKept
<1> QED BY <1>1, <1>2, Invariance, PTL DEF Spec

\* No user message is lost or doubled while its entry is in the map: it is in one
\* of the buffers until it is written or reported, and when the outgoing half is
\* established none is left in either (communicate.rs:55, 224, connect.rs:233, 247).
THEOREM MessagesKept == Spec => []MessagesAccountedFor
<1>1. LedgerInv /\ (\A p \in Peer : EntryInv(p)) => MessagesAccountedFor
  <2>1. NoMsgs["UserMsg"] = 0
    BY DEF NoMsgs, WireMsg
  <2> QED BY Zenon, <2>1 DEF LedgerInv, Booked, EntryInv, MessagesAccountedFor
<1> QED BY <1>1, LedgerInvariance, EntryInvariance, PTL

\* Only a peer we were asked to contact, and are connected to, enters the cache,
\* whatever entry for its address a late task finds (connect.rs:176).
THEOREM CacheHoldsContacted == Spec => CachesOnlyContacted
<1> DEFINE A == \A p \in Peer : p \in Range(cache') /\ p \notin Range(cache) =>
                  asked[p] /\ connections'[p].to = "Established"
<1>1. IndInv /\ (\A p \in Peer : EntryInv(p)) /\ [Next]_vars => [A]_vars
  BY Zenon, CacheStep
<1> QED BY <1>1, Invariance, EntryInvariance, PTL DEF Spec, CachesOnlyContacted

\* A client is told at most once that a call of bootstrap() succeeded: the first
\* success cancels every other member of the group (bootstrap_group.rs:12).
THEOREM ClientBootstrapsOnce ==
  ASSUME OurType = "Client"
  PROVE  Spec => []BootstrapsOnce
<1>1. Init => OnceInv
  BY Zenon, OnceInit
<1>2. IndInv /\ OnceInv /\ [Next]_vars => OnceInv'
  BY Zenon, OnceKept
<1>3. OnceInv => BootstrapsOnce
  BY Zenon DEF OnceInv, GroupsOnce
<1> QED BY <1>1, <1>2, <1>3, Invariance, PTL DEF Spec

\* Once bootstrap::start has returned its group has no maker again and no new
\* member (bootstrap.rs:28).
LEMMA StepMembers ==
  ASSUME IndInv, [Next]_vars, NEW g \in Group, group[g].used, boot.maker # g
  PROVE  boot'.maker # g /\ \A r \in Peer : HoldsRef(g, r)' => HoldsRef(g, r)
<1>1. g # NoGroup /\ NoEntry.group = NoGroup /\ Idle.maker = NoGroup
  BY NullAssumption DEF NoEntry, Idle
<1>2. ASSUME NEW p \in Peer, PeerStep(p)
      PROVE  boot'.maker # g /\ \A r \in Peer : HoldsRef(g, r)' => HoldsRef(g, r)
  BY Zenon, <1>2, PeerStepMembers DEF PeerStep
<1>3. CASE Ends
  <2>1. boot' = boot /\ \A r \in Peer : connections'[r] = NoEntry
    BY Zenon, <1>3 DEF Ends, Exit
  <2> QED BY Zenon, <1>1, <2>1 DEF HoldsRef
<1>4. CASE BootstrapStart
  <2>1. PICK h \in Group : /\ ~group[h].used
                          /\ \E seq : boot' = [maker |-> h, todo |-> seq]
    BY Zenon, <1>4 DEF BootstrapStart
  <2>2. boot'.maker = h
    <3>1. PICK seq : boot' = [maker |-> h, todo |-> seq]
      BY Zenon, <2>1
    <3>2. [maker |-> h, todo |-> seq].maker = h
      BY Zenon
    <3> QED BY Zenon, <3>1, <3>2
  <2>3. connections' = connections
    BY Zenon, <1>4 DEF BootstrapStart
  <2> QED BY Zenon, <2>1, <2>2, <2>3 DEF HoldsRef
<1>5. CASE BootstrapEnd
  BY Zenon, <1>1, <1>5 DEF BootstrapEnd, HoldsRef
<1>6. CASE UNCHANGED vars
  BY Zenon, <1>6 DEF vars, HoldsRef
<1> QED BY Zenon, <1>2, <1>3, <1>4, <1>5, <1>6, StepKinds

\* A bootstrap() that was not answered is being made, or a timer that has already
\* been started will take a member off it (connection/mod.rs:97).
THEOREM AnswerNeedsOnlyTimers == Spec => []UnansweredHasTimer
<1>1. IndInv => UnansweredHasTimer
  <2> SUFFICES ASSUME IndInv, NEW g \in Group, group[g].used, ~group[g].failed,
                      group[g].bootstrapped = 0, boot.maker # g
               PROVE  \E p \in Peer : HoldsRef(g, p) /\ KilledByTimer(connections[p])
                                        /\ killers[p] > 0
    BY Zenon DEF UnansweredHasTimer
  <2>1. ~group[g].success
    <3>1. GroupShape(g) /\ ~(group[g].bootstrapped > 0)
      BY DEF IndInv
    <3> QED BY Zenon, <3>1 DEF GroupShape
  <2>2. PICK p \in Peer : HoldsRef(g, p)
    BY Zenon, <2>1 DEF IndInv, GroupShape
  <2>3. connections[p].group # NoGroup
    BY Zenon, <2>2, NullAssumption DEF HoldsRef
  <2>4. connections[p].to \in {"Initiated", "Established"} /\ ~Complete(connections[p])
    BY Zenon, <2>3 DEF IndInv, EntryShape
  <2>5. connections[p].to # "Absent"
    BY <2>4
  <2>6. killers[p] > 0
    BY Zenon, <2>4, <2>5 DEF IndInv, IncompleteHasTimer, Incomplete
  <2>7. KilledByTimer(connections[p])
    BY Zenon, <2>4, <2>5 DEF KilledByTimer, Complete
  <2> QED BY Zenon, <2>2, <2>6, <2>7
<1> QED BY <1>1, Invariance, PTL

\* The members of a group only leave it once bootstrap::start has returned
\* (bootstrap.rs:28, connect.rs:44): with the theorem before and fair timers this is
\* why every call of bootstrap() is answered.
THEOREM MembersRunOut == Spec => BootstrapRunsDown
<1> DEFINE A == \A g \in Group : group[g].used /\ boot.maker # g =>
                  boot'.maker # g /\ \A p \in Peer : HoldsRef(g, p)' => HoldsRef(g, p)
<1>1. IndInv /\ [Next]_vars => [A]_vars
  BY Zenon, StepMembers
<1> QED BY <1>1, Invariance, PTL DEF Spec, BootstrapRunsDown
=============================================================================
