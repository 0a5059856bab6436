------------------------------ MODULE QuicP2p ------------------------------
(***************************************************************************)
(* One QuicP2p instance: the connection map of its event loop, the tasks   *)
(* the loop runs, the calls of the upper layer and an unconstrained        *)
(* network.                                                                *)
(*                                                                         *)
(* The event loop is one thread.  A posted closure, a timer and each poll  *)
(* of a spawned future run to completion, so each is one action, and they  *)
(* interleave in any order.  What makes the code hard is that a task       *)
(* remembers the ADDRESS of its peer, not the entry of the map it was      *)
(* spawned for: entries come and go while tasks of an earlier entry for    *)
(* the same address are still to run.                                      *)
(*                                                                         *)
(* quinn is external.  Any task of a connection may report an error at any *)
(* time, also after we closed the connection, and streams accepted before  *)
(* the close may be delivered after it.  A task that ends without an error *)
(* is one that takes no further step.                                      *)
(***************************************************************************)
EXTENDS ConnectionState, BootstrapPeers

CONSTANTS
  InitialCaches,   \* what the bootstrap cache may hold after build()
  MaxPending,      \* bound: buffered messages of one kind, per entry
  MaxStreams,      \* bound: streams being read, per connection
  MaxWrites,       \* bound: running writes of one kind, per connection
  MaxKillers       \* bound: pending timers, per address

ASSUME BoundsAssumption ==
  /\ MaxPending \in Nat
  /\ MaxStreams \in Nat
  /\ MaxWrites \in Nat
  /\ MaxKillers \in Nat

ASSUME ContactsAssumption ==
  /\ HardCoded \subseteq Peer
  /\ IsFiniteSet(HardCoded) /\ Cardinality(HardCoded) \in Nat
  /\ InitialCaches \subseteq Seq(Peer)

VARIABLES
  connections,   \* Context::connections
  qconn,         \* the spawned tasks, per attempt or connection
  group,         \* the bootstrap groups
  boot,          \* the closure bootstrap::start while it runs
  killers,       \* pending timers of spawn_incomplete_conn_killer, per address
  cache,         \* Context::bootstrap_cache, the list
  query,         \* query_ip_echo_service: "waiting" iff our_ext_addr_tx is Some
  seen,          \* what the upper layer knows from the events
  asked,         \* the upper layer asked to contact the peer of this entry
  unsent,        \* not in the code: user messages send() took for this entry, less
                 \* those whose write was spawned
  unread,        \* not in the code: user messages accepted from the peer of this
                 \* entry, less those reported by NewMessage
  loop           \* the event loop's thread

ledger == <<unsent, unread>>
vars == <<connections, qconn, group, boot, killers, cache, query, seen, asked, unsent, unread, loop>>

Idle == [maker |-> NoGroup, todo |-> <<>>]

Panic == {"panic at connect.rs:58", "panic at connect.rs:165", "panic at communicate.rs:254"}

TypeOK ==
  /\ connections \in [Peer -> Connection]
  /\ qconn \in [Conn -> QConn]
  /\ group \in [Group -> GroupState]
  /\ boot \in [maker : Group \union {NoGroup}, todo : Seq(Peer)]
  /\ killers \in [Peer -> Nat]
  /\ cache \in Seq(Peer)
  /\ query \in {"never", "waiting", "answered", "panicked"}
  /\ seen \in [Peer -> PeerView]
  /\ asked \in [Peer -> BOOLEAN]
  /\ loop \in {"running", "stopped"} \union Panic

Init ==
  /\ connections = [p \in Peer |-> NoEntry]
  /\ qconn = [c \in Conn |-> Unused]
  /\ group = [g \in Group |-> UnusedGroup]
  /\ boot = Idle
  /\ killers = [p \in Peer |-> 0]
  /\ cache \in InitialCaches
  /\ query = "never"
  /\ seen = [p \in Peer |-> "disconnected"]
  /\ asked = [p \in Peer |-> FALSE]
  /\ unsent = [p \in Peer |-> 0]
  /\ unread = [p \in Peer |-> 0]
  /\ loop = "running"

\* The loop is between two tasks; the caller of the API is not blocked.
Running == loop = "running" /\ boot.maker = NoGroup
UserFree == Running /\ query \notin {"waiting", "panicked"}

\* Identifiers are handed out in order and never again.
Fresh(c) ==
  /\ qconn[c].peer = NoPeer
  /\ \A d \in Conn : d < c => qconn[d].peer # NoPeer

-----------------------------------------------------------------------------
(* Pieces of handlers.  Each fixes connections, qconn, group, seen, asked,  *)
(* loop and, but for Announce, the ledger; q is qconn with the running task *)
(* already taken off.                                                       *)

HoldsRef(g, p) == connections[p].group = g

\* connections.remove(&p): the entry is dropped with all it owns.
Sever(p, q) ==
  LET e == connections[p]
      last(g) == boot.maker # g /\ \A r \in Peer \ {p} : ~HoldsRef(g, r)
  IN  /\ connections' = [connections EXCEPT ![p] = NoEntry]
      /\ qconn' = Release(q, e)
      /\ group' = [g \in Group |-> IF HoldsRef(g, p)
                                   THEN DropGroupRef(group[g], p, last(g))
                                   ELSE group[g]]
      /\ seen' = [seen EXCEPT ![p] = IF Complete(e) THEN SeeFailure(@) ELSE @]
      /\ asked' = [asked EXCEPT ![p] = FALSE]
      /\ unsent' = [unsent EXCEPT ![p] = 0]
      /\ unread' = [unread EXCEPT ![p] = 0]
      /\ UNCHANGED loop

\* The thread ends, by the terminator message or by a panic: the runtime drops
\* the tasks, the thread-local Context drops every entry.
Exit(how) ==
  /\ connections' = [p \in Peer |-> NoEntry]
  /\ qconn' = [c \in Conn |-> Unused]
  /\ group' = [g \in Group |->
                 IF boot.maker = g \/ \E p \in Peer : HoldsRef(g, p)
                 THEN DropGroup([group[g] EXCEPT !.terminators = NoTerminators])
                 ELSE group[g]]
  /\ seen' = [p \in Peer |-> IF Complete(connections[p]) THEN SeeFailure(seen[p]) ELSE seen[p]]
  /\ asked' = [p \in Peer |-> FALSE]
  /\ unsent' = [p \in Peer |-> 0]
  /\ unread' = [p \in Peer |-> 0]
  /\ loop' = how

\* No more than the running task is gone.
Ignore(q) == qconn' = q /\ UNCHANGED <<connections, group, seen, asked, ledger, loop>>

\* The user messages whose write was started on c in this step.
NewWrites(c) == qconn'[c].writes["UserMsg"] - qconn[c].writes["UserMsg"]

\* The entry for p becomes e, which is complete: the group is told, if there is
\* one, and the upper layer receives BootstrappedTo or ConnectedTo.
Announce(p, e, q, view) ==
  LET members(g) == {group[g].terminators[r] : r \in Peer}
  IN  /\ connections' = [connections EXCEPT ![p] = [e EXCEPT !.group = NoGroup]]
      /\ qconn' = Signal(q, UNION {members(g) : g \in {h \in Group : HoldsRef(h, p)}})
      /\ group' = [g \in Group |-> IF HoldsRef(g, p) THEN TerminateGroup(group[g]) ELSE group[g]]
      /\ seen' = [seen EXCEPT ![p] = view]
      /\ UNCHANGED <<asked, loop>>

\* Connection::new spawns the timer.
SpawnKiller(p, isCalled) ==
  IF isCalled /\ connections[p].to = "Absent"
  THEN killers[p] < MaxKillers /\ killers' = [killers EXCEPT ![p] = @ + 1]
  ELSE UNCHANGED killers

\* The Receiver a blocked caller waits on reports the Sender's end.
Awaiting(v) == IF loop' # "running" /\ v = "waiting" THEN "panicked" ELSE v

-----------------------------------------------------------------------------
(* connect::connect_to                                                      *)

ConnectOutcome == {"attempted", "bad certificate", "refused"}

\* An attempt c is started for p, as a member of group g if g is one.
Initiate(p, c, pending, g, byUser, q) ==
  LET e == OrInsert(connections[p])
      joins == g # NoGroup /\ e.group = NoGroup
  IN  /\ connections' = [connections EXCEPT ![p] =
             [e EXCEPT !.to = "Initiated", !.toConn = c, !.sends = pending,
                       !.from = IF OurType = "Client" THEN "NotNeeded" ELSE @,
                       !.group = IF joins THEN g ELSE @,
                       !.contacted = @ \/ byUser]]
      /\ qconn' = Signal([q EXCEPT ![c] = Attempt(p)],
                         IF joins THEN {group[g].terminators[p]} ELSE {})
      /\ group' = [h \in Group |-> IF joins /\ h = g THEN AddMember(group[h], p, c) ELSE group[h]]
      /\ asked' = [asked EXCEPT ![p] = @ \/ byUser]
      /\ unsent' = [unsent EXCEPT ![p] = @ + pending["UserMsg"]]
      /\ UNCHANGED <<seen, unread, loop>>

ConnectTo(p, pending, g, byUser, how, q) ==
  LET e == connections[p]
  IN  IF how = "bad certificate" THEN Sever(p, q)
      ELSE IF e.to \notin {"Absent", "NoConnection"} THEN   \* DuplicateConnectionToPeer
        /\ qconn' = q
        /\ asked' = [asked EXCEPT ![p] = @ \/ byUser]
        /\ UNCHANGED <<connections, group, seen, ledger, loop>>
      ELSE IF OurType = "Client" /\ e.from # "NoConnection" THEN Exit("panic at connect.rs:58")
      ELSE IF how = "refused" THEN Sever(p, q)
      ELSE \E c \in Conn : Fresh(c) /\ Initiate(p, c, pending, g, byUser, q)

-----------------------------------------------------------------------------
(* connect::handle_new_connection_res and handle_connect_err: the ends of   *)
(* the leaf spawned by connect_to.  The select polls the terminator first.  *)

LeafDone(c) == [qconn EXCEPT ![c].leaf = FALSE, ![c].signal = FALSE]

AttemptCancelled(c) ==
  /\ Running
  /\ qconn[c].leaf /\ qconn[c].signal
  /\ Sever(qconn[c].peer, LeafDone(c))
  /\ UNCHANGED <<boot, killers, cache, query>>

\* Mutated form: the select polls the connection result first.
ResultPolledFirst(c) == qconn[c].leaf

\* The result of the attempt is looked at.
ResultPolled(c) == qconn[c].leaf /\ ~qconn[c].signal

AttemptFails(c) ==
  /\ Running
  /\ ResultPolled(c)
  /\ Sever(qconn[c].peer, LeafDone(c))
  /\ UNCHANGED <<boot, killers, cache, query>>

\* our_ext_addr_tx.take() on dispatching m: only an EchoResp is sent through it.
TxTaken(m) ==
  IF query # "waiting" THEN query
  ELSE IF m = "EchoResp" THEN "answered" ELSE "panicked"

\* Mutated form: every peer we are connected to is remembered.
RememberAlways(e, p) == AddPeer(cache, p)

\* bootstrap_cache.add_peer of a peer we contacted
Remember(e, p) == IF e.contacted THEN AddPeer(cache, p) ELSE cache

\* Mutated form: the buffered messages go with the Initiated half they were in.
FlushedNever(e) == NoMsgs

\* What is written on the new connection: every buffered message.
Flushed(e) == e.sends

\* What is dispatched: every message that was read early on an incoming half.
Drained(e) == IF e.from = "Established" THEN e.reads ELSE NoMsgs

\* The outgoing half of e becomes c, and both buffers are taken.
EstablishedEntry(e, c) ==
  [e EXCEPT !.to = "Established", !.toConn = c, !.sends = NoMsgs, !.reads = NoMsgs]

\* The attempt c succeeded and the entry e of its peer is Initiated.
Establish(c, e) ==
  LET p == qconn[c].peer
      greets(m) == \/ e.from = "NoConnection" /\ m = "HandshakeNode"
                   \/ e.from = "NotNeeded" /\ m = "HandshakeClient"
      written(m) == qconn[c].writes[m] + Flushed(e)[m]
                      + (IF greets(m) THEN 1 ELSE 0)
                      + (IF m = "EchoResp" THEN Drained(e)["EchoReq"] ELSE 0)
      q1 == [qconn EXCEPT ![c] = [@ EXCEPT !.leaf = FALSE, !.signal = FALSE,
                                           !.driver = TRUE, !.open = TRUE,
                                           !.reader = (e.from = "NotNeeded"),
                                           !.writes = [m \in WireMsg |-> written(m)]]]
      q2 == Signal(q1, {e.toConn})      \* the Initiated half is dropped
      e1 == EstablishedEntry(e, c)
      v == SeeConnected(seen[p])
  IN  /\ IF e.from = "NoConnection"
         THEN /\ connections' = [connections EXCEPT ![p] = e1]
              /\ qconn' = q2
              /\ UNCHANGED <<group, seen, asked, loop>>
         ELSE Announce(p, e1, q2, IF Drained(e)["UserMsg"] > 0 THEN SeeMessage(v) ELSE v)
      /\ unsent' = [unsent EXCEPT ![p] = @ - NewWrites(c)]
      /\ unread' = [unread EXCEPT ![p] = @ - Drained(e)["UserMsg"]]
      /\ IF Drained(e) = NoMsgs THEN query' = query
         ELSE \E m \in WireMsg : Drained(e)[m] > 0 /\ query' = TxTaken(m)
      /\ cache' = Remember(e, p)

AttemptSucceeds(c) ==
  LET e == connections[qconn[c].peer]
  IN  /\ Running
      /\ ResultPolled(c)
      /\ IF e.to = "Absent" THEN
              /\ Ignore([qconn EXCEPT ![c].leaf = FALSE, ![c].signal = FALSE, ![c].driver = TRUE])
              /\ UNCHANGED <<cache, query>>
         ELSE IF e.to # "Initiated" THEN
              /\ Exit("panic at connect.rs:165")
              /\ query' = Awaiting(query)
              /\ UNCHANGED cache
         ELSE Establish(c, e)
      /\ UNCHANGED <<boot, killers>>

-----------------------------------------------------------------------------
(* listener::handle_new_conn                                                *)

IncomingConnection(p) ==
  /\ Running
  /\ OurType = "Node"
  /\ \E c \in Conn :
       LET e == OrInsert(connections[p])
           isDuplicate == e.from # "NoConnection"
           e1 == [e EXCEPT !.from = "Established", !.fromConn = c]
           q1 == [qconn EXCEPT ![c] = Accepted(p, isDuplicate)]
       IN  /\ Fresh(c)
           /\ IF isDuplicate THEN Ignore(q1)
              ELSE IF e.to = "Established" THEN Announce(p, e1, q1, SeeConnected(seen[p]))
              ELSE /\ connections' = [connections EXCEPT ![p] = e1]
                   /\ qconn' = q1
                   /\ UNCHANGED <<group, seen, asked, loop>>
  /\ SpawnKiller(p, TRUE)
  /\ UNCHANGED <<boot, cache, query, ledger>>

-----------------------------------------------------------------------------
(* communicate::read_from_peer, read_peer_stream, handle_wire_msg           *)

IncomingStream(c) ==
  /\ Running
  /\ qconn[c].reader
  /\ qconn[c].streams < MaxStreams
  /\ Ignore([qconn EXCEPT ![c].streams = @ + 1])
  /\ UNCHANGED <<boot, killers, cache, query>>

\* The incoming streams end with an error, or the peer opens a bidirectional one.
ReaderFails(c) ==
  /\ Running
  /\ qconn[c].reader
  /\ Sever(qconn[c].peer, [qconn EXCEPT ![c].reader = FALSE])
  /\ UNCHANGED <<boot, killers, cache, query>>

StreamDone(c) == [qconn EXCEPT ![c].streams = @ - 1]

\* read_to_end fails or WireMsg::from_raw does.
StreamFails(c) ==
  /\ Running
  /\ qconn[c].streams > 0
  /\ Sever(qconn[c].peer, StreamDone(c))
  /\ UNCHANGED <<boot, killers, cache, query>>

\* write_to_peer_connection: the write is spawned.
Write(q, c, m) == [q EXCEPT ![c].writes = Plus(@, m)]

\* dispatch_wire_msg for the complete entry of p; replyConn answers an EchoReq.
Dispatch(p, m, q, replyConn) ==
  /\ m = "EchoReq" => q[replyConn].writes["EchoResp"] < MaxWrites
  /\ qconn' = IF m = "EchoReq" THEN Write(q, replyConn, "EchoResp") ELSE q
  /\ seen' = IF m = "UserMsg" THEN [seen EXCEPT ![p] = SeeMessage(@)] ELSE seen
  /\ cache' = IF m = "UserMsg" /\ connections[p].to = "Established"
              THEN Remember(connections[p], p) ELSE cache
  /\ query' = TxTaken(m)
  /\ UNCHANGED <<connections, group, asked, ledger, loop, killers>>   \* one read, one reported

\* handle_wire_msg for anything but a handshake
HandleData(p, m, q) ==
  LET e == connections[p]
      dropped == Ignore(q) /\ UNCHANGED <<cache, query, killers>>
  IN  IF e.to = "Absent" THEN dropped
      ELSE IF e.from = "NoConnection" THEN
        /\ Exit("panic at communicate.rs:254")
        /\ query' = Awaiting(query)
        /\ UNCHANGED <<cache, killers>>
      ELSE IF e.to = "Established" THEN Dispatch(p, m, q, e.toConn)
      ELSE IF e.from = "NotNeeded" THEN dropped
      ELSE IF e.to = "NotNeeded" THEN Dispatch(p, m, q, e.fromConn)
      ELSE /\ e.reads[m] < MaxPending
           /\ connections' = [connections EXCEPT ![p].reads = Plus(@, m)]
           /\ qconn' = q
           /\ unread' = [unread EXCEPT ![p] = @ + Plus(NoMsgs, m)["UserMsg"]]
           /\ UNCHANGED <<group, seen, asked, unsent, loop, cache, query, killers>>

\* handle_rx_handshake of a client
HandleClientHandshake(p, q) ==
  /\ IF connections[p].to = "NoConnection"
     THEN /\ connections' = [connections EXCEPT ![p].to = "NotNeeded"]
          /\ seen' = [seen EXCEPT ![p] = SeeConnected(@)]
          /\ qconn' = q
          /\ UNCHANGED <<group, asked, ledger, loop>>
     ELSE Ignore(q)
  /\ UNCHANGED <<cache, query, killers>>

\* handle_rx_cert: the handshake of a node
HandleNodeHandshake(p, q) ==
  /\ IF connections[p].to = "NoConnection"
     THEN \E how \in ConnectOutcome : ConnectTo(p, NoMsgs, NoGroup, FALSE, how, q)
     ELSE Ignore(q)
  /\ query' = Awaiting(query)
  /\ UNCHANGED <<cache, killers>>

StreamRead(c, m) ==
  LET p == qconn[c].peer
      q == StreamDone(c)
  IN  /\ Running
      /\ qconn[c].streams > 0
      /\ \/ m = "HandshakeNode" /\ HandleNodeHandshake(p, q)
         \/ m = "HandshakeClient" /\ HandleClientHandshake(p, q)
         \/ m \notin {"HandshakeNode", "HandshakeClient"} /\ HandleData(p, m, q)
      /\ UNCHANGED boot

-----------------------------------------------------------------------------
(* The other tasks of a connection: its driver and its writes               *)

DriverFails(c) ==
  /\ Running
  /\ qconn[c].driver
  /\ Sever(qconn[c].peer, [qconn EXCEPT ![c].driver = FALSE])
  /\ UNCHANGED <<boot, killers, cache, query>>

WriteDone(c, m) == [qconn EXCEPT ![c].writes = Minus(@, m)]

WriteSucceeds(c, m) ==
  /\ Running
  /\ qconn[c].writes[m] > 0
  /\ Ignore(WriteDone(c, m))
  /\ UNCHANGED <<boot, killers, cache, query>>

WriteFails(c, m) ==
  /\ Running
  /\ qconn[c].writes[m] > 0
  /\ Sever(qconn[c].peer, WriteDone(c, m))
  /\ UNCHANGED <<boot, killers, cache, query>>

\* connection::spawn_incomplete_conn_killer: the timer of some entry for p
KillerFires(p) ==
  /\ Running
  /\ killers[p] > 0
  /\ killers' = [killers EXCEPT ![p] = @ - 1]
  /\ IF KilledByTimer(connections[p]) THEN Sever(p, qconn) ELSE Ignore(qconn)
  /\ UNCHANGED <<boot, cache, query>>

-----------------------------------------------------------------------------
(* The calls of the upper layer, each a closure posted to the loop          *)

\* Mutated form: connect_to joins a bootstrap that is still going on.
UserConnectToJoining(p) ==
  /\ UserFree
  /\ \E how \in ConnectOutcome, g \in {h \in Group : \E r \in Peer : HoldsRef(h, r)} :
       /\ ConnectTo(p, NoMsgs, g, TRUE, how, qconn)
       /\ SpawnKiller(p, how # "bad certificate")
  /\ UNCHANGED <<boot, cache, query>>

UserConnectTo(p) ==
  /\ UserFree
  /\ \E how \in ConnectOutcome :
       /\ ConnectTo(p, NoMsgs, NoGroup, TRUE, how, qconn)
       /\ SpawnKiller(p, how # "bad certificate")
  /\ UNCHANGED <<boot, cache, query>>

UserDisconnectFrom(p) ==
  /\ UserFree
  /\ connections[p].to # "Absent"
  /\ Sever(p, qconn)
  /\ UNCHANGED <<boot, killers, cache, query>>

\* set_we_contacted_peer after a send to an entry that exists
Contacted(e, byUser) == [e EXCEPT !.contacted = @ \/ (byUser /\ e.to # "Absent")]

\* try_write_to_peer for a node
TryWriteToPeer(p, m, byUser) ==
  LET e == connections[p]
      e1 == IF e.to = "Initiated" THEN [e EXCEPT !.sends = Plus(@, m)] ELSE e
      taken == IF e.to = "NotNeeded" THEN 0 ELSE Plus(NoMsgs, m)["UserMsg"]
  IN  IF e.to \in {"Absent", "NoConnection"}
      THEN \E how \in ConnectOutcome :
             /\ ConnectTo(p, Plus(NoMsgs, m), NoGroup, byUser, how, qconn)
             /\ SpawnKiller(p, TRUE)
      ELSE /\ e.to = "Initiated" => e.sends[m] < MaxPending
           /\ e.to = "Established" => qconn[e.toConn].writes[m] < MaxWrites
           /\ connections' = [connections EXCEPT ![p] = Contacted(e1, byUser)]
           /\ qconn' = IF e.to = "Established" THEN Write(qconn, e.toConn, m) ELSE qconn
           /\ asked' = [asked EXCEPT ![p] = @ \/ byUser]
           /\ unsent' = [unsent EXCEPT ![p] =
                           (@ + taken) - (IF e.to = "Established" THEN NewWrites(e.toConn) ELSE 0)]
           /\ UNCHANGED <<group, seen, unread, loop, killers>>

\* write_to_peer: what is written on for a peer said to be a client
WriteConn(e) ==
  IF e.to = "Established" THEN e.toConn
  ELSE IF e.to = "NotNeeded" /\ e.from = "Established" THEN e.fromConn
  ELSE NoConn

UserSendToNode(p) ==
  /\ UserFree
  /\ TryWriteToPeer(p, "UserMsg", TRUE)
  /\ UNCHANGED <<boot, cache, query>>

UserSendToClient(p) ==
  LET e == connections[p]
      c == WriteConn(e)
  IN  /\ UserFree
      /\ e.to # "Absent"
      /\ c # NoConn => qconn[c].writes["UserMsg"] < MaxWrites
      /\ connections' = [connections EXCEPT ![p] = Contacted(@, TRUE)]
      /\ qconn' = IF c = NoConn THEN qconn ELSE Write(qconn, c, "UserMsg")
      /\ asked' = [asked EXCEPT ![p] = TRUE]
      /\ unsent' = [unsent EXCEPT ![p] = IF c = NoConn THEN @ ELSE (@ + 1) - NewWrites(c)]
      /\ UNCHANGED <<group, seen, unread, loop, boot, killers, cache, query>>

\* our_connection_info when the address is not known yet
QueryIpEchoService(p) ==
  /\ UserFree
  /\ query = "never"
  /\ p \in HardCoded
  /\ TryWriteToPeer(p, "EchoReq", FALSE)
  /\ query' = Awaiting("waiting")
  /\ UNCHANGED <<boot, cache>>

\* The handle is dropped: the loop receives its terminator.
DropHandle ==
  /\ Running
  /\ query # "waiting"
  /\ Exit("stopped")
  /\ UNCHANGED <<boot, killers, cache, query>>

-----------------------------------------------------------------------------
(* bootstrap::start.  The closure is not interleaved with anything: while   *)
(* its maker exists no other action is enabled.                             *)

BootstrapStart ==
  /\ UserFree
  /\ \E g \in Group, contacts \in Iterations(HardCoded) :
       /\ ~group[g].used /\ \A h \in Group : h < g => group[h].used
       /\ group' = [group EXCEPT ![g].used = TRUE]
       /\ boot' = [maker |-> g, todo |-> NewestFirst(cache) \o contacts]
  /\ UNCHANGED <<connections, qconn, killers, cache, query, seen, asked, ledger, loop>>

BootstrapConnect ==
  LET p == Head(boot.todo)
  IN  /\ loop = "running"
      /\ boot.todo # <<>>
      /\ boot' = [boot EXCEPT !.todo = Tail(@)]
      /\ \E how \in ConnectOutcome :
           /\ ConnectTo(p, NoMsgs, boot.maker, FALSE, how, qconn)
           /\ SpawnKiller(p, how # "bad certificate")
      /\ UNCHANGED <<cache, query>>

\* The maker goes out of scope.
BootstrapEnd ==
  /\ loop = "running"
  /\ boot.maker # NoGroup
  /\ boot.todo = <<>>
  /\ boot' = Idle
  /\ group' = [group EXCEPT ![boot.maker] =
                 IF \E p \in Peer : HoldsRef(boot.maker, p) THEN @ ELSE DropGroup(@)]
  /\ UNCHANGED <<connections, qconn, killers, cache, query, seen, asked, ledger, loop>>

-----------------------------------------------------------------------------
Next ==
  \/ \E p \in Peer :
       \/ UserConnectTo(p) \/ UserDisconnectFrom(p)
       \/ UserSendToNode(p) \/ UserSendToClient(p)
       \/ QueryIpEchoService(p)
       \/ IncomingConnection(p)
       \/ KillerFires(p)
  \/ \E c \in Conn :
       \/ AttemptCancelled(c) \/ AttemptFails(c) \/ AttemptSucceeds(c)
       \/ IncomingStream(c) \/ ReaderFails(c) \/ StreamFails(c) \/ DriverFails(c)
       \/ \E m \in WireMsg : StreamRead(c, m) \/ WriteSucceeds(c, m) \/ WriteFails(c, m)
  \/ BootstrapStart \/ BootstrapConnect \/ BootstrapEnd
  \/ DropHandle

Spec == Init /\ [][Next]_vars

\* A timer that was started fires, and a closure that was started goes on.  No
\* more is needed, not even that quinn ever resolves an attempt: a configuration
\* may disable its idle timeout.
Fairness ==
  /\ \A p \in Peer : WF_vars(KillerFires(p))
  /\ WF_vars(BootstrapConnect)
  /\ WF_vars(BootstrapEnd)

FairSpec == Spec /\ Fairness

-----------------------------------------------------------------------------
(* Properties                                                               *)

\* The result of an attempt is handled only while the map holds the very entry
\* the attempt was started for, still Initiated: a leaf that was not signalled
\* is the one the entry's terminator belongs to.  So neither the "no longer
\* interested" return nor the unreachable! of handle_new_connection_res
\* (connect.rs:143, 165) is ever taken, which is what its TODO asks.
LiveAttemptIsCurrent ==
  \A c \in Conn : qconn[c].leaf /\ ~qconn[c].signal =>
    LET e == connections[qconn[c].peer]
    IN  e.to = "Initiated" /\ e.toConn = c

\* Neither panic of connect.rs is reached: a client never finds an incoming half
\* in an entry it starts to connect (58), a result never finds an entry that is
\* not Initiated (165).
ConnectNeverPanics ==
  loop \notin {"panic at connect.rs:58", "panic at connect.rs:165"}

\* The upper layer knows a peer as connected exactly while the entry for it is
\* complete: every completion fires one ConnectedTo or BootstrappedTo, every
\* drop of a complete Connection fires one ConnectionFailure, and no NewMessage
\* comes outside (connection/mod.rs:73, the three places that fire events).
EventsMatchMap ==
  \A p \in Peer :
    seen[p] = IF Complete(connections[p]) THEN "connected" ELSE "disconnected"

\* A QUIC connection is open exactly while one entry owns it, as one of its
\* halves and under its own address: none leaks and none is closed early
\* (QConn::drop, and the duplicate of listener.rs:86).
OpenIffOwned ==
  \A c \in Conn :
    qconn[c].open <=>
      \E p \in Peer : qconn[c].peer = p /\ Owns(connections[p], c)

Incomplete(e) == e.to # "Absent" /\ ~Complete(e)

\* An entry that is not complete always has a timer ahead of it that will look
\* at it, although timers of earlier entries for the same address fire in
\* between and are not told apart (connection/mod.rs:97).
IncompleteHasTimer == \A p \in Peer : Incomplete(connections[p]) => killers[p] > 0

\* A call of bootstrap() whose group is gone was answered, and no call is told
\* both BootstrappedTo and BootstrapFailure (bootstrap_group.rs:107).
BootstrapAnswered ==
  \A g \in Group :
    LET s == group[g]
    IN  /\ ~(s.failed /\ s.bootstrapped > 0)
        /\ s.used /\ boot.maker # g /\ (\A p \in Peer : ~HoldsRef(g, p))
             => s.failed \/ s.bootstrapped > 0

\* A call of bootstrap() that was not answered yet is still starting its attempts,
\* or has a member that the next timer of its address will remove: the answer
\* never depends on quinn, a peer or the upper layer (connection/mod.rs:97,
\* bootstrap_group.rs:107).
UnansweredHasTimer ==
  \A g \in Group : group[g].used /\ ~group[g].failed /\ group[g].bootstrapped = 0 =>
    \/ boot.maker = g
    \/ \E p \in Peer : HoldsRef(g, p) /\ KilledByTimer(connections[p]) /\ killers[p] > 0

\* And the members run out: once bootstrap::start has returned, no entry joins its
\* group any more, not even an entry of a later bootstrap() or connect_to() for the
\* same address (bootstrap.rs:28, connect.rs:44).
BootstrapRunsDown ==
  [][\A g \in Group : group[g].used /\ boot.maker # g =>
       boot'.maker # g /\ \A p \in Peer : HoldsRef(g, p)' => HoldsRef(g, p)]_vars

\* A group is told at most once that it bootstrapped: the first success cancels
\* the attempts of all other members (bootstrap_group.rs:12).
BootstrapsOnce == \A g \in Group : group[g].bootstrapped <= 1

\* A peer enters the bootstrap cache only with an entry we were asked to contact
\* and whose outgoing half is established (connect.rs:176, communicate.rs:397).
CachesOnlyContacted ==
  [][\A p \in Peer : p \in Range(cache') /\ p \notin Range(cache) =>
       asked[p] /\ connections'[p].to = "Established"]_vars

\* Which halves an entry may have, between two tasks (connect.rs:54,
\* listener.rs:50, communicate.rs:303): only an entry with an incoming half
\* waits for an outgoing one, a client's entries have no incoming half, and an
\* entry that still refers to a bootstrap group is not complete.
EntryShape(e) ==
  /\ e.to = "Absent" => e = NoEntry
  /\ e.to \in {"NoConnection", "NotNeeded"} => e.from = "Established"
  /\ e.from = "Established" => OurType = "Node"
  /\ e.from = "NotNeeded" => OurType = "Client"
  /\ OurType = "Client" /\ e.to # "Absent" => e.from = "NotNeeded"
  /\ e.group # NoGroup => e.to \in {"Initiated", "Established"} /\ ~Complete(e)

\* The halves of the entry for p are attempts and connections of p.
Halves(p) ==
  LET e == connections[p]
  IN  /\ e.to \in {"Initiated", "Established"} => e.toConn \in Conn /\ qconn[e.toConn].peer = p
      /\ e.to = "Initiated" => qconn[e.toConn].leaf
      /\ e.from = "Established" => e.fromConn \in Conn /\ qconn[e.fromConn].peer = p

\* What is not used runs no task; what is being attempted is not open yet.
TaskShape(t) ==
  /\ t.peer = NoPeer => /\ ~t.leaf /\ ~t.open /\ ~t.driver /\ ~t.reader
                        /\ t.streams = 0 /\ t.writes = NoMsgs
  /\ t.leaf => ~t.open

\* A group in use has references, or has been dropped with one of the two
\* events; the flag that suppresses the failure event tells whether the other
\* one was fired.
GroupShape(g) ==
  LET s == group[g]
      isReferred == boot.maker = g \/ \E p \in Peer : HoldsRef(g, p)
  IN  /\ isReferred => s.used /\ ~s.failed
      /\ s.success <=> s.bootstrapped > 0
      /\ s.failed => s.used /\ ~s.success
      /\ s.used /\ ~isReferred => s.failed \/ s.success

\* The inductive invariant from which the safety properties follow.
IndInv ==
  /\ TypeOK
  /\ \A p \in Peer : EntryShape(connections[p]) /\ Halves(p)
  /\ \A c \in Conn : TaskShape(qconn[c])
  /\ \A g \in Group : GroupShape(g)
  /\ LiveAttemptIsCurrent
  /\ ConnectNeverPanics
  /\ EventsMatchMap
  /\ OpenIffOwned
  /\ IncompleteHasTimer

\* The events refine the lifecycle the upper layer is promised.
Outcome(s) == IF s.failed THEN "failed" ELSE IF s.bootstrapped > 0 THEN "bootstrapped" ELSE "none"
Events == INSTANCE PeerEvents WITH
  view <- seen, outcome <- [g \in Group |-> Outcome(group[g])], alive <- (loop = "running")
EventsSpec == Events!Spec

\* Every entry that is not complete is completed or removed: no peer stays half
\* connected for ever (connection/mod.rs:97).
IncompleteResolves ==
  \A p \in Peer : Incomplete(connections[p]) ~> ~Incomplete(connections[p])

\* Every call of bootstrap() is answered (bootstrap.rs:14).
BootstrapResolves ==
  \A g \in Group : group[g].used ~> group[g].failed \/ group[g].bootstrapped > 0

\* A message is only read for an entry that has an incoming half, as the
\* unreachable! of handle_wire_msg says (communicate.rs:254).
MessageHasConnection == loop # "panic at communicate.rs:254"

\* we_contacted_peer is set in every entry whose peer the upper layer tried to
\* contact, as the comment of the field says (connection/mod.rs:46).
ContactRecorded == \A p \in Peer : asked[p] => connections[p].contacted

\* Messages handed over while a peer is being connected to stay buffered when the
\* cancellation of an earlier attempt is processed (lib.rs:176).
CancelKeepsLaterSends ==
  [][\A c \in Conn :
       LET p == qconn[c].peer
           e == connections[p]
       IN  /\ qconn[c].leaf /\ qconn[c].signal /\ ~qconn'[c].leaf
           /\ e.to = "Initiated" /\ e.toConn # c
           /\ loop' = "running"
           => connections'[p].sends = e.sends]_vars

\* No message of the upper layer is lost or doubled while its entry is in the map:
\* what send() took and did not write yet is what pending_sends holds, what was read
\* and not reported yet is what pending_reads holds, and once the outgoing half is
\* established, by whichever task and however the calls, the handshakes and the early
\* messages came before it, there is nothing of either (communicate.rs:55, 224,
\* connect.rs:69, 161, 233, 247).
MessagesAccountedFor ==
  \A p \in Peer :
    /\ unsent[p] = connections[p].sends["UserMsg"]
    /\ unread[p] = connections[p].reads["UserMsg"]
    /\ connections[p].to = "Established" => unsent[p] = 0 /\ unread[p] = 0

\* A complete entry has nothing left to read: what arrived early was dispatched
\* on completion.
ReadsDispatched == \A p \in Peer : Complete(connections[p]) => connections[p].reads = NoMsgs

\* The caller of our_connection_info is answered or keeps waiting; its Sender is
\* not dropped (lib.rs:380 unwraps the result).
EchoSenderKept == query # "panicked"
=============================================================================
