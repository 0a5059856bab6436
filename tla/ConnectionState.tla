-------------------------- MODULE ConnectionState --------------------------
(***************************************************************************)
(* The data of one QuicP2p instance, as operators without variables: the   *)
(* entry of the connection map (connection/mod.rs, to_peer.rs,             *)
(* from_peer.rs), the tasks the event loop runs for one QUIC connection,   *)
(* the bootstrap group (connection/bootstrap_group.rs), and what dropping  *)
(* each of them does.                                                      *)
(*                                                                         *)
(* A certificate is not represented: the code compares certificates only   *)
(* to log a mismatch, and a certificate that does not parse is an outcome  *)
(* of connect_to.                                                          *)
(***************************************************************************)
EXTENDS Naturals

CONSTANTS
  Peer,       \* socket addresses of the other endpoints
  NoPeer,
  Conn,       \* connection attempts we start and connections we accept
  NoConn,
  Group,      \* bootstrap groups, one for each call of bootstrap()
  NoGroup,
  OurType     \* "Node" or "Client": config.rs, OurType

ASSUME NullAssumption ==
  /\ NoPeer \notin Peer
  /\ Conn \subseteq Nat \ {0}
  /\ NoConn = 0
  /\ Group \subseteq Nat \ {0}
  /\ NoGroup = 0

ASSUME OurTypeAssumption == OurType \in {"Node", "Client"}

-----------------------------------------------------------------------------
(* Messages.  Every message travels on a unidirectional QUIC stream of its  *)
(* own, so neither a buffer nor a set of running writes has an order that   *)
(* the peer could see: both are counts per kind of message.                 *)

WireMsg == {"UserMsg", "EchoReq", "EchoResp", "HandshakeNode", "HandshakeClient"}
Msgs == [WireMsg -> Nat]
NoMsgs == [m \in WireMsg |-> 0]
Plus(b, m) == [b EXCEPT ![m] = @ + 1]
Minus(b, m) == [b EXCEPT ![m] = @ - 1]

-----------------------------------------------------------------------------
(* The entry of the map for one address.  to/from are the variants of       *)
(* ToPeer and FromPeer; an address without an entry is NoEntry.             *)

ToPeer == {"Absent", "NoConnection", "NotNeeded", "Initiated", "Established"}
FromPeer == {"NoConnection", "NotNeeded", "Established"}

Connection ==
  [to : ToPeer,                       \* to_peer
   toConn : Conn \union {NoConn},     \* its terminator (Initiated) or q_conn (Established)
   sends : Msgs,                      \* pending_sends of Initiated
   from : FromPeer,                   \* from_peer
   fromConn : Conn \union {NoConn},   \* its q_conn (Established)
   reads : Msgs,                      \* pending_reads of Established
   group : Group \union {NoGroup},    \* bootstrap_group_ref
   contacted : BOOLEAN]               \* we_contacted_peer

NoEntry ==
  [to |-> "Absent", toConn |-> NoConn, sends |-> NoMsgs,
   from |-> "NoConnection", fromConn |-> NoConn, reads |-> NoMsgs,
   group |-> NoGroup, contacted |-> FALSE]

\* Connection::new
NewEntry == [NoEntry EXCEPT !.to = "NoConnection"]

\* map.entry(addr).or_insert_with(Connection::new)
OrInsert(e) == IF e.to = "Absent" THEN NewEntry ELSE e

Settled(s) == s \in {"Established", "NotNeeded"}

\* Mutated form: the test is made on the outgoing half only.
CompleteByToPeerOnly(e) == Settled(e.to)

\* The condition under which dropping a Connection fires ConnectionFailure.
Complete(e) == Settled(e.to) /\ Settled(e.from)

\* Mutated form: the timer only looks at entries without an incoming half.
KilledIfNoIncoming(e) == e.to # "Absent" /\ e.from = "NoConnection"

\* The connection c is one of the halves of the entry e.
Owns(e, c) ==
  \/ e.to = "Established" /\ e.toConn = c
  \/ e.from = "Established" /\ e.fromConn = c

\* The condition under which the timer of Connection::new removes the entry.
KilledByTimer(e) ==
  /\ e.to # "Absent"
  /\ \/ ~Settled(e.to)
     \/ ~Settled(e.from)
     \/ e.to = "NotNeeded" /\ e.from = "NotNeeded"

-----------------------------------------------------------------------------
(* What the event loop runs for one attempt or connection.                  *)

QConn ==
  [peer : Peer \union {NoPeer},   \* remote address; NoPeer: never used
   leaf : BOOLEAN,                \* the select of terminator and connection result
   signal : BOOLEAN,              \* a message waits in the terminator's channel
   open : BOOLEAN,                \* established, and QConn not dropped by us
   driver : BOOLEAN,              \* the spawned ConnectionDriver
   reader : BOOLEAN,              \* the spawned loop over incoming streams
   streams : Nat,                 \* spawned read_to_end of accepted streams
   writes : Msgs]                 \* spawned writes

Unused ==
  [peer |-> NoPeer, leaf |-> FALSE, signal |-> FALSE, open |-> FALSE,
   driver |-> FALSE, reader |-> FALSE, streams |-> 0, writes |-> NoMsgs]

\* connect_to after connect_with: the leaf is spawned
Attempt(p) == [Unused EXCEPT !.peer = p, !.leaf = TRUE]

\* Mutated form: the connection of a duplicate is kept and read from.
AcceptedAndKept(p, isDuplicate) ==
  [Unused EXCEPT !.peer = p, !.driver = TRUE, !.open = TRUE, !.reader = TRUE]

\* handle_new_conn: the driver is spawned before the duplicate is found out
Accepted(p, isDuplicate) ==
  [Unused EXCEPT !.peer = p, !.driver = TRUE, !.open = ~isDuplicate,
                 !.reader = ~isDuplicate]

\* Mutated form: the replaced or drained terminators are dropped unsignalled.
SignalNobody(q, S) == q

\* terminator.try_send(()) to each member of S: lost once the leaf is gone
Signal(q, S) == [c \in Conn |-> [q[c] EXCEPT !.signal = @ \/ (c \in S /\ q[c].leaf)]]

\* Mutated form: dropping an Initiated half does not signal its terminator.
ReleaseWithoutSignal(q, e) ==
  [c \in Conn |-> [q[c] EXCEPT !.open = @ /\ ~Owns(e, c)]]

\* Dropping the entry e: its ToPeer signals the terminator of an attempt that
\* is still running, its QConns close their connections.
Release(q, e) ==
  [c \in Conn |-> [q[c] EXCEPT
      !.signal = @ \/ (e.to = "Initiated" /\ e.toConn = c /\ q[c].leaf),
      !.open = @ /\ ~Owns(e, c)]]

-----------------------------------------------------------------------------
(* Bootstrap groups.  The reference count of a group is not stored: it is   *)
(* the number of entries whose group field names it, and its maker.         *)

GroupState ==
  [used : BOOLEAN,
   success : BOOLEAN,                             \* is_bootstrap_successful_yet
   terminators : [Peer -> Conn \union {NoConn}],
   bootstrapped : Nat,                            \* BootstrappedTo events fired
   failed : BOOLEAN]                              \* BootstrapFailure fired

NoTerminators == [p \in Peer |-> NoConn]

UnusedGroup ==
  [used |-> FALSE, success |-> FALSE, terminators |-> NoTerminators,
   bootstrapped |-> 0, failed |-> FALSE]

\* add_member_and_get_group_ref
AddMember(s, p, c) == [s EXCEPT !.terminators[p] = c]

\* Mutated form: the flag that suppresses the failure event is not set.
TerminateGroupSilently(s) ==
  [s EXCEPT !.terminators = NoTerminators, !.bootstrapped = @ + 1]

\* terminate_group(true), with the BootstrappedTo event that goes with it
TerminateGroup(s) ==
  [s EXCEPT !.success = TRUE, !.terminators = NoTerminators, !.bootstrapped = @ + 1]

\* Mutated form: the failure event is fired only while terminators are left.
DropGroupWithTerminators(s) ==
  [s EXCEPT !.failed = @ \/ (~s.success /\ s.terminators # NoTerminators)]

\* The last reference goes away: BootstrapGroup::drop
DropGroup(s) == [s EXCEPT !.failed = @ \/ ~s.success]

\* A reference held for p goes away; isLast: nobody else holds one.
DropGroupRef(s, p, isLast) ==
  LET r == [s EXCEPT !.terminators[p] = NoConn]
  IN  IF isLast THEN DropGroup(r) ELSE r

-----------------------------------------------------------------------------
(* What the upper layer concludes about a peer from the events it receives. *)

PeerView == {"disconnected", "connected", "confused"}

\* ConnectedTo or BootstrappedTo
SeeConnected(v) == IF v = "disconnected" THEN "connected" ELSE "confused"

\* ConnectionFailure
SeeFailure(v) == IF v = "connected" THEN "disconnected" ELSE "confused"

\* NewMessage
SeeMessage(v) == IF v = "connected" THEN "connected" ELSE "confused"
=============================================================================
