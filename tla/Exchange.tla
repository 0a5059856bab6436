------------------------------ MODULE Exchange ------------------------------
(***************************************************************************)
(* Several instances together: the test that examples/bootstrap_node.rs    *)
(* and examples/client_node.rs run.  Clients connect to a bootstrap node,  *)
(* which waits until enough of them are there and sends everyone the list  *)
(* of contacts.  A client connects to its contacts, sends a large and a    *)
(* small message to each one it is connected to, and is done when it has   *)
(* heard from all of them.                                                 *)
(*                                                                         *)
(* The library is an abstraction written by hand.  What it does is what    *)
(* connect.rs, listener.rs and communicate.rs do as long as no connection  *)
(* fails, and is assumed here, not derived from QuicP2p: a node that one   *)
(* end wants to connect to is reported by one ConnectedTo at either end,   *)
(* in any order; a message comes after ConnectedTo, and messages come in   *)
(* any order, because each has a stream of its own.  A client that panics  *)
(* takes its instance with it.                                             *)
(***************************************************************************)
EXTENDS Naturals, FiniteSets, Sequences

CONSTANTS
  Client,        \* the processes that run client_node
  Boot,          \* the process that runs bootstrap_node
  ExpectedConns, \* expected_conns of BootstrapNodeConfig
  MaxInbox       \* bound on the events that wait in the channel of a client

ASSUME ExchangeAssumption ==
  /\ IsFiniteSet(Client) /\ Boot \notin Client
  /\ ExpectedConns \in Nat \ {0}
  /\ MaxInbox \in Nat \ {0}

Node == Client \union {Boot}

VARIABLES
  phase,         \* per node: where its main function is
  link,          \* link[a][b]: the entry for b in the connection map of a
  net,           \* messages handed to the library and not dispatched yet
  inbox,         \* per node: its channel of events
  connected_peers, contacts,                         \* bootstrap_node
  client_nodes, peer_states, sent_messages, received_messages,   \* client_node
  sentTo, heardFrom,  \* history, per client: whom the two counters stand for
  done                \* per client: it said that all checks passed

bootVars == <<connected_peers, contacts>>
clientVars == <<client_nodes, peer_states, sent_messages, received_messages,
                sentTo, heardFrom, done>>

vars == <<phase, link, net, inbox, bootVars, clientVars>>

UserMsg == {"StartTest", "Large", "Small"}
Message == [kind : UserMsg \union {"EchoReq", "EchoResp"}, from : Node, to : Node]
Event == [event : UserMsg \union {"ConnectedTo"}, peer : Node]

\* Where main is: not started, in our_connection_info(), in the loop over events,
\* or ended by a panic.
Phase == {"off", "asking", "running", "panicked"}
Alive(n) == phase[n] \in {"asking", "running"}

Init ==
  /\ phase = [n \in Node |-> IF n = Boot THEN "running" ELSE "off"]
  /\ link = [a \in Node |-> [b \in Node |-> "none"]]
  /\ net = {}
  /\ inbox = [n \in Node |-> <<>>]
  /\ connected_peers = {}
  /\ contacts = {}     \* the list that was sent; {} until test_triggered
  /\ client_nodes = [c \in Client |-> {}]
  /\ peer_states = [c \in Client |-> {}]   \* those whose small message was received
  /\ sent_messages = [c \in Client |-> 0]
  /\ received_messages = [c \in Client |-> 0]
  /\ sentTo = [c \in Client |-> {}]
  /\ heardFrom = [c \in Client |-> {}]
  /\ done = [c \in Client |-> FALSE]

Msg(kind, a, b) == [kind |-> kind, from |-> a, to |-> b]

Room(n) == n = Boot \/ Len(inbox[n]) < MaxInbox

\* event_tx.send
Tell(n, event, p) ==
  /\ Room(n)
  /\ inbox' = [inbox EXCEPT ![n] = Append(@, [event |-> event, peer |-> p])]

\* connect_to for every peer of S: refused for one that is known already
ConnectTo(a, S) ==
  link' = [link EXCEPT ![a] = [b \in Node |-> IF b \in S /\ @[b] = "none" THEN "trying" ELSE @[b]]]

-----------------------------------------------------------------------------
(* The library.                                                             *)

\* Either end has started to connect, and a has not heard of it yet.  This is all
\* that is left of the handshakes and the two halves of an entry, and it is assumed.
CanComplete(a, b) ==
  /\ Alive(a) /\ Alive(b)
  /\ link[a][b] # "up"
  /\ link[a][b] = "trying" \/ link[b][a] # "none"

\* Both halves of the entry for b are established.
Complete(a, b) ==
  /\ CanComplete(a, b)
  /\ link' = [link EXCEPT ![a][b] = "up"]
  /\ Tell(a, "ConnectedTo", b)
  /\ UNCHANGED <<phase, net, bootVars, clientVars>>

Dispatchable(m) == m \in net /\ Alive(m.to) /\ link[m.to][m.from] = "up"

AnswerEcho(m) ==
  /\ m.kind = "EchoReq" /\ Dispatchable(m)
  /\ net' = (net \ {m}) \union {Msg("EchoResp", m.to, m.from)}
  /\ UNCHANGED <<phase, link, inbox, bootVars, clientVars>>

\* our_connection_info() returns.  The dummy send that follows (client_node.rs:118) is
\* left out: the connection is there already, and the bootstrap node only logs it.
EchoAnswered(m) ==
  /\ m.kind = "EchoResp" /\ Dispatchable(m)
  /\ net' = net \ {m}
  /\ phase' = [phase EXCEPT ![m.to] = "running"]
  /\ UNCHANGED <<link, inbox, bootVars, clientVars>>

\* A message for the application drops the Sender that our_connection_info() waits
\* for, and its unwrap! ends the process.
UserMessage(m) ==
  /\ m.kind \in UserMsg /\ Dispatchable(m)
  /\ net' = net \ {m}
  /\ phase' = [phase EXCEPT ![m.to] = IF @ = "asking" THEN "panicked" ELSE @]
  /\ Tell(m.to, m.kind, m.from)
  /\ UNCHANGED <<link, bootVars, clientVars>>

-----------------------------------------------------------------------------
(* bootstrap_node: the loop over events.  Other events are only logged.     *)

\* Mutated form: the test waits for one more connection than expected.
EnoughAndOneMore(S) == Cardinality(S) > ExpectedConns

Enough(S) == Cardinality(S) = ExpectedConns

BootOnConnect ==
  /\ inbox[Boot] # <<>>
  /\ inbox' = [inbox EXCEPT ![Boot] = Tail(@)]
  /\ LET S == connected_peers \union {Head(inbox[Boot]).peer}
     IN  /\ connected_peers' = S
         /\ IF Enough(S) /\ contacts = {}
              THEN /\ contacts' = S
                   /\ net' = net \union {Msg("StartTest", Boot, c) : c \in S}
              ELSE UNCHANGED <<contacts, net>>
  /\ UNCHANGED <<phase, link, clientVars>>

-----------------------------------------------------------------------------
(* client_node.                                                             *)

\* ClientNode::new asks for the address, through the bootstrap node.
Start(c) ==
  /\ phase[c] = "off"
  /\ phase' = [phase EXCEPT ![c] = "asking"]
  /\ ConnectTo(c, {Boot})
  /\ net' = net \union {Msg("EchoReq", c, Boot)}
  /\ UNCHANGED <<inbox, bootVars, clientVars>>

\* The next event of c, which is the kind e of event about p.
NextEvent(c, e, p) ==
  /\ phase[c] = "running"
  /\ inbox[c] # <<>>
  /\ Head(inbox[c]) = [event |-> e, peer |-> p]
  /\ inbox' = [inbox EXCEPT ![c] = Tail(@)]

OnConnect(c, p) ==
  /\ NextEvent(c, "ConnectedTo", p)
  /\ IF p \in client_nodes[c]
       THEN /\ net' = net \union {Msg("Large", c, p), Msg("Small", c, p)}
            /\ sent_messages' = [sent_messages EXCEPT ![c] = @ + 1]
            /\ sentTo' = [sentTo EXCEPT ![c] = @ \union {p}]
       ELSE UNCHANGED <<net, sent_messages, sentTo>>
  /\ UNCHANGED <<phase, link, bootVars, client_nodes, peer_states, received_messages,
                 heardFrom, done>>

\* Mutated form: our own entry of the list is not skipped.
ContactsAndUs(c) == contacts

\* connect_to_peers: everybody but us
ContactsOf(c) == contacts \ {c}

\* Mutated form: the client asks for its address when it needs it, which is now.
OnStartTestAsking(c) ==
  /\ NextEvent(c, "StartTest", Boot)
  /\ phase' = [phase EXCEPT ![c] = "asking"]
  /\ net' = net \union {Msg("EchoReq", c, Boot)}
  /\ ConnectTo(c, ContactsOf(c))
  /\ client_nodes' = [client_nodes EXCEPT ![c] = @ \union ContactsOf(c)]
  /\ UNCHANGED <<bootVars, peer_states, sent_messages, received_messages, sentTo, heardFrom, done>>

OnStartTest(c) ==
  /\ NextEvent(c, "StartTest", Boot)
  /\ ConnectTo(c, ContactsOf(c))
  /\ client_nodes' = [client_nodes EXCEPT ![c] = @ \union ContactsOf(c)]
  /\ UNCHANGED <<phase, net, bootVars, peer_states, sent_messages, received_messages,
                 sentTo, heardFrom, done>>

OnSmall(c, p) ==
  /\ NextEvent(c, "Small", p)
  /\ peer_states' = [peer_states EXCEPT ![c] = @ \union {p}]
  /\ UNCHANGED <<phase, link, net, bootVars, client_nodes, sent_messages, received_messages,
                 sentTo, heardFrom, done>>

\* Mutated form: a large message counts whatever came before it.
CountsAlways(c, p) == TRUE

\* A large message before the small one is an error and is not counted.
Counts(c, p) == p \in peer_states[c]

OnLarge(c, p) ==
  /\ NextEvent(c, "Large", p)
  /\ IF Counts(c, p)
       THEN /\ received_messages' = [received_messages EXCEPT ![c] = @ + 1]
            /\ heardFrom' = [heardFrom EXCEPT ![c] = @ \union {p}]
            /\ done' = [done EXCEPT ![c] =
                 @ \/ /\ received_messages[c] + 1 = Cardinality(client_nodes[c])
                      /\ sent_messages[c] = Cardinality(client_nodes[c])]
       ELSE UNCHANGED <<received_messages, heardFrom, done>>
  /\ UNCHANGED <<phase, link, net, bootVars, client_nodes, peer_states, sent_messages, sentTo>>

-----------------------------------------------------------------------------
Next ==
  \/ \E a, b \in Node : a # b /\ Complete(a, b)
  \/ \E m \in net : AnswerEcho(m) \/ EchoAnswered(m) \/ UserMessage(m)
  \/ BootOnConnect
  \/ \E c \in Client : Start(c) \/ OnStartTest(c)
  \/ \E c \in Client, p \in Node : OnConnect(c, p)
  \/ \E c, p \in Client : OnSmall(c, p) \/ OnLarge(c, p)

Spec == Init /\ [][Next]_vars

\* The network and the processes go on while there is something left to do.
FairSpec == Spec /\ WF_vars(Next)

-----------------------------------------------------------------------------
TypeOK ==
  /\ phase \in [Node -> Phase]
  /\ link \in [Node -> [Node -> {"none", "trying", "up"}]]
  /\ net \subseteq Message
  /\ inbox \in [Node -> Seq(Event)]
  /\ connected_peers \subseteq Client
  /\ contacts \subseteq connected_peers
  /\ client_nodes \in [Client -> SUBSET Client] /\ \A c \in Client : c \notin client_nodes[c]
  /\ peer_states \in [Client -> SUBSET Client]
  /\ sent_messages \in [Client -> Nat] /\ received_messages \in [Client -> Nat]
  /\ sentTo \in [Client -> SUBSET Client] /\ heardFrom \in [Client -> SUBSET Client]
  /\ done \in [Client -> BOOLEAN]

\* "Done. All checks passed" (client_node.rs:180) is true: the client exchanged both
\* messages with every contact it was given, once with each, although all it compares
\* is two counters with the number of the contacts.
DoneIsTrue ==
  \A c \in Client : done[c] =>
    /\ client_nodes[c] = contacts \ {c}
    /\ sentTo[c] = client_nodes[c] /\ sent_messages[c] = Cardinality(sentTo[c])
    /\ heardFrom[c] = client_nodes[c] /\ received_messages[c] = Cardinality(heardFrom[c])
    /\ \A d \in client_nodes[c] : c \in sentTo[d] /\ d \in peer_states[c]

\* Nothing is left to do: every client was started, connections that were wanted are
\* there, messages were delivered and events handled, as far as a client that is not
\* alive and a full channel allow.
Quiescent ==
  /\ \A c \in Client : phase[c] # "off"
  /\ \A a, b \in Node : a # b /\ CanComplete(a, b) => ~Room(a)
  /\ \A m \in net : Dispatchable(m) => m.kind \in UserMsg /\ ~Room(m.to)
  /\ inbox[Boot] = <<>>
  /\ \A c \in Client : phase[c] = "running" => inbox[c] = <<>>

\* When nothing is left to do the list was sent, and of two contacts at least one has
\* sent to the other, unless one of them panicked.  A client connected to before it
\* has the list stays silent (client_node.rs:143) and can rely on the other, which
\* has it.
PairsExchange ==
  Quiescent =>
    /\ contacts # {}
    /\ \A c, d \in contacts : c # d =>
         "panicked" \in {phase[c], phase[d]} \/ d \in sentTo[c] \/ c \in sentTo[d]

\* The loss of a client is not hidden by the counters of the others.  A client whose
\* Sender is dropped while it waits in our_connection_info() (client_node.rs:94) was on
\* the list already and took no part, and no client says that all checks passed, neither
\* before nor after it.
PanicShows ==
  \A c \in Client : phase[c] = "panicked" =>
    /\ c \in contacts
    /\ client_nodes[c] = {} /\ sentTo[c] = {}
    /\ \A d \in Client : ~done[d]

\* What the help of client_node says: it exchanges data with all other clients.
EverybodyIsDone == <>(\A c \in Client : done[c])
=============================================================================
