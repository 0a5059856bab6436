--------------------------- MODULE ExchangeProofs ---------------------------
(***************************************************************************)
(* The test of the examples, for any number of clients, any number of      *)
(* expected connections and channels of any capacity.                      *)
(***************************************************************************)
EXTENDS Exchange, FiniteSetTheorems, TLAPS

\* The event e about p.
Ev(e, p) == [event |-> e, peer |-> p]

\* The event e waits at most once in the channel q.
Once(q, e) == \A i, j \in DOMAIN q : q[i] = e /\ q[j] = e => i = j

\* Only clients are told about, and connect to, the bootstrap node; they get their
\* lists from it, and there is one list.
ListInv ==
  /\ \A e \in Range(inbox[Boot]) : e.peer \in Client
  /\ \A m \in net : m.kind \in UserMsg => m.to \in Client
  /\ \A m \in net : m.kind = "StartTest" => m.to \in contacts
  /\ \A c \in Client : Ev("StartTest", Boot) \in Range(inbox[c]) => c \in contacts
  /\ \A c \in Client : client_nodes[c] # {} =>
       c \in contacts /\ client_nodes[c] = contacts \ {c}

\* A client is told at most once that it is connected to a peer, and sends to a
\* contact only then: sent_messages counts each of sentTo once.
SentInv ==
  \A c \in Client :
    /\ sentTo[c] \subseteq client_nodes[c]
    /\ sent_messages[c] = Cardinality(sentTo[c])
    /\ \A p \in Node :
         /\ Once(inbox[c], Ev("ConnectedTo", p))
         /\ Ev("ConnectedTo", p) \in Range(inbox[c]) => link[c][p] = "up" /\ p \notin sentTo[c]
         /\ p \in sentTo[c] => link[c][p] = "up"

\* The large message of d for c is in the network, in the channel of c or counted,
\* and in one of these only: received_messages counts each of heardFrom once.
HeardInv ==
  /\ \A m \in net : m.kind = "Large" => m.from \in Client /\ m.to \in sentTo[m.from]
  /\ \A c \in Client :
       /\ received_messages[c] = Cardinality(heardFrom[c])
       /\ heardFrom[c] \subseteq peer_states[c]
       /\ \A p \in Node :
            /\ Once(inbox[c], Ev("Large", p))
            /\ Ev("Large", p) \in Range(inbox[c]) =>
                 p \in Client /\ c \in sentTo[p] /\ Msg("Large", p, c) \notin net /\ p \notin heardFrom[c]
            /\ p \in heardFrom[c] => c \in sentTo[p] /\ Msg("Large", p, c) \notin net

\* A client that is done has sent to, and heard from, all of its contacts.
DoneInv ==
  \A c \in Client : done[c] =>
    client_nodes[c] # {} /\ sentTo[c] = client_nodes[c] /\ heardFrom[c] = client_nodes[c]

ExchangeInv == TypeOK /\ ListInv /\ SentInv /\ HeardInv /\ DoneInv

\* The bootstrap node runs.  A client that asks has a question or an answer under way,
\* and nothing for the application waits for it; it panics only once there is a list.
AskInv ==
  /\ phase[Boot] = "running"
  /\ \A m \in net : m.kind = "EchoReq" => m.from \in Client
  /\ \A m \in net : m.kind = "EchoResp" => m.to \in Client
  /\ \A c \in Client :
       /\ link[c][c] # "up"
       /\ phase[c] # "off" => link[c][Boot] # "none"
       /\ phase[c] = "asking" =>
            Msg("EchoReq", c, Boot) \in net \/ Msg("EchoResp", Boot, c) \in net
       /\ phase[c] \in {"off", "asking"} =>
            client_nodes[c] = {} /\ \A e \in Range(inbox[c]) : e.event = "ConnectedTo"
       /\ phase[c] = "panicked" => contacts # {}

\* The bootstrap node counts, or is about to count, everyone it is connected to; it
\* has not counted enough of them before it sends the list.
CollectInv ==
  /\ \A c \in Client : link[Boot][c] = "up" =>
       c \in connected_peers \/ Ev("ConnectedTo", c) \in Range(inbox[Boot])
  /\ contacts = {} =>
       /\ Cardinality(connected_peers) < ExpectedConns
       /\ \A m \in net : m.kind \notin UserMsg

\* The list is on its way to every contact, or there, unless the contact panicked.
HasListInv ==
  \A c \in contacts :
    \/ phase[c] = "panicked"
    \/ Msg("StartTest", Boot, c) \in net
    \/ Ev("StartTest", Boot) \in Range(inbox[c])
    \/ client_nodes[c] = contacts \ {c}

\* c has d on its list and has sent to it, or will when it hears of the connection.
Sends(c, d) ==
  /\ d \in client_nodes[c]
  /\ link[c][d] = "up" => Ev("ConnectedTo", d) \in Range(inbox[c]) \/ d \in sentTo[c]

\* Of two clients that are, or will be, connected, one sends to the other: the one
\* whose list made it connect.
PairInv ==
  /\ \A c \in Client : \A d \in client_nodes[c] : link[c][d] # "none"
  /\ \A c, d \in Client : c # d /\ link[c][d] # "none" => Sends(c, d) \/ Sends(d, c)

TestInv == AskInv /\ CollectInv /\ HasListInv /\ PairInv

-----------------------------------------------------------------------------
(* Events, messages and channels.                                           *)

\* An event is determined by its kind and its peer.
LEMMA EventFacts ==
  /\ \A e, f, p, r : Ev(e, p) = Ev(f, r) => e = f /\ p = r
  /\ \A e \in UserMsg \union {"ConnectedTo"}, p \in Node : Ev(e, p) \in Event
  BY DEF Ev, Event

\* The event about p.
LEMMA EventPeer == ASSUME NEW e, NEW p PROVE Ev(e, p).peer = p
  BY DEF Ev

\* A message is determined by its three parts.
LEMMA MessageFacts ==
  \A m \in Message : m = Msg(m.kind, m.from, m.to) /\ m.from \in Node /\ m.to \in Node
  BY DEF Msg, Message

\* Sequences as the provers know them.
LEMMA SequenceFacts ==
  ASSUME NEW S, NEW q \in Seq(S)
  PROVE  /\ Len(q) \in Nat /\ DOMAIN q = 1..Len(q)
         /\ \A i \in 1..Len(q) : q[i] \in S
         /\ q # <<>> => Len(q) \in Nat \ {0}
  OBVIOUS

\* What Append returns.
LEMMA AppendFacts ==
  ASSUME NEW S, NEW q \in Seq(S), NEW e \in S
  PROVE  /\ Append(q, e) \in Seq(S) /\ Len(Append(q, e)) = Len(q) + 1
         /\ \A i \in 1..Len(q) : Append(q, e)[i] = q[i]
         /\ Append(q, e)[Len(q) + 1] = e
  OBVIOUS

\* What Head and Tail return.
LEMMA TailFacts ==
  ASSUME NEW S, NEW q \in Seq(S), q # <<>>
  PROVE  /\ Head(q) \in S /\ Tail(q) \in Seq(S) /\ Len(Tail(q)) = Len(q) - 1
         /\ \A i \in 1..Len(Tail(q)) : Tail(q)[i] = q[i + 1]
  OBVIOUS

\* The empty sequence.
LEMMA EmptyFacts == ASSUME NEW S PROVE <<>> \in Seq(S) /\ Len(<<>>) = 0
  OBVIOUS

\* What is sent to a channel, and what is taken from it.
LEMMA ChannelFacts ==
  ASSUME NEW E, NEW q \in Seq(E)
  PROVE  /\ \A e \in E :
              /\ Append(q, e) \in Seq(E)
              /\ Range(Append(q, e)) = Range(q) \union {e}
              /\ \A x : Once(q, x) /\ (x # e \/ x \notin Range(q)) => Once(Append(q, e), x)
         /\ q # <<>> =>
              /\ Tail(q) \in Seq(E) /\ Head(q) \in E
              /\ Head(q) \in Range(q) /\ Range(Tail(q)) \subseteq Range(q)
              /\ \A x : Once(q, x) => Once(Tail(q), x)
              /\ Once(q, Head(q)) => Head(q) \notin Range(Tail(q))
<1>1. Len(q) \in Nat /\ DOMAIN q = 1..Len(q)
  BY SequenceFacts
<1>2. ASSUME NEW e \in E
      PROVE  /\ Append(q, e) \in Seq(E)
             /\ Range(Append(q, e)) = Range(q) \union {e}
             /\ \A x : Once(q, x) /\ (x # e \/ x \notin Range(q)) => Once(Append(q, e), x)
  <2> DEFINE t == Append(q, e)
  <2>1. /\ t \in Seq(E) /\ Len(t) = Len(q) + 1
        /\ \A i \in 1..Len(q) : t[i] = q[i]
        /\ t[Len(q) + 1] = e
    BY AppendFacts
  <2> HIDE DEF t
  <2>2. DOMAIN t = DOMAIN q \union {Len(q) + 1}
    <3>1. DOMAIN t = 1..(Len(q) + 1)
      BY <2>1, SequenceFacts
    <3> QED BY <1>1, <3>1
  <2>3. (\A i \in DOMAIN q : t[i] = q[i]) /\ t[Len(q) + 1] = e
    BY Zenon, <1>1, <2>1
  <2>4. Range(t) = Range(q) \union {e}
    BY <2>2, <2>3 DEF Range
  <2>5. ASSUME NEW x, Once(q, x), x # e \/ x \notin Range(q) PROVE Once(t, x)
    <3> SUFFICES ASSUME NEW i \in DOMAIN t, NEW j \in DOMAIN t, t[i] = x, t[j] = x
                 PROVE  i = j
      BY Zenon DEF Once
    <3>1. CASE i \in DOMAIN q /\ j \in DOMAIN q
      BY Zenon, <2>3, <2>5, <3>1 DEF Once
    <3>2. CASE i \in DOMAIN q /\ j = Len(q) + 1
      BY Zenon, <2>3, <2>5, <3>2 DEF Range
    <3>3. CASE i = Len(q) + 1 /\ j \in DOMAIN q
      BY Zenon, <2>3, <2>5, <3>3 DEF Range
    <3> QED BY Zenon, <2>2, <3>1, <3>2, <3>3
  <2> QED BY Zenon, <2>1, <2>4, <2>5 DEF t
<1>3. ASSUME q # <<>>
      PROVE  /\ Tail(q) \in Seq(E) /\ Head(q) \in E
             /\ Head(q) \in Range(q) /\ Range(Tail(q)) \subseteq Range(q)
             /\ \A x : Once(q, x) => Once(Tail(q), x)
             /\ Once(q, Head(q)) => Head(q) \notin Range(Tail(q))
  <2> DEFINE t == Tail(q)
  <2>1. /\ t \in Seq(E) /\ Head(q) \in E /\ Len(t) = Len(q) - 1
        /\ \A i \in 1..Len(t) : t[i] = q[i + 1]
    BY <1>3, TailFacts
  <2>2. Head(q) = q[1] /\ 1 \in DOMAIN q
    BY <1>1, <1>3, EmptyFacts, SequenceFacts
  <2> HIDE DEF t
  <2>3. DOMAIN t = 1..Len(t)
    BY <2>1, SequenceFacts
  <2>4. \A i \in DOMAIN t : i + 1 \in DOMAIN q /\ i + 1 # 1 /\ i \in Int
    BY <1>1, <2>1, <2>3
  <2>5. \A i \in DOMAIN t : t[i] = q[i + 1]
    BY Zenon, <2>1, <2>3
  <2>6. Head(q) \in Range(q) /\ Range(t) \subseteq Range(q)
    BY ZenonT(30), <2>2, <2>4, <2>5 DEF Range
  <2>7. ASSUME NEW x, Once(q, x) PROVE Once(t, x)
    <3> SUFFICES ASSUME NEW i \in DOMAIN t, NEW j \in DOMAIN t, t[i] = x, t[j] = x
                 PROVE  i = j
      BY Zenon DEF Once
    <3>1. i + 1 = j + 1
      BY Zenon, <2>4, <2>5, <2>7 DEF Once
    <3>2. i \in Int /\ j \in Int
      BY Zenon, <2>4
    <3> QED BY <3>1, <3>2
  <2>8. ASSUME Once(q, Head(q)) PROVE Head(q) \notin Range(t)
    <3> SUFFICES ASSUME NEW i \in DOMAIN t, t[i] = Head(q) PROVE FALSE
      BY Zenon DEF Range
    <3>1. i + 1 \in DOMAIN q /\ i + 1 # 1 /\ q[i + 1] = Head(q)
      BY Zenon, <2>4, <2>5
    <3> QED BY Zenon, <2>2, <2>8, <3>1 DEF Once
  <2> QED BY Zenon, <2>1, <2>6, <2>7, <2>8 DEF t
<1> QED BY Zenon, <1>2, <1>3

\* The step puts the event e into the channel of n.
Added(n, e) == inbox' = [inbox EXCEPT ![n] = Append(@, e)]

\* The step takes the next event from the channel of n.
Taken(n) == inbox[n] # <<>> /\ inbox' = [inbox EXCEPT ![n] = Tail(@)]

\* The step brings no event of kind e to a client.
NoNew(e) ==
  \A c \in Client, p \in Node :
    /\ Ev(e, p) \in Range(inbox'[c]) => Ev(e, p) \in Range(inbox[c])
    /\ Once(inbox[c], Ev(e, p)) => Once(inbox'[c], Ev(e, p))

\* A step that puts an event into a channel, spelled out.
LEMMA AddedFacts ==
  ASSUME TypeOK, NEW n \in Node, NEW e \in Event, Added(n, e)
  PROVE  /\ inbox' \in [Node -> Seq(Event)]
         /\ Range(inbox'[n]) = Range(inbox[n]) \union {e}
         /\ \A x : Once(inbox[n], x) /\ (x # e \/ x \notin Range(inbox[n])) => Once(inbox'[n], x)
         /\ \A m \in Node : m # n => inbox'[m] = inbox[m]
<1>1. inbox \in [Node -> Seq(Event)] /\ inbox[n] \in Seq(Event)
  BY Zenon DEF TypeOK
<1>2. /\ Append(inbox[n], e) \in Seq(Event)
      /\ Range(Append(inbox[n], e)) = Range(inbox[n]) \union {e}
      /\ \A x : Once(inbox[n], x) /\ (x # e \/ x \notin Range(inbox[n]))
                  => Once(Append(inbox[n], e), x)
  BY Zenon, <1>1, ChannelFacts
<1>3. inbox'[n] = Append(inbox[n], e) /\ \A m \in Node : m # n => inbox'[m] = inbox[m]
  BY <1>1 DEF Added
<1>4. inbox' \in [Node -> Seq(Event)]
  BY <1>1, <1>2 DEF Added
<1> QED BY Zenon, <1>2, <1>3, <1>4

\* A step that takes an event from a channel, spelled out.
LEMMA TakenFacts ==
  ASSUME TypeOK, NEW n \in Node, Taken(n)
  PROVE  /\ inbox' \in [Node -> Seq(Event)]
         /\ Head(inbox[n]) \in Event /\ Head(inbox[n]) \in Range(inbox[n])
         /\ Range(inbox'[n]) \subseteq Range(inbox[n])
         /\ \A x : Once(inbox[n], x) => Once(inbox'[n], x)
         /\ Once(inbox[n], Head(inbox[n])) => Head(inbox[n]) \notin Range(inbox'[n])
         /\ \A m \in Node : m # n => inbox'[m] = inbox[m]
<1>1. inbox \in [Node -> Seq(Event)] /\ inbox[n] \in Seq(Event) /\ inbox[n] # <<>>
  BY Zenon DEF TypeOK, Taken
<1>2. /\ Tail(inbox[n]) \in Seq(Event) /\ Head(inbox[n]) \in Event
      /\ Head(inbox[n]) \in Range(inbox[n]) /\ Range(Tail(inbox[n])) \subseteq Range(inbox[n])
      /\ \A x : Once(inbox[n], x) => Once(Tail(inbox[n]), x)
      /\ Once(inbox[n], Head(inbox[n])) => Head(inbox[n]) \notin Range(Tail(inbox[n]))
  BY Zenon, <1>1, ChannelFacts
<1>3. inbox'[n] = Tail(inbox[n]) /\ \A m \in Node : m # n => inbox'[m] = inbox[m]
  BY <1>1 DEF Taken
<1>4. inbox' \in [Node -> Seq(Event)]
  BY <1>1, <1>2 DEF Taken
<1> QED BY Zenon, <1>2, <1>3, <1>4

\* Which steps bring no event of kind e.
LEMMA NoNewFacts ==
  ASSUME TypeOK, NEW e
  PROVE  /\ UNCHANGED inbox => NoNew(e)
         /\ \A n \in Node : Taken(n) => NoNew(e)
         /\ \A n \in Node, p \in Node : \A f :
              Ev(f, p) \in Event /\ f # e /\ Added(n, Ev(f, p)) => NoNew(e)
         /\ \A x \in Event : Added(Boot, x) => NoNew(e)
<1>1. UNCHANGED inbox => NoNew(e)
  BY Zenon DEF NoNew
<1>2. ASSUME NEW n \in Node, Taken(n) PROVE NoNew(e)
  <2> SUFFICES ASSUME NEW c \in Client, NEW p \in Node
               PROVE  /\ Ev(e, p) \in Range(inbox'[c]) => Ev(e, p) \in Range(inbox[c])
                      /\ Once(inbox[c], Ev(e, p)) => Once(inbox'[c], Ev(e, p))
    BY Zenon DEF NoNew
  <2>1. c \in Node
    BY Zenon DEF Node
  <2>2. CASE c = n
    <3>1. /\ Range(inbox'[n]) \subseteq Range(inbox[n])
          /\ \A x : Once(inbox[n], x) => Once(inbox'[n], x)
      BY Zenon, <1>2, TakenFacts
    <3> QED BY Zenon, <2>2, <3>1
  <2>3. CASE c # n
    <3>1. inbox'[c] = inbox[c]
      BY Zenon, <1>2, <2>1, <2>3, TakenFacts
    <3> QED BY Zenon, <3>1
  <2> QED BY Zenon, <2>2, <2>3
<1>3. ASSUME NEW n \in Node, NEW r \in Node, NEW f, Ev(f, r) \in Event, f # e, Added(n, Ev(f, r))
      PROVE  NoNew(e)
  <2> SUFFICES ASSUME NEW c \in Client, NEW p \in Node
               PROVE  /\ Ev(e, p) \in Range(inbox'[c]) => Ev(e, p) \in Range(inbox[c])
                      /\ Once(inbox[c], Ev(e, p)) => Once(inbox'[c], Ev(e, p))
    BY Zenon DEF NoNew
  <2>1. c \in Node /\ Ev(e, p) # Ev(f, r)
    BY Zenon, <1>3, EventFacts DEF Node
  <2>2. CASE c = n
    <3>1. /\ Range(inbox'[n]) = Range(inbox[n]) \union {Ev(f, r)}
          /\ \A x : Once(inbox[n], x) /\ (x # Ev(f, r) \/ x \notin Range(inbox[n]))
                      => Once(inbox'[n], x)
      BY Zenon, <1>3, AddedFacts
    <3> QED BY Zenon, <2>1, <2>2, <3>1
  <2>3. CASE c # n
    <3>1. inbox'[c] = inbox[c]
      BY Zenon, <1>3, <2>1, <2>3, AddedFacts
    <3> QED BY Zenon, <3>1
  <2> QED BY Zenon, <2>2, <2>3
<1>4. ASSUME NEW x \in Event, Added(Boot, x) PROVE NoNew(e)
  <2>1. Boot \in Node /\ \A c \in Client : c \in Node /\ c # Boot
    BY Zenon, ExchangeAssumption DEF Node
  <2>2. \A c \in Client : inbox'[c] = inbox[c]
    BY Zenon, <1>4, <2>1, AddedFacts
  <2> QED BY Zenon, <2>2 DEF NoNew
<1> QED BY Zenon, <1>1, <1>2, <1>3, <1>4

-----------------------------------------------------------------------------
(* What keeps each part of the invariant.                                   *)

\* Lists only grow, connections stay and nobody is told of a new one.
LEMMA SentInvFrame ==
  ASSUME SentInv, NoNew("ConnectedTo"),
         sentTo' = sentTo, sent_messages' = sent_messages,
         \A c \in Client : client_nodes[c] \subseteq client_nodes'[c],
         \A c \in Client, p \in Node : link[c][p] = "up" => link'[c][p] = "up"
  PROVE  SentInv'
<1> SUFFICES ASSUME NEW c \in Client
             PROVE  /\ sentTo'[c] \subseteq client_nodes'[c]
                    /\ sent_messages'[c] = Cardinality(sentTo'[c])
                    /\ \A p \in Node :
                         /\ Once(inbox'[c], Ev("ConnectedTo", p))
                         /\ Ev("ConnectedTo", p) \in Range(inbox'[c]) =>
                              link'[c][p] = "up" /\ p \notin sentTo'[c]
                         /\ p \in sentTo'[c] => link'[c][p] = "up"
  BY Zenon DEF SentInv
<1>1. sentTo'[c] \subseteq client_nodes'[c] /\ sent_messages'[c] = Cardinality(sentTo'[c])
  BY Zenon DEF SentInv
<1>2. ASSUME NEW p \in Node
      PROVE  /\ Once(inbox'[c], Ev("ConnectedTo", p))
             /\ Ev("ConnectedTo", p) \in Range(inbox'[c]) =>
                  link'[c][p] = "up" /\ p \notin sentTo'[c]
             /\ p \in sentTo'[c] => link'[c][p] = "up"
  BY Zenon DEF SentInv, NoNew
<1> QED BY Zenon, <1>1, <1>2

\* No large message is new, in the network or in a channel, and none is counted.
LEMMA HeardInvFrame ==
  ASSUME HeardInv, NoNew("Large"),
         sentTo' = sentTo, received_messages' = received_messages, heardFrom' = heardFrom,
         \A c \in Client : peer_states[c] \subseteq peer_states'[c],
         \A m \in net' : m.kind = "Large" => m \in net
  PROVE  HeardInv'
<1>1. \A m \in net' : m.kind = "Large" => m.from \in Client /\ m.to \in sentTo'[m.from]
  BY Zenon DEF HeardInv
<1>2. ASSUME NEW c \in Client
      PROVE  /\ received_messages'[c] = Cardinality(heardFrom'[c])
             /\ heardFrom'[c] \subseteq peer_states'[c]
  BY Zenon DEF HeardInv
<1>3. ASSUME NEW c \in Client, NEW p \in Node
      PROVE  /\ Once(inbox'[c], Ev("Large", p))
             /\ Ev("Large", p) \in Range(inbox'[c]) =>
                  /\ p \in Client /\ c \in sentTo'[p]
                  /\ Msg("Large", p, c) \notin net' /\ p \notin heardFrom'[c]
             /\ p \in heardFrom'[c] => c \in sentTo'[p] /\ Msg("Large", p, c) \notin net'
  <2>1. Msg("Large", p, c) \in net' => Msg("Large", p, c) \in net
    <3>1. Msg("Large", p, c).kind = "Large"
      BY DEF Msg
    <3> QED BY Zenon, <3>1
  <2> QED BY Zenon, <2>1 DEF HeardInv, NoNew
<1> QED BY Zenon, <1>1, <1>2, <1>3 DEF HeardInv

\* The list is the same, and no message of the application is new.
LEMMA ListInvFrame ==
  ASSUME ListInv, NoNew("StartTest"), contacts' = contacts, client_nodes' = client_nodes,
         \A e \in Range(inbox'[Boot]) : e \in Range(inbox[Boot]) \/ e.peer \in Client,
         \A m \in net' : m.kind \in UserMsg => m \in net \/ (m.to \in Client /\ m.kind # "StartTest")
  PROVE  ListInv'
<1>1. \A e \in Range(inbox'[Boot]) : e.peer \in Client
  BY Zenon DEF ListInv
<1>2. \A m \in net' : m.kind \in UserMsg => m.to \in Client
  BY Zenon DEF ListInv
<1>3. \A m \in net' : m.kind = "StartTest" => m.to \in contacts'
  BY Zenon DEF ListInv, UserMsg
<1>4. ASSUME NEW c \in Client, Ev("StartTest", Boot) \in Range(inbox'[c]) PROVE c \in contacts'
  <2>1. Boot \in Node
    BY Zenon DEF Node
  <2> QED BY Zenon, <1>4, <2>1 DEF ListInv, NoNew
<1>5. \A c \in Client : client_nodes'[c] # {} =>
        c \in contacts' /\ client_nodes'[c] = contacts' \ {c}
  BY Zenon DEF ListInv
<1> QED BY Zenon, <1>1, <1>2, <1>3, <1>4, <1>5 DEF ListInv

\* What the library knows of its peers and what it tells does not matter here.
LEMMA DoneInvFrame ==
  ASSUME DoneInv, done' = done, client_nodes' = client_nodes, sentTo' = sentTo,
         heardFrom' = heardFrom
  PROVE  DoneInv'
  BY Zenon DEF DoneInv

\* The peers that a client is connected to are those of its list.
LEMMA ConnectToFacts ==
  ASSUME TypeOK, NEW a \in Node, NEW S, ConnectTo(a, S)
  PROVE  /\ link' \in [Node -> [Node -> {"none", "trying", "up"}]]
         /\ \A c, p \in Node : link[c][p] = "up" => link'[c][p] = "up"
<1>1. link \in [Node -> [Node -> {"none", "trying", "up"}]]
  BY Zenon DEF TypeOK
<1> QED BY <1>1 DEF ConnectTo

-----------------------------------------------------------------------------
(* The steps of the library.                                                *)

\* A connection completes once, and is told once.
LEMMA CompleteKeeps ==
  ASSUME ExchangeInv, NEW a \in Node, NEW b \in Node, a # b, Complete(a, b)
  PROVE  ExchangeInv'
<1>1. /\ TypeOK /\ ListInv /\ SentInv /\ HeardInv /\ DoneInv
  BY Zenon DEF ExchangeInv
<1>2. /\ Added(a, Ev("ConnectedTo", b)) /\ link[a][b] # "up"
      /\ link' = [link EXCEPT ![a][b] = "up"]
      /\ UNCHANGED <<phase, net, bootVars, clientVars>>
  BY Zenon DEF Complete, CanComplete, Tell, Added, Ev
<1>3. Ev("ConnectedTo", b) \in Event /\ Boot \in Node /\ Client \subseteq Node /\ Boot \notin Client
  BY Zenon, EventFacts, ExchangeAssumption DEF Node
<1>4. /\ inbox' \in [Node -> Seq(Event)]
      /\ Range(inbox'[a]) = Range(inbox[a]) \union {Ev("ConnectedTo", b)}
      /\ \A x : Once(inbox[a], x) /\ (x # Ev("ConnectedTo", b) \/ x \notin Range(inbox[a]))
                  => Once(inbox'[a], x)
      /\ \A m \in Node : m # a => inbox'[m] = inbox[m]
  BY Zenon, <1>1, <1>2, <1>3, AddedFacts
<1>5. /\ link' \in [Node -> [Node -> {"none", "trying", "up"}]]
      /\ \A c, p \in Node : c # a \/ p # b => link'[c][p] = link[c][p]
      /\ link'[a][b] = "up"
  <2>1. link \in [Node -> [Node -> {"none", "trying", "up"}]]
    BY Zenon, <1>1 DEF TypeOK
  <2> QED BY <1>2, <2>1
<1>6. TypeOK'
  BY Zenon, <1>1, <1>2, <1>4, <1>5 DEF TypeOK, bootVars, clientVars
<1>7. NoNew("StartTest") /\ NoNew("Large")
  BY Zenon, <1>1, <1>2, <1>3, NoNewFacts
<1>8. ListInv'
  <2>1. \A e \in Range(inbox'[Boot]) : e \in Range(inbox[Boot]) \/ e.peer \in Client
    <3>1. CASE a = Boot
      <4>1. b \in Client
        BY Zenon, <3>1 DEF Node
      <4>2. Ev("ConnectedTo", b).peer = b
        BY Zenon, EventPeer
      <4> QED BY Zenon, <1>4, <3>1, <4>1, <4>2
    <3>2. CASE a # Boot
      BY Zenon, <1>3, <1>4, <3>2
    <3> QED BY Zenon, <3>1, <3>2
  <2>2. net' = net /\ contacts' = contacts /\ client_nodes' = client_nodes
    BY Zenon, <1>2 DEF bootVars, clientVars
  <2> QED BY Zenon, <1>1, <1>7, <2>1, <2>2, ListInvFrame
<1>9. SentInv'
  <2>1. sentTo' = sentTo /\ sent_messages' = sent_messages /\ client_nodes' = client_nodes
    BY Zenon, <1>2 DEF clientVars
  <2>2. ASSUME NEW c \in Client, NEW p \in Node
        PROVE  /\ Once(inbox'[c], Ev("ConnectedTo", p))
               /\ Ev("ConnectedTo", p) \in Range(inbox'[c]) =>
                    link'[c][p] = "up" /\ p \notin sentTo[c]
               /\ p \in sentTo[c] => link'[c][p] = "up"
    <3>1. /\ Once(inbox[c], Ev("ConnectedTo", p))
          /\ Ev("ConnectedTo", p) \in Range(inbox[c]) => link[c][p] = "up" /\ p \notin sentTo[c]
          /\ p \in sentTo[c] => link[c][p] = "up"
      BY Zenon, <1>1 DEF SentInv
    <3>2. CASE c # a
      <4>1. inbox'[c] = inbox[c] /\ link'[c][p] = link[c][p]
        BY Zenon, <1>3, <1>4, <1>5, <3>2
      <4> QED BY Zenon, <3>1, <4>1
    <3>3. CASE c = a /\ p # b
      <4>1. link'[c][p] = link[c][p] /\ Ev("ConnectedTo", p) # Ev("ConnectedTo", b)
        <5>1. link'[c][p] = link[c][p]
          BY Zenon, <1>3, <1>5, <3>3
        <5>2. Ev("ConnectedTo", p) # Ev("ConnectedTo", b)
          BY Zenon, <3>3, EventFacts
        <5> QED BY Zenon, <5>1, <5>2
      <4>2. /\ Ev("ConnectedTo", p) \in Range(inbox'[c]) => Ev("ConnectedTo", p) \in Range(inbox[c])
            /\ Once(inbox'[c], Ev("ConnectedTo", p))
        BY Zenon, <1>4, <3>1, <3>3, <4>1
      <4> QED BY Zenon, <3>1, <4>1, <4>2
    <3>4. CASE c = a /\ p = b
      <4>1. Ev("ConnectedTo", b) \notin Range(inbox[a]) /\ b \notin sentTo[a]
        BY Zenon, <1>2, <3>1, <3>4
      <4>2. Once(inbox'[a], Ev("ConnectedTo", b))
        BY Zenon, <1>4, <3>1, <3>4, <4>1
      <4> QED BY Zenon, <1>5, <3>4, <4>1, <4>2
    <3> QED BY Zenon, <3>2, <3>3, <3>4
  <2> QED BY Zenon, <1>1, <2>1, <2>2 DEF SentInv
<1>10. HeardInv' /\ DoneInv'
  <2>1. /\ net' = net /\ sentTo' = sentTo /\ received_messages' = received_messages
        /\ heardFrom' = heardFrom /\ peer_states' = peer_states
        /\ done' = done /\ client_nodes' = client_nodes
    BY Zenon, <1>2 DEF clientVars
  <2>2. HeardInv'
    BY Zenon, <1>1, <1>7, <2>1, HeardInvFrame
  <2>3. DoneInv'
    BY Zenon, <1>1, <2>1, DoneInvFrame
  <2> QED BY Zenon, <2>2, <2>3
<1> QED BY Zenon, <1>6, <1>8, <1>9, <1>10 DEF ExchangeInv

\* A step that sends no message of the application, and takes at most an event from
\* a channel, changes nothing of the test.
LEMMA QuietKeeps ==
  ASSUME ExchangeInv, TypeOK', UNCHANGED inbox \/ \E n \in Node : Taken(n),
         contacts' = contacts, client_nodes' = client_nodes, sentTo' = sentTo,
         heardFrom' = heardFrom, sent_messages' = sent_messages,
         received_messages' = received_messages, done' = done,
         \A c \in Client : peer_states[c] \subseteq peer_states'[c],
         \A c, p \in Node : link[c][p] = "up" => link'[c][p] = "up",
         \A m \in net' : m \in net \/ m.kind \notin UserMsg
  PROVE  ExchangeInv'
<1>1. /\ TypeOK /\ ListInv /\ SentInv /\ HeardInv /\ DoneInv
  BY Zenon DEF ExchangeInv
<1>2. NoNew("StartTest") /\ NoNew("Large") /\ NoNew("ConnectedTo")
  BY Zenon, <1>1, NoNewFacts
<1>3. \A e \in Range(inbox'[Boot]) : e \in Range(inbox[Boot])
  <2>1. CASE UNCHANGED inbox
    BY Zenon, <2>1
  <2>2. ASSUME NEW n \in Node, Taken(n) PROVE Range(inbox'[Boot]) \subseteq Range(inbox[Boot])
    <3>1. Boot \in Node
      BY Zenon DEF Node
    <3>2. /\ Range(inbox'[n]) \subseteq Range(inbox[n])
          /\ \A m \in Node : m # n => inbox'[m] = inbox[m]
      BY Zenon, <1>1, <2>2, TakenFacts
    <3> QED BY Zenon, <3>1, <3>2
  <2> QED BY Zenon, <2>1, <2>2
<1>4. ListInv'
  BY Zenon, <1>1, <1>2, <1>3, ListInvFrame
<1>5. SentInv'
  <2>1. \A c \in Client, p \in Node : link[c][p] = "up" => link'[c][p] = "up"
    BY Zenon DEF Node
  <2> QED BY Zenon, <1>1, <1>2, <2>1, SentInvFrame
<1>6. HeardInv'
  <2>1. \A m \in net' : m.kind = "Large" => m \in net
    BY Zenon DEF UserMsg
  <2> QED BY Zenon, <1>1, <1>2, <2>1, HeardInvFrame
<1>7. DoneInv'
  BY Zenon, <1>1, DoneInvFrame
<1> QED BY Zenon, <1>4, <1>5, <1>6, <1>7 DEF ExchangeInv

\* A question for our address, and the answer.
LEMMA EchoStepsKeep ==
  ASSUME ExchangeInv, NEW m \in net, AnswerEcho(m) \/ EchoAnswered(m)
  PROVE  ExchangeInv'
<1>1. TypeOK /\ m \in Message /\ m.from \in Node /\ m.to \in Node
  BY Zenon, MessageFacts DEF ExchangeInv, TypeOK
<1>2. CASE AnswerEcho(m)
  <2>1. /\ net' = (net \ {m}) \union {Msg("EchoResp", m.to, m.from)}
        /\ UNCHANGED <<phase, link, inbox, bootVars, clientVars>>
    BY Zenon, <1>2 DEF AnswerEcho
  <2>2. Msg("EchoResp", m.to, m.from) \in Message
    BY <1>1 DEF Msg, Message
  <2>3. TypeOK'
    BY Zenon, <1>1, <2>1, <2>2 DEF TypeOK, bootVars, clientVars
  <2>4. \A x \in net' : x \in net \/ x.kind \notin UserMsg
    <3>1. Msg("EchoResp", m.to, m.from).kind = "EchoResp"
      BY DEF Msg
    <3>2. "EchoResp" \notin UserMsg
      BY DEF UserMsg
    <3> QED BY Zenon, <2>1, <3>1, <3>2
  <2> QED BY Zenon, <2>1, <2>3, <2>4, QuietKeeps DEF bootVars, clientVars
<1>3. CASE EchoAnswered(m)
  <2>1. /\ net' = net \ {m} /\ phase' = [phase EXCEPT ![m.to] = "running"]
        /\ UNCHANGED <<link, inbox, bootVars, clientVars>>
    BY Zenon, <1>3 DEF EchoAnswered
  <2>2. phase' \in [Node -> Phase]
    BY <1>1, <2>1 DEF TypeOK, Phase
  <2>3. TypeOK'
    BY Zenon, <1>1, <2>1, <2>2 DEF TypeOK, bootVars, clientVars
  <2> QED BY Zenon, <2>1, <2>3, QuietKeeps DEF bootVars, clientVars
<1> QED BY Zenon, <1>2, <1>3

\* A client starts.
LEMMA StartKeeps ==
  ASSUME ExchangeInv, NEW c \in Client, Start(c)
  PROVE  ExchangeInv'
<1>1. TypeOK /\ c \in Node /\ Boot \in Node
  BY Zenon DEF ExchangeInv, Node
<1>2. /\ phase' = [phase EXCEPT ![c] = "asking"] /\ ConnectTo(c, {Boot})
      /\ net' = net \union {Msg("EchoReq", c, Boot)}
      /\ UNCHANGED <<inbox, bootVars, clientVars>>
  BY Zenon DEF Start
<1>3. /\ link' \in [Node -> [Node -> {"none", "trying", "up"}]]
      /\ \A a, p \in Node : link[a][p] = "up" => link'[a][p] = "up"
  BY Zenon, <1>1, <1>2, ConnectToFacts
<1>4. Msg("EchoReq", c, Boot) \in Message /\ Msg("EchoReq", c, Boot).kind \notin UserMsg
  BY <1>1 DEF Msg, Message, UserMsg
<1>5. phase' \in [Node -> Phase]
  BY <1>1, <1>2 DEF TypeOK, Phase
<1>6. TypeOK'
  BY Zenon, <1>1, <1>2, <1>3, <1>4, <1>5 DEF TypeOK, bootVars, clientVars
<1> QED BY Zenon, <1>2, <1>3, <1>4, <1>6, QuietKeeps DEF bootVars, clientVars

\* A message for the application moves from the network into a channel.
LEMMA UserMessageKeeps ==
  ASSUME ExchangeInv, NEW m \in net, UserMessage(m)
  PROVE  ExchangeInv'
<1>1. /\ TypeOK /\ ListInv /\ SentInv /\ HeardInv /\ DoneInv
  BY Zenon DEF ExchangeInv
<1>2. /\ m \in Message /\ m = Msg(m.kind, m.from, m.to)
      /\ m.from \in Node /\ m.to \in Node /\ m.kind \in UserMsg
  BY Zenon, <1>1, MessageFacts DEF TypeOK, UserMessage
<1>3. m.to \in Client /\ m.to # Boot /\ Client \subseteq Node /\ Boot \in Node
  BY Zenon, <1>1, <1>2, ExchangeAssumption DEF ListInv, Node
<1>4. /\ Added(m.to, Ev(m.kind, m.from)) /\ net' = net \ {m}
      /\ phase' = [phase EXCEPT ![m.to] = IF @ = "asking" THEN "panicked" ELSE @]
      /\ UNCHANGED <<link, bootVars, clientVars>>
  BY Zenon DEF UserMessage, Tell, Added, Ev
<1>5. Ev(m.kind, m.from) \in Event
  BY Zenon, <1>2, EventFacts
<1>6. /\ inbox' \in [Node -> Seq(Event)]
      /\ Range(inbox'[m.to]) = Range(inbox[m.to]) \union {Ev(m.kind, m.from)}
      /\ \A x : Once(inbox[m.to], x) /\ (x # Ev(m.kind, m.from) \/ x \notin Range(inbox[m.to]))
                  => Once(inbox'[m.to], x)
      /\ \A n \in Node : n # m.to => inbox'[n] = inbox[n]
  BY Zenon, <1>1, <1>2, <1>4, <1>5, AddedFacts
<1>7. TypeOK'
  <2>1. phase' \in [Node -> Phase]
    BY <1>1, <1>2, <1>4 DEF TypeOK, Phase
  <2> QED BY Zenon, <1>1, <1>4, <1>6, <2>1 DEF TypeOK, bootVars, clientVars
<1>8. /\ contacts' = contacts /\ client_nodes' = client_nodes /\ link' = link
      /\ sentTo' = sentTo /\ heardFrom' = heardFrom /\ peer_states' = peer_states
      /\ sent_messages' = sent_messages /\ received_messages' = received_messages
      /\ done' = done
  BY Zenon, <1>4 DEF bootVars, clientVars
<1>9. ListInv'
  <2>1. inbox'[Boot] = inbox[Boot]
    BY Zenon, <1>3, <1>6
  <2>2. ASSUME NEW c \in Client, Ev("StartTest", Boot) \in Range(inbox'[c]) PROVE c \in contacts
    <3>1. CASE c = m.to /\ Ev("StartTest", Boot) = Ev(m.kind, m.from)
      <4>1. m.kind = "StartTest"
        BY Zenon, <3>1, EventFacts
      <4> QED BY Zenon, <1>1, <3>1, <4>1 DEF ListInv
    <3>2. CASE c = m.to /\ Ev("StartTest", Boot) # Ev(m.kind, m.from)
      BY Zenon, <1>1, <1>6, <2>2, <3>2 DEF ListInv
    <3>3. CASE c # m.to
      BY Zenon, <1>1, <1>3, <1>6, <2>2, <3>3 DEF ListInv
    <3> QED BY Zenon, <3>1, <3>2, <3>3
  <2> QED BY Zenon, <1>1, <1>4, <1>8, <2>1, <2>2 DEF ListInv
<1>10. SentInv'
  <2>1. m.kind # "ConnectedTo"
    BY <1>2 DEF UserMsg
  <2>2. NoNew("ConnectedTo")
    BY Zenon, <1>1, <1>2, <1>4, <1>5, <2>1, NoNewFacts
  <2> QED BY Zenon, <1>1, <1>8, <2>2, SentInvFrame
<1>11. HeardInv'
  <2>1. CASE m.kind # "Large"
    <3>1. NoNew("Large")
      BY Zenon, <1>1, <1>2, <1>4, <1>5, <2>1, NoNewFacts
    <3> QED BY Zenon, <1>1, <1>4, <1>8, <3>1, HeardInvFrame
  <2>2. CASE m.kind = "Large"
    <3> DEFINE a == m.from
               b == m.to
    <3>1. m = Msg("Large", a, b) /\ a \in Client /\ b \in sentTo[a] /\ a \in Node /\ b \in Client
      BY Zenon, <1>1, <1>2, <1>3, <2>2 DEF HeardInv
    <3>2. /\ Range(inbox'[b]) = Range(inbox[b]) \union {Ev("Large", a)}
          /\ \A x : Once(inbox[b], x) /\ (x # Ev("Large", a) \/ x \notin Range(inbox[b]))
                      => Once(inbox'[b], x)
          /\ \A n \in Node : n # b => inbox'[n] = inbox[n]
      BY Zenon, <1>6, <2>2
    <3> HIDE DEF a, b
    <3>3. Msg("Large", a, b) \notin net' /\ Msg("Large", a, b) \in net
      BY Zenon, <1>4, <3>1
    <3>4. Ev("Large", a) \notin Range(inbox[b]) /\ a \notin heardFrom[b]
      BY Zenon, <1>1, <3>1, <3>3 DEF HeardInv
    <3>5. ASSUME NEW c \in Client, NEW p \in Node
          PROVE  /\ Once(inbox'[c], Ev("Large", p))
                 /\ Ev("Large", p) \in Range(inbox'[c]) =>
                      /\ p \in Client /\ c \in sentTo[p]
                      /\ Msg("Large", p, c) \notin net' /\ p \notin heardFrom[c]
                 /\ p \in heardFrom[c] => c \in sentTo[p] /\ Msg("Large", p, c) \notin net'
      <4>1. /\ Once(inbox[c], Ev("Large", p))
            /\ Ev("Large", p) \in Range(inbox[c]) =>
                 p \in Client /\ c \in sentTo[p] /\ Msg("Large", p, c) \notin net /\ p \notin heardFrom[c]
            /\ p \in heardFrom[c] => c \in sentTo[p] /\ Msg("Large", p, c) \notin net
        BY Zenon, <1>1 DEF HeardInv
      <4>2. net' \subseteq net
        BY Zenon, <1>4
      <4>3. CASE c # b
        <5>1. inbox'[c] = inbox[c]
          BY Zenon, <1>3, <3>2, <4>3
        <5> QED BY Zenon, <4>1, <4>2, <5>1
      <4>4. CASE c = b /\ p # a
        <5>1. Ev("Large", p) # Ev("Large", a)
          BY Zenon, <4>4, EventFacts
        <5>2. /\ Once(inbox'[c], Ev("Large", p))
              /\ Ev("Large", p) \in Range(inbox'[c]) => Ev("Large", p) \in Range(inbox[c])
          BY Zenon, <3>2, <4>1, <4>4, <5>1
        <5> QED BY Zenon, <4>1, <4>2, <5>2
      <4>5. CASE c = b /\ p = a
        <5>1. Once(inbox'[b], Ev("Large", a))
          BY Zenon, <3>2, <3>4, <4>1, <4>5
        <5> QED BY Zenon, <3>1, <3>3, <3>4, <4>5, <5>1
      <4> QED BY Zenon, <4>3, <4>4, <4>5
    <3>6. \A x \in net' : x.kind = "Large" => x.from \in Client /\ x.to \in sentTo'[x.from]
      BY Zenon, <1>1, <1>4, <1>8 DEF HeardInv
    <3> QED BY Zenon, <1>1, <1>8, <3>5, <3>6 DEF HeardInv
  <2> QED BY Zenon, <2>1, <2>2
<1>12. DoneInv'
  BY Zenon, <1>1, <1>8, DoneInvFrame
<1> QED BY Zenon, <1>7, <1>9, <1>10, <1>11, <1>12 DEF ExchangeInv

-----------------------------------------------------------------------------
(* The steps of the two programs.                                           *)

\* The bootstrap node collects a client, and may send out the one list.
LEMMA BootOnConnectKeeps ==
  ASSUME ExchangeInv, BootOnConnect
  PROVE  ExchangeInv'
<1>1. /\ TypeOK /\ ListInv /\ SentInv /\ HeardInv /\ DoneInv
  BY Zenon DEF ExchangeInv
<1> DEFINE S == connected_peers \union {Head(inbox[Boot]).peer}
<1>2. /\ Taken(Boot) /\ UNCHANGED <<phase, link, clientVars>> /\ connected_peers' = S
      /\ \/ /\ contacts = {} /\ contacts' = S
            /\ net' = net \union {Msg("StartTest", Boot, c) : c \in S}
         \/ contacts' = contacts /\ net' = net
  BY Zenon DEF BootOnConnect, Taken
<1>3. Boot \in Node /\ Client \subseteq Node
  BY Zenon DEF Node
<1>4. /\ inbox' \in [Node -> Seq(Event)] /\ Head(inbox[Boot]) \in Range(inbox[Boot])
      /\ Range(inbox'[Boot]) \subseteq Range(inbox[Boot])
  BY Zenon, <1>1, <1>2, <1>3, TakenFacts
<1>5. S \subseteq Client /\ connected_peers \subseteq S
  <2>1. Head(inbox[Boot]).peer \in Client
    BY Zenon, <1>1, <1>4 DEF ListInv
  <2>2. connected_peers \subseteq Client
    BY Zenon, <1>1 DEF TypeOK
  <2> QED BY Zenon, <2>1, <2>2
<1> HIDE DEF S
<1>6. {Msg("StartTest", Boot, c) : c \in S} \subseteq Message
  BY <1>3, <1>5 DEF Msg, Message, UserMsg
<1>7. TypeOK'
  <2>1. net' \subseteq Message
    BY Zenon, <1>1, <1>2, <1>6 DEF TypeOK
  <2>2. connected_peers' \subseteq Client /\ contacts' \subseteq connected_peers'
    BY Zenon, <1>1, <1>2, <1>5 DEF TypeOK
  <2> QED BY Zenon, <1>1, <1>2, <1>4, <2>1, <2>2 DEF TypeOK, clientVars
<1>8. /\ client_nodes' = client_nodes /\ link' = link
      /\ sentTo' = sentTo /\ heardFrom' = heardFrom /\ peer_states' = peer_states
      /\ sent_messages' = sent_messages /\ received_messages' = received_messages
      /\ done' = done
  BY Zenon, <1>2 DEF clientVars
<1>9. NoNew("StartTest") /\ NoNew("Large") /\ NoNew("ConnectedTo")
  BY Zenon, <1>1, <1>2, <1>3, NoNewFacts
<1>10. \A x \in net' : x \in net \/ (x.kind = "StartTest" /\ x.to \in contacts' /\ x.to \in Client)
  <2>1. \A x \in {Msg("StartTest", Boot, c) : c \in S} : x.kind = "StartTest" /\ x.to \in S
    BY DEF Msg
  <2> QED BY Zenon, <1>2, <1>5, <2>1
<1>11. ListInv'
  <2>1. CASE contacts' = contacts
    <3>1. \A e \in Range(inbox'[Boot]) : e.peer \in Client
      BY Zenon, <1>1, <1>4 DEF ListInv
    <3>2. \A x \in net' : x.kind \in UserMsg => x.to \in Client
      BY Zenon, <1>1, <1>10 DEF ListInv
    <3>3. \A x \in net' : x.kind = "StartTest" => x.to \in contacts'
      BY Zenon, <1>1, <1>10, <2>1 DEF ListInv
    <3>4. \A c \in Client : Ev("StartTest", Boot) \in Range(inbox'[c]) => c \in contacts'
      BY Zenon, <1>1, <1>3, <1>9, <2>1 DEF ListInv, NoNew
    <3>5. \A c \in Client : client_nodes'[c] # {} =>
            c \in contacts' /\ client_nodes'[c] = contacts' \ {c}
      BY Zenon, <1>1, <1>8, <2>1 DEF ListInv
    <3> QED BY Zenon, <3>1, <3>2, <3>3, <3>4, <3>5 DEF ListInv
  <2>2. CASE contacts = {}
    <3>1. \A e \in Range(inbox'[Boot]) : e.peer \in Client
      BY Zenon, <1>1, <1>4 DEF ListInv
    <3>2. \A x \in net' : x.kind \in UserMsg => x.to \in Client
      BY Zenon, <1>1, <1>10 DEF ListInv
    <3>3. \A x \in net' : x.kind = "StartTest" => x.to \in contacts'
      BY Zenon, <1>1, <1>10, <2>2 DEF ListInv
    <3>4. \A c \in Client : Ev("StartTest", Boot) \notin Range(inbox'[c])
      BY Zenon, <1>1, <1>3, <1>9, <2>2 DEF ListInv, NoNew
    <3>5. \A c \in Client : client_nodes'[c] = {}
      BY Zenon, <1>1, <1>8, <2>2 DEF ListInv
    <3> QED BY Zenon, <3>1, <3>2, <3>3, <3>4, <3>5 DEF ListInv
  <2> QED BY Zenon, <1>2, <2>1, <2>2
<1>12. SentInv'
  BY Zenon, <1>1, <1>8, <1>9, SentInvFrame
<1>13. HeardInv'
  <2>1. \A x \in net' : x.kind = "Large" => x \in net
    BY <1>10
  <2> QED BY Zenon, <1>1, <1>8, <1>9, <2>1, HeardInvFrame
<1>14. DoneInv'
  BY Zenon, <1>1, <1>8, DoneInvFrame
<1> QED BY Zenon, <1>7, <1>11, <1>12, <1>13, <1>14 DEF ExchangeInv

\* What a client takes from its channel.
LEMMA NextEventFacts ==
  ASSUME TypeOK, NEW c \in Client, NEW e, NEW p, NextEvent(c, e, p)
  PROVE  /\ c \in Node /\ c # Boot
         /\ Taken(c) /\ inbox' \in [Node -> Seq(Event)]
         /\ Ev(e, p) \in Range(inbox[c])
         /\ Once(inbox[c], Ev(e, p)) => Ev(e, p) \notin Range(inbox'[c])
         /\ \A f : NoNew(f)
         /\ Range(inbox'[Boot]) = Range(inbox[Boot])
<1>1. c \in Node /\ c # Boot /\ Boot \in Node
  BY Zenon, ExchangeAssumption DEF Node
<1>2. Taken(c) /\ Head(inbox[c]) = Ev(e, p)
  BY Zenon DEF NextEvent, Taken, Ev
<1>3. /\ inbox' \in [Node -> Seq(Event)]
      /\ Head(inbox[c]) \in Range(inbox[c])
      /\ Once(inbox[c], Head(inbox[c])) => Head(inbox[c]) \notin Range(inbox'[c])
      /\ \A m \in Node : m # c => inbox'[m] = inbox[m]
  BY Zenon, <1>1, <1>2, TakenFacts
<1>4. \A f : NoNew(f)
  BY Zenon, <1>1, <1>2, NoNewFacts
<1>5. Range(inbox'[Boot]) = Range(inbox[Boot])
  BY Zenon, <1>1, <1>3
<1>6. /\ Ev(e, p) \in Range(inbox[c])
      /\ Once(inbox[c], Ev(e, p)) => Ev(e, p) \notin Range(inbox'[c])
  BY Zenon, <1>2, <1>3
<1> QED BY Zenon, <1>1, <1>2, <1>3, <1>4, <1>5, <1>6

\* A client gets the list.
LEMMA OnStartTestKeeps ==
  ASSUME ExchangeInv, NEW c \in Client, OnStartTest(c)
  PROVE  ExchangeInv'
<1>1. /\ TypeOK /\ ListInv /\ SentInv /\ HeardInv /\ DoneInv
  BY Zenon DEF ExchangeInv
<1>2. /\ NextEvent(c, "StartTest", Boot) /\ ConnectTo(c, contacts \ {c})
      /\ client_nodes' = [client_nodes EXCEPT ![c] = @ \union (contacts \ {c})]
  BY Zenon DEF OnStartTest, ContactsOf
<1>3. /\ contacts' = contacts /\ connected_peers' = connected_peers /\ phase' = phase /\ net' = net
      /\ sentTo' = sentTo /\ heardFrom' = heardFrom /\ peer_states' = peer_states
      /\ sent_messages' = sent_messages /\ received_messages' = received_messages
      /\ done' = done
  BY Zenon DEF OnStartTest, bootVars
<1>4. /\ c \in Node /\ inbox' \in [Node -> Seq(Event)]
      /\ Ev("StartTest", Boot) \in Range(inbox[c])
      /\ \A f : NoNew(f)
      /\ Range(inbox'[Boot]) = Range(inbox[Boot])
  BY Zenon, <1>1, <1>2, NextEventFacts
<1>5. c \in contacts /\ contacts \subseteq Client
  BY Zenon, <1>1, <1>4 DEF ListInv, TypeOK
<1>6. /\ client_nodes'[c] = client_nodes[c] \union (contacts \ {c})
      /\ \A d \in Client : d # c => client_nodes'[d] = client_nodes[d]
      /\ client_nodes' \in [Client -> SUBSET Client]
  <2>1. client_nodes \in [Client -> SUBSET Client]
    BY Zenon, <1>1 DEF TypeOK
  <2> QED BY <1>2, <1>5, <2>1
<1>7. /\ client_nodes'[c] = contacts \ {c}
      /\ client_nodes[c] # {} => client_nodes'[c] = client_nodes[c]
  BY Zenon, <1>1, <1>6 DEF ListInv
<1>8. /\ link' \in [Node -> [Node -> {"none", "trying", "up"}]]
      /\ \A a, p \in Node : link[a][p] = "up" => link'[a][p] = "up"
  BY Zenon, <1>1, <1>2, <1>4, ConnectToFacts
<1>9. TypeOK'
  <2>1. \A d \in Client : d \notin client_nodes'[d]
    BY Zenon, <1>1, <1>6, <1>7 DEF TypeOK
  <2> QED BY Zenon, <1>1, <1>3, <1>4, <1>6, <1>8, <2>1 DEF TypeOK
<1>10. ListInv'
  <2>1. \A d \in Client : Ev("StartTest", Boot) \in Range(inbox'[d]) => d \in contacts'
    <3>1. Boot \in Node /\ NoNew("StartTest")
      BY Zenon, <1>4 DEF Node
    <3> QED BY Zenon, <1>1, <1>3, <3>1 DEF ListInv, NoNew
  <2>2. ASSUME NEW d \in Client, client_nodes'[d] # {}
        PROVE  d \in contacts' /\ client_nodes'[d] = contacts' \ {d}
    <3>1. CASE d = c
      BY Zenon, <1>3, <1>5, <1>7, <3>1
    <3>2. CASE d # c
      BY Zenon, <1>1, <1>3, <1>6, <2>2, <3>2 DEF ListInv
    <3> QED BY Zenon, <3>1, <3>2
  <2>3. \A e \in Range(inbox'[Boot]) : e.peer \in Client
    BY Zenon, <1>1, <1>4 DEF ListInv
  <2>4. /\ \A m \in net' : m.kind \in UserMsg => m.to \in Client
        /\ \A m \in net' : m.kind = "StartTest" => m.to \in contacts'
    BY Zenon, <1>1, <1>3 DEF ListInv
  <2> QED BY Zenon, <2>1, <2>2, <2>3, <2>4 DEF ListInv
<1>11. SentInv'
  <2>1. \A d \in Client : client_nodes[d] \subseteq client_nodes'[d]
    <3> SUFFICES ASSUME NEW d \in Client PROVE client_nodes[d] \subseteq client_nodes'[d]
      BY Zenon
    <3>1. CASE d = c
      BY Zenon, <1>6, <3>1
    <3>2. CASE d # c
      BY Zenon, <1>6, <3>2
    <3> QED BY Zenon, <3>1, <3>2
  <2>2. \A d \in Client, p \in Node : link[d][p] = "up" => link'[d][p] = "up"
    BY Zenon, <1>8 DEF Node
  <2> QED BY Zenon, <1>1, <1>3, <1>4, <2>1, <2>2, SentInvFrame
<1>12. HeardInv'
  BY Zenon, <1>1, <1>3, <1>4, HeardInvFrame
<1>13. DoneInv'
  <2> SUFFICES ASSUME NEW d \in Client, done[d]
               PROVE  /\ client_nodes'[d] # {} /\ sentTo[d] = client_nodes'[d]
                      /\ heardFrom[d] = client_nodes'[d]
    BY Zenon, <1>3 DEF DoneInv
  <2>1. client_nodes[d] # {} /\ sentTo[d] = client_nodes[d] /\ heardFrom[d] = client_nodes[d]
    BY Zenon, <1>1 DEF DoneInv
  <2>2. client_nodes'[d] = client_nodes[d]
    BY Zenon, <1>6, <1>7, <2>1
  <2> QED BY Zenon, <2>1, <2>2
<1> QED BY Zenon, <1>9, <1>10, <1>11, <1>12, <1>13 DEF ExchangeInv

\* Sets of clients are finite; one more element is one more.
LEMMA CountFacts ==
  ASSUME NEW A \in SUBSET Client, NEW x \in Client, x \notin A
  PROVE  Cardinality(A) \in Nat /\ Cardinality(A \union {x}) = Cardinality(A) + 1
<1>1. IsFiniteSet(A)
  BY Zenon, ExchangeAssumption, FS_Subset
<1>2. Cardinality(A) \in Nat
  BY Zenon, <1>1, FS_CardinalityType
<1>3. Cardinality(A \union {x}) = IF x \in A THEN Cardinality(A) ELSE Cardinality(A) + 1
  BY Zenon, <1>1, FS_AddElement
<1> QED BY Zenon, <1>2, <1>3

\* A client that knows p as a contact sends to it when it is connected.
LEMMA OnConnectSends ==
  ASSUME ExchangeInv, NEW c \in Client, NEW p \in client_nodes[c], OnConnect(c, p)
  PROVE  ExchangeInv'
<1>1. /\ TypeOK /\ ListInv /\ SentInv /\ HeardInv /\ DoneInv
  BY Zenon DEF ExchangeInv
<1>2. p \in Client /\ p \in Node /\ c # p
  <2>1. client_nodes[c] \in SUBSET Client /\ c \notin client_nodes[c]
    BY Zenon, <1>1 DEF TypeOK
  <2> QED BY Zenon, <2>1 DEF Node
<1>3. /\ NextEvent(c, "ConnectedTo", p)
      /\ net' = net \union {Msg("Large", c, p), Msg("Small", c, p)}
      /\ sent_messages' = [sent_messages EXCEPT ![c] = @ + 1]
      /\ sentTo' = [sentTo EXCEPT ![c] = @ \union {p}]
  BY Zenon DEF OnConnect
<1>4. /\ contacts' = contacts /\ connected_peers' = connected_peers /\ phase' = phase
      /\ link' = link /\ client_nodes' = client_nodes /\ heardFrom' = heardFrom
      /\ peer_states' = peer_states /\ received_messages' = received_messages
      /\ done' = done
  BY Zenon DEF OnConnect, bootVars
<1>5. /\ c \in Node /\ inbox' \in [Node -> Seq(Event)]
      /\ Ev("ConnectedTo", p) \in Range(inbox[c])
      /\ Once(inbox[c], Ev("ConnectedTo", p)) => Ev("ConnectedTo", p) \notin Range(inbox'[c])
      /\ \A f : NoNew(f)
      /\ Range(inbox'[Boot]) = Range(inbox[Boot])
  BY Zenon, <1>1, <1>3, NextEventFacts
<1>6. /\ Ev("ConnectedTo", p) \notin Range(inbox'[c])
      /\ link[c][p] = "up" /\ p \notin sentTo[c]
  BY Zenon, <1>1, <1>2, <1>5 DEF SentInv
<1>7. /\ sentTo \in [Client -> SUBSET Client] /\ sentTo[c] \in SUBSET Client
      /\ sent_messages \in [Client -> Nat]
  BY Zenon, <1>1 DEF TypeOK
<1>8. /\ sentTo'[c] = sentTo[c] \union {p} /\ sent_messages'[c] = sent_messages[c] + 1
      /\ \A d \in Client : d # c => sentTo'[d] = sentTo[d] /\ sent_messages'[d] = sent_messages[d]
      /\ sentTo' \in [Client -> SUBSET Client] /\ sent_messages' \in [Client -> Nat]
  BY <1>2, <1>3, <1>7
<1>9. \A d \in Client : sentTo[d] \subseteq sentTo'[d]
  <2> SUFFICES ASSUME NEW d \in Client PROVE sentTo[d] \subseteq sentTo'[d]
    BY Zenon
  <2>1. CASE d = c
    BY Zenon, <1>8, <2>1
  <2>2. CASE d # c
    BY Zenon, <1>8, <2>2
  <2> QED BY Zenon, <2>1, <2>2
<1>10. /\ Msg("Large", c, p) \in Message /\ Msg("Small", c, p) \in Message
  BY <1>2, <1>5 DEF Msg, Message, UserMsg
<1>11. /\ Msg("Large", c, p).from = c /\ Msg("Large", c, p).to = p
       /\ Msg("Large", c, p).kind = "Large" /\ Msg("Small", c, p).kind = "Small"
       /\ Msg("Small", c, p).to = p
  BY DEF Msg
<1>12. TypeOK'
  <2>1. net' \subseteq Message
    BY Zenon, <1>1, <1>3, <1>10 DEF TypeOK
  <2> QED BY Zenon, <1>1, <1>4, <1>5, <1>8, <2>1 DEF TypeOK
<1>13. ListInv'
  <2>1. \A m \in net' : m.kind \in UserMsg => m \in net \/ (m.to \in Client /\ m.kind # "StartTest")
    <3>1. "Large" # "StartTest" /\ "Small" # "StartTest"
      OBVIOUS
    <3> QED BY Zenon, <1>2, <1>3, <1>11, <3>1
  <2> QED BY Zenon, <1>1, <1>4, <1>5, <2>1, ListInvFrame
<1>14. SentInv'
  <2>1. \A d \in Client : sentTo'[d] \subseteq client_nodes'[d]
    <3> SUFFICES ASSUME NEW d \in Client PROVE sentTo'[d] \subseteq client_nodes[d]
      BY Zenon, <1>4
    <3>1. sentTo[d] \subseteq client_nodes[d]
      BY Zenon, <1>1 DEF SentInv
    <3>2. CASE d = c
      BY Zenon, <1>8, <3>1, <3>2
    <3>3. CASE d # c
      BY Zenon, <1>8, <3>1, <3>3
    <3> QED BY Zenon, <3>2, <3>3
  <2>2. \A d \in Client : sent_messages'[d] = Cardinality(sentTo'[d])
    <3> SUFFICES ASSUME NEW d \in Client PROVE sent_messages'[d] = Cardinality(sentTo'[d])
      BY Zenon
    <3>1. sent_messages[d] = Cardinality(sentTo[d])
      BY Zenon, <1>1 DEF SentInv
    <3>2. CASE d = c
      <4>1. Cardinality(sentTo[c] \union {p}) = Cardinality(sentTo[c]) + 1
        BY Zenon, <1>2, <1>6, <1>7, CountFacts
      <4> QED BY Zenon, <1>8, <3>1, <3>2, <4>1
    <3>3. CASE d # c
      BY Zenon, <1>8, <3>1, <3>3
    <3> QED BY Zenon, <3>2, <3>3
  <2>3. ASSUME NEW d \in Client, NEW r \in Node
        PROVE  /\ Once(inbox'[d], Ev("ConnectedTo", r))
               /\ Ev("ConnectedTo", r) \in Range(inbox'[d]) =>
                    link[d][r] = "up" /\ r \notin sentTo'[d]
               /\ r \in sentTo'[d] => link[d][r] = "up"
    <3>1. /\ Once(inbox[d], Ev("ConnectedTo", r))
          /\ Ev("ConnectedTo", r) \in Range(inbox[d]) => link[d][r] = "up" /\ r \notin sentTo[d]
          /\ r \in sentTo[d] => link[d][r] = "up"
      BY Zenon, <1>1 DEF SentInv
    <3>2. /\ Once(inbox'[d], Ev("ConnectedTo", r))
          /\ Ev("ConnectedTo", r) \in Range(inbox'[d]) => Ev("ConnectedTo", r) \in Range(inbox[d])
      <4>1. NoNew("ConnectedTo")
        BY Zenon, <1>5
      <4> QED BY Zenon, <3>1, <4>1 DEF NoNew
    <3>3. CASE d # c
      BY Zenon, <1>8, <3>1, <3>2, <3>3
    <3>4. CASE d = c /\ r # p
      BY Zenon, <1>8, <3>1, <3>2, <3>4
    <3>5. CASE d = c /\ r = p
      BY Zenon, <1>6, <3>2, <3>5
    <3> QED BY Zenon, <3>3, <3>4, <3>5
  <2> QED BY Zenon, <1>4, <2>1, <2>2, <2>3 DEF SentInv
<1>15. HeardInv'
  <2>1. \A m \in net' : m.kind = "Large" => m.from \in Client /\ m.to \in sentTo'[m.from]
    <3> SUFFICES ASSUME NEW m \in net', m.kind = "Large"
                 PROVE  m.from \in Client /\ m.to \in sentTo'[m.from]
      BY Zenon
    <3>1. CASE m \in net
      BY Zenon, <1>1, <1>9, <3>1 DEF HeardInv
    <3>2. CASE m = Msg("Large", c, p)
      <4>1. m.from = c /\ m.to = p
        BY Zenon, <1>11, <3>2
      <4>2. p \in sentTo'[c]
        BY Zenon, <1>8
      <4> QED BY Zenon, <4>1, <4>2
    <3>3. CASE m = Msg("Small", c, p)
      BY <1>11, <3>3
    <3> QED BY Zenon, <1>3, <3>1, <3>2, <3>3
  <2>2. ASSUME NEW d \in Client, NEW r \in Node
        PROVE  /\ Once(inbox'[d], Ev("Large", r))
               /\ Ev("Large", r) \in Range(inbox'[d]) =>
                    /\ r \in Client /\ d \in sentTo'[r]
                    /\ Msg("Large", r, d) \notin net' /\ r \notin heardFrom[d]
               /\ r \in heardFrom[d] => d \in sentTo'[r] /\ Msg("Large", r, d) \notin net'
    <3>1. /\ Once(inbox[d], Ev("Large", r))
          /\ Ev("Large", r) \in Range(inbox[d]) =>
               r \in Client /\ d \in sentTo[r] /\ Msg("Large", r, d) \notin net /\ r \notin heardFrom[d]
          /\ r \in heardFrom[d] => r \in Client /\ d \in sentTo[r] /\ Msg("Large", r, d) \notin net
      <4>1. heardFrom[d] \subseteq Client
        BY Zenon, <1>1 DEF TypeOK
      <4> QED BY Zenon, <1>1, <4>1 DEF HeardInv
    <3>2. /\ Once(inbox'[d], Ev("Large", r))
          /\ Ev("Large", r) \in Range(inbox'[d]) => Ev("Large", r) \in Range(inbox[d])
      <4>1. NoNew("Large")
        BY Zenon, <1>5
      <4> QED BY Zenon, <3>1, <4>1 DEF NoNew
    <3>3. ASSUME r \in Client, d \in sentTo[r], Msg("Large", r, d) \notin net
          PROVE  d \in sentTo'[r] /\ Msg("Large", r, d) \notin net'
      <4>1. d \in sentTo'[r]
        BY Zenon, <1>9, <3>3
      <4>2. Msg("Large", r, d) # Msg("Large", c, p)
        <5>1. Msg("Large", r, d) = Msg("Large", c, p) => r = c /\ d = p
          BY DEF Msg
        <5> QED BY Zenon, <1>6, <3>3, <5>1
      <4>3. Msg("Large", r, d) # Msg("Small", c, p)
        BY DEF Msg
      <4> QED BY Zenon, <1>3, <3>3, <4>1, <4>2, <4>3
    <3> QED BY Zenon, <3>1, <3>2, <3>3
  <2> QED BY Zenon, <1>1, <1>4, <2>1, <2>2 DEF HeardInv
<1>16. DoneInv'
  <2> SUFFICES ASSUME NEW d \in Client, done[d]
               PROVE  /\ client_nodes[d] # {} /\ sentTo'[d] = client_nodes[d]
                      /\ heardFrom[d] = client_nodes[d]
    BY Zenon, <1>4 DEF DoneInv
  <2>1. client_nodes[d] # {} /\ sentTo[d] = client_nodes[d] /\ heardFrom[d] = client_nodes[d]
    BY Zenon, <1>1 DEF DoneInv
  <2>2. d # c
    BY Zenon, <1>6, <2>1
  <2> QED BY Zenon, <1>8, <2>1, <2>2
<1> QED BY Zenon, <1>12, <1>13, <1>14, <1>15, <1>16 DEF ExchangeInv

\* A client is told that it is connected.
LEMMA OnConnectKeeps ==
  ASSUME ExchangeInv, NEW c \in Client, NEW p \in Node, OnConnect(c, p)
  PROVE  ExchangeInv'
<1>1. CASE p \in client_nodes[c]
  BY Zenon, <1>1, OnConnectSends
<1>2. CASE p \notin client_nodes[c]
  <2>1. TypeOK /\ NextEvent(c, "ConnectedTo", p)
    BY Zenon DEF ExchangeInv, OnConnect
  <2>2. c \in Node /\ Taken(c) /\ inbox' \in [Node -> Seq(Event)]
    BY Zenon, <2>1, NextEventFacts
  <2>3. /\ contacts' = contacts /\ connected_peers' = connected_peers /\ phase' = phase
        /\ link' = link /\ net' = net /\ client_nodes' = client_nodes
        /\ sentTo' = sentTo /\ heardFrom' = heardFrom /\ peer_states' = peer_states
        /\ sent_messages' = sent_messages /\ received_messages' = received_messages
        /\ done' = done
    BY Zenon, <1>2 DEF OnConnect, bootVars
  <2>4. TypeOK'
    BY Zenon, <2>1, <2>2, <2>3 DEF TypeOK
  <2> QED BY Zenon, <2>2, <2>3, <2>4, QuietKeeps
<1> QED BY Zenon, <1>1, <1>2

\* A small message is remembered.
LEMMA OnSmallKeeps ==
  ASSUME ExchangeInv, NEW c \in Client, NEW p \in Client, OnSmall(c, p)
  PROVE  ExchangeInv'
<1>1. TypeOK /\ NextEvent(c, "Small", p)
  BY Zenon DEF ExchangeInv, OnSmall
<1>2. c \in Node /\ Taken(c) /\ inbox' \in [Node -> Seq(Event)]
  BY Zenon, <1>1, NextEventFacts
<1>3. /\ contacts' = contacts /\ connected_peers' = connected_peers /\ phase' = phase
      /\ link' = link /\ net' = net /\ client_nodes' = client_nodes
      /\ sentTo' = sentTo /\ heardFrom' = heardFrom
      /\ sent_messages' = sent_messages /\ received_messages' = received_messages
      /\ done' = done
  BY Zenon DEF OnSmall, bootVars
<1>4. /\ peer_states' \in [Client -> SUBSET Client]
      /\ \A d \in Client : peer_states[d] \subseteq peer_states'[d]
  <2>1. peer_states \in [Client -> SUBSET Client]
    BY Zenon, <1>1 DEF TypeOK
  <2>2. peer_states' = [peer_states EXCEPT ![c] = @ \union {p}]
    BY Zenon DEF OnSmall
  <2> QED BY <2>1, <2>2
<1>5. TypeOK'
  BY Zenon, <1>1, <1>2, <1>3, <1>4 DEF TypeOK
<1> QED BY Zenon, <1>2, <1>3, <1>4, <1>5, QuietKeeps

\* Whoever a client hears from has the list, and is another client of it.
LEMMA SenderIsContact ==
  ASSUME TypeOK, ListInv, SentInv, NEW c \in Client, NEW p \in Client, c \in sentTo[p]
  PROVE  p \in contacts \ {c}
<1>1. c \in client_nodes[p]
  BY Zenon DEF SentInv
<1>2. p \in contacts
  BY Zenon, <1>1 DEF ListInv
<1>3. p # c
  BY Zenon, <1>1 DEF TypeOK
<1> QED BY Zenon, <1>2, <1>3

\* A large message after the small one is counted, and may be the last one.
LEMMA OnLargeCounts ==
  ASSUME ExchangeInv, NEW c \in Client, NEW p \in Client, OnLarge(c, p), Counts(c, p)
  PROVE  ExchangeInv'
<1>1. /\ TypeOK /\ ListInv /\ SentInv /\ HeardInv /\ DoneInv
  BY Zenon DEF ExchangeInv
<1>2. /\ NextEvent(c, "Large", p) /\ p \in peer_states[c]
      /\ received_messages' = [received_messages EXCEPT ![c] = @ + 1]
      /\ heardFrom' = [heardFrom EXCEPT ![c] = @ \union {p}]
      /\ done' = [done EXCEPT ![c] =
           @ \/ /\ received_messages[c] + 1 = Cardinality(client_nodes[c])
                /\ sent_messages[c] = Cardinality(client_nodes[c])]
  BY Zenon DEF OnLarge, Counts
<1>3. /\ contacts' = contacts /\ connected_peers' = connected_peers /\ phase' = phase
      /\ link' = link /\ net' = net /\ client_nodes' = client_nodes
      /\ sentTo' = sentTo /\ peer_states' = peer_states /\ sent_messages' = sent_messages
  BY Zenon DEF OnLarge, bootVars
<1>4. /\ c \in Node /\ Taken(c) /\ inbox' \in [Node -> Seq(Event)]
      /\ Ev("Large", p) \in Range(inbox[c])
      /\ Once(inbox[c], Ev("Large", p)) => Ev("Large", p) \notin Range(inbox'[c])
      /\ NoNew("Large") /\ NoNew("StartTest") /\ NoNew("ConnectedTo")
      /\ Range(inbox'[Boot]) = Range(inbox[Boot])
  BY Zenon, <1>1, <1>2, NextEventFacts
<1>5. p \in Node
  BY Zenon DEF Node
<1>6. /\ Ev("Large", p) \notin Range(inbox'[c])
      /\ c \in sentTo[p] /\ Msg("Large", p, c) \notin net /\ p \notin heardFrom[c]
  BY Zenon, <1>1, <1>4, <1>5 DEF HeardInv
<1>7. /\ heardFrom \in [Client -> SUBSET Client] /\ heardFrom[c] \in SUBSET Client
      /\ received_messages \in [Client -> Nat] /\ done \in [Client -> BOOLEAN]
  BY Zenon, <1>1 DEF TypeOK
<1>8. /\ heardFrom'[c] = heardFrom[c] \union {p}
      /\ received_messages'[c] = received_messages[c] + 1
      /\ \A d \in Client : d # c =>
           heardFrom'[d] = heardFrom[d] /\ received_messages'[d] = received_messages[d]
      /\ heardFrom' \in [Client -> SUBSET Client] /\ received_messages' \in [Client -> Nat]
  BY <1>2, <1>7
<1>9. /\ \A d \in Client : d # c => done'[d] = done[d]
      /\ done'[c] => \/ done[c]
                     \/ /\ received_messages[c] + 1 = Cardinality(client_nodes[c])
                        /\ sent_messages[c] = Cardinality(client_nodes[c])
      /\ done' \in [Client -> BOOLEAN]
  BY Zenon, <1>2, <1>7
<1>10. TypeOK'
  BY Zenon, <1>1, <1>3, <1>4, <1>8, <1>9 DEF TypeOK
<1>11. ListInv'
  BY Zenon, <1>1, <1>3, <1>4, ListInvFrame
<1>12. SentInv'
  BY Zenon, <1>1, <1>3, <1>4, SentInvFrame
<1>13. \A d \in Client : received_messages'[d] = Cardinality(heardFrom'[d])
  <2> SUFFICES ASSUME NEW d \in Client PROVE received_messages'[d] = Cardinality(heardFrom'[d])
    BY Zenon
  <2>1. received_messages[d] = Cardinality(heardFrom[d])
    BY Zenon, <1>1 DEF HeardInv
  <2>2. CASE d = c
    <3>1. Cardinality(heardFrom[c] \union {p}) = Cardinality(heardFrom[c]) + 1
      BY Zenon, <1>6, <1>7, CountFacts
    <3> QED BY Zenon, <1>8, <2>1, <2>2, <3>1
  <2>3. CASE d # c
    BY Zenon, <1>8, <2>1, <2>3
  <2> QED BY Zenon, <2>2, <2>3
<1>14. HeardInv'
  <2>1. \A d \in Client : heardFrom'[d] \subseteq peer_states'[d]
    <3> SUFFICES ASSUME NEW d \in Client PROVE heardFrom'[d] \subseteq peer_states[d]
      BY Zenon, <1>3
    <3>1. heardFrom[d] \subseteq peer_states[d]
      BY Zenon, <1>1 DEF HeardInv
    <3>2. CASE d = c
      BY Zenon, <1>2, <1>8, <3>1, <3>2
    <3>3. CASE d # c
      BY Zenon, <1>8, <3>1, <3>3
    <3> QED BY Zenon, <3>2, <3>3
  <2>2. ASSUME NEW d \in Client, NEW r \in Node
        PROVE  /\ Once(inbox'[d], Ev("Large", r))
               /\ Ev("Large", r) \in Range(inbox'[d]) =>
                    r \in Client /\ d \in sentTo[r] /\ Msg("Large", r, d) \notin net /\ r \notin heardFrom'[d]
               /\ r \in heardFrom'[d] => d \in sentTo[r] /\ Msg("Large", r, d) \notin net
    <3>1. /\ Once(inbox[d], Ev("Large", r))
          /\ Ev("Large", r) \in Range(inbox[d]) =>
               r \in Client /\ d \in sentTo[r] /\ Msg("Large", r, d) \notin net /\ r \notin heardFrom[d]
          /\ r \in heardFrom[d] => d \in sentTo[r] /\ Msg("Large", r, d) \notin net
      BY Zenon, <1>1 DEF HeardInv
    <3>2. /\ Once(inbox'[d], Ev("Large", r))
          /\ Ev("Large", r) \in Range(inbox'[d]) => Ev("Large", r) \in Range(inbox[d])
      BY Zenon, <1>4, <3>1 DEF NoNew
    <3>3. CASE d # c
      BY Zenon, <1>8, <3>1, <3>2, <3>3
    <3>4. CASE d = c /\ r # p
      BY Zenon, <1>8, <3>1, <3>2, <3>4
    <3>5. CASE d = c /\ r = p
      BY Zenon, <1>6, <3>2, <3>5
    <3> QED BY Zenon, <3>3, <3>4, <3>5
  <2>3. \A m \in net' : m.kind = "Large" => m.from \in Client /\ m.to \in sentTo'[m.from]
    BY Zenon, <1>1, <1>3 DEF HeardInv
  <2> QED BY Zenon, <1>3, <1>13, <2>1, <2>2, <2>3 DEF HeardInv
<1>15. DoneInv'
  <2>1. heardFrom'[c] \subseteq contacts \ {c}
    <3>1. \A d \in heardFrom[c] : d \in Client /\ c \in sentTo[d]
      BY Zenon, <1>1, <1>7 DEF HeardInv, Node
    <3>2. \A d \in heardFrom'[c] : d \in Client /\ c \in sentTo[d]
      BY Zenon, <1>6, <1>8, <3>1
    <3> QED BY Zenon, <1>1, <3>2, SenderIsContact
  <2>2. /\ IsFiniteSet(client_nodes[c]) /\ sentTo[c] \in SUBSET client_nodes[c]
        /\ client_nodes[c] # {} => client_nodes[c] = contacts \ {c}
    <3>1. client_nodes[c] \in SUBSET Client
      BY Zenon, <1>1 DEF TypeOK
    <3>2. IsFiniteSet(client_nodes[c])
      BY Zenon, <3>1, ExchangeAssumption, FS_Subset
    <3> QED BY Zenon, <1>1, <3>2 DEF SentInv, ListInv
  <2>3. ~done[c]
    <3> SUFFICES ASSUME done[c] PROVE FALSE
      BY Zenon
    <3>1. client_nodes[c] # {} /\ sentTo[c] = client_nodes[c] /\ heardFrom[c] = client_nodes[c]
      BY Zenon, <1>1 DEF DoneInv
    <3>2. p \in heardFrom'[c]
      BY Zenon, <1>8
    <3>3. p \in heardFrom[c]
      BY Zenon, <2>1, <2>2, <3>1, <3>2
    <3> QED BY Zenon, <1>6, <3>3
  <2>4. ASSUME received_messages[c] + 1 = Cardinality(client_nodes[c]),
               sent_messages[c] = Cardinality(client_nodes[c])
        PROVE  /\ client_nodes[c] # {} /\ sentTo[c] = client_nodes[c]
               /\ heardFrom'[c] = client_nodes[c]
    <3>1. client_nodes[c] # {}
      <4>1. received_messages[c] + 1 # 0
        BY <1>7
      <4> QED BY Zenon, <2>4, <4>1, FS_EmptySet
    <3>2. sentTo[c] = client_nodes[c]
      <4>1. Cardinality(client_nodes[c]) = Cardinality(sentTo[c])
        BY Zenon, <1>1, <2>4 DEF SentInv
      <4> QED BY Zenon, <2>2, <4>1, FS_Subset
    <3>3. heardFrom'[c] = client_nodes[c]
      <4>1. Cardinality(client_nodes[c]) = Cardinality(heardFrom'[c])
        BY Zenon, <1>8, <1>13, <2>4
      <4>2. heardFrom'[c] \in SUBSET client_nodes[c]
        BY Zenon, <2>1, <2>2, <3>1
      <4> QED BY Zenon, <2>2, <4>1, <4>2, FS_Subset
    <3> QED BY Zenon, <3>1, <3>2, <3>3
  <2>5. ASSUME NEW d \in Client, done'[d]
        PROVE  /\ client_nodes[d] # {} /\ sentTo[d] = client_nodes[d]
               /\ heardFrom'[d] = client_nodes[d]
    <3>1. CASE d = c
      <4>1. /\ received_messages[c] + 1 = Cardinality(client_nodes[c])
            /\ sent_messages[c] = Cardinality(client_nodes[c])
        BY Zenon, <1>9, <2>3, <2>5, <3>1
      <4> QED BY Zenon, <2>4, <3>1, <4>1
    <3>2. CASE d # c
      BY Zenon, <1>1, <1>8, <1>9, <2>5, <3>2 DEF DoneInv
    <3> QED BY Zenon, <3>1, <3>2
  <2> QED BY Zenon, <1>3, <2>5 DEF DoneInv
<1> QED BY Zenon, <1>10, <1>11, <1>12, <1>14, <1>15 DEF ExchangeInv

\* A large message is counted or reported as an error.
LEMMA OnLargeKeeps ==
  ASSUME ExchangeInv, NEW c \in Client, NEW p \in Client, OnLarge(c, p)
  PROVE  ExchangeInv'
<1>1. CASE Counts(c, p)
  BY Zenon, <1>1, OnLargeCounts
<1>2. CASE ~Counts(c, p)
  <2>1. TypeOK /\ NextEvent(c, "Large", p)
    BY Zenon DEF ExchangeInv, OnLarge
  <2>2. c \in Node /\ Taken(c) /\ inbox' \in [Node -> Seq(Event)]
    BY Zenon, <2>1, NextEventFacts
  <2>3. /\ contacts' = contacts /\ connected_peers' = connected_peers /\ phase' = phase
        /\ link' = link /\ net' = net /\ client_nodes' = client_nodes
        /\ sentTo' = sentTo /\ heardFrom' = heardFrom /\ peer_states' = peer_states
        /\ sent_messages' = sent_messages /\ received_messages' = received_messages
        /\ done' = done
    BY Zenon, <1>2 DEF OnLarge, bootVars
  <2>4. TypeOK'
    BY Zenon, <2>1, <2>2, <2>3 DEF TypeOK
  <2> QED BY Zenon, <2>2, <2>3, <2>4, QuietKeeps
<1> QED BY Zenon, <1>1, <1>2

-----------------------------------------------------------------------------
(* Results.                                                                 *)

\* The invariant holds when nothing has started.
LEMMA ExchangeInvInit == Init => ExchangeInv
<1> SUFFICES ASSUME Init PROVE ExchangeInv
  BY Zenon
<1>1. /\ net = {} /\ inbox = [n \in Node |-> <<>>] /\ connected_peers = {} /\ contacts = {}
      /\ client_nodes = [c \in Client |-> {}] /\ peer_states = [c \in Client |-> {}]
      /\ sent_messages = [c \in Client |-> 0] /\ received_messages = [c \in Client |-> 0]
      /\ sentTo = [c \in Client |-> {}] /\ heardFrom = [c \in Client |-> {}]
      /\ done = [c \in Client |-> FALSE]
  BY Zenon DEF Init
<1>2. Boot \in Node /\ Client \subseteq Node
  BY Zenon DEF Node
<1>3. TypeOK
  <2>1. phase \in [Node -> Phase]
    BY DEF Init, Phase
  <2>2. link \in [Node -> [Node -> {"none", "trying", "up"}]]
    BY DEF Init
  <2>3. <<>> \in Seq(Event)
    BY EmptyFacts
  <2>4. inbox \in [Node -> Seq(Event)]
    BY Zenon, <1>1, <2>3
  <2>5. sent_messages \in [Client -> Nat] /\ received_messages \in [Client -> Nat]
    BY <1>1
  <2>6. /\ client_nodes \in [Client -> SUBSET Client] /\ \A c \in Client : c \notin client_nodes[c]
        /\ peer_states \in [Client -> SUBSET Client]
        /\ sentTo \in [Client -> SUBSET Client] /\ heardFrom \in [Client -> SUBSET Client]
    BY Zenon, <1>1
  <2>7. done \in [Client -> BOOLEAN]
    BY Zenon, <1>1
  <2> QED BY Zenon, <1>1, <2>1, <2>2, <2>4, <2>5, <2>6, <2>7 DEF TypeOK
<1>4. \A n \in Node : Range(inbox[n]) = {} /\ \A x : Once(inbox[n], x)
  <2>1. DOMAIN <<>> = {}
    BY EmptyFacts, SequenceFacts
  <2>2. Range(<<>>) = {} /\ \A x : Once(<<>>, x)
    BY Zenon, <2>1 DEF Range, Once
  <2>3. \A n \in Node : inbox[n] = <<>>
    BY Zenon, <1>1
  <2> QED BY Zenon, <2>2, <2>3
<1>5. \A c \in Client : /\ client_nodes[c] = {} /\ sentTo[c] = {} /\ heardFrom[c] = {}
                        /\ sent_messages[c] = 0 /\ received_messages[c] = 0 /\ ~done[c]
  BY Zenon, <1>1
<1>6. Cardinality({}) = 0
  BY Zenon, FS_EmptySet
<1>7. ListInv
  BY Zenon, <1>1, <1>2, <1>4, <1>5 DEF ListInv
<1>8. SentInv
  BY Zenon, <1>2, <1>4, <1>5, <1>6 DEF SentInv
<1>9. HeardInv
  BY Zenon, <1>1, <1>2, <1>4, <1>5, <1>6 DEF HeardInv
<1>10. DoneInv
  BY Zenon, <1>5 DEF DoneInv
<1> QED BY Zenon, <1>3, <1>7, <1>8, <1>9, <1>10 DEF ExchangeInv

\* The invariant holds in every run of the test.
LEMMA ExchangeInvariance == Spec => []ExchangeInv
<1>1. ExchangeInv /\ [Next]_vars => ExchangeInv'
  <2> SUFFICES ASSUME ExchangeInv, [Next]_vars PROVE ExchangeInv'
    BY Zenon
  <2>1. CASE Next
    BY Zenon, <2>1, CompleteKeeps, EchoStepsKeep, UserMessageKeeps, BootOnConnectKeeps,
       StartKeeps, OnStartTestKeeps, OnConnectKeeps, OnSmallKeeps, OnLargeKeeps DEF Next
  <2>2. CASE UNCHANGED vars
    <3>1. /\ phase' = phase /\ link' = link /\ net' = net /\ inbox' = inbox
          /\ contacts' = contacts /\ connected_peers' = connected_peers
          /\ client_nodes' = client_nodes /\ sentTo' = sentTo /\ heardFrom' = heardFrom
          /\ peer_states' = peer_states /\ sent_messages' = sent_messages
          /\ received_messages' = received_messages /\ done' = done
      BY Zenon, <2>2 DEF vars, bootVars, clientVars
    <3>2. TypeOK'
      BY Zenon, <3>1 DEF ExchangeInv, TypeOK
    <3> QED BY Zenon, <3>1, <3>2, QuietKeeps
  <2> QED BY Zenon, <2>1, <2>2
<1> QED BY <1>1, ExchangeInvInit, PTL DEF Spec

\* The state of the programs keeps its types; what a test could miss is that no
\* client is in its own list and the bootstrap node is in none (client_node.rs:198,
\* bootstrap_node.rs:126).
THEOREM ExchangeTypes == Spec => []TypeOK
<1>1. ExchangeInv => TypeOK
  BY Zenon DEF ExchangeInv
<1> QED BY <1>1, ExchangeInvariance, PTL

\* "Done. All checks passed" (client_node.rs:180) is true for any number of clients
\* and in every order of connections, lists and messages, panics included.
THEOREM ChecksPassed == Spec => []DoneIsTrue
<1>1. ExchangeInv => DoneIsTrue
  <2> SUFFICES ASSUME ExchangeInv, NEW c \in Client, done[c]
               PROVE  /\ client_nodes[c] = contacts \ {c}
                      /\ sentTo[c] = client_nodes[c] /\ sent_messages[c] = Cardinality(sentTo[c])
                      /\ heardFrom[c] = client_nodes[c]
                      /\ received_messages[c] = Cardinality(heardFrom[c])
                      /\ \A d \in client_nodes[c] : c \in sentTo[d] /\ d \in peer_states[c]
    BY Zenon DEF DoneIsTrue
  <2>1. /\ TypeOK /\ ListInv /\ SentInv /\ HeardInv /\ DoneInv
    BY Zenon DEF ExchangeInv
  <2>2. client_nodes[c] # {} /\ sentTo[c] = client_nodes[c] /\ heardFrom[c] = client_nodes[c]
    BY Zenon, <2>1 DEF DoneInv
  <2>3. client_nodes[c] = contacts \ {c}
    BY Zenon, <2>1, <2>2 DEF ListInv
  <2>4. /\ sent_messages[c] = Cardinality(sentTo[c])
        /\ received_messages[c] = Cardinality(heardFrom[c])
    BY Zenon, <2>1 DEF SentInv, HeardInv
  <2>5. \A d \in heardFrom[c] : d \in Node
    BY Zenon, <2>1 DEF TypeOK, Node
  <2>6. \A d \in heardFrom[c] : c \in sentTo[d] /\ d \in peer_states[c]
    BY Zenon, <2>1, <2>5 DEF HeardInv
  <2> QED BY Zenon, <2>2, <2>3, <2>4, <2>6
<1> QED BY <1>1, ExchangeInvariance, PTL

-----------------------------------------------------------------------------
(* What is sure to happen: lists arrive, and one of each pair sends.         *)

\* Only the next event leaves a channel.
LEMMA TakenLeaves ==
  ASSUME TypeOK, NEW n \in Node, Taken(n)
  PROVE  \A m \in Node : \A x : x \in Range(inbox[m]) =>
           x \in Range(inbox'[m]) \/ (m = n /\ x = Head(inbox[n]))
<1>1. inbox \in [Node -> Seq(Event)] /\ inbox[n] \in Seq(Event) /\ inbox[n] # <<>>
  BY Zenon DEF TypeOK, Taken
<1>2. inbox'[n] = Tail(inbox[n]) /\ \A m \in Node : m # n => inbox'[m] = inbox[m]
  BY <1>1 DEF Taken
<1>3. ASSUME NEW q \in Seq(Event), q # <<>>, NEW x \in Range(q), x # Head(q)
      PROVE  x \in Range(Tail(q))
  <2> DEFINE t == Tail(q)
  <2>1. /\ t \in Seq(Event) /\ Len(t) = Len(q) - 1
        /\ \A i \in 1..Len(t) : t[i] = q[i + 1]
    BY <1>3, TailFacts
  <2>2. Head(q) = q[1] /\ DOMAIN q = 1..Len(q) /\ Len(q) \in Nat
    BY <1>3, SequenceFacts
  <2> HIDE DEF t
  <2>3. DOMAIN t = 1..Len(t)
    BY <2>1, SequenceFacts
  <2>4. PICK i \in DOMAIN q : q[i] = x
    BY Zenon DEF Range
  <2>5. i - 1 \in 1..Len(t) /\ (i - 1) + 1 = i
    BY <1>3, <2>1, <2>2, <2>4
  <2>6. t[i - 1] = x /\ i - 1 \in DOMAIN t
    BY Zenon, <2>1, <2>3, <2>4, <2>5
  <2> QED BY Zenon, <2>6 DEF Range, t
<1> QED BY Zenon, <1>1, <1>2, <1>3

\* A step that changes no phase and takes nothing from the network.
LEMMA AskInvFrame ==
  ASSUME AskInv, phase' = phase, net \subseteq net',
         \A m \in net' : m \in net \/ m.kind \in UserMsg,
         \A c \in Client :
           /\ link'[c][c] = "up" => link[c][c] = "up"
           /\ link[c][Boot] # "none" => link'[c][Boot] # "none"
           /\ phase[c] \in {"off", "asking"} =>
                /\ client_nodes'[c] = client_nodes[c]
                /\ \A e \in Range(inbox'[c]) : e \in Range(inbox[c]) \/ e.event = "ConnectedTo",
         contacts # {} => contacts' # {}
  PROVE  AskInv'
<1>1. "EchoReq" \notin UserMsg /\ "EchoResp" \notin UserMsg
  BY DEF UserMsg
<1>2. /\ \A m \in net' : m.kind = "EchoReq" => m.from \in Client
      /\ \A m \in net' : m.kind = "EchoResp" => m.to \in Client
  BY Zenon, <1>1 DEF AskInv
<1>3. ASSUME NEW c \in Client
      PROVE  /\ link'[c][c] # "up"
             /\ phase[c] # "off" => link'[c][Boot] # "none"
             /\ phase[c] = "asking" =>
                  Msg("EchoReq", c, Boot) \in net' \/ Msg("EchoResp", Boot, c) \in net'
             /\ phase[c] \in {"off", "asking"} =>
                  client_nodes'[c] = {} /\ \A e \in Range(inbox'[c]) : e.event = "ConnectedTo"
             /\ phase[c] = "panicked" => contacts' # {}
  BY Zenon DEF AskInv
<1> QED BY Zenon, <1>2, <1>3 DEF AskInv

\* A step that neither connects the bootstrap node nor counts a connection.
LEMMA CollectInvFrame ==
  ASSUME CollectInv, connected_peers' = connected_peers, contacts' = contacts,
         Range(inbox'[Boot]) = Range(inbox[Boot]),
         \A c \in Client : link'[Boot][c] = "up" => link[Boot][c] = "up",
         \A m \in net' : m \in net \/ m.kind \notin UserMsg \/ contacts # {}
  PROVE  CollectInv'
<1>1. \A c \in Client : link'[Boot][c] = "up" =>
        c \in connected_peers' \/ Ev("ConnectedTo", c) \in Range(inbox'[Boot])
  BY Zenon DEF CollectInv
<1>2. contacts' = {} =>
        /\ Cardinality(connected_peers') < ExpectedConns
        /\ \A m \in net' : m.kind \notin UserMsg
  BY Zenon DEF CollectInv
<1> QED BY Zenon, <1>1, <1>2 DEF CollectInv

\* A step that takes no list from where it is.
LEMMA HasListInvFrame ==
  ASSUME HasListInv, contacts' = contacts, client_nodes' = client_nodes,
         \A c \in contacts :
           /\ phase[c] = "panicked" => phase'[c] = "panicked"
           /\ Msg("StartTest", Boot, c) \in net => Msg("StartTest", Boot, c) \in net'
           /\ Ev("StartTest", Boot) \in Range(inbox[c]) => Ev("StartTest", Boot) \in Range(inbox'[c])
  PROVE  HasListInv'
<1> SUFFICES ASSUME NEW c \in contacts
             PROVE  \/ phase'[c] = "panicked"
                    \/ Msg("StartTest", Boot, c) \in net'
                    \/ Ev("StartTest", Boot) \in Range(inbox'[c])
                    \/ client_nodes[c] = contacts \ {c}
  BY Zenon DEF HasListInv
<1> QED BY Zenon DEF HasListInv

\* A step that changes no connection between clients and no list, and drops the news
\* of a connection only when it sends.
LEMMA PairInvFrame ==
  ASSUME PairInv, client_nodes \in [Client -> SUBSET Client], client_nodes' = client_nodes,
         \A c, d \in Client : link'[c][d] = link[c][d],
         \A c \in Client : \A d \in client_nodes[c] :
           /\ d \in sentTo[c] => d \in sentTo'[c]
           /\ Ev("ConnectedTo", d) \in Range(inbox[c]) =>
                Ev("ConnectedTo", d) \in Range(inbox'[c]) \/ d \in sentTo'[c]
  PROVE  PairInv'
<1>1. \A c \in Client : \A d \in client_nodes'[c] : link'[c][d] # "none"
  BY Zenon DEF PairInv
<1>2. ASSUME NEW c \in Client, NEW d \in Client, Sends(c, d) PROVE Sends(c, d)'
  BY Zenon, <1>2 DEF Sends
<1>3. \A c, d \in Client : c # d /\ link'[c][d] # "none" => Sends(c, d)' \/ Sends(d, c)'
  BY Zenon, <1>2 DEF PairInv
<1> QED BY Zenon, <1>1, <1>3 DEF PairInv

\* A connection completes.
LEMMA CompleteTest ==
  ASSUME ExchangeInv, TestInv, NEW a \in Node, NEW b \in Node, a # b, Complete(a, b)
  PROVE  TestInv'
<1>1. TypeOK /\ AskInv /\ CollectInv /\ HasListInv /\ PairInv
  BY Zenon DEF ExchangeInv, TestInv
<1>2. /\ Added(a, Ev("ConnectedTo", b)) /\ (link[a][b] = "trying" \/ link[b][a] # "none")
      /\ link' = [link EXCEPT ![a][b] = "up"]
      /\ UNCHANGED <<phase, net, bootVars, clientVars>>
  BY Zenon DEF Complete, CanComplete, Tell, Added, Ev
<1>3. /\ phase' = phase /\ net' = net /\ contacts' = contacts /\ connected_peers' = connected_peers
      /\ client_nodes' = client_nodes /\ sentTo' = sentTo
  BY Zenon, <1>2 DEF bootVars, clientVars
<1>4. Ev("ConnectedTo", b) \in Event /\ Boot \in Node /\ Client \subseteq Node /\ Boot \notin Client
  BY Zenon, EventFacts, ExchangeAssumption DEF Node
<1>5. /\ Range(inbox'[a]) = Range(inbox[a]) \union {Ev("ConnectedTo", b)}
      /\ \A m \in Node : m # a => inbox'[m] = inbox[m]
  BY Zenon, <1>1, <1>2, <1>4, AddedFacts
<1>6. \A m \in Node : Range(inbox[m]) \subseteq Range(inbox'[m])
  <2> SUFFICES ASSUME NEW m \in Node PROVE Range(inbox[m]) \subseteq Range(inbox'[m])
    BY Zenon
  <2>1. CASE m = a
    BY Zenon, <1>5, <2>1
  <2>2. CASE m # a
    BY Zenon, <1>5, <2>2
  <2> QED BY Zenon, <2>1, <2>2
<1>7. /\ \A c, p \in Node : c # a \/ p # b => link'[c][p] = link[c][p]
      /\ link'[a][b] = "up"
  <2>1. link \in [Node -> [Node -> {"none", "trying", "up"}]]
    BY Zenon, <1>1 DEF TypeOK
  <2> QED BY <1>2, <2>1
<1>8. AskInv'
  <2>1. ASSUME NEW c \in Client
        PROVE  /\ link'[c][c] = "up" => link[c][c] = "up"
               /\ link[c][Boot] # "none" => link'[c][Boot] # "none"
    <3>1. link'[c][c] = link[c][c]
      BY Zenon, <1>4, <1>7
    <3>2. CASE c = a /\ Boot = b
      <4>1. "up" # "none"
        OBVIOUS
      <4> QED BY Zenon, <1>7, <3>1, <3>2, <4>1
    <3>3. CASE c # a \/ Boot # b
      BY Zenon, <1>4, <1>7, <3>1, <3>3
    <3> QED BY Zenon, <3>2, <3>3
  <2>2. ASSUME NEW c \in Client, NEW e \in Range(inbox'[c])
        PROVE  e \in Range(inbox[c]) \/ e.event = "ConnectedTo"
    <3>1. CASE c = a
      <4>1. Ev("ConnectedTo", b).event = "ConnectedTo"
        BY DEF Ev
      <4> QED BY Zenon, <1>5, <3>1, <4>1
    <3>2. CASE c # a
      BY Zenon, <1>4, <1>5, <3>2
    <3> QED BY Zenon, <3>1, <3>2
  <2> QED BY Zenon, <1>1, <1>3, <2>1, <2>2, AskInvFrame
<1>9. CollectInv'
  <2>1. ASSUME NEW c \in Client, link'[Boot][c] = "up"
        PROVE  c \in connected_peers \/ Ev("ConnectedTo", c) \in Range(inbox'[Boot])
    <3>1. CASE Boot = a /\ c = b
      BY Zenon, <1>5, <3>1
    <3>2. CASE Boot # a \/ c # b
      <4>1. link[Boot][c] = "up"
        BY Zenon, <1>4, <1>7, <2>1, <3>2
      <4> QED BY Zenon, <1>1, <1>4, <1>6, <4>1 DEF CollectInv
    <3> QED BY Zenon, <3>1, <3>2
  <2> QED BY Zenon, <1>1, <1>3, <2>1 DEF CollectInv
<1>10. HasListInv'
  <2>1. contacts \subseteq Node
    BY Zenon, <1>1, <1>4 DEF TypeOK
  <2> QED BY Zenon, <1>1, <1>3, <1>6, <2>1, HasListInvFrame
<1>11. PairInv'
  <2>1. ASSUME NEW c \in Client, NEW d \in client_nodes'[c] PROVE link'[c][d] # "none"
    <3>1. link[c][d] # "none" /\ d \in Node /\ c \in Node
      BY Zenon, <1>1, <1>3, <1>4, <2>1 DEF PairInv, TypeOK
    <3>2. "up" # "none"
      OBVIOUS
    <3> QED BY Zenon, <1>7, <3>1, <3>2
  <2>2. ASSUME NEW c \in Client, NEW d \in Client, Sends(c, d) PROVE Sends(c, d)'
    <3>1. CASE c = a /\ d = b
      BY Zenon, <1>3, <1>5, <2>2, <3>1 DEF Sends
    <3>2. CASE c # a \/ d # b
      <4>1. link'[c][d] = link[c][d] /\ Range(inbox[c]) \subseteq Range(inbox'[c])
        BY Zenon, <1>4, <1>6, <1>7, <3>2
      <4> QED BY Zenon, <1>3, <2>2, <4>1 DEF Sends
    <3> QED BY Zenon, <3>1, <3>2
  <2>3. ASSUME NEW c \in Client, NEW d \in Client, c # d, link'[c][d] # "none"
        PROVE  Sends(c, d)' \/ Sends(d, c)'
    <3>1. link[c][d] # "none" \/ link[d][c] # "none"
      <4>1. CASE c = a /\ d = b
        <5>1. "trying" # "none"
          OBVIOUS
        <5> QED BY Zenon, <1>2, <4>1, <5>1
      <4>2. CASE c # a \/ d # b
        BY Zenon, <1>4, <1>7, <2>3, <4>2
      <4> QED BY Zenon, <4>1, <4>2
    <3>2. Sends(c, d) \/ Sends(d, c)
      BY Zenon, <1>1, <2>3, <3>1 DEF PairInv
    <3> QED BY Zenon, <2>2, <3>2
  <2> QED BY Zenon, <2>1, <2>3 DEF PairInv
<1> QED BY Zenon, <1>8, <1>9, <1>10, <1>11 DEF TestInv

\* A question is answered.
LEMMA AnswerEchoTest ==
  ASSUME ExchangeInv, TestInv, NEW m \in net, AnswerEcho(m)
  PROVE  TestInv'
<1>1. TypeOK /\ AskInv /\ CollectInv /\ HasListInv /\ PairInv
  BY Zenon DEF ExchangeInv, TestInv
<1>2. /\ m.kind = "EchoReq" /\ net' = (net \ {m}) \union {Msg("EchoResp", m.to, m.from)}
      /\ phase' = phase /\ link' = link /\ inbox' = inbox
      /\ contacts' = contacts /\ connected_peers' = connected_peers
      /\ client_nodes' = client_nodes /\ sentTo' = sentTo
  BY Zenon DEF AnswerEcho, bootVars, clientVars
<1>3. m.from \in Client /\ \A x \in net' : x \in net \/ x = Msg("EchoResp", m.to, m.from)
  BY Zenon, <1>1, <1>2 DEF AskInv
<1>4. "EchoReq" # "EchoResp" /\ "EchoResp" \notin UserMsg /\ "StartTest" # "EchoReq"
  BY DEF UserMsg
<1>5. AskInv'
  <2>1. /\ \A x \in net' : x.kind = "EchoReq" => x.from \in Client
        /\ \A x \in net' : x.kind = "EchoResp" => x.to \in Client
    <3>1. /\ Msg("EchoResp", m.to, m.from).kind = "EchoResp"
          /\ Msg("EchoResp", m.to, m.from).to = m.from
      BY DEF Msg
    <3> QED BY Zenon, <1>1, <1>3, <1>4, <3>1 DEF AskInv
  <2>2. ASSUME NEW c \in Client, phase[c] = "asking"
        PROVE  Msg("EchoReq", c, Boot) \in net' \/ Msg("EchoResp", Boot, c) \in net'
    <3>1. Msg("EchoReq", c, Boot) \in net \/ Msg("EchoResp", Boot, c) \in net
      BY Zenon, <1>1, <2>2 DEF AskInv
    <3>2. CASE m = Msg("EchoReq", c, Boot)
      <4>1. m.to = Boot /\ m.from = c
        BY <3>2 DEF Msg
      <4> QED BY Zenon, <1>2, <4>1
    <3>3. Msg("EchoResp", Boot, c) # m
      <4>1. Msg("EchoResp", Boot, c).kind = "EchoResp"
        BY DEF Msg
      <4> QED BY Zenon, <1>2, <1>4, <4>1
    <3> QED BY Zenon, <1>2, <3>1, <3>2, <3>3
  <2> QED BY Zenon, <1>1, <1>2, <2>1, <2>2 DEF AskInv
<1>6. CollectInv'
  <2>1. \A x \in net' : x \in net \/ x.kind \notin UserMsg
    <3>1. Msg("EchoResp", m.to, m.from).kind = "EchoResp"
      BY DEF Msg
    <3> QED BY Zenon, <1>3, <1>4, <3>1
  <2> QED BY Zenon, <1>1, <1>2, <2>1, CollectInvFrame
<1>7. HasListInv'
  <2>1. \A c : Msg("StartTest", Boot, c) \in net => Msg("StartTest", Boot, c) \in net'
    <3>1. \A c : Msg("StartTest", Boot, c).kind = "StartTest"
      BY DEF Msg
    <3> QED BY Zenon, <1>2, <1>4, <3>1
  <2> QED BY Zenon, <1>1, <1>2, <2>1, HasListInvFrame
<1>8. PairInv'
  BY Zenon, <1>1, <1>2, PairInvFrame DEF TypeOK
<1> QED BY Zenon, <1>5, <1>6, <1>7, <1>8 DEF TestInv

\* An answer arrives, and the client goes on.
LEMMA EchoAnsweredTest ==
  ASSUME ExchangeInv, TestInv, NEW m \in net, EchoAnswered(m)
  PROVE  TestInv'
<1>1. TypeOK /\ AskInv /\ CollectInv /\ HasListInv /\ PairInv
  BY Zenon DEF ExchangeInv, TestInv
<1>2. /\ m.kind = "EchoResp" /\ Alive(m.to) /\ net' = net \ {m}
      /\ phase' = [phase EXCEPT ![m.to] = "running"] /\ link' = link /\ inbox' = inbox
      /\ contacts' = contacts /\ connected_peers' = connected_peers
      /\ client_nodes' = client_nodes /\ sentTo' = sentTo
  BY Zenon DEF EchoAnswered, Dispatchable, bootVars, clientVars
<1>3. m.to \in Client /\ m.to \in Node /\ Boot \in Node /\ Client \subseteq Node /\ m.to # Boot
  BY Zenon, <1>1, <1>2, ExchangeAssumption DEF AskInv, Node
<1>4. "EchoReq" # "EchoResp" /\ "StartTest" # "EchoResp" /\ "off" # "running"
      /\ "asking" # "running" /\ "panicked" # "running"
  OBVIOUS
<1>5. /\ phase'[m.to] = "running" /\ phase[m.to] # "off" /\ phase[m.to] # "panicked"
      /\ \A n \in Node : n # m.to => phase'[n] = phase[n]
  BY <1>1, <1>2, <1>3 DEF TypeOK, Alive
<1>6. AskInv'
  <2>1. ASSUME NEW c \in Client
        PROVE  /\ link[c][c] # "up"
               /\ phase'[c] # "off" => link[c][Boot] # "none"
               /\ phase'[c] = "asking" =>
                    Msg("EchoReq", c, Boot) \in net' \/ Msg("EchoResp", Boot, c) \in net'
               /\ phase'[c] \in {"off", "asking"} =>
                    client_nodes[c] = {} /\ \A e \in Range(inbox[c]) : e.event = "ConnectedTo"
               /\ phase'[c] = "panicked" => contacts # {}
    <3>1. CASE c = m.to
      BY Zenon, <1>1, <1>4, <1>5, <3>1 DEF AskInv
    <3>2. CASE c # m.to
      <4>1. phase'[c] = phase[c]
        BY Zenon, <1>3, <1>5, <3>2
      <4>2. Msg("EchoReq", c, Boot) # m /\ Msg("EchoResp", Boot, c) # m
        <5>1. Msg("EchoReq", c, Boot).kind = "EchoReq" /\ Msg("EchoResp", Boot, c).to = c
          BY DEF Msg
        <5> QED BY Zenon, <1>2, <1>4, <3>2, <5>1
      <4>3. phase[c] = "asking" =>
              Msg("EchoReq", c, Boot) \in net' \/ Msg("EchoResp", Boot, c) \in net'
        BY Zenon, <1>1, <1>2, <4>2 DEF AskInv
      <4> QED BY Zenon, <1>1, <4>1, <4>3 DEF AskInv
    <3> QED BY Zenon, <3>1, <3>2
  <2>2. phase'[Boot] = "running"
    BY Zenon, <1>1, <1>3, <1>5 DEF AskInv
  <2>3. /\ \A x \in net' : x.kind = "EchoReq" => x.from \in Client
        /\ \A x \in net' : x.kind = "EchoResp" => x.to \in Client
    BY Zenon, <1>1, <1>2 DEF AskInv
  <2> QED BY Zenon, <1>2, <2>1, <2>2, <2>3 DEF AskInv
<1>7. CollectInv'
  <2>1. \A x \in net' : x \in net
    BY Zenon, <1>2
  <2> QED BY Zenon, <1>1, <1>2, <2>1, CollectInvFrame
<1>8. HasListInv'
  <2>1. contacts \subseteq Node
    BY Zenon, <1>1, <1>3 DEF TypeOK
  <2>2. \A c : Msg("StartTest", Boot, c) \in net => Msg("StartTest", Boot, c) \in net'
    <3>1. \A c : Msg("StartTest", Boot, c).kind = "StartTest"
      BY DEF Msg
    <3> QED BY Zenon, <1>2, <1>4, <3>1
  <2>3. \A c \in contacts : phase[c] = "panicked" => phase'[c] = "panicked"
    BY Zenon, <1>5, <2>1
  <2> QED BY Zenon, <1>1, <1>2, <2>2, <2>3, HasListInvFrame
<1>9. PairInv'
  BY Zenon, <1>1, <1>2, PairInvFrame DEF TypeOK
<1> QED BY Zenon, <1>6, <1>7, <1>8, <1>9 DEF TestInv

\* A message for the application arrives.
LEMMA UserMessageTest ==
  ASSUME ExchangeInv, TestInv, NEW m \in net, UserMessage(m)
  PROVE  TestInv'
<1>1. TypeOK /\ ListInv /\ AskInv /\ CollectInv /\ HasListInv /\ PairInv
  BY Zenon DEF ExchangeInv, TestInv
<1>2. /\ m \in Message /\ m = Msg(m.kind, m.from, m.to)
      /\ m.from \in Node /\ m.to \in Node /\ m.kind \in UserMsg /\ Alive(m.to)
  BY Zenon, <1>1, MessageFacts DEF TypeOK, UserMessage, Dispatchable
<1>3. m.to \in Client /\ m.to # Boot /\ Client \subseteq Node /\ Boot \in Node
  BY Zenon, <1>1, <1>2, ExchangeAssumption DEF ListInv, Node
<1>4. /\ Added(m.to, Ev(m.kind, m.from)) /\ net' = net \ {m}
      /\ phase' = [phase EXCEPT ![m.to] = IF @ = "asking" THEN "panicked" ELSE @]
      /\ link' = link /\ contacts' = contacts /\ connected_peers' = connected_peers
      /\ client_nodes' = client_nodes /\ sentTo' = sentTo
  BY Zenon DEF UserMessage, Tell, Added, Ev, bootVars, clientVars
<1>5. Ev(m.kind, m.from) \in Event
  BY Zenon, <1>2, EventFacts
<1>6. /\ Range(inbox'[m.to]) = Range(inbox[m.to]) \union {Ev(m.kind, m.from)}
      /\ \A n \in Node : n # m.to => inbox'[n] = inbox[n]
  BY Zenon, <1>1, <1>2, <1>4, <1>5, AddedFacts
<1>7. \A n \in Node : Range(inbox[n]) \subseteq Range(inbox'[n])
  <2> SUFFICES ASSUME NEW n \in Node PROVE Range(inbox[n]) \subseteq Range(inbox'[n])
    BY Zenon
  <2>1. CASE n = m.to
    BY Zenon, <1>6, <2>1
  <2>2. CASE n # m.to
    BY Zenon, <1>6, <2>2
  <2> QED BY Zenon, <2>1, <2>2
<1>8. /\ phase'[m.to] = "panicked" \/ (phase'[m.to] = "running" /\ phase[m.to] = "running")
      /\ phase[m.to] # "off" /\ phase[m.to] # "panicked"
      /\ \A n \in Node : n # m.to => phase'[n] = phase[n]
  BY <1>1, <1>2, <1>4 DEF TypeOK, Alive
<1>9. contacts # {}
  BY Zenon, <1>1, <1>2 DEF CollectInv
<1>10. "off" # "running" /\ "asking" # "running" /\ "panicked" # "running" /\ "off" # "panicked"
       /\ "asking" # "panicked" /\ "EchoReq" \notin UserMsg /\ "EchoResp" \notin UserMsg
  BY DEF UserMsg
<1>11. AskInv'
  <2>1. ASSUME NEW c \in Client
        PROVE  /\ link[c][c] # "up"
               /\ phase'[c] # "off" => link[c][Boot] # "none"
               /\ phase'[c] = "asking" =>
                    Msg("EchoReq", c, Boot) \in net' \/ Msg("EchoResp", Boot, c) \in net'
               /\ phase'[c] \in {"off", "asking"} =>
                    client_nodes[c] = {} /\ \A e \in Range(inbox'[c]) : e.event = "ConnectedTo"
               /\ phase'[c] = "panicked" => contacts # {}
    <3>1. CASE c = m.to
      BY Zenon, <1>1, <1>8, <1>9, <1>10, <3>1 DEF AskInv
    <3>2. CASE c # m.to
      <4>1. phase'[c] = phase[c] /\ inbox'[c] = inbox[c]
        BY Zenon, <1>3, <1>6, <1>8, <3>2
      <4>2. Msg("EchoReq", c, Boot) # m /\ Msg("EchoResp", Boot, c) # m
        <5>1. Msg("EchoReq", c, Boot).kind = "EchoReq" /\ Msg("EchoResp", Boot, c).kind = "EchoResp"
          BY DEF Msg
        <5> QED BY Zenon, <1>2, <1>10, <5>1
      <4>3. phase[c] = "asking" =>
              Msg("EchoReq", c, Boot) \in net' \/ Msg("EchoResp", Boot, c) \in net'
        BY Zenon, <1>1, <1>4, <4>2 DEF AskInv
      <4> QED BY Zenon, <1>1, <4>1, <4>3 DEF AskInv
    <3> QED BY Zenon, <3>1, <3>2
  <2>2. phase'[Boot] = "running"
    BY Zenon, <1>1, <1>3, <1>8 DEF AskInv
  <2>3. /\ \A x \in net' : x.kind = "EchoReq" => x.from \in Client
        /\ \A x \in net' : x.kind = "EchoResp" => x.to \in Client
    BY Zenon, <1>1, <1>4 DEF AskInv
  <2> QED BY Zenon, <1>4, <2>1, <2>2, <2>3 DEF AskInv
<1>12. CollectInv'
  <2>1. (\A x \in net' : x \in net) /\ Range(inbox'[Boot]) = Range(inbox[Boot])
    BY Zenon, <1>3, <1>4, <1>6
  <2> QED BY Zenon, <1>1, <1>4, <2>1, CollectInvFrame
<1>13. HasListInv'
  <2> SUFFICES ASSUME NEW c \in contacts
               PROVE  \/ phase'[c] = "panicked"
                      \/ Msg("StartTest", Boot, c) \in net'
                      \/ Ev("StartTest", Boot) \in Range(inbox'[c])
                      \/ client_nodes[c] = contacts \ {c}
    BY Zenon, <1>4 DEF HasListInv
  <2>1. c \in Node
    BY Zenon, <1>1, <1>3 DEF TypeOK
  <2>2. \/ phase[c] = "panicked" \/ Msg("StartTest", Boot, c) \in net
        \/ Ev("StartTest", Boot) \in Range(inbox[c]) \/ client_nodes[c] = contacts \ {c}
    BY Zenon, <1>1 DEF HasListInv
  <2>3. phase[c] = "panicked" => phase'[c] = "panicked"
    BY Zenon, <1>8, <2>1
  <2>4. CASE m = Msg("StartTest", Boot, c)
    <3>1. m.kind = "StartTest" /\ m.from = Boot /\ m.to = c
      BY <2>4 DEF Msg
    <3> QED BY Zenon, <1>6, <3>1
  <2>5. CASE m # Msg("StartTest", Boot, c)
    BY Zenon, <1>4, <1>7, <2>1, <2>2, <2>3, <2>5
  <2> QED BY Zenon, <2>4, <2>5
<1>14. PairInv'
  BY Zenon, <1>1, <1>3, <1>4, <1>7, PairInvFrame DEF TypeOK
<1> QED BY Zenon, <1>11, <1>12, <1>13, <1>14 DEF TestInv

\* A client starts.
LEMMA StartTestInv ==
  ASSUME ExchangeInv, TestInv, NEW c \in Client, Start(c)
  PROVE  TestInv'
<1>1. TypeOK /\ AskInv /\ CollectInv /\ HasListInv /\ PairInv
  BY Zenon DEF ExchangeInv, TestInv
<1>2. /\ phase[c] = "off" /\ phase' = [phase EXCEPT ![c] = "asking"] /\ ConnectTo(c, {Boot})
      /\ net' = net \union {Msg("EchoReq", c, Boot)} /\ inbox' = inbox
      /\ contacts' = contacts /\ connected_peers' = connected_peers
      /\ client_nodes' = client_nodes /\ sentTo' = sentTo
  BY Zenon DEF Start, bootVars, clientVars
<1>3. c \in Node /\ Boot \in Node /\ Client \subseteq Node /\ c # Boot /\ Boot \notin Client
  BY Zenon, ExchangeAssumption DEF Node
<1>4. /\ phase'[c] = "asking" /\ \A n \in Node : n # c => phase'[n] = phase[n]
  BY <1>1, <1>2, <1>3 DEF TypeOK
<1>5. /\ \A a, b \in Node : a # c \/ b # Boot => link'[a][b] = link[a][b]
      /\ link'[c][Boot] # "none"
  BY <1>1, <1>2, <1>3 DEF TypeOK, ConnectTo
<1>6. /\ Msg("EchoReq", c, Boot).kind = "EchoReq" /\ Msg("EchoReq", c, Boot).from = c
      /\ "EchoReq" # "EchoResp" /\ "EchoReq" \notin UserMsg
      /\ "asking" # "off" /\ "asking" # "panicked" /\ "off" # "panicked"
  BY DEF Msg, UserMsg
<1>7. AskInv'
  <2>1. ASSUME NEW d \in Client
        PROVE  /\ link'[d][d] # "up"
               /\ phase'[d] # "off" => link'[d][Boot] # "none"
               /\ phase'[d] = "asking" =>
                    Msg("EchoReq", d, Boot) \in net' \/ Msg("EchoResp", Boot, d) \in net'
               /\ phase'[d] \in {"off", "asking"} =>
                    client_nodes[d] = {} /\ \A e \in Range(inbox[d]) : e.event = "ConnectedTo"
               /\ phase'[d] = "panicked" => contacts # {}
    <3>1. link'[d][d] = link[d][d]
      BY Zenon, <1>3, <1>5
    <3>2. CASE d = c
      <4>1. client_nodes[c] = {} /\ \A e \in Range(inbox[c]) : e.event = "ConnectedTo"
        BY Zenon, <1>1, <1>2 DEF AskInv
      <4>2. link[c][c] # "up" /\ Msg("EchoReq", c, Boot) \in net'
        BY Zenon, <1>1, <1>2 DEF AskInv
      <4> QED BY Zenon, <1>4, <1>5, <1>6, <3>1, <3>2, <4>1, <4>2
    <3>3. CASE d # c
      <4>1. phase'[d] = phase[d] /\ link'[d][Boot] = link[d][Boot] /\ net \subseteq net'
        BY Zenon, <1>2, <1>3, <1>4, <1>5, <3>3
      <4>2. phase[d] = "asking" =>
              Msg("EchoReq", d, Boot) \in net' \/ Msg("EchoResp", Boot, d) \in net'
        BY Zenon, <1>1, <4>1 DEF AskInv
      <4> QED BY Zenon, <1>1, <3>1, <4>1, <4>2 DEF AskInv
    <3> QED BY Zenon, <3>2, <3>3
  <2>2. phase'[Boot] = "running"
    BY Zenon, <1>1, <1>3, <1>4 DEF AskInv
  <2>3. /\ \A x \in net' : x.kind = "EchoReq" => x.from \in Client
        /\ \A x \in net' : x.kind = "EchoResp" => x.to \in Client
    BY Zenon, <1>1, <1>2, <1>6 DEF AskInv
  <2> QED BY Zenon, <1>2, <2>1, <2>2, <2>3 DEF AskInv
<1>8. CollectInv'
  <2>1. \A x \in net' : x \in net \/ x.kind \notin UserMsg
    BY Zenon, <1>2, <1>6
  <2>2. \A d \in Client : link'[Boot][d] = link[Boot][d]
    BY Zenon, <1>3, <1>5
  <2> QED BY Zenon, <1>1, <1>2, <2>1, <2>2, CollectInvFrame
<1>9. HasListInv'
  <2>1. \A d \in contacts : phase[d] = "panicked" => phase'[d] = "panicked"
    <3>1. contacts \subseteq Node
      BY Zenon, <1>1, <1>3 DEF TypeOK
    <3> QED BY Zenon, <1>2, <1>4, <1>6, <3>1
  <2>2. net \subseteq net'
    BY Zenon, <1>2
  <2> QED BY Zenon, <1>1, <1>2, <2>1, <2>2, HasListInvFrame
<1>10. PairInv'
  <2>1. \A a, b \in Client : link'[a][b] = link[a][b]
    BY Zenon, <1>3, <1>5
  <2> QED BY Zenon, <1>1, <1>2, <2>1, PairInvFrame DEF TypeOK
<1> QED BY Zenon, <1>7, <1>8, <1>9, <1>10 DEF TestInv

\* The bootstrap node counts a client, and may send out the list.
LEMMA BootOnConnectTest ==
  ASSUME ExchangeInv, TestInv, BootOnConnect
  PROVE  TestInv'
<1>1. TypeOK /\ ListInv /\ AskInv /\ CollectInv /\ HasListInv /\ PairInv
  BY Zenon DEF ExchangeInv, TestInv
<1> DEFINE p == Head(inbox[Boot]).peer
           S == connected_peers \union {p}
<1>2. /\ Taken(Boot) /\ connected_peers' = S
      /\ \/ /\ contacts = {} /\ contacts' = S
            /\ net' = net \union {Msg("StartTest", Boot, c) : c \in S}
         \/ (Cardinality(S) # ExpectedConns \/ contacts # {}) /\ contacts' = contacts /\ net' = net
      /\ phase' = phase /\ link' = link /\ client_nodes' = client_nodes /\ sentTo' = sentTo
  BY Zenon DEF BootOnConnect, Taken, Enough, clientVars
<1>3. Boot \in Node /\ Client \subseteq Node /\ Boot \notin Client
  BY Zenon, ExchangeAssumption DEF Node
<1>4. /\ Head(inbox[Boot]) \in Range(inbox[Boot])
      /\ \A m \in Node : m # Boot => inbox'[m] = inbox[m]
  BY Zenon, <1>1, <1>2, <1>3, TakenFacts
<1>5. \A x \in Range(inbox[Boot]) : x \in Range(inbox'[Boot]) \/ x = Head(inbox[Boot])
  BY Zenon, <1>1, <1>2, <1>3, TakenLeaves
<1>6. p \in Client /\ connected_peers \in SUBSET Client
  BY Zenon, <1>1, <1>4 DEF ListInv, TypeOK
<1>7. /\ \A c : Ev("ConnectedTo", c) = Head(inbox[Boot]) => c = p
      /\ p \in S /\ connected_peers \subseteq S
  BY DEF Ev
<1> HIDE DEF p, S
<1>8. S # {} /\ S \subseteq Client
  BY Zenon, <1>6, <1>7 DEF S
<1>9. \A x \in {Msg("StartTest", Boot, c) : c \in S} : x.kind = "StartTest"
  BY DEF Msg
<1>10. "StartTest" \in UserMsg
  BY DEF UserMsg
<1>11. net \subseteq net' /\ (\A x \in net' : x \in net \/ x.kind \in UserMsg)
       /\ (contacts # {} => contacts' # {}) /\ \A c \in Client : inbox'[c] = inbox[c]
  BY Zenon, <1>2, <1>3, <1>4, <1>8, <1>9, <1>10
<1>12. AskInv'
  BY Zenon, <1>1, <1>2, <1>11, AskInvFrame
<1>13. CollectInv'
  <2>1. ASSUME NEW c \in Client, link'[Boot][c] = "up"
        PROVE  c \in connected_peers' \/ Ev("ConnectedTo", c) \in Range(inbox'[Boot])
    <3>1. c \in connected_peers \/ Ev("ConnectedTo", c) \in Range(inbox[Boot])
      BY Zenon, <1>1, <1>2, <2>1 DEF CollectInv
    <3> QED BY Zenon, <1>2, <1>5, <1>7, <3>1
  <2>2. ASSUME contacts' = {}
        PROVE  /\ Cardinality(connected_peers') < ExpectedConns
               /\ \A m \in net' : m.kind \notin UserMsg
    <3>1. contacts = {} /\ net' = net /\ Cardinality(S) # ExpectedConns
      BY Zenon, <1>2, <1>8, <2>2
    <3>2. /\ Cardinality(connected_peers) < ExpectedConns
          /\ \A m \in net : m.kind \notin UserMsg
      BY Zenon, <1>1, <3>1 DEF CollectInv
    <3>3. CASE p \in connected_peers
      <4>1. S = connected_peers
        BY Zenon, <3>3 DEF S
      <4> QED BY Zenon, <1>2, <3>1, <3>2, <4>1
    <3>4. CASE p \notin connected_peers
      <4>1. /\ Cardinality(connected_peers) \in Nat
            /\ Cardinality(S) = Cardinality(connected_peers) + 1
        BY Zenon, <1>6, <3>4, CountFacts DEF S
      <4>2. Cardinality(S) < ExpectedConns
        BY <3>1, <3>2, <4>1, ExchangeAssumption
      <4> QED BY Zenon, <1>2, <3>1, <3>2, <4>2
    <3> QED BY Zenon, <3>3, <3>4
  <2> QED BY Zenon, <2>1, <2>2 DEF CollectInv
<1>14. HasListInv'
  <2>1. CASE contacts = {} /\ contacts' = S /\ net' = net \union {Msg("StartTest", Boot, c) : c \in S}
    BY Zenon, <2>1 DEF HasListInv
  <2>2. CASE contacts' = contacts /\ net' = net
    <3>1. \A c \in contacts : inbox'[c] = inbox[c]
      BY Zenon, <1>1, <1>11 DEF TypeOK
    <3> QED BY Zenon, <1>1, <1>2, <2>2, <3>1, HasListInvFrame
  <2> QED BY Zenon, <1>2, <2>1, <2>2
<1>15. PairInv'
  BY Zenon, <1>1, <1>2, <1>11, PairInvFrame DEF TypeOK
<1> QED BY Zenon, <1>12, <1>13, <1>14, <1>15 DEF TestInv

\* A client gets the list, and connects to everyone on it.
LEMMA OnStartTestTest ==
  ASSUME ExchangeInv, TestInv, NEW c \in Client, OnStartTest(c)
  PROVE  TestInv'
<1>1. TypeOK /\ ListInv /\ AskInv /\ CollectInv /\ HasListInv /\ PairInv
  BY Zenon DEF ExchangeInv, TestInv
<1>2. /\ NextEvent(c, "StartTest", Boot) /\ ConnectTo(c, contacts \ {c})
      /\ client_nodes' = [client_nodes EXCEPT ![c] = @ \union (contacts \ {c})]
      /\ contacts' = contacts /\ connected_peers' = connected_peers /\ phase' = phase
      /\ net' = net /\ sentTo' = sentTo
  BY Zenon DEF OnStartTest, ContactsOf, bootVars
<1>3. /\ c \in Node /\ c # Boot /\ Taken(c) /\ Ev("StartTest", Boot) \in Range(inbox[c])
      /\ \A f : NoNew(f)
      /\ Range(inbox'[Boot]) = Range(inbox[Boot])
  BY Zenon, <1>1, <1>2, NextEventFacts
<1>4. phase[c] = "running" /\ Head(inbox[c]) = Ev("StartTest", Boot)
  BY Zenon, <1>2 DEF NextEvent, Ev
<1>5. Boot \in Node /\ Client \subseteq Node /\ Boot \notin Client /\ contacts \subseteq Client
  BY Zenon, <1>1, ExchangeAssumption DEF Node, TypeOK
<1>6. /\ \A n \in Node : \A x : x \in Range(inbox[n]) /\ x # Ev("StartTest", Boot) =>
           x \in Range(inbox'[n])
      /\ \A n \in Node : n # c => inbox'[n] = inbox[n]
      /\ Range(inbox'[c]) \subseteq Range(inbox[c])
  <2>1. /\ \A n \in Node : n # c => inbox'[n] = inbox[n]
        /\ Range(inbox'[c]) \subseteq Range(inbox[c])
    BY Zenon, <1>1, <1>3, TakenFacts
  <2>2. \A n \in Node : \A x : x \in Range(inbox[n]) =>
          x \in Range(inbox'[n]) \/ (n = c /\ x = Head(inbox[c]))
    BY Zenon, <1>1, <1>3, TakenLeaves
  <2> QED BY Zenon, <1>4, <2>1, <2>2
<1>7. /\ \A d \in Client : d # c => client_nodes'[d] = client_nodes[d]
      /\ client_nodes'[c] = client_nodes[c] \union (contacts \ {c})
  BY <1>1, <1>2 DEF TypeOK
<1>8. client_nodes'[c] = contacts \ {c} /\ client_nodes[c] \subseteq client_nodes'[c]
  BY Zenon, <1>1, <1>7 DEF ListInv
<1>9. /\ \A a, b \in Node : a # c \/ b \notin contacts \ {c} \/ link[a][b] # "none"
           => link'[a][b] = link[a][b]
      /\ \A b \in contacts \ {c} : link[c][b] = "none" => link'[c][b] = "trying"
  BY <1>1, <1>2, <1>3, <1>5 DEF TypeOK, ConnectTo
<1>10. "running" # "off" /\ "running" # "asking" /\ "trying" # "none" /\ "trying" # "up"
  OBVIOUS
<1>11. AskInv'
  <2>1. ASSUME NEW d \in Client
        PROVE  /\ link'[d][d] = link[d][d] /\ link'[d][Boot] = link[d][Boot]
               /\ phase[d] \in {"off", "asking"} =>
                    client_nodes'[d] = client_nodes[d] /\ inbox'[d] = inbox[d]
    <3>1. d \in Node /\ Boot \notin contacts /\ (d # c \/ d \notin contacts \ {c})
      BY Zenon, <1>5
    <3>2. link'[d][d] = link[d][d] /\ link'[d][Boot] = link[d][Boot]
      BY Zenon, <1>5, <1>9, <3>1
    <3>3. phase[d] \in {"off", "asking"} => d # c
      BY Zenon, <1>4, <1>10
    <3> QED BY Zenon, <1>6, <1>7, <3>1, <3>2, <3>3
  <2> QED BY Zenon, <1>1, <1>2, <2>1, AskInvFrame
<1>12. CollectInv'
  <2>1. \A d \in Client : link'[Boot][d] = link[Boot][d]
    BY Zenon, <1>3, <1>5, <1>9
  <2> QED BY Zenon, <1>1, <1>2, <1>3, <2>1, CollectInvFrame
<1>13. HasListInv'
  <2> SUFFICES ASSUME NEW d \in contacts
               PROVE  \/ phase[d] = "panicked" \/ Msg("StartTest", Boot, d) \in net
                      \/ Ev("StartTest", Boot) \in Range(inbox'[d])
                      \/ client_nodes'[d] = contacts \ {d}
    BY Zenon, <1>2 DEF HasListInv
  <2>1. CASE d = c
    BY Zenon, <1>8, <2>1
  <2>2. CASE d # c
    <3>1. inbox'[d] = inbox[d] /\ client_nodes'[d] = client_nodes[d]
      BY Zenon, <1>5, <1>6, <1>7, <2>2
    <3> QED BY Zenon, <1>1, <3>1 DEF HasListInv
  <2> QED BY Zenon, <2>1, <2>2
<1>14. PairInv'
  <2>1. ASSUME NEW a \in Client, NEW b \in Client, Sends(a, b) PROVE Sends(a, b)'
    <3>1. link[a][b] # "none" /\ b \in client_nodes[a]
      BY Zenon, <1>1, <2>1 DEF PairInv, Sends
    <3>2. link'[a][b] = link[a][b]
      BY Zenon, <1>5, <1>9, <3>1
    <3>3. b \in client_nodes'[a]
      BY Zenon, <1>7, <1>8, <3>1
    <3>4. Ev("ConnectedTo", b) # Ev("StartTest", Boot)
      BY DEF Ev
    <3>5. Ev("ConnectedTo", b) \in Range(inbox[a]) => Ev("ConnectedTo", b) \in Range(inbox'[a])
      BY Zenon, <1>5, <1>6, <3>4
    <3> QED BY Zenon, <1>2, <2>1, <3>2, <3>3, <3>5 DEF Sends
  <2>2. ASSUME NEW a \in Client, NEW b \in client_nodes'[a] PROVE link'[a][b] # "none"
    <3>1. CASE b \in client_nodes[a]
      <4>1. link[a][b] # "none" /\ b \in Node /\ a \in Node
        BY Zenon, <1>1, <1>5, <3>1 DEF PairInv, TypeOK
      <4> QED BY Zenon, <1>9, <4>1
    <3>2. CASE b \notin client_nodes[a]
      <4>1. a = c /\ b \in contacts \ {c} /\ b \in Node
        BY Zenon, <1>5, <1>7, <1>8, <2>2, <3>2
      <4> QED BY Zenon, <1>3, <1>9, <1>10, <4>1
    <3> QED BY Zenon, <3>1, <3>2
  <2>3. ASSUME NEW a \in Client, NEW b \in Client, a # b, link'[a][b] # "none"
        PROVE  Sends(a, b)' \/ Sends(b, a)'
    <3>1. CASE link[a][b] # "none"
      <4>1. Sends(a, b) \/ Sends(b, a)
        BY Zenon, <1>1, <2>3, <3>1 DEF PairInv
      <4> QED BY Zenon, <2>1, <4>1
    <3>2. CASE link[a][b] = "none"
      <4>1. a = c /\ b \in contacts \ {c}
        BY Zenon, <1>5, <1>9, <2>3, <3>2
      <4>2. link'[a][b] = "trying" /\ b \in client_nodes'[a]
        BY Zenon, <1>8, <1>9, <3>2, <4>1
      <4> QED BY Zenon, <1>10, <4>2 DEF Sends
    <3> QED BY Zenon, <3>1, <3>2
  <2> QED BY Zenon, <2>2, <2>3 DEF PairInv
<1> QED BY Zenon, <1>11, <1>12, <1>13, <1>14 DEF TestInv

\* A client handles another event: it sends when it is connected to a contact.
LEMMA OtherEventTest ==
  ASSUME ExchangeInv, TestInv, NEW c \in Client, NEW e, NEW p, NextEvent(c, e, p),
         e # "StartTest",
         e = "ConnectedTo" /\ p \in client_nodes[c] => p \in sentTo'[c],
         phase' = phase, link' = link, contacts' = contacts, connected_peers' = connected_peers,
         client_nodes' = client_nodes, net \subseteq net',
         \A d \in Client : sentTo[d] \subseteq sentTo'[d],
         \A m \in net' : m \in net \/ (m.kind \in UserMsg /\ client_nodes[c] # {})
  PROVE  TestInv'
<1>1. TypeOK /\ ListInv /\ AskInv /\ CollectInv /\ HasListInv /\ PairInv
  BY Zenon DEF ExchangeInv, TestInv
<1>2. /\ c \in Node /\ c # Boot /\ Taken(c)
      /\ Range(inbox'[Boot]) = Range(inbox[Boot])
  BY Zenon, <1>1, NextEventFacts
<1>3. Head(inbox[c]) = Ev(e, p)
  BY Zenon DEF NextEvent, Ev
<1>4. Boot \in Node /\ Client \subseteq Node /\ contacts \subseteq Node
  BY Zenon, <1>1 DEF Node, TypeOK
<1>5. /\ \A n \in Node : n # c => inbox'[n] = inbox[n]
      /\ Range(inbox'[c]) \subseteq Range(inbox[c])
  BY Zenon, <1>1, <1>2, TakenFacts
<1>6. \A n \in Node : \A x : x \in Range(inbox[n]) =>
        x \in Range(inbox'[n]) \/ (n = c /\ x = Ev(e, p))
  BY Zenon, <1>1, <1>2, <1>3, TakenLeaves
<1>7. AskInv'
  <2>1. \A d \in Client : \A x \in Range(inbox'[d]) : x \in Range(inbox[d])
    BY Zenon, <1>4, <1>5
  <2> QED BY Zenon, <1>1, <2>1, AskInvFrame
<1>8. CollectInv'
  <2>1. client_nodes[c] # {} => contacts # {}
    BY Zenon, <1>1 DEF ListInv
  <2> QED BY Zenon, <1>1, <1>2, <2>1, CollectInvFrame
<1>9. HasListInv'
  <2>1. Ev("StartTest", Boot) # Ev(e, p)
    BY Zenon, EventFacts
  <2>2. \A d \in contacts : Ev("StartTest", Boot) \in Range(inbox[d]) =>
          Ev("StartTest", Boot) \in Range(inbox'[d])
    BY Zenon, <1>4, <1>6, <2>1
  <2> QED BY Zenon, <1>1, <2>2, HasListInvFrame
<1>10. PairInv'
  <2>1. ASSUME NEW a \in Client, NEW d \in client_nodes[a],
               Ev("ConnectedTo", d) \in Range(inbox[a])
        PROVE  Ev("ConnectedTo", d) \in Range(inbox'[a]) \/ d \in sentTo'[a]
    <3>1. CASE a = c /\ Ev("ConnectedTo", d) = Ev(e, p)
      <4>1. e = "ConnectedTo" /\ p = d
        BY Zenon, <3>1, EventFacts
      <4> QED BY Zenon, <3>1, <4>1
    <3>2. CASE a # c \/ Ev("ConnectedTo", d) # Ev(e, p)
      BY Zenon, <1>4, <1>6, <2>1, <3>2
    <3> QED BY Zenon, <3>1, <3>2
  <2> QED BY Zenon, <1>1, <2>1, PairInvFrame DEF TypeOK
<1> QED BY Zenon, <1>7, <1>8, <1>9, <1>10 DEF TestInv

\* Nothing is sent or connected before the first step.
LEMMA TestInvInit == Init => TestInv
<1> SUFFICES ASSUME Init PROVE TestInv
  BY Zenon
<1>1. /\ net = {} /\ inbox = [n \in Node |-> <<>>] /\ connected_peers = {} /\ contacts = {}
      /\ client_nodes = [c \in Client |-> {}]
      /\ link = [a \in Node |-> [b \in Node |-> "none"]]
  BY Zenon DEF Init
<1>2. Boot \in Node /\ Client \subseteq Node /\ Boot \notin Client
  BY Zenon, ExchangeAssumption DEF Node
<1>3. \A n \in Node : Range(inbox[n]) = {}
  <2>1. DOMAIN <<>> = {}
    BY EmptyFacts, SequenceFacts
  <2>2. Range(<<>>) = {}
    BY Zenon, <2>1 DEF Range
  <2> QED BY Zenon, <1>1, <2>2
<1>4. phase[Boot] = "running" /\ \A c \in Client : phase[c] = "off"
  BY <1>2 DEF Init
<1>5. /\ \A a, b \in Node : link[a][b] = "none"
      /\ \A c \in Client : client_nodes[c] = {}
  BY Zenon, <1>1
<1>6. "none" # "up" /\ "off" # "asking" /\ "off" # "panicked"
  OBVIOUS
<1>7. AskInv
  BY Zenon, <1>1, <1>2, <1>3, <1>4, <1>5, <1>6 DEF AskInv
<1>8. CollectInv
  <2>1. Cardinality({}) < ExpectedConns
    BY FS_EmptySet, ExchangeAssumption
  <2> QED BY Zenon, <1>1, <1>2, <1>5, <1>6, <2>1 DEF CollectInv
<1>9. HasListInv /\ PairInv
  BY Zenon, <1>1, <1>2, <1>5 DEF HasListInv, PairInv
<1> QED BY Zenon, <1>7, <1>8, <1>9 DEF TestInv

\* The events of a client but the list.
LEMMA ClientEventTest ==
  ASSUME ExchangeInv, TestInv, NEW c \in Client, NEW p \in Node,
         OnConnect(c, p) \/ OnSmall(c, p) \/ OnLarge(c, p)
  PROVE  TestInv'
<1>0. sentTo \in [Client -> SUBSET Client]
  BY Zenon DEF ExchangeInv, TypeOK
<1>1. "ConnectedTo" # "StartTest" /\ "Small" # "StartTest" /\ "Large" # "StartTest"
      /\ "Small" # "ConnectedTo" /\ "Large" # "ConnectedTo"
  OBVIOUS
<1>2. CASE OnConnect(c, p)
  <2>1. /\ NextEvent(c, "ConnectedTo", p) /\ phase' = phase /\ link' = link
        /\ contacts' = contacts /\ connected_peers' = connected_peers
        /\ client_nodes' = client_nodes
    BY Zenon, <1>2 DEF OnConnect, bootVars
  <2>2. CASE p \in client_nodes[c]
    <3>1. /\ net' = net \union {Msg("Large", c, p), Msg("Small", c, p)}
          /\ sentTo' = [sentTo EXCEPT ![c] = @ \union {p}]
      BY Zenon, <1>2, <2>2 DEF OnConnect
    <3>2. p \in sentTo'[c] /\ \A d \in Client : sentTo[d] \subseteq sentTo'[d]
      BY <1>0, <3>1
    <3>3. Msg("Large", c, p).kind \in UserMsg /\ Msg("Small", c, p).kind \in UserMsg
      BY DEF Msg, UserMsg
    <3>4. /\ net \subseteq net'
          /\ \A m \in net' : m \in net \/ (m.kind \in UserMsg /\ client_nodes[c] # {})
      BY Zenon, <2>2, <3>1, <3>3
    <3> QED BY Zenon, <1>1, <2>1, <3>2, <3>4, OtherEventTest
  <2>3. CASE p \notin client_nodes[c]
    <3>1. net' = net /\ sentTo' = sentTo
      BY Zenon, <1>2, <2>3 DEF OnConnect
    <3> QED BY Zenon, <1>1, <2>1, <2>3, <3>1, OtherEventTest
  <2> QED BY Zenon, <2>2, <2>3
<1>3. CASE OnSmall(c, p)
  <2>1. /\ NextEvent(c, "Small", p) /\ phase' = phase /\ link' = link /\ net' = net
        /\ contacts' = contacts /\ connected_peers' = connected_peers
        /\ client_nodes' = client_nodes /\ sentTo' = sentTo
    BY Zenon, <1>3 DEF OnSmall, bootVars
  <2> QED BY Zenon, <1>1, <2>1, OtherEventTest
<1>4. CASE OnLarge(c, p)
  <2>1. /\ NextEvent(c, "Large", p) /\ phase' = phase /\ link' = link /\ net' = net
        /\ contacts' = contacts /\ connected_peers' = connected_peers
        /\ client_nodes' = client_nodes /\ sentTo' = sentTo
    BY Zenon, <1>4 DEF OnLarge, bootVars
  <2> QED BY Zenon, <1>1, <2>1, OtherEventTest
<1> QED BY Zenon, <1>2, <1>3, <1>4

\* The invariant holds in every run of the test.
LEMMA TestInvariance == Spec => []TestInv
<1>1. ExchangeInv /\ TestInv /\ [Next]_vars => TestInv'
  <2> SUFFICES ASSUME ExchangeInv, TestInv, [Next]_vars PROVE TestInv'
    BY Zenon
  <2>1. CASE Next
    <3>1. Client \subseteq Node
      BY Zenon DEF Node
    <3> QED BY Zenon, <2>1, <3>1, CompleteTest, AnswerEchoTest, EchoAnsweredTest, UserMessageTest,
               BootOnConnectTest, StartTestInv, OnStartTestTest, ClientEventTest DEF Next
  <2>2. CASE UNCHANGED vars
    <3>1. /\ phase' = phase /\ link' = link /\ net' = net /\ inbox' = inbox
          /\ contacts' = contacts /\ connected_peers' = connected_peers
          /\ client_nodes' = client_nodes /\ sentTo' = sentTo
      BY Zenon, <2>2 DEF vars, bootVars, clientVars
    <3>2. AskInv' /\ CollectInv' /\ HasListInv'
      BY Zenon, <3>1 DEF TestInv, AskInv, CollectInv, HasListInv
    <3>3. PairInv'
      BY Zenon, <3>1 DEF TestInv, PairInv, Sends
    <3> QED BY Zenon, <3>2, <3>3 DEF TestInv
  <2> QED BY Zenon, <2>1, <2>2
<1> QED BY <1>1, TestInvInit, ExchangeInvariance, PTL DEF Spec

\* A channel that holds one ConnectedTo for each peer of P, and nothing else, is no
\* longer than P is large.
LEMMA ChannelBound ==
  ASSUME NEW q \in Seq(Event), NEW P, IsFiniteSet(P),
         \A e \in Range(q) : e.event = "ConnectedTo" /\ e.peer \in P,
         \A p \in P : Once(q, Ev("ConnectedTo", p))
  PROVE  Len(q) \in Nat /\ Len(q) <= Cardinality(P)
<1>1. Len(q) \in Nat /\ DOMAIN q = 1..Len(q)
  BY SequenceFacts
<1>2. ASSUME NEW i \in DOMAIN q PROVE q[i].peer \in P /\ q[i] = Ev("ConnectedTo", q[i].peer)
  <2>1. q[i] \in Range(q) /\ q[i] \in Event
    <3>1. q[i] \in Event
      BY <1>1, SequenceFacts
    <3> QED BY Zenon, <3>1 DEF Range
  <2>2. q[i].event = "ConnectedTo" /\ q[i].peer \in P
    BY Zenon, <2>1
  <2>3. q[i] = Ev(q[i].event, q[i].peer)
    BY <2>1 DEF Event, Ev
  <2> QED BY Zenon, <2>2, <2>3
<1> DEFINE f == [i \in DOMAIN q |-> q[i].peer]
<1>3. f \in Injection(DOMAIN q, P)
  <2>1. f \in [DOMAIN q -> P]
    BY Zenon, <1>2
  <2>2. ASSUME NEW i \in DOMAIN q, NEW j \in DOMAIN q, f[i] = f[j] PROVE i = j
    <3>1. q[i].peer = q[j].peer
      BY Zenon, <2>2
    <3>2. q[i] = Ev("ConnectedTo", q[i].peer) /\ q[j] = Ev("ConnectedTo", q[i].peer)
      BY Zenon, <1>2, <3>1
    <3> QED BY Zenon, <1>2, <3>2 DEF Once
  <2>3. DOMAIN f = DOMAIN q
    BY Zenon
  <2> HIDE DEF f
  <2> QED BY Zenon, <2>1, <2>2, <2>3 DEF Injection, IsInjective
<1> HIDE DEF f
<1>4. Cardinality(DOMAIN q) <= Cardinality(P)
  BY Zenon, <1>3, FS_Injection
<1>5. Cardinality(DOMAIN q) = Len(q)
  BY <1>1, FS_Interval
<1> QED BY Zenon, <1>1, <1>4, <1>5

\* Of two contacts that have not panicked one runs once nothing is left to do: while
\* both ask, neither has connected to the other, so their channels have room for the
\* connection to the bootstrap node, and it answers.
LEMMA OneRuns ==
  ASSUME ExchangeInv, TestInv, Quiescent, Cardinality(Client) <= MaxInbox + 1,
         NEW c \in Client, NEW d \in Client, c # d, phase[c] = "asking", phase[d] = "asking"
  PROVE  FALSE
<1>1. TypeOK /\ SentInv /\ AskInv /\ PairInv
  BY Zenon DEF ExchangeInv, TestInv
<1>2. Boot \in Node /\ Client \subseteq Node /\ Boot \notin Client /\ IsFiniteSet(Client)
      /\ c \in Node /\ d \in Node
  BY Zenon, ExchangeAssumption DEF Node
<1>3. /\ phase[Boot] = "running" /\ link[c][Boot] # "none" /\ link[c][c] # "up"
      /\ client_nodes[c] = {} /\ client_nodes[d] = {}
      /\ \A e \in Range(inbox[c]) : e.event = "ConnectedTo"
      /\ Msg("EchoReq", c, Boot) \in net \/ Msg("EchoResp", Boot, c) \in net
  <2>1. "asking" # "off" /\ "asking" \in {"off", "asking"}
    OBVIOUS
  <2> QED BY Zenon, <1>1, <2>1 DEF AskInv
<1>4. Alive(c) /\ Alive(Boot)
  BY <1>3 DEF Alive
<1>5. link[c][Boot] \in {"none", "trying", "up"}
  <2>1. link \in [Node -> [Node -> {"none", "trying", "up"}]]
    BY Zenon, <1>1 DEF TypeOK
  <2> QED BY Zenon, <1>2, <2>1
<1>6. link[c][d] = "none"
  BY Zenon, <1>1, <1>3 DEF PairInv, Sends
<1>7. Room(Boot)
  BY Zenon DEF Room
<1>8. link[Boot][c] = "up"
  <2>1. ~CanComplete(Boot, c)
    BY Zenon, <1>2, <1>7 DEF Quiescent
  <2> QED BY Zenon, <1>3, <1>4, <2>1 DEF CanComplete
<1>9. link[c][Boot] = "up"
  <2> SUFFICES ASSUME link[c][Boot] # "up" PROVE FALSE
    BY Zenon
  <2>1. CanComplete(c, Boot)
    BY Zenon, <1>3, <1>4, <1>5 DEF CanComplete
  <2> DEFINE P == (Client \ {c}) \ {d}
  <2>2. IsFiniteSet(P) /\ Cardinality(P) = Cardinality(Client) - 2 /\ Cardinality(Client) \in Nat
    <3>1. IsFiniteSet(Client \ {c}) /\ Cardinality(Client \ {c}) = Cardinality(Client) - 1
      BY Zenon, <1>2, FS_RemoveElement
    <3>2. d \in Client \ {c}
      BY Zenon
    <3>3. IsFiniteSet(P) /\ Cardinality(P) = Cardinality(Client \ {c}) - 1
      BY Zenon, <3>1, <3>2, FS_RemoveElement
    <3>4. Cardinality(Client) \in Nat
      BY Zenon, <1>2, FS_CardinalityType
    <3> HIDE DEF P
    <3> QED BY <3>1, <3>3, <3>4
  <2>3. ASSUME NEW e \in Range(inbox[c]) PROVE e.event = "ConnectedTo" /\ e.peer \in P
    <3>1. e \in Event
      <4>1. inbox[c] \in Seq(Event)
        BY Zenon, <1>1, <1>2 DEF TypeOK
      <4>2. PICK i \in DOMAIN inbox[c] : inbox[c][i] = e
        BY Zenon DEF Range
      <4> QED BY <4>1, <4>2, SequenceFacts
    <3>2. e = Ev(e.event, e.peer) /\ e.peer \in Node
      BY <3>1 DEF Event, Ev
    <3>3. e.event = "ConnectedTo"
      BY Zenon, <1>3
    <3>4. link[c][e.peer] = "up"
      BY Zenon, <1>1, <3>2, <3>3 DEF SentInv
    <3>5. "none" # "up"
      OBVIOUS
    <3>6. e.peer # c /\ e.peer # d /\ e.peer # Boot
      BY Zenon, <1>3, <1>6, <3>4, <3>5
    <3> QED BY Zenon, <3>2, <3>3, <3>6 DEF Node
  <2>4. \A p \in P : Once(inbox[c], Ev("ConnectedTo", p))
    BY Zenon, <1>1, <1>2 DEF SentInv
  <2>5. Len(inbox[c]) \in Nat /\ Len(inbox[c]) <= Cardinality(P)
    <3>1. inbox[c] \in Seq(Event)
      BY Zenon, <1>1, <1>2 DEF TypeOK
    <3> HIDE DEF P
    <3> QED BY Zenon, <2>2, <2>3, <2>4, <3>1, ChannelBound
  <2>6. Room(c)
    <3> HIDE DEF P
    <3> QED BY <2>2, <2>5, ExchangeAssumption DEF Room
  <2> QED BY Zenon, <1>2, <2>1, <2>6 DEF Quiescent
<1>10. "EchoReq" \notin UserMsg /\ "EchoResp" \notin UserMsg
  BY DEF UserMsg
<1>11. CASE Msg("EchoReq", c, Boot) \in net
  <2>1. /\ Msg("EchoReq", c, Boot).kind = "EchoReq" /\ Msg("EchoReq", c, Boot).to = Boot
        /\ Msg("EchoReq", c, Boot).from = c
    BY DEF Msg
  <2>2. Dispatchable(Msg("EchoReq", c, Boot))
    BY Zenon, <1>4, <1>8, <1>11, <2>1 DEF Dispatchable
  <2> QED BY Zenon, <1>10, <1>11, <2>1, <2>2 DEF Quiescent
<1>12. CASE Msg("EchoResp", Boot, c) \in net
  <2>1. /\ Msg("EchoResp", Boot, c).kind = "EchoResp" /\ Msg("EchoResp", Boot, c).to = c
        /\ Msg("EchoResp", Boot, c).from = Boot
    BY DEF Msg
  <2>2. Dispatchable(Msg("EchoResp", Boot, c))
    BY Zenon, <1>4, <1>9, <1>12, <2>1 DEF Dispatchable
  <2> QED BY Zenon, <1>10, <1>12, <2>1, <2>2 DEF Quiescent
<1> QED BY Zenon, <1>3, <1>11, <1>12

\* A contact that runs has handled the list, is connected to every other contact that
\* has not panicked, and one of the two has sent.
LEMMA RunningExchanges ==
  ASSUME ExchangeInv, TestInv, Quiescent,
         NEW c \in contacts, NEW d \in contacts, c # d, phase[c] = "running", Alive(d)
  PROVE  d \in sentTo[c] \/ c \in sentTo[d]
<1>1. TypeOK /\ AskInv /\ HasListInv /\ PairInv
  BY Zenon DEF ExchangeInv, TestInv
<1>2. /\ c \in Client /\ d \in Client /\ c \in Node /\ d \in Node /\ Boot \in Node
      /\ c # Boot /\ d # Boot
  BY Zenon, <1>1, ExchangeAssumption DEF TypeOK, Node
<1>3. ASSUME NEW n \in Client, phase[n] = "running"
      PROVE  /\ Alive(n) /\ Room(n) /\ Range(inbox[n]) = {}
             /\ \A b \in Node : b # n => ~CanComplete(n, b)
  <2>1. inbox[n] = <<>>
    BY Zenon, <1>3 DEF Quiescent
  <2>2. Alive(n) /\ Room(n)
    BY <1>3, <2>1, ExchangeAssumption DEF Alive, Room
  <2>3. Range(inbox[n]) = {}
    <3>1. DOMAIN <<>> = {}
      BY EmptyFacts, SequenceFacts
    <3> QED BY Zenon, <2>1, <3>1 DEF Range
  <2>4. n \in Node
    BY Zenon DEF Node
  <2> QED BY Zenon, <2>2, <2>3, <2>4 DEF Quiescent
<1>4. /\ link \in [Node -> [Node -> {"none", "trying", "up"}]]
      /\ client_nodes \in [Client -> SUBSET Client]
  BY Zenon, <1>1 DEF TypeOK
<1>5. ASSUME NEW n \in Client, phase[n] = "running", NEW b \in Node, b # n, Alive(b),
             link[n][b] # "none"
      PROVE  link[n][b] = "up"
  <2>1. link[n][b] \in {"none", "trying", "up"} /\ n \in Node
    BY Zenon, <1>4, <1>5 DEF Node
  <2>2. ~CanComplete(n, b) /\ Alive(n)
    BY Zenon, <1>3, <1>5
  <2> QED BY Zenon, <1>5, <2>1, <2>2 DEF CanComplete
<1>6. client_nodes[c] = contacts \ {c}
  <2>1. "running" # "panicked" /\ "running" # "off"
    OBVIOUS
  <2>2. Msg("StartTest", Boot, c) \notin net
    <3> SUFFICES ASSUME Msg("StartTest", Boot, c) \in net PROVE FALSE
      BY Zenon
    <3>1. /\ Msg("StartTest", Boot, c).to = c /\ Msg("StartTest", Boot, c).from = Boot
      BY DEF Msg
    <3>2. link[c][Boot] # "none" /\ Alive(Boot)
      BY Zenon, <1>1, <1>2, <2>1 DEF AskInv, Alive
    <3>3. link[c][Boot] = "up"
      BY Zenon, <1>2, <1>5, <3>2
    <3>4. Dispatchable(Msg("StartTest", Boot, c)) /\ Room(c)
      BY Zenon, <1>2, <1>3, <3>1, <3>3 DEF Dispatchable
    <3> QED BY Zenon, <3>1, <3>4 DEF Quiescent
  <2> QED BY Zenon, <1>1, <1>2, <1>3, <2>1, <2>2 DEF HasListInv
<1>7. d \in client_nodes[c] /\ link[c][d] # "none"
  BY Zenon, <1>1, <1>2, <1>6 DEF PairInv
<1>8. Sends(c, d) \/ Sends(d, c)
  BY Zenon, <1>1, <1>2, <1>7 DEF PairInv
<1>9. CASE Sends(c, d)
  <2>1. link[c][d] = "up"
    BY Zenon, <1>2, <1>5, <1>7
  <2> QED BY Zenon, <1>2, <1>3, <1>9, <2>1 DEF Sends
<1>10. CASE Sends(d, c)
  <2>1. c \in client_nodes[d] /\ link[d][c] # "none"
    BY Zenon, <1>1, <1>2, <1>10 DEF PairInv, Sends
  <2>2. phase[d] = "running"
    <3>1. phase[d] # "asking"
      <4>1. "asking" \in {"off", "asking"}
        OBVIOUS
      <4> QED BY Zenon, <1>1, <1>2, <2>1, <4>1 DEF AskInv
    <3> QED BY <3>1 DEF Alive
  <2>3. link[d][c] = "up"
    BY Zenon, <1>2, <1>3, <1>5, <2>1, <2>2
  <2> QED BY Zenon, <1>2, <1>3, <1>10, <2>2, <2>3 DEF Sends
<1> QED BY Zenon, <1>8, <1>9, <1>10

\* The list is sent: everyone is connected to the bootstrap node, which has counted
\* them one by one and stopped at the expected number.
LEMMA ListIsSent ==
  ASSUME ExchangeInv, TestInv, Quiescent, ExpectedConns <= Cardinality(Client)
  PROVE  contacts # {}
<1> SUFFICES ASSUME contacts = {} PROVE FALSE
  BY Zenon
<1>1. TypeOK /\ AskInv /\ CollectInv
  BY Zenon DEF ExchangeInv, TestInv
<1>2. Boot \in Node /\ Client \subseteq Node /\ Boot \notin Client /\ IsFiniteSet(Client)
  BY Zenon, ExchangeAssumption DEF Node
<1>3. ASSUME NEW c \in Client PROVE c \in connected_peers
  <2>1. phase[c] \in Phase /\ phase[c] # "off" /\ phase[c] # "panicked"
    BY Zenon, <1>1, <1>2 DEF TypeOK, AskInv, Quiescent
  <2>2. Alive(c)
    BY <2>1 DEF Alive, Phase
  <2>3. Alive(Boot) /\ link[c][Boot] # "none" /\ Room(Boot)
    BY Zenon, <1>1, <2>1 DEF AskInv, Alive, Room
  <2>4. ~CanComplete(Boot, c)
    BY Zenon, <1>2, <2>3 DEF Quiescent
  <2>5. link[Boot][c] = "up"
    BY Zenon, <2>2, <2>3, <2>4 DEF CanComplete
  <2>6. Range(inbox[Boot]) = {}
    <3>1. DOMAIN <<>> = {}
      BY EmptyFacts, SequenceFacts
    <3>2. inbox[Boot] = <<>>
      BY Zenon DEF Quiescent
    <3> QED BY Zenon, <3>1, <3>2 DEF Range
  <2> QED BY Zenon, <1>1, <2>5, <2>6 DEF CollectInv
<1>4. connected_peers = Client
  BY Zenon, <1>1, <1>3 DEF TypeOK
<1>5. Cardinality(Client) < ExpectedConns
  BY Zenon, <1>1, <1>4 DEF CollectInv
<1>6. Cardinality(Client) \in Nat
  BY Zenon, <1>2, FS_CardinalityType
<1> QED BY <1>5, <1>6, ExchangeAssumption

\* With enough clients for the test to start (bootstrap_node.rs:121), and channels in
\* which two clients that still ask have room for the connection to the bootstrap node
\* (those of the code have no bound), the test does what it is for: when nothing is left
\* to do, the list was sent and of any two contacts one has sent to the other
\* (client_node.rs:143), unless one panicked.
THEOREM EveryPairExchanges ==
  ASSUME ExpectedConns <= Cardinality(Client), Cardinality(Client) <= MaxInbox + 1
  PROVE  Spec => []PairsExchange
<1>1. ExchangeInv /\ TestInv => PairsExchange
  <2> SUFFICES ASSUME ExchangeInv, TestInv, Quiescent
               PROVE  /\ contacts # {}
                      /\ \A c, d \in contacts : c # d =>
                           \/ "panicked" \in {phase[c], phase[d]}
                           \/ d \in sentTo[c] \/ c \in sentTo[d]
    BY Zenon DEF PairsExchange
  <2>1. contacts # {}
    BY Zenon, ListIsSent
  <2>2. ASSUME NEW c \in contacts, NEW d \in contacts, c # d,
               phase[c] # "panicked", phase[d] # "panicked"
        PROVE  d \in sentTo[c] \/ c \in sentTo[d]
    <3>1. /\ c \in Client /\ d \in Client /\ phase[c] \in Phase /\ phase[d] \in Phase
          /\ phase[c] # "off" /\ phase[d] # "off"
      BY Zenon DEF ExchangeInv, TypeOK, Quiescent, Node
    <3>2. phase[c] \in {"asking", "running"} /\ phase[d] \in {"asking", "running"}
      BY <2>2, <3>1 DEF Phase
    <3>3. CASE phase[c] = "running"
      BY Zenon, <2>2, <3>2, <3>3, RunningExchanges DEF Alive
    <3>4. CASE phase[d] = "running"
      BY Zenon, <2>2, <3>2, <3>4, RunningExchanges DEF Alive
    <3>5. CASE phase[c] = "asking" /\ phase[d] = "asking"
      BY Zenon, <2>2, <3>1, <3>5, OneRuns
    <3> QED BY Zenon, <3>2, <3>3, <3>4, <3>5
  <2> QED BY Zenon, <2>1, <2>2
<1> QED BY <1>1, ExchangeInvariance, TestInvariance, PTL

-----------------------------------------------------------------------------
(* What the loss of a client shows.                                         *)

\* What is sent to an application is sent to a contact; a client that is not in its
\* loop has no list; one that panicked was a contact.
PanicInv ==
  /\ \A m \in net : m.kind \in UserMsg => m.to \in contacts
  /\ \A c \in Client : phase[c] # "running" => client_nodes[c] = {}
  /\ \A c \in Client : phase[c] = "panicked" => c \in contacts

\* Steps that send nothing to an application and move no client.
LEMMA PanicInvFrame ==
  ASSUME PanicInv, \A m \in net' : m \in net \/ m.kind \notin UserMsg \/ m.to \in contacts,
         contacts' = contacts, client_nodes' = client_nodes, phase' = phase
  PROVE  PanicInv'
<1>1. \A m \in net' : m.kind \in UserMsg => m.to \in contacts'
  BY Zenon DEF PanicInv
<1>2. \A c \in Client : /\ phase'[c] # "running" => client_nodes'[c] = {}
                        /\ phase'[c] = "panicked" => c \in contacts'
  BY Zenon DEF PanicInv
<1> QED BY Zenon, <1>1, <1>2 DEF PanicInv

\* The library loses a client only to a message for its application.
LEMMA LibraryPanic ==
  ASSUME ExchangeInv, PanicInv,
         \/ \E a, b \in Node : Complete(a, b)
         \/ \E m \in net : AnswerEcho(m) \/ EchoAnswered(m) \/ UserMessage(m)
  PROVE  PanicInv'
<1>1. phase \in [Node -> Phase] /\ net \subseteq Message /\ Client \subseteq Node
  BY Zenon DEF ExchangeInv, TypeOK, Node
<1>2. ASSUME NEW a \in Node, NEW b \in Node, Complete(a, b) PROVE PanicInv'
  BY Zenon, <1>2, PanicInvFrame DEF Complete, bootVars, clientVars
<1>3. ASSUME NEW m \in net, AnswerEcho(m) PROVE PanicInv'
  <2> DEFINE r == Msg("EchoResp", m.to, m.from)
  <2>1. r.kind \notin UserMsg
    BY DEF Msg, UserMsg
  <2>2. net' = (net \ {m}) \union {r}
    BY Zenon, <1>3 DEF AnswerEcho
  <2> HIDE DEF r
  <2>3. \A k \in net' : k \in net \/ k.kind \notin UserMsg
    BY Zenon, <2>1, <2>2
  <2>4. contacts' = contacts /\ client_nodes' = client_nodes /\ phase' = phase
    BY Zenon, <1>3 DEF AnswerEcho, bootVars, clientVars
  <2> QED BY Zenon, <2>3, <2>4, PanicInvFrame
<1>4. ASSUME NEW m \in net, NEW s, EchoAnswered(m) \/ UserMessage(m),
             phase' = [phase EXCEPT ![m.to] = s],
             s = "running" \/ (s = "panicked" /\ phase[m.to] # "running" /\ m.to \in contacts)
      PROVE  PanicInv'
  <2>1. net' = net \ {m} /\ contacts' = contacts /\ client_nodes' = client_nodes
    BY Zenon, <1>4 DEF EchoAnswered, UserMessage, bootVars, clientVars
  <2>2. \A k \in net' : k.kind \in UserMsg => k.to \in contacts'
    BY Zenon, <2>1 DEF PanicInv
  <2>3. m.to \in Node
    BY Zenon, <1>1, MessageFacts
  <2>4. phase'[m.to] = s /\ \A n \in Node : n # m.to => phase'[n] = phase[n]
    BY Zenon, <1>1, <1>4, <2>3
  <2>5. "running" # "panicked"
    OBVIOUS
  <2>6. ASSUME NEW c \in Client
        PROVE  /\ phase'[c] # "running" => client_nodes'[c] = {}
               /\ phase'[c] = "panicked" => c \in contacts'
    <3>1. CASE c = m.to
      BY Zenon, <1>4, <2>1, <2>4, <2>5, <3>1 DEF PanicInv
    <3>2. CASE c # m.to
      BY Zenon, <1>1, <2>1, <2>4, <3>2 DEF PanicInv
    <3> QED BY Zenon, <3>1, <3>2
  <2> QED BY Zenon, <2>2, <2>6 DEF PanicInv
<1>5. ASSUME NEW m \in net, EchoAnswered(m) PROVE PanicInv'
  BY Zenon, <1>4, <1>5 DEF EchoAnswered
<1>6. ASSUME NEW m \in net, UserMessage(m) PROVE PanicInv'
  <2>1. /\ phase' = [phase EXCEPT ![m.to] = IF phase[m.to] = "asking" THEN "panicked" ELSE phase[m.to]]
        /\ m.to \in contacts /\ Alive(m.to)
    BY Zenon, <1>1, <1>6 DEF UserMessage, Dispatchable, PanicInv
  <2>2. CASE phase[m.to] = "asking"
    <3>1. phase[m.to] # "running"
      BY <2>2
    <3> QED BY Zenon, <1>4, <1>6, <2>1, <2>2, <3>1
  <2>3. CASE phase[m.to] # "asking"
    <3>1. phase[m.to] = "running"
      BY <2>1, <2>3 DEF Alive
    <3> QED BY Zenon, <1>4, <1>6, <2>1, <2>3, <3>1
  <2> QED BY Zenon, <2>2, <2>3
<1> QED BY Zenon, <1>2, <1>3, <1>5, <1>6

\* The programs send to contacts only, and a client has a list once it is in its loop.
LEMMA ProgramPanic ==
  ASSUME ExchangeInv, PanicInv,
         \/ BootOnConnect
         \/ \E c \in Client : Start(c) \/ OnStartTest(c)
         \/ \E c \in Client, p \in Node : OnConnect(c, p)
         \/ \E c, p \in Client : OnSmall(c, p) \/ OnLarge(c, p)
  PROVE  PanicInv'
<1>1. /\ phase \in [Node -> Phase] /\ net \subseteq Message /\ Client \subseteq Node
      /\ client_nodes \in [Client -> SUBSET Client]
  BY Zenon DEF ExchangeInv, TypeOK, Node
<1>2. CASE BootOnConnect
  <2>1. phase' = phase /\ client_nodes' = client_nodes
    BY Zenon, <1>2 DEF BootOnConnect, clientVars
  <2>2. \/ contacts' = contacts /\ net' = net
        \/ /\ contacts = {}
           /\ net' = net \union {Msg("StartTest", Boot, c) : c \in contacts'}
    BY Zenon, <1>2 DEF BootOnConnect
  <2>3. contacts \subseteq contacts'
    BY Zenon, <2>2
  <2>4. \A c \in contacts' : Msg("StartTest", Boot, c).to = c
    BY DEF Msg
  <2>5. \A m \in net' : m.kind \in UserMsg => m.to \in contacts'
    <3>1. \A m \in net : m.kind \in UserMsg => m.to \in contacts'
      BY Zenon, <2>3 DEF PanicInv
    <3>2. \A m \in net' : m \in net \/ \E c \in contacts' : m = Msg("StartTest", Boot, c)
      BY Zenon, <2>2
    <3> QED BY Zenon, <2>4, <3>1, <3>2
  <2>6. \A c \in Client : /\ phase'[c] # "running" => client_nodes'[c] = {}
                          /\ phase'[c] = "panicked" => c \in contacts'
    BY Zenon, <2>1, <2>3 DEF PanicInv
  <2> QED BY Zenon, <2>5, <2>6 DEF PanicInv
<1>3. ASSUME NEW c \in Client, Start(c) PROVE PanicInv'
  <2>1. /\ phase[c] = "off" /\ phase' = [phase EXCEPT ![c] = "asking"]
        /\ net' = net \union {Msg("EchoReq", c, Boot)}
        /\ contacts' = contacts /\ client_nodes' = client_nodes
    BY Zenon, <1>3 DEF Start, bootVars, clientVars
  <2>2. Msg("EchoReq", c, Boot).kind \notin UserMsg
    BY DEF Msg, UserMsg
  <2>3. \A m \in net' : m.kind \in UserMsg => m.to \in contacts'
    BY Zenon, <2>1, <2>2 DEF PanicInv
  <2>4. client_nodes[c] = {} /\ phase'[c] # "panicked"
    BY <1>1, <2>1 DEF PanicInv
  <2>5. \A d \in Client : d # c => phase'[d] = phase[d]
    BY Zenon, <1>1, <2>1
  <2>6. \A d \in Client : /\ phase'[d] # "running" => client_nodes'[d] = {}
                          /\ phase'[d] = "panicked" => d \in contacts'
    BY Zenon, <2>1, <2>4, <2>5 DEF PanicInv
  <2> QED BY Zenon, <2>3, <2>6 DEF PanicInv
<1>4. ASSUME NEW c \in Client, OnStartTest(c) PROVE PanicInv'
  <2>1. /\ phase[c] = "running" /\ phase' = phase /\ net' = net /\ contacts' = contacts
        /\ client_nodes' = [client_nodes EXCEPT ![c] = @ \union ContactsOf(c)]
    BY Zenon, <1>4 DEF OnStartTest, NextEvent, bootVars
  <2>2. \A d \in Client : d # c => client_nodes'[d] = client_nodes[d]
    BY Zenon, <1>1, <2>1
  <2>3. \A d \in Client : /\ phase'[d] # "running" => client_nodes'[d] = {}
                          /\ phase'[d] = "panicked" => d \in contacts'
    BY Zenon, <2>1, <2>2 DEF PanicInv
  <2>4. \A m \in net' : m.kind \in UserMsg => m.to \in contacts'
    BY Zenon, <2>1 DEF PanicInv
  <2> QED BY Zenon, <2>3, <2>4 DEF PanicInv
<1>5. ASSUME NEW c \in Client, NEW p \in Node, OnConnect(c, p) PROVE PanicInv'
  <2>1. contacts' = contacts /\ client_nodes' = client_nodes /\ phase' = phase
    BY Zenon, <1>5 DEF OnConnect, bootVars
  <2>2. CASE p \in client_nodes[c]
    <3>1. net' = net \union {Msg("Large", c, p), Msg("Small", c, p)}
      BY Zenon, <1>5, <2>2 DEF OnConnect
    <3>2. p \in contacts
      BY Zenon, <2>2 DEF ExchangeInv, ListInv
    <3>3. Msg("Large", c, p).to = p /\ Msg("Small", c, p).to = p
      BY DEF Msg
    <3>4. \A m \in net' : m \in net \/ m.to \in contacts
      BY Zenon, <3>1, <3>2, <3>3
    <3> QED BY Zenon, <2>1, <3>4, PanicInvFrame
  <2>3. CASE p \notin client_nodes[c]
    BY Zenon, <1>5, <2>1, <2>3, PanicInvFrame DEF OnConnect
  <2> QED BY Zenon, <2>2, <2>3
<1>6. ASSUME NEW c \in Client, NEW p \in Client, OnSmall(c, p) \/ OnLarge(c, p) PROVE PanicInv'
  BY Zenon, <1>6, PanicInvFrame DEF OnSmall, OnLarge, bootVars
<1> QED BY Zenon, <1>2, <1>3, <1>4, <1>5, <1>6

\* The invariant of the clients that are lost holds in every run of the test.
LEMMA PanicInvariance == Spec => []PanicInv
<1>1. Init => PanicInv
  <2> SUFFICES ASSUME Init PROVE PanicInv
    BY Zenon
  <2>1. \A c \in Client : client_nodes[c] = {} /\ phase[c] # "panicked"
    BY DEF Init, Node
  <2>2. net = {}
    BY Zenon DEF Init
  <2> QED BY Zenon, <2>1, <2>2 DEF PanicInv
<1>2. ExchangeInv /\ PanicInv /\ [Next]_vars => PanicInv'
  <2> SUFFICES ASSUME ExchangeInv, PanicInv, [Next]_vars PROVE PanicInv'
    BY Zenon
  <2>1. CASE Next
    BY Zenon, <2>1, LibraryPanic, ProgramPanic DEF Next
  <2>2. CASE UNCHANGED vars
    BY Zenon, <2>2, PanicInvFrame DEF vars, bootVars, clientVars
  <2> QED BY Zenon, <2>1, <2>2
<1> QED BY <1>1, <1>2, ExchangeInvariance, PTL DEF Spec

\* A client whose Sender was dropped (client_node.rs:94, lib.rs:380) is missed by all:
\* it was a contact, took no part, and nobody says that all checks passed.
THEOREM LostClientIsMissed == Spec => []PanicShows
<1>1. ExchangeInv /\ PanicInv => PanicShows
  <2> SUFFICES ASSUME ExchangeInv, PanicInv, NEW c \in Client, phase[c] = "panicked"
               PROVE  /\ c \in contacts /\ client_nodes[c] = {} /\ sentTo[c] = {}
                      /\ \A d \in Client : ~done[d]
    BY Zenon DEF PanicShows
  <2>1. ListInv /\ SentInv /\ HeardInv /\ DoneInv /\ c \in Node
    BY Zenon DEF ExchangeInv, Node
  <2>2. phase[c] # "running"
    OBVIOUS
  <2>3. c \in contacts /\ client_nodes[c] = {}
    BY Zenon, <2>2 DEF PanicInv
  <2>4. sentTo[c] = {}
    BY Zenon, <2>1, <2>3 DEF SentInv
  <2>5. ASSUME NEW d \in Client, done[d] PROVE FALSE
    <3>1. client_nodes[d] # {} /\ heardFrom[d] = client_nodes[d]
      BY Zenon, <2>1, <2>5 DEF DoneInv
    <3>2. c \in heardFrom[d]
      BY Zenon, <2>1, <2>3, <3>1 DEF ListInv
    <3> QED BY Zenon, <2>1, <2>4, <3>2 DEF HeardInv
  <2> QED BY Zenon, <2>3, <2>4, <2>5
<1> QED BY <1>1, ExchangeInvariance, PanicInvariance, PTL
=============================================================================
