# A verification of quic-p2p in TLA+

quic-p2p is a peer-to-peer networking library: an instance (`QuicP2p`) keeps QUIC connections to
other endpoints, tells the upper layer about them through a channel of events, and remembers peers
it contacted so that it can bootstrap off them later. This directory models its code, checks the
models with TLC and proves their safety properties with TLAPS.

## The system and its parts

An instance has a handle, used by the upper layer, and one thread, the event loop (`event_loop.rs`).
Calls of the upper layer are closures posted to the loop. The loop also polls the futures that the
code spawns: connection attempts, connection drivers, readers, writes and timers. Everything the
loop knows is in one thread-local `Context`, above all the map `connections` from the address of a
peer to a `Connection`.

A `Connection` has two halves. `to_peer` is the connection we made, `from_peer` the one the peer made
to us. Between nodes both are needed, between a node and a client one. The entry is *complete* when
both halves are established or not needed; then the upper layer is told.

Because there is one thread, no two handlers overlap. The hard part is elsewhere: **a task remembers
the address of its peer, not the entry it was spawned for.** Entries are removed and created again
while tasks of earlier entries are still to run, and those tasks find the newer entry.

| Part | Source | Modules |
|---|---|---|
| Entry, tasks and group as data | `connection/*.rs` | `ConnectionState` |
| Handlers, API calls, bootstrapping | `connect.rs`, `listener.rs`, `communicate.rs`, `bootstrap.rs`, `lib.rs`, `utils.rs`, `connection/mod.rs` | `QuicP2p`, on top of `ConnectionState` and `BootstrapPeers` |
| What the events promise | `event.rs` and the places that fire events | `PeerEvents`, refined by `QuicP2p` |
| Frames and sizes | `wire_msg.rs`, `communicate.rs` | `WireFormat` |
| The list of the cache | `bootstrap_cache.rs` | `BootstrapPeers` |
| The cache on disk, crashes, restarts | `bootstrap_cache.rs`, `utils.rs`, `lib.rs` (proxies) | `BootstrapCache` |
| The two threads, the queue of closures, the `Context` | `event_loop.rs`, `lib.rs`, `context.rs` | `EventLoop` |
| Several instances together: the test network of the examples | `examples/bootstrap_node.rs`, `examples/client_node.rs` | `Exchange` |
| Proofs about the core | | `QuicP2pLemmas`, `QuicP2pTasks`, `QuicP2pProofs` |
| Proofs about the cache | | `BootstrapPeersProofs`, `BootstrapCacheProofs` |
| Proofs about the loop, the frames and the examples | | `EventLoopProofs`, `WireFormatProofs`, `ExchangeProofs` |

`MCQuicP2p`, `MCWireFormat`, `MCBootstrapCache` and `MCExchange` give TLC the constants and symmetry a
cfg file cannot express;
`EventLoop` needs none and is run as it is.
Definitions marked "Mutated form" are plausible bugs; no specification uses them. Each is put in the
place of the definition after it to confirm that a property notices.

## How the models correspond to the code

**QuicP2p.** `connections` is the map; an address without an entry holds `NoEntry`. `qconn` holds the
spawned tasks of each attempt and connection: `leaf` is the select of terminator and result,
`signal` a message in the terminator's channel, `open` that our `QConn` is not dropped. `group` is the
bootstrap groups, `killers` the timers of each address, `cache` the list of the cache, `query` the
call that waits for the echo service, `loop` the thread. `seen`, `asked`, `unsent` and `unread` are not in
the code: they record what the upper layer was told, what it asked for, how many of its messages for a
peer were taken and not yet written, and how many from the peer were read and not yet reported. Both
counts start again with the entry; they are kept apart from the buffers, by what is written and
reported. Each posted closure, timer and poll is
one action. `bootstrap::start` is one closure split into three actions, during which nothing else is
enabled. Identifiers of connections are handed out in order and not reused.

quinn is external. Any task may report an error at any time, also after the connection was closed,
and a stream accepted before the close may be read after it. This allows more than quinn does, so a
property that holds here does not rest on quinn's timing. A counterexample may. One does:
a violation of `MessageHasConnection` reads a stream after we closed its connection. quinn itself was not examined; that
this can happen is what the code says of it (the FIXME at `communicate.rs:331`, and the trace text
below it, "Probably it was a pending stream when we dropped the peer connection"). If quinn fails such
reads, that panic is not reachable. The other counterexamples use no connection after its close.

A message is its kind. Every message has a stream of its own, so buffers and running writes are
counts. Certificates are compared only for logging and are left out; one that does not parse is an
outcome of `connect_to`.

**WireFormat** keeps sizes and whether bytes are a frame, since `from_raw` decides by size alone.
**BootstrapCache** splits a write at the truncation of the file, where a crash hurts. `uses` and
`failedWrites` are not in the code: they record whom `add_peer` was called for and how many writes of
the process failed since its last success. `StartFails` is the torn file; a start that fails for another
reason (a directory that cannot be created, a file that may not be read) changes nothing and is left out.

**EventLoop** is about what `QuicP2p` merges: posting a closure and running it. `user` is where the
thread with the handle is (a blocked call is named after what it waits for), `queue` the channel,
`reply` the channel a blocked call listens on, `ctx` whether the `Context` exists, `tasks` how many
futures the loop runs. What a closure does to connections is left to `QuicP2p`; here it needs the
`Context`, may spawn a task and may answer. A task may panic at any time, and so may the closure of
`activate` (a port that cannot be bound). tokio is external: a panic unwinds the thread, and
`block_on_all` returns when its future fails, without waiting for tasks, as the TODO at
`connection/mod.rs:127` expects.

**Exchange** puts instances together. Clients connect to a bootstrap node, get a list of contacts from
it, connect to them and send each a large and a small message. `phase` is where `main` of a process is,
`link` the entry of its connection map, `net` what was handed to the library, `inbox` its channel of
events; the other variables are those of the examples, except `sentTo` and `heardFrom`, which record
whom the two counters stand for, and `done`, that a client said that all checks passed. The
library is an abstraction written by hand from what `connect.rs`, `listener.rs` and `communicate.rs` do
while no connection fails: both ends report `ConnectedTo` once, in any order, and messages come after it,
in any order. It is assumed: no refinement connects it with `QuicP2p`. `our_connection_info()` in
`ClientNode::new` is the query of the echo service, with the panic that a message before the answer
causes. Events that an example only logs do not appear, nor does the empty message to the bootstrap node
(`client_node.rs:118`), which the bootstrap node only logs. `Quiescent` says that nothing is left to do: no
process is to be started, no connection to be reported, no message to be delivered and no event to be
handled.

## What the runs check

| Run | Instance | What it shows |
|---|---|---|
| `NodeLifecycle` | node, one peer, three connections | results, timers, connections, events and cache stay with the right entry through reconnects |
| `NodeMessages` | node, one peer, all kinds of messages, echo query | the inductive invariant; while its entry is in the map a message of the upper layer is in a buffer exactly until it is written or reported |
| `NodeBootstrap` | node, two cached peers, one group | each group is answered one way only, and until then has a member that a pending timer will remove and gains no other; the events refine `PeerEvents` |
| `ClientBootstrap` | client, two cached peers | at most one success per group; no panic in `connect.rs`; the inductive invariant where two entries share a group |
| `Liveness` | node, two peers, one group, two connections | no entry stays incomplete; every `bootstrap()` is answered |
| `WireFormat` | the limits of the code, sizes around them | a message arrives as sent exactly outside the gap between two size tests |
| `HandleAndLoop` | queue of 4, 3 tasks | no closure runs before the `Context` exists; no call waits for an answer nobody can send; a call waits for the last message in the channel; calls and `drop` return although the loop may panic and tasks never end |
| `CacheRestarts` | list of 3, write at the second new peer, five peers, six uses | the list is the most recent peers; what a crash loses is bounded by the count and by the writes that failed |
| `Exchange` | three clients, all expected, two waiting events | a client that says "Done" exchanged both messages with all contacts; when nothing is left to do, of two contacts at least one has sent, unless one panicked; where one panicked no client says "Done" |

These runs are expected to find a violation. Each states what a comment, test or assertion says:

| Run | What the code does instead |
|---|---|
| `StaleCancelDropsSends` | the cancellation of an earlier attempt removes a newer entry with its buffered messages |
| `EchoSenderDropped` | any dispatched message takes the `Sender` of the echo query, and the caller's `unwrap!` panics |
| `CacheTorn` | a crash during a write leaves a file with which `build()` fails |

More disagreements were met than runs are kept for. These properties are stated in the modules, no run
here checks them, and TLC reports each violated when it is added to the cfg named:

| Property | Cfg | What the code does |
|---|---|---|
| `BootstrapsOnce` | `NodeBootstrap` with `Conn = {1,2,3,4}` | members of a node's group whose outgoing half is established survive `terminate_group` and report a second success (`connection/bootstrap_group.rs:12` says all members are destroyed) |
| `EverybodyIsDone` | `Exchange` with `SPECIFICATION FairSpec`, two clients, `ExpectedConns = 2`, no symmetry | the test of the examples may never finish: a client that is connected to before it has the list never sends, a large message that comes first is not counted, and the list may overtake the echo answer |
| `MessageHasConnection` | `NodeMessages` | a stream pending when its entry was dropped is read for the next entry of the address and reaches `unreachable!` (`communicate.rs:254`); rests on an assumption about quinn, see above |
| `ReadsDispatched` | `NodeMessages` | messages of a client read before its handshake stay in `pending_reads` for ever: `handle_rx_handshake` completes the entry without dispatching them (`communicate.rs:314`) |
| `ContactRecorded` | `NodeMessages` | `connect_to` for a peer already being connected to returns an error and does not set `we_contacted_peer` |
| `RoundTrip` | `WireFormat` | a user message of 1013 to 1024 bytes, or the handshake of a node with a certificate of more than 1008 bytes, arrives as its own frame; `DecodedUnlessMisread` says the same exactly |
| `CacheIsBounded` | `CacheRestarts` with `ProxyLists <- SomeProxies`, `MaxCacheSize = 1`, no symmetry | proxies extend the list past its bound (`lib.rs:122`) |

**Bounds.** Three connections to one address allow an attempt, its replacement and an incoming
connection, the smallest case in which a task of one entry meets another. Two peers are the smallest
group with a second member. `MaxPending`, `MaxStreams`, `MaxWrites` and `MaxKillers` cap counters in
guards; with `MaxKillers = 1` an address gets no new entry while its timer is pending, so timers that
meet a newer entry are covered by the runs with a larger bound and by the proofs, which hold for
every bound. `CHECK_DEADLOCK FALSE` is used because an instance stops when its handle is dropped,
and because bounded identifiers run out. In `CacheRestarts` the threshold is small against the list, so
that what one failed write leaves unsaved (two peers) is less than a full list (three).

In `Exchange` three clients are the smallest number for which counting messages differs from knowing
whom they came from; `MaxInbox` limits how far a client lags behind its events. The channels of the
code have no bound; 2 is enough for three clients that the bound does not decide `PairsExchange` (see
`EveryPairExchanges` below). It stops when the test is over. Clients are symmetric, which
is sound as only safety properties are checked.

**Fairness.** `Liveness` assumes that a pending timer fires and that a closure that started goes on:
tokio polls a timer that is due, and a closure is plain code. Nothing is assumed about quinn.
`HandleAndLoop` assumes that both threads run: the loop takes the next message, `recv` wakes up when
its channel has an answer or lost its `Sender`, `join` returns once the thread has ended. It does not
assume that a task ends or that an echo server answers.

## What is proved

Every safety property that a passing run checks, invariant, action property or refinement, is also a
theorem, for all values of the constants. The assumptions are the `ASSUME`s of the modules: null
values differ from real ones, bounds are natural numbers, the sets of hard coded contacts and of
clients are finite, initial caches are lists of peers. Where a theorem needs more, its statement says so.

**QuicP2p.** `QuicP2pProofs` proves, for any peers, number of connections and groups, bounds and both
types of instance, that `Spec` implies always `TypeOK`, `LiveAttemptIsCurrent`, `ConnectNeverPanics`,
`EventsMatchMap`, `OpenIffOwned`, `IncompleteHasTimer`, `BootstrapAnswered`, `UnansweredHasTimer` and
`MessagesAccountedFor`, and that it implies the action properties `CachesOnlyContacted` and `BootstrapRunsDown`
and the abstract specification `PeerEvents` (`EventsSpec`). `BootstrapsOnce` is proved for an instance of type `Client`; for a node it is false, as
the table above says.

None of the invariants is inductive alone. That a result finds its own entry needs to know that an
`Initiated` entry has a running attempt of its own address; that events match the map needs to know
which halves an entry may have. `IndInv` adds this: `EntryShape`, `Halves`, `TaskShape` and `GroupShape`.
As almost every handler touches one peer, `IndInv` is taken apart by peer (`LocalForm`, `LocalStep`). The
key lemma is `SeverKeeps`: removing the entry of an address keeps `IndInv` whichever task asks for it.

The other results are about what a step does. `StepKinds` shows that every step is of one of a few
kinds: it removes an entry, starts an attempt, establishes a half, accepts a connection, takes a
handshake, changes no half (`PeerStep`), ends the thread (`Ends`), or belongs to `bootstrap()`. Then each
kind is shown once

- to be a step of `PeerEvents` or to change nothing there (`EventsRefine`);
- to keep `EntryInv`: an established outgoing half has empty buffers, and an entry marked as contacted was
  asked for; `CachesOnlyContacted` follows, since the cache only changes where `contacted` is read;
- to let no entry join a group whose `bootstrap::start` has returned (`PeerStepMembers`, `StepMembers`);
- for a client, to keep `OnceInv`: a member of a group that has not succeeded yet has its terminator in
  the group, and a member of a group that has succeeded has the cancellation in its channel, so that its
  attempt cannot succeed any more (`Cancellable`). The proof uses that a client accepts no connection and
  that its own half is complete with the attempt, so it leaves the group at once.

`MessagesAccountedFor` follows from `LedgerInv`, which books for every entry where its messages can be:
`pending_sends` has some only while an attempt is going on, `pending_reads` only with an incoming half
(`Booked`). It is kept because every step that takes messages out of a buffer writes or reports as many
(`EstablishBooks`), every step that puts one in has just taken or read it (`TryWriteBooks`,
`HandleDataBooks`), and every other step leaves the buffers of an entry alone or removes it (`SeverBooks`).

`UnansweredHasTimer` and `BootstrapRunsDown` are the part of `BootstrapResolves` that can be proved here. An
unanswered call whose closure has ended has a member with a pending timer, the timer removes the member
when it fires, and no member is added: what TLC adds is that a fair timer does fire.

`QuicP2pLemmas` has the operators, `LocalStep`, `SeverKeeps` and the kinds, `QuicP2pTasks` every task of a
connection and the lemmas on the ledger, `QuicP2pProofs` every call, timer and bootstrap step and the theorems. The lemmas about
handlers that call `add_peer` have the hypothesis `AddPeerTyped`; `QuicP2pProofs` discharges it with
`AddPeerType`.

**EventLoop.** `EventLoopProofs` proves `ContextBeforeUse`, `WaitsForSender` and `TypeOK` for any number of
messages and tasks. The invariant `LoopInv` adds that, until the `Context` exists, the message at the head
of the queue of a running loop is the one that makes it or the terminator; the queue keeps the order,
so no other closure can come first. `AwaitedIsLast` and the action property `WaitRunsDown` are proved on top
of it: a blocked call and a drop wait for the last message in the channel, because nobody else can post,
and the channel only gets shorter until the wait is over (`WaitRunsDown` is in no run; TLC finds no violation
of it on the instance of `HandleAndLoop`). They play the same part for `CallsReturn` and
`DropReturns` as the two properties above for `BootstrapResolves`.

**WireFormat.** `WireFormatProofs` proves `TypeOK`, `DecodedUnlessMisread` and `ErrorOnlyIfTooLong` for
every limit and every size: the bytes are those of the message that was sent (`WireInv`), and for each
kind of message the two size tests of `wire_msg.rs` are compared.

**The cache.** `BootstrapPeersProofs` proves that `add_peer` keeps a list within its bound, without
duplicates and without hard coded contacts, for every bound and list. `BootstrapCacheProofs` carries this
through writes, crashes and restarts: `TypeOK` whatever the builder is given, and `CacheIsSound`,
`HoldsMostRecent` and `SavedUpToAddCount` for programs that give no proxies (`ProxyLists \subseteq {<<>>}`).
With proxies none of the three holds (`CacheIsBounded` above is part of the first): proxies join the list
unused and uncounted. `SavedUpToAddCount` bounds what a crash loses: `add_count` peers and, because the count is reset although a
write failed (`bootstrap_cache.rs:116`), one batch of `SyncAfter + 1` for each failure since the last success.
It compares sets; the order, which moves to the top change uncounted, may be lost altogether. The invariant
`CacheInv` adds that the list in the file is sound and that the file is torn during a write. `AddPeerOrder`
says what `add_peer` does to the order of a list and `UseFacts` what one more use does to the order of
last uses; together they give `MostRecentAfterUse`.

**Exchange.** `ExchangeProofs` proves `TypeOK` and `DoneIsTrue` for any number of clients, of expected
connections and of waiting events. The counters of a client can only be trusted because no event comes
twice: `SentInv` says that a client is told once of each connection and sends to a contact only then,
`HeardInv` that a large message is in the network, in a channel or counted, and in one of these only,
`ListInv` that there is one list, which all clients that have one share. A counter is thus the size of
a set of contacts, and equal sizes mean equal sets.

`EveryPairExchanges` proves `PairsExchange`. Its argument is about what is still under way, so the invariant
`TestInv` follows everything until it arrives: a client that asks has a question or an answer in the
network (`AskInv`); the bootstrap node has counted, or has an event for, everyone it is connected to, and
has sent the list as soon as these are enough (`CollectInv`); the list is in the network, in the channel
or with each contact (`HasListInv`); of two clients that are to be connected, the one whose list asked for
it has sent or has the event of the connection ahead of it (`PairInv`). In a quiescent state nothing is
under way, and what is left of each disjunction is the claim. Two hypotheses are needed. At least
`ExpectedConns` clients take part: with fewer the bootstrap node waits for ever, as it should. And
`Cardinality(Client) <= MaxInbox + 1`: a client handles no events while it asks for its address, so its
channel may fill up with connections to other clients. Two clients that both ask are not connected to
each other, so with this bound either has room for its connection to the bootstrap node and one of them
is answered. The channels of the code are unbounded: the hypothesis is about the model's bound only. The instance of the run satisfies
both.

`LostClientIsMissed` proves `PanicShows`: a client panics only because of a message while it asks, which
comes from a client that has the list, so it is a contact (`PanicInv`); it has no list and has sent to
nobody. As `ChecksPassed` says that a client that is done heard from all contacts, and all lists are the
same, no client is done.

TLC finds no violation of any of these inductive invariants on the instances of the runs (`OnceInv` on
that of `ClientBootstrap`); two runs check `IndInv` itself.

**Only model-checked.** Liveness (`Liveness`, `HandleAndLoop`): TLAPS does not reason about fairness here.
The runs that expect a violation have nothing to prove.

## Not modelled

- `config.rs`, `dirs.rs`, `peer_config.rs`: values handed to quinn and rustls, and paths.
- `error.rs` and formatting. The `Display` of `event.rs` and `wire_msg.rs` and the `Debug` of `to_peer.rs`
  and `from_peer.rs` format themselves in some variants; only logging is affected.
- `examples/chat.rs`: reads commands, prints events, keeps a list for the user.
- Failing connections in `Exchange`: they are the subject of `QuicP2p`. A client that left stays in the
  list of `bootstrap_node`.
- Time: a timer fires after any delay, and the idle timeout is one of the errors quinn may report.
- The closure of `activate` panics if the port of the configuration is taken, after `build()` returned
  `Ok`. `EventLoop` has this behaviour; no property is stated about it.
- A caller of `our_connection_info` waits for ever if the echo server cannot be reached. The code
  promises nothing here and no property is stated.
