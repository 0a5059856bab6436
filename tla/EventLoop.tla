----------------------------- MODULE EventLoop -----------------------------
(***************************************************************************)
(* The life of one instance as seen from its two threads: the one that     *)
(* owns the handle (lib.rs) and the event loop (event_loop.rs), with the   *)
(* queue of posted messages between them and the thread-local Context      *)
(* (context.rs).                                                           *)
(*                                                                         *)
(* The methods of the handle take &mut self, so one call is in progress at *)
(* a time.  What the closures do to connections is the subject of module   *)
(* QuicP2p; here they need the Context, may spawn tasks and may answer.    *)
(*                                                                         *)
(* External, from how event_loop.rs uses tokio: a panic of a closure or a  *)
(* task ends the thread, and block_on_all returns the error of its future  *)
(* without waiting for tasks (so the TODO at connection/mod.rs:127).       *)
(***************************************************************************)
EXTENDS Naturals, Sequences

CONSTANTS
  MaxQueue,      \* bound: posted messages that wait
  MaxTasks       \* bound: spawned tasks

ASSUME EventLoopAssumption == MaxQueue \in Nat /\ MaxTasks \in Nat

VARIABLES
  contacts,   \* hard_coded_contacts is not empty; never changes
  user,       \* where the thread with the handle is
  us,         \* QuicP2p::us is known
  queue,      \* the channel of EventLoopMsg
  reply,      \* the channel on which a blocked call waits
  ctx,        \* the Context is initialised
  tasks,      \* tasks the loop still runs
  loop        \* the event loop's thread

vars == <<contacts, user, us, queue, reply, ctx, tasks, loop>>

\* Closures that answer through a Sender they own.  The Sender of "echo" moves
\* to the Context (our_ext_addr_tx) when the closure runs.
Answering == {"local addr", "certificate", "cache"}
EventLoopMsg == {"initialise", "proxies", "work", "echo", "terminator"} \union Answering

\* A call that is blocked is named after what it waits for.
Blocked == Answering \union {"echo"}
UserState == {"start", "spawned", "activated", "ready", "dropping", "gone"} \union Blocked

TypeOK ==
  /\ user \in UserState
  /\ contacts \in BOOLEAN
  /\ us \in BOOLEAN
  /\ queue \in Seq(EventLoopMsg)
  /\ reply \in {"none", "pending", "sent", "lost"}
  /\ ctx \in BOOLEAN
  /\ tasks \in Nat
  /\ loop \in {"none", "running", "stopped", "panicked", "no context"}
  /\ loop # "running" => tasks = 0

Init ==
  /\ contacts \in BOOLEAN
  /\ user = "start" /\ us = FALSE
  /\ queue = <<>> /\ reply = "none"
  /\ ctx = FALSE /\ tasks = 0 /\ loop = "none"

\* post: a message that cannot be sent is dropped, with the Sender it owns.
Post(m) ==
  /\ queue' = IF loop = "running" THEN Append(queue, m) ELSE queue
  /\ reply' = IF m \notin Blocked THEN "none"
              ELSE IF loop = "running" THEN "pending" ELSE "lost"

-----------------------------------------------------------------------------
(* The thread with the handle                                               *)

\* with_config: EventLoop::spawn
Spawn ==
  /\ user = "start"
  /\ user' = "spawned" /\ loop' = "running"
  /\ UNCHANGED <<contacts, us, queue, reply, ctx, tasks>>

\* QuicP2p::new where the configuration cannot be read
ConfigFails ==
  /\ user = "start"
  /\ user' = "gone"
  /\ UNCHANGED <<contacts, us, queue, reply, ctx, tasks, loop>>

\* Mutated form: the closure that initialises the Context is not posted.
ActivateForgotten ==
  /\ user = "spawned"
  /\ user' = "activated"
  /\ UNCHANGED <<contacts, us, queue, reply, ctx, tasks, loop>>

\* activate
Activate ==
  /\ user = "spawned"
  /\ Post("initialise")
  /\ user' = "activated"
  /\ UNCHANGED <<contacts, us, ctx, tasks, loop>>

\* The end of build()
BuildDone ==
  /\ user = "activated"
  /\ Post("proxies")
  /\ user' = "ready"
  /\ UNCHANGED <<contacts, us, ctx, tasks, loop>>

\* EventLoop::drop up to the join: also when activate fails and when the thread
\* unwinds with the handle.
StartDrop ==
  /\ Post("terminator")
  /\ user' = "dropping"
  /\ UNCHANGED <<contacts, us, ctx, tasks, loop>>

\* BootstrapCache::new or the certificate of the configuration fails.
ActivateFails == user = "spawned" /\ StartDrop
DropHandle == user = "ready" /\ StartDrop

\* EventLoop::drop: the join
Join ==
  /\ user = "dropping"
  /\ loop # "running"
  /\ user' = "gone"
  /\ UNCHANGED <<contacts, us, queue, reply, ctx, tasks, loop>>

\* Mutated form: the handle is shared, and a call posts while another one waits.
CallWorkShared ==
  /\ user \in {"ready"} \union Answering
  /\ Len(queue) < MaxQueue
  /\ queue' = IF loop = "running" THEN Append(queue, "work") ELSE queue
  /\ UNCHANGED <<contacts, user, us, reply, ctx, tasks, loop>>

\* bootstrap, connect_to, disconnect_from, send
CallWork ==
  /\ user = "ready"
  /\ Len(queue) < MaxQueue
  /\ Post("work")
  /\ UNCHANGED <<contacts, user, us, ctx, tasks, loop>>

\* A closure is posted and the call waits for its answer.
Ask(m) == Post(m) /\ user' = m /\ UNCHANGED <<contacts, us, ctx, tasks, loop>>

CallBootstrapCache == user = "ready" /\ Ask("cache")

\* our_connection_info; nothing is posted once the answer is known
CallOurConnectionInfo ==
  /\ user = "ready" /\ ~us
  /\ Ask(IF contacts THEN "echo" ELSE "local addr")

\* rx.recv() returns the answer
Answered ==
  /\ user \in Blocked /\ reply = "sent"
  /\ \/ /\ user \in {"echo", "local addr"}
        /\ Ask("certificate")
     \/ /\ user = "local addr"          \* no address, or an unspecified one: an error
        /\ user' = "ready" /\ reply' = "none"
        /\ UNCHANGED <<contacts, us, queue, ctx, tasks, loop>>
     \/ /\ user \in {"certificate", "cache"}
        /\ us' = (us \/ user = "certificate")
        /\ user' = "ready" /\ reply' = "none"
        /\ UNCHANGED <<contacts, queue, ctx, tasks, loop>>

\* Mutated form: bootstrap_cache asks again.
UnansweredRetried ==
  /\ user \in Blocked /\ reply = "lost"
  /\ IF user = "cache" THEN Ask("cache") ELSE StartDrop

\* rx.recv() reports that the Sender is gone: bootstrap_cache returns the error,
\* the others unwrap it.
Unanswered ==
  /\ user \in Blocked /\ reply = "lost"
  /\ IF user = "cache"
     THEN /\ user' = "ready" /\ reply' = "none"
          /\ UNCHANGED <<contacts, us, queue, ctx, tasks, loop>>
     ELSE StartDrop

-----------------------------------------------------------------------------
(* The event loop                                                           *)

\* Mutated form: the Sender of a message in the channel outlives the thread.
LoopEndsHoldingSender(how) ==
  /\ loop' = how
  /\ queue' = <<>>
  /\ ctx' = FALSE
  /\ tasks' = 0
  /\ UNCHANGED <<contacts, user, us, reply>>

\* Mutated form: the tasks outlive the thread.
LoopEndsKeepingTasks(how) ==
  /\ loop' = how
  /\ queue' = <<>>
  /\ reply' = IF reply = "pending" THEN "lost" ELSE reply
  /\ ctx' = FALSE
  /\ UNCHANGED <<contacts, user, us, tasks>>

\* The thread ends: the channel, the Context and the tasks are dropped.
LoopEnds(how) ==
  /\ loop' = how
  /\ queue' = <<>>
  /\ reply' = IF reply = "pending" THEN "lost" ELSE reply
  /\ ctx' = FALSE
  /\ tasks' = 0
  /\ UNCHANGED <<contacts, user, us>>

\* The closure of activate: the endpoint is bound, or panics because it cannot be.
\* It runs its driver and, unless we are a client, the loop over connections.
Initialise ==
  \/ LoopEnds("panicked")
  \/ /\ ctx' = TRUE
     /\ tasks' \in {tasks + 1, tasks + 2}
     /\ queue' = Tail(queue)
     /\ UNCHANGED <<contacts, user, us, reply, loop>>

\* A closure that uses the Context; ctx() panics if there is none.
UseContext(m) ==
  IF ~ctx THEN LoopEnds("no context")
  ELSE /\ reply' = IF m \in Answering THEN "sent" ELSE reply
       /\ tasks' \in {tasks} \union (IF m \in {"work", "echo"} THEN {tasks + 1} ELSE {})
       /\ tasks' <= MaxTasks
       /\ queue' = Tail(queue)
       /\ UNCHANGED <<contacts, user, us, ctx, loop>>

\* Mutated form: the loop ends once its tasks have, as with current_thread::run.
RunMessageThenTasks ==
  /\ loop = "running" /\ queue # <<>>
  /\ LET m == Head(queue)
     IN  \/ m = "initialise" /\ Initialise
         \/ m = "terminator" /\ tasks = 0 /\ LoopEnds("stopped")
         \/ m \notin {"initialise", "terminator"} /\ UseContext(m)

\* for_each of spawn() on the next message
RunMessage ==
  /\ loop = "running" /\ queue # <<>>
  /\ LET m == Head(queue)
     IN  \/ m = "initialise" /\ Initialise
         \/ m = "terminator" /\ LoopEnds("stopped")
         \/ m \notin {"initialise", "terminator"} /\ UseContext(m)

\* The echo response is dispatched, or another message takes the Sender.
EchoSenderTaken ==
  /\ loop = "running" /\ ctx
  /\ user = "echo" /\ reply = "pending"
  /\ \A i \in DOMAIN queue : queue[i] # "echo"
  /\ reply' \in {"sent", "lost"}
  /\ UNCHANGED <<contacts, user, us, queue, ctx, tasks, loop>>

TaskEnds ==
  /\ loop = "running" /\ tasks > 0
  /\ tasks' = tasks - 1
  /\ UNCHANGED <<contacts, user, us, queue, reply, ctx, loop>>

TaskPanics == loop = "running" /\ tasks > 0 /\ LoopEnds("panicked")

-----------------------------------------------------------------------------
Next ==
  \/ Spawn \/ ConfigFails \/ Activate \/ ActivateFails \/ BuildDone
  \/ CallWork \/ CallBootstrapCache \/ CallOurConnectionInfo \/ Answered \/ Unanswered
  \/ DropHandle \/ Join
  \/ RunMessage \/ EchoSenderTaken \/ TaskEnds \/ TaskPanics

Spec == Init /\ [][Next]_vars

\* Both threads run: the loop takes the next message, a caller wakes up when its
\* channel has an answer or lost its Sender, and a join returns.  No task is
\* assumed to end and no echo server to answer.
Fairness == WF_vars(RunMessage) /\ WF_vars(Answered) /\ WF_vars(Unanswered) /\ WF_vars(Join)

FairSpec == Spec /\ Fairness

-----------------------------------------------------------------------------
(* Properties                                                               *)

\* No closure finds the Context missing (context.rs:56, 72): the closure that
\* makes it is posted first and the queue keeps the order, and where build()
\* fails before that only the terminator is posted.
ContextBeforeUse == loop # "no context"

\* A call that waits without an answer waits for a Sender that still exists, in a
\* message of a running loop or, for the echo service, in its Context: a loop
\* that ends at any point, or ended before the post, leaves no call behind.
WaitsForSender ==
  user \in Blocked /\ reply = "pending" =>
    /\ loop = "running"
    /\ \/ \E i \in DOMAIN queue : queue[i] = user
       \/ user = "echo" /\ ctx

\* The wait for an answer of the loop itself, or for the join, and the message that
\* ends it
Waits ==
  /\ loop = "running"
  /\ \/ user = "dropping"
     \/ user \in Answering /\ reply = "pending"

Awaited == IF user = "dropping" THEN "terminator" ELSE user

\* Such a wait is for the last message in the channel: the methods and the drop
\* take &mut self (lib.rs:195, 231, 352; event_loop.rs:103), so nothing is posted
\* behind it.
AwaitedIsLast == Waits => queue # <<>> /\ queue[Len(queue)] = Awaited

\* And its turn comes nearer: while the wait lasts, the loop only takes messages
\* from the channel, and once the channel is empty the wait is over.
WaitRunsDown ==
  [][Waits /\ Waits' => queue' \in {queue, Tail(queue)} /\ queue' # <<>>]_vars

\* What the two properties above rest on: until the Context is made, the next
\* message of a running loop is the one that makes it or the terminator.
LoopInv ==
  /\ TypeOK
  /\ ContextBeforeUse
  /\ WaitsForSender
  /\ ctx => loop = "running"
  /\ user = "start" => loop = "none"
  /\ loop = "none" => queue = <<>> /\ user \in {"start", "gone"}
  /\ user = "spawned" => loop = "running" /\ queue = <<>> /\ tasks = 0 /\ ~ctx
  /\ loop = "running" /\ ~ctx /\ user # "spawned" =>
       queue # <<>> /\ Head(queue) \in {"initialise", "terminator"}

\* bootstrap_cache and the two local questions of our_connection_info return or
\* panic, whatever happens to the loop (lib.rs:208, 237, 360).
CallsReturn == \A m \in Answering : user = m ~> user # m

\* Dropping the handle ends the thread although tasks are still running
\* (event_loop.rs:102; lib.rs:400 tests it for an instance that did nothing).
DropReturns == user = "dropping" ~> user = "gone"
=============================================================================
