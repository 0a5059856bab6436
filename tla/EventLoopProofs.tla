-------------------------- MODULE EventLoopProofs --------------------------
(* The safety properties of EventLoop, for every bound.                     *)
EXTENDS EventLoop, TLAPS

\* What posting does to the queue (event_loop.rs:17): its head stays.
LEMMA PostFacts ==
  ASSUME LoopInv, NEW m \in EventLoopMsg, Post(m)
  PROVE  /\ queue' \in Seq(EventLoopMsg)
         /\ reply' \in {"none", "pending", "sent", "lost"}
         /\ loop # "running" => queue' = queue
         /\ loop = "running" => queue' # <<>>
         /\ queue # <<>> => queue' # <<>> /\ Head(queue') = Head(queue)
         /\ loop = "running" /\ queue = <<>> => Head(queue') = m
         /\ reply' = "pending" =>
              loop = "running" /\ \E i \in DOMAIN queue' : queue'[i] = m
<1>1. queue \in Seq(EventLoopMsg)
  BY DEF LoopInv, TypeOK
<1>2. CASE loop = "running"
  <2>1. queue' = Append(queue, m)
    BY <1>2 DEF Post
  <2>2. queue' \in Seq(EventLoopMsg) /\ Len(queue') = Len(queue) + 1 /\ queue'[Len(queue) + 1] = m
    BY <1>1, <2>1
  <2>3. Len(queue) + 1 \in DOMAIN queue'
    BY <1>1, <2>2
  <2>4. queue # <<>> => Head(queue') = Head(queue)
    BY <1>1, <2>1
  <2>5. queue = <<>> => Head(queue') = m
    BY <1>1, <2>1
  <2> QED BY <1>1, <1>2, <2>2, <2>3, <2>4, <2>5 DEF Post
<1>3. CASE loop # "running"
  BY <1>1, <1>3 DEF Post
<1> QED BY <1>2, <1>3

\* The end of the thread leaves nothing behind.
LEMMA LoopEndsKeeps ==
  ASSUME LoopInv, loop = "running", user # "spawned",
         NEW how \in {"stopped", "panicked"}, LoopEnds(how)
  PROVE  LoopInv'
<1>1. /\ user # "start" /\ user' = user /\ us' = us /\ contacts' = contacts
      /\ loop' = how /\ queue' = <<>> /\ tasks' = 0 /\ ctx' = FALSE
  BY DEF LoopInv, LoopEnds
<1>2. reply' \in {"none", "sent", "lost"}
  BY DEF LoopInv, TypeOK, LoopEnds
<1>3. ctx' \in BOOLEAN /\ ~ctx'
  BY Zenon, <1>1
<1>4. TypeOK'
  <2>1. queue' \in Seq(EventLoopMsg) /\ tasks' \in Nat
    <3>1. queue' = <<>> /\ tasks' = 0
      BY Zenon, <1>1
    <3> QED BY <3>1
  <2>2. user' \in UserState /\ contacts' \in BOOLEAN /\ us' \in BOOLEAN
    BY Zenon, <1>1 DEF LoopInv, TypeOK
  <2>3. loop' \in {"none", "running", "stopped", "panicked", "no context"}
    BY Zenon, <1>1
  <2>4. reply' \in {"none", "pending", "sent", "lost"}
    BY Zenon, <1>2
  <2> QED BY Zenon, <1>1, <1>3, <2>1, <2>2, <2>3, <2>4 DEF TypeOK
<1>5. ContextBeforeUse' /\ WaitsForSender'
  BY <1>1, <1>2 DEF ContextBeforeUse, WaitsForSender
<1> QED BY <1>1, <1>3, <1>4, <1>5 DEF LoopInv

\* A call, or the drop, posts a message and then waits for it or goes on.
LEMMA PostKeeps ==
  ASSUME LoopInv, NEW m \in EventLoopMsg, Post(m), user # "start", loop # "none",
         user' \in UserState, user' \notin {"start", "spawned"},
         user' \in Blocked => user' = m,
         user = "spawned" => m \in {"initialise", "terminator"},
         UNCHANGED <<contacts, us, ctx, tasks, loop>>
  PROVE  LoopInv'
<1>1. TypeOK'
  BY PostFacts DEF LoopInv, TypeOK
<1>2. ContextBeforeUse'
  BY DEF LoopInv, ContextBeforeUse
<1>3. WaitsForSender'
  BY PostFacts DEF WaitsForSender
<1>4. loop' = "running" /\ ~ctx' =>
        queue' # <<>> /\ Head(queue') \in {"initialise", "terminator"}
  <2> SUFFICES ASSUME loop = "running", ~ctx
               PROVE  queue' # <<>> /\ Head(queue') \in {"initialise", "terminator"}
    OBVIOUS
  <2>1. CASE user = "spawned"
    BY <2>1, PostFacts DEF LoopInv
  <2>2. CASE user # "spawned"
    BY <2>2, PostFacts DEF LoopInv
  <2> QED BY <2>1, <2>2
<1>5. (ctx' => loop' = "running") /\ loop' # "none"
  BY DEF LoopInv
<1> QED BY <1>1, <1>2, <1>3, <1>4, <1>5 DEF LoopInv

\* A step of the thread with the handle that posts nothing.
LEMMA QuietKeeps ==
  ASSUME LoopInv, user # "start", user # "spawned", loop # "none",
         user' \in UserState, user' \notin {"start", "spawned"} \union Blocked,
         us' \in BOOLEAN, reply' \in {"none", "pending", "sent", "lost"},
         UNCHANGED <<contacts, queue, ctx, tasks, loop>>
  PROVE  LoopInv'
<1>1. TypeOK'
  BY DEF LoopInv, TypeOK
<1>2. ContextBeforeUse' /\ WaitsForSender'
  BY DEF LoopInv, ContextBeforeUse, WaitsForSender
<1> QED BY <1>1, <1>2 DEF LoopInv

\* The loop takes the next message, and the Context exists afterwards.
LEMMA MessageDoneKeeps ==
  ASSUME LoopInv, loop = "running", queue # <<>>, queue' = Tail(queue), ctx' = TRUE,
         tasks' \in Nat, UNCHANGED <<contacts, user, us, loop>>,
         \/ reply' = "sent"
         \/ reply' = reply /\ (Head(queue) = user => user = "echo")
  PROVE  LoopInv'
<1>1. queue \in Seq(EventLoopMsg) /\ Tail(queue) \in Seq(EventLoopMsg)
  BY DEF LoopInv, TypeOK
<1>2. TypeOK'
  BY <1>1 DEF LoopInv, TypeOK
<1>3. WaitsForSender'
  <2> SUFFICES ASSUME user \in Blocked, reply' = "pending"
               PROVE  \/ \E i \in DOMAIN queue' : queue'[i] = user
                      \/ user = "echo"
    BY DEF WaitsForSender
  <2>1. reply = "pending" /\ (Head(queue) = user => user = "echo")
    OBVIOUS
  <2>2. CASE user # "echo"
    <3>1. PICK i \in DOMAIN queue : queue[i] = user
      BY <2>1, <2>2 DEF LoopInv, WaitsForSender
    <3>2. i \in Nat /\ i # 1 /\ i \in 1..Len(queue)
      BY <1>1, <2>1, <2>2, <3>1
    <3>3. i - 1 \in DOMAIN Tail(queue) /\ Tail(queue)[i - 1] = queue[i]
      BY <1>1, <3>2
    <3> QED BY <3>1, <3>3
  <2> QED BY <2>2
<1>4. user \notin {"start", "spawned"}
  BY DEF LoopInv
<1> QED BY <1>2, <1>3, <1>4 DEF LoopInv, ContextBeforeUse

\* Every message the loop takes from its channel (event_loop.rs:72).
LEMMA RunMessageKeeps ==
  ASSUME LoopInv, RunMessage
  PROVE  LoopInv'
<1>1. loop = "running" /\ queue # <<>> /\ user # "spawned"
  BY DEF LoopInv, RunMessage
<1>2. CASE Head(queue) = "initialise" /\ Initialise
  <2>1. CASE LoopEnds("panicked")
    BY <1>1, <2>1, LoopEndsKeeps
  <2>2. CASE ~LoopEnds("panicked")
    <3>1. /\ queue' = Tail(queue) /\ ctx' = TRUE /\ tasks' \in {tasks + 1, tasks + 2}
          /\ UNCHANGED <<contacts, user, us, reply, loop>>
      BY <1>2, <2>2 DEF Initialise
    <3>2. tasks' \in Nat
      <4>1. tasks \in Nat /\ tasks' \in {tasks + 1, tasks + 2}
        BY Zenon, <3>1 DEF LoopInv, TypeOK
      <4> QED BY <4>1
    <3>3. Head(queue) = user => user = "echo"
      BY <1>2 DEF LoopInv, TypeOK, UserState, Blocked, Answering
    <3> QED BY <1>1, <3>1, <3>2, <3>3, MessageDoneKeeps
  <2> QED BY <2>1, <2>2
<1>3. CASE LoopEnds("stopped")
  BY <1>1, <1>3, LoopEndsKeeps
<1>4. CASE Head(queue) \notin {"initialise", "terminator"} /\ UseContext(Head(queue))
  <2>1. ctx
    BY <1>1, <1>4 DEF LoopInv
  <2>2. /\ queue' = Tail(queue)
        /\ reply' = IF Head(queue) \in Answering THEN "sent" ELSE reply
        /\ UNCHANGED <<contacts, user, us, ctx, loop>>
    BY <1>4, <2>1 DEF UseContext
  <2>3. tasks' \in Nat
    BY <1>4, <2>1 DEF UseContext, LoopInv, TypeOK
  <2>4. ctx' = TRUE
    BY <2>1, <2>2 DEF LoopInv, TypeOK
  <2>5. \/ reply' = "sent"
        \/ reply' = reply /\ (Head(queue) = user => user = "echo")
    <3>1. CASE Head(queue) \in Answering
      BY <2>2, <3>1
    <3>2. CASE Head(queue) \notin Answering
      <4>1. Head(queue) \in EventLoopMsg
        BY <1>1 DEF LoopInv, TypeOK
      <4>2. Head(queue) = user => user = "echo"
        BY <1>4, <3>2, <4>1 DEF LoopInv, TypeOK, UserState, Blocked, EventLoopMsg
      <4> QED BY <2>2, <3>2, <4>2
    <3> QED BY <3>1, <3>2
  <2> QED BY <1>1, <2>2, <2>3, <2>4, <2>5, MessageDoneKeeps
<1> QED BY <1>2, <1>3, <1>4 DEF RunMessage

\* Every step of the two threads keeps the invariant.
LEMMA StepKeeps ==
  ASSUME LoopInv, [Next]_vars
  PROVE  LoopInv'
<1> USE DEF EventLoopMsg, UserState, Blocked, Answering
<1>1. CASE Spawn
  BY <1>1 DEF Spawn, LoopInv, TypeOK, ContextBeforeUse, WaitsForSender
<1>2. CASE ConfigFails
  BY <1>2 DEF ConfigFails, LoopInv, TypeOK, ContextBeforeUse, WaitsForSender
<1>3. CASE Activate
  BY <1>3, PostKeeps DEF Activate, LoopInv
<1>4. CASE ActivateFails
  BY <1>4, PostKeeps DEF ActivateFails, StartDrop, LoopInv
<1>5. CASE BuildDone
  BY <1>5, PostKeeps DEF BuildDone, LoopInv
<1>6. CASE CallWork
  BY <1>6, PostKeeps DEF CallWork, LoopInv
<1>7. CASE CallBootstrapCache
  BY <1>7, PostKeeps DEF CallBootstrapCache, Ask, LoopInv
<1>8. CASE CallOurConnectionInfo
  <2>1. PICK m \in {"echo", "local addr"} : Ask(m)
    BY <1>8 DEF CallOurConnectionInfo
  <2> QED BY <1>8, <2>1, PostKeeps DEF CallOurConnectionInfo, Ask, LoopInv
<1>9. CASE Answered
  <2>1. user \in Blocked /\ loop # "none"
    BY <1>9 DEF Answered, LoopInv
  <2>2. CASE Ask("certificate")
    BY <2>1, <2>2, PostKeeps DEF Ask
  <2>3. CASE ~Ask("certificate")
    <3>1. /\ user' = "ready" /\ reply' = "none"
          /\ UNCHANGED <<contacts, queue, ctx, tasks, loop>>
      BY <1>9, <2>3 DEF Answered
    <3>2. us' = us \/ us' = (us \/ user = "certificate")
      BY <1>9, <2>3 DEF Answered
    <3>3. us' \in BOOLEAN
      BY Zenon, <3>2 DEF LoopInv, TypeOK
    <3> QED BY <2>1, <3>1, <3>3, QuietKeeps
  <2> QED BY <2>2, <2>3
<1>10. CASE Unanswered
  <2>1. user \in Blocked /\ loop # "none"
    BY <1>10 DEF Unanswered, LoopInv
  <2>2. CASE user = "cache"
    <3>1. /\ user' = "ready" /\ reply' = "none"
          /\ UNCHANGED <<contacts, us, queue, ctx, tasks, loop>>
      BY <1>10, <2>2 DEF Unanswered
    <3>2. us' \in BOOLEAN
      BY Zenon, <3>1 DEF LoopInv, TypeOK
    <3> QED BY <2>1, <3>1, <3>2, QuietKeeps
  <2>3. CASE user # "cache"
    BY <1>10, <2>1, <2>3, PostKeeps DEF Unanswered, StartDrop
  <2> QED BY <2>2, <2>3
<1>11. CASE DropHandle
  BY <1>11, PostKeeps DEF DropHandle, StartDrop, LoopInv
<1>12. CASE Join
  <2>1. us' \in BOOLEAN /\ reply' \in {"none", "pending", "sent", "lost"}
    BY Zenon, <1>12 DEF Join, LoopInv, TypeOK
  <2> QED BY <1>12, <2>1, QuietKeeps DEF Join, LoopInv
<1>13. CASE RunMessage
  BY <1>13, RunMessageKeeps
<1>14. CASE EchoSenderTaken
  BY <1>14 DEF EchoSenderTaken, LoopInv, TypeOK, ContextBeforeUse, WaitsForSender
<1>15. CASE TaskEnds
  <2>1. tasks > 0 /\ tasks \in Nat /\ tasks' = tasks - 1
    BY Zenon, <1>15 DEF TaskEnds, LoopInv, TypeOK
  <2>2. tasks' \in Nat
    BY <2>1
  <2>3. /\ loop = "running" /\ UNCHANGED <<contacts, user, us, queue, reply, ctx, loop>>
    BY <1>15 DEF TaskEnds
  <2>4. TypeOK'
    BY Zenon, <2>2, <2>3 DEF LoopInv, TypeOK
  <2>5. ContextBeforeUse' /\ WaitsForSender'
    BY <2>3 DEF LoopInv, ContextBeforeUse, WaitsForSender
  <2>6. user # "spawned"
    BY <2>1 DEF LoopInv
  <2> QED BY Zenon, <2>3, <2>4, <2>5, <2>6 DEF LoopInv
<1>16. CASE TaskPanics
  BY <1>16, LoopEndsKeeps DEF TaskPanics, LoopInv
<1>17. CASE UNCHANGED vars
  <2>1. TypeOK'
    BY Zenon, <1>17 DEF vars, LoopInv, TypeOK
  <2>2. ContextBeforeUse' /\ WaitsForSender'
    BY <1>17 DEF vars, LoopInv, ContextBeforeUse, WaitsForSender
  <2> QED BY <1>17, <2>1, <2>2 DEF vars, LoopInv
<1> QED BY <1>1, <1>2, <1>3, <1>4, <1>5, <1>6, <1>7, <1>8, <1>9, <1>10, <1>11, <1>12,
           <1>13, <1>14, <1>15, <1>16, <1>17 DEF Next

\* The invariant of the two threads holds in every state.
LEMMA LoopInvariance == Spec => []LoopInv
<1>1. Init => LoopInv
  <2> SUFFICES ASSUME Init PROVE LoopInv
    OBVIOUS
  <2>1. queue \in Seq(EventLoopMsg) /\ tasks \in Nat
    <3>1. queue = <<>> /\ tasks = 0
      BY Zenon DEF Init
    <3> QED BY <3>1
  <2>2. TypeOK
    BY Zenon, <2>1 DEF Init, TypeOK, UserState
  <2>3. ContextBeforeUse /\ WaitsForSender
    BY DEF Init, ContextBeforeUse, WaitsForSender
  <2> QED BY <2>2, <2>3 DEF Init, LoopInv
<1>2. LoopInv /\ [Next]_vars => LoopInv'
  BY StepKeeps
<1> QED BY <1>1, <1>2, PTL DEF Spec

\* No posted closure ever panics for want of a Context (context.rs:56, 72), however
\* long the queue is and wherever build() fails.
THEOREM ContextIsThere == Spec => []ContextBeforeUse
<1>1. LoopInv => ContextBeforeUse
  BY DEF LoopInv
<1> QED BY <1>1, LoopInvariance, PTL

\* A blocked call (lib.rs:208, 237, 360, 380) never waits for a Sender that is gone.
THEOREM NoCallLeftBehind == Spec => []WaitsForSender
<1>1. LoopInv => WaitsForSender
  BY DEF LoopInv
<1> QED BY <1>1, LoopInvariance, PTL

\* The state of the two threads always has its type; in particular no task outlives
\* the thread that ran it (event_loop.rs:72).
THEOREM LoopTypes == Spec => []TypeOK
<1>1. LoopInv => TypeOK
  BY DEF LoopInv
<1> QED BY <1>1, LoopInvariance, PTL

\* Nobody posts while the thread with the handle waits: whatever step is taken, the
\* channel stays or loses its first message.
LEMMA OnlyTaken ==
  ASSUME LoopInv, Next, Waits, Waits', user' = user
  PROVE  queue' \in {queue, Tail(queue)}
<1>1. /\ loop = "running" /\ loop' = "running"
      /\ user \notin {"start", "spawned", "activated", "ready"}
      /\ user # "dropping" => user \in Blocked /\ reply = "pending"
  BY DEF Waits, Answering, Blocked
<1>2. ~(Spawn \/ ConfigFails \/ Activate \/ ActivateFails \/ BuildDone \/ CallWork
        \/ CallBootstrapCache \/ CallOurConnectionInfo \/ DropHandle)
  BY <1>1 DEF Spawn, ConfigFails, Activate, ActivateFails, BuildDone, CallWork,
              CallBootstrapCache, CallOurConnectionInfo, DropHandle
<1>3. ~(Answered \/ Unanswered \/ Join \/ TaskPanics)
  BY <1>1 DEF Answered, Unanswered, Join, TaskPanics, LoopEnds, Blocked, Answering
<1>4. CASE EchoSenderTaken \/ TaskEnds
  BY <1>4 DEF EchoSenderTaken, TaskEnds
<1>5. CASE RunMessage
  BY <1>1, <1>5 DEF RunMessage, Initialise, UseContext, LoopEnds
<1> QED BY <1>2, <1>3, <1>4, <1>5 DEF Next

\* A wait begins with the message it is for, at the end of the channel.
LEMMA WaitBegins ==
  ASSUME LoopInv, Next, Waits', ~(Waits /\ user' = user)
  PROVE  queue' # <<>> /\ queue'[Len(queue')] = Awaited'
<1> USE DEF Answering, Blocked
<1>1. \E m \in Answering \union {"terminator"} : Post(m) /\ loop' = loop
        /\ user' = (IF m = "terminator" THEN "dropping" ELSE m)
  <2>1. CASE Spawn \/ ConfigFails \/ Activate \/ BuildDone \/ CallWork \/ Join
    BY <2>1 DEF Spawn, ConfigFails, Activate, BuildDone, CallWork, Join, Waits
  <2>2. CASE CallBootstrapCache
    BY <2>2 DEF CallBootstrapCache, Ask
  <2>3. CASE CallOurConnectionInfo
    BY <2>3 DEF CallOurConnectionInfo, Ask, Waits
  <2>4. CASE Answered
    BY <2>4 DEF Answered, Ask, Waits
  <2>5. CASE Unanswered
    BY <2>5 DEF Unanswered, StartDrop, Waits
  <2>6. CASE ActivateFails \/ DropHandle
    BY <2>6 DEF ActivateFails, DropHandle, StartDrop
  <2>7. CASE EchoSenderTaken \/ TaskEnds
    BY <2>7 DEF EchoSenderTaken, TaskEnds, Waits
  <2>8. CASE RunMessage \/ TaskPanics
    BY <2>8 DEF RunMessage, TaskPanics, Initialise, UseContext, LoopEnds, Waits
  <2> QED BY <2>1, <2>2, <2>3, <2>4, <2>5, <2>6, <2>7, <2>8 DEF Next
<1>2. PICK m \in Answering \union {"terminator"} :
        Post(m) /\ loop' = loop /\ user' = (IF m = "terminator" THEN "dropping" ELSE m)
  BY <1>1
<1>3. queue \in Seq(EventLoopMsg) /\ queue' = Append(queue, m)
  BY <1>2 DEF Waits, Post, LoopInv, TypeOK
<1>4. m \in EventLoopMsg /\ Awaited' = m
  BY <1>2 DEF Awaited, EventLoopMsg
<1>5. queue' # <<>> /\ queue'[Len(queue')] = m
  <2> HIDE DEF Answering, Blocked
  <2>1. m \in EventLoopMsg /\ Len(queue) \in Nat
    BY <1>3, <1>4
  <2>2. Len(queue') = Len(queue) + 1 /\ queue'[Len(queue) + 1] = m /\ queue' \in Seq(EventLoopMsg)
    BY <1>3, <2>1
  <2> QED BY <2>1, <2>2
<1> QED BY Zenon, <1>4, <1>5

\* The message a wait is for stays the last one until it is run (event_loop.rs:72).
LEMMA AwaitedStays ==
  ASSUME LoopInv, AwaitedIsLast, [Next]_vars
  PROVE  AwaitedIsLast'
<1> SUFFICES ASSUME Waits' PROVE queue' # <<>> /\ queue'[Len(queue')] = Awaited'
  BY DEF AwaitedIsLast
<1>1. CASE UNCHANGED vars
  BY <1>1 DEF vars, Waits, AwaitedIsLast, Awaited
<1>2. CASE Next /\ ~(Waits /\ user' = user)
  BY <1>2, WaitBegins
<1>3. CASE Next /\ Waits /\ user' = user
  <2>1. queue \in Seq(EventLoopMsg) /\ queue # <<>> /\ queue[Len(queue)] = Awaited
    BY <1>3 DEF AwaitedIsLast, LoopInv, TypeOK
  <2>2. Awaited' = Awaited
    BY <1>3 DEF Awaited
  <2>3. CASE queue' = queue
    BY <2>1, <2>2, <2>3
  <2>4. CASE queue' = Tail(queue) /\ queue' # queue
    <3>1. RunMessage
      BY <1>3, <2>4 DEF Next, Spawn, ConfigFails, Join, TaskEnds, EchoSenderTaken, Waits,
            Activate, ActivateFails, BuildDone, CallWork, CallBootstrapCache,
            CallOurConnectionInfo, DropHandle, Answered, Unanswered, TaskPanics, LoopEnds,
            Answering, Blocked
    <3>2. Head(queue) # Awaited
      <4>1. CASE user = "dropping"
        BY <3>1, <4>1 DEF RunMessage, Initialise, UseContext, LoopEnds, Waits, Awaited
      <4>2. CASE user # "dropping"
        BY <3>1, <4>2 DEF RunMessage, Initialise, UseContext, LoopEnds, Waits, Awaited, Answering
      <4> QED BY <4>1, <4>2
    <3>3. Len(queue) > 1
      BY <2>1, <3>2
    <3>4. /\ Len(Tail(queue)) = Len(queue) - 1
          /\ Tail(queue)[Len(queue) - 1] = queue[Len(queue)]
      BY <2>1, <3>3
    <3>5. Tail(queue) # <<>>
      <4>1. Len(queue) \in Nat /\ Len(Tail(queue)) # 0 /\ Len(<<>>) = 0
        BY <2>1, <3>3, <3>4
      <4> QED BY Zenon, <4>1
    <3> QED BY Zenon, <2>1, <2>2, <2>4, <3>4, <3>5
  <2> QED BY <1>3, <2>3, <2>4, OnlyTaken
<1> QED BY <1>1, <1>2, <1>3

\* bootstrap_cache, the local questions of our_connection_info and the drop wait for
\* the last message in the channel (lib.rs:195, 231, 352; event_loop.rs:103).
THEOREM NothingPostedBehind == Spec => []AwaitedIsLast
<1>1. Init => AwaitedIsLast
  BY DEF Init, AwaitedIsLast, Waits
<1>2. LoopInv /\ AwaitedIsLast /\ [Next]_vars => AwaitedIsLast'
  BY AwaitedStays
<1> QED BY <1>1, <1>2, LoopInvariance, PTL DEF Spec

\* While it lasts, such a wait comes nearer to its end with every message the loop
\* takes, and it is over when the channel is empty (event_loop.rs:72): with a fair
\* loop this is why CallsReturn and DropReturns hold.
THEOREM WaitsRunDown == Spec => WaitRunsDown
<1>1. LoopInv /\ LoopInv' /\ AwaitedIsLast /\ AwaitedIsLast' /\ [Next]_vars =>
        [Waits /\ Waits' => queue' \in {queue, Tail(queue)} /\ queue' # <<>>]_vars
  <2> SUFFICES ASSUME LoopInv, AwaitedIsLast', Next, Waits, Waits'
               PROVE  queue' \in {queue, Tail(queue)} /\ queue' # <<>>
    BY DEF AwaitedIsLast
  <2>1. queue' # <<>>
    BY DEF AwaitedIsLast
  <2>2. user' = user
    BY DEF Next, Spawn, ConfigFails, Join, TaskEnds, EchoSenderTaken, Waits,
            Activate, ActivateFails, BuildDone, CallWork, CallBootstrapCache,
            CallOurConnectionInfo, DropHandle, Answered, Unanswered, TaskPanics, LoopEnds,
            RunMessage, Initialise, UseContext, Answering, Blocked
  <2> QED BY <2>1, <2>2, OnlyTaken
<1> QED BY <1>1, LoopInvariance, NothingPostedBehind, PTL DEF Spec, WaitRunsDown
=============================================================================
