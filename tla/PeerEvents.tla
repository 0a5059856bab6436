----------------------------- MODULE PeerEvents -----------------------------
(***************************************************************************)
(* What the event channel of a QuicP2p instance promises the upper layer   *)
(* (event.rs).  For each peer ConnectedTo or BootstrappedTo alternates     *)
(* with ConnectionFailure, and messages come in between.  A call of        *)
(* bootstrap() is answered by BootstrappedTo or by BootstrapFailure, never *)
(* by both.  When the event loop ends, every connected peer is reported as *)
(* failed, and then there is silence.                                      *)
(***************************************************************************)
CONSTANTS Peer, Group

VARIABLES
  view,      \* per peer, what the events so far say
  outcome,   \* per call of bootstrap(), what the events so far say
  alive      \* the event loop runs

vars == <<view, outcome, alive>>

Init ==
  /\ view = [p \in Peer |-> "disconnected"]
  /\ outcome = [g \in Group |-> "none"]
  /\ alive = TRUE

ConnectedTo(p) ==
  /\ alive
  /\ view[p] = "disconnected"
  /\ view' = [view EXCEPT ![p] = "connected"]
  /\ UNCHANGED <<outcome, alive>>

BootstrappedTo(p, g) ==
  /\ alive
  /\ view[p] = "disconnected"
  /\ outcome[g] # "failed"
  /\ view' = [view EXCEPT ![p] = "connected"]
  /\ outcome' = [outcome EXCEPT ![g] = "bootstrapped"]
  /\ UNCHANGED alive

ConnectionFailure(p) ==
  /\ alive
  /\ view[p] = "connected"
  /\ view' = [view EXCEPT ![p] = "disconnected"]
  /\ UNCHANGED <<outcome, alive>>

BootstrapFailure(g) ==
  /\ alive
  /\ outcome[g] = "none"
  /\ outcome' = [outcome EXCEPT ![g] = "failed"]
  /\ UNCHANGED <<view, alive>>

\* Groups that are still undecided fail with the loop.
LoopEnds ==
  /\ alive
  /\ alive' = FALSE
  /\ view' = [p \in Peer |-> "disconnected"]
  /\ \E S \in SUBSET {g \in Group : outcome[g] = "none"} :
       outcome' = [g \in Group |-> IF g \in S THEN "failed" ELSE outcome[g]]

Next ==
  \/ \E p \in Peer : ConnectedTo(p) \/ ConnectionFailure(p)
  \/ \E p \in Peer, g \in Group : BootstrappedTo(p, g)
  \/ \E g \in Group : BootstrapFailure(g)
  \/ LoopEnds

Spec == Init /\ [][Next]_vars
=============================================================================
