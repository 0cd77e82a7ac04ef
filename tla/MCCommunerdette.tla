--------------------------- MODULE MCCommunerdette ---------------------------
(***************************************************************************)
(* One Communerdette for TLC.  Its routes, queue, liveness loops and       *)
(* requests touch different variables, so a behaviour exercises one of     *)
(* them (`part`) and leaves the others in their initial state.             *)
(***************************************************************************)
EXTENDS LineRoutes, LineQueue, LineLiveness, LineGates

VARIABLE part

Rec(n, t, k, l, v) == [number |-> n, tbid |-> t, key |-> k, link |-> l, version |-> v]
\* The target's first records, and ones that differ from them in one field.
MCRecords ==
  {Rec(1, Target, 1, Broken, 0), Rec(2, Target, 2, <<1, 1>>, 0), Rec(3, Target, 3, <<2, 2>>, 0),
   Rec(1, Target, 1, Broken, 1), Rec(0, Target, 2, <<1, 1>>, 0), Rec(2, Stranger, 2, <<1, 1>>, 0),
   Rec(2, Target, 2, Broken, 0), Rec(1, Target, NoKey, Broken, 0), Rec(1, Target, 4, Broken, 0)}
MCForetises ==
  {Malformed} \cup
  {[number |-> n, tbid |-> t, content |-> c, signer |-> k, signed |-> TRUE, algorithm |-> "Ed25519"] :
     n \in 0..2, t \in {Target, Stranger}, c \in Contents, k \in {1, 2}} \cup
  {[number |-> 1, tbid |-> Target, content |-> CHOOSE c \in Contents : TRUE, signer |-> 1,
    signed |-> s, algorithm |-> a] : s \in BOOLEAN, a \in {"unknown", "SLH-DSA"}}
MCProofs ==
  {Malformed} \cup
  [tbid : {Target, Stranger}, nonce : BOOLEAN, channel : BOOLEAN,
   fast : {Target, Stranger}, slow : {Target, Stranger}]
MCCandidates == {[peer_id |-> TRUE, json_rpc |-> FALSE], [peer_id |-> FALSE, json_rpc |-> TRUE]}

MCvars == <<part, routeVars, queueVars, livenessVars, gateVars>>

MCInit ==
  /\ part \in {"routes", "queue", "liveness", "gates"}
  /\ RouteInit /\ QueueInit /\ LivenessInit /\ GateInit

MCNext ==
  /\ UNCHANGED part
  /\ \/ part = "routes" /\ RouteNext /\ UNCHANGED <<queueVars, livenessVars, gateVars>>
     \/ part = "queue" /\ QueueNext /\ UNCHANGED <<routeVars, livenessVars, gateVars>>
     \/ part = "liveness" /\ LivenessNext /\ UNCHANGED <<routeVars, queueVars, gateVars>>
     \/ part = "gates" /\ GateNext /\ UNCHANGED <<routeVars, queueVars, livenessVars>>

MCSpec ==
  /\ MCInit /\ [][MCNext]_MCvars
  /\ (part = "queue") => QueueFairness
  /\ (part = "liveness") => LivenessFairness
=============================================================================
