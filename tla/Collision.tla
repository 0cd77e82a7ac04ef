------------------------------ MODULE Collision ------------------------------
(***************************************************************************)
(* Identity collisions (core-engine/src/collision/detector.rs and the      *)
(* heartbeat loops of communerd/mod.rs).  Processes that hold the same     *)
(* peer id and key broadcast signed heartbeats with fresh nonces; one that *)
(* sees a valid heartbeat of its own identity with a nonce it does not     *)
(* remember concludes that it has a twin and tells the swarm to go dormant.*)
(* Gossip delivers late, twice, out of order or not at all.                *)
(***************************************************************************)
EXTENDS Naturals, Sequences

CONSTANTS
  Processes,     \* processes with one identity
  NonceWindow,   \* collision.nonce_window
  MaxDelay,      \* own heartbeats sent while an earlier one still travels
  MaxBeats       \* bound: heartbeats of a process

ASSUME CollisionAssumption ==
  NonceWindow \in Nat \ {0} /\ MaxDelay \in 0..(NonceWindow - 1) /\ MaxBeats \in Nat

VARIABLES
  started,       \* processes that run
  beats,         \* heartbeats sent by each
  my_nonces,     \* per process, oldest first
  gossip,        \* heartbeats published: [from, nonce, valid, topic]
  dormant        \* processes that sent EnterDormancy to their swarm

collisionVars == <<started, beats, my_nonces, gossip, dormant>>

CollisionInit ==
  /\ started \in SUBSET Processes
  /\ beats = [p \in Processes |-> 0] /\ my_nonces = [p \in Processes |-> << >>]
  /\ gossip = {} /\ dormant = {}

\* Another process with the same identity starts.
StartTwin(p) ==
  /\ p \notin started /\ started' = started \cup {p}
  /\ UNCHANGED <<beats, my_nonces, gossip, dormant>>

\* Mutant: one nonce fewer is remembered.
register_own_nonce_short(w, nonce) ==
  Append(IF Len(w) >= NonceWindow - 1 THEN Tail(w) ELSE w, nonce)
register_own_nonce(w, nonce) == Append(IF Len(w) >= NonceWindow THEN Tail(w) ELSE w, nonce)

\* The swarm publishes, which fails for one that is dormant and may fail for others.
PublishHeartbeat(p, h) == {gossip} \cup (IF p \in dormant THEN {} ELSE {gossip \cup {h}})

\* heartbeat_broadcast_loop: the nonce is remembered, then the heartbeat is
\* signed (a failure leaves it unsigned) and handed to the swarm.  The loop goes
\* on after a collision.
heartbeat_broadcast_loop(p, valid) ==
  /\ p \in started /\ beats[p] < MaxBeats
  /\ beats' = [beats EXCEPT ![p] = @ + 1]
  /\ my_nonces' = [my_nonces EXCEPT ![p] = register_own_nonce(@, <<p, beats[p] + 1>>)]
  /\ gossip' \in PublishHeartbeat(p, [from |-> p, nonce |-> <<p, beats[p] + 1>>, valid |-> valid,
                                      topic |-> "heartbeat"])
  /\ UNCHANGED <<started, dormant>>

\* Somebody else's message: one that names this identity without its key, or a
\* copy (one is enough) of a heartbeat on another topic.
Forge ==
  /\ \/ gossip' = gossip \cup {[from |-> "nobody", nonce |-> <<"nobody", 1>>, valid |-> FALSE,
                                topic |-> "heartbeat"]}
     \/ /\ \A h \in gossip : h.topic = "heartbeat"
        /\ \E h \in gossip : h.valid /\ gossip' = gossip \cup {[h EXCEPT !.topic = "probity"]}
  /\ UNCHANGED <<started, beats, my_nonces, dormant>>

\* The swarm's events: what is not on the heartbeat topic is taken for a probity
\* report, and rejected there.
HeartbeatMessage(h) == h.topic = "heartbeat"

\* A heartbeat of one's own comes back before MaxDelay more are sent.
Arrives(p, h) == h.from = p => beats[p] - h.nonce[2] <= MaxDelay

\* on_heartbeat: the claimed peer id is this one's for every heartbeat here.
on_heartbeat(p, h) ==
  /\ \A i \in DOMAIN my_nonces[p] : my_nonces[p][i] # h.nonce
  /\ h.valid

handle_heartbeat(p, h) ==
  /\ p \in started /\ h \in gossip /\ Arrives(p, h) /\ HeartbeatMessage(h) /\ on_heartbeat(p, h)
  /\ dormant' = dormant \cup {p}
  /\ UNCHANGED <<started, beats, my_nonces, gossip>>

CollisionNext ==
  \/ Forge
  \/ \E p \in Processes :
       \/ StartTwin(p)
       \/ \E valid \in BOOLEAN : heartbeat_broadcast_loop(p, valid)
       \/ \E h \in gossip : handle_heartbeat(p, h)

CollisionSpec == CollisionInit /\ [][CollisionNext]_collisionVars

-----------------------------------------------------------------------------
(* Properties *)

\* A node goes dormant only when another process has published a heartbeat
\* with its key: not because one of its own came back late, out of order or
\* twice, as long as it comes back within the window, and not by a forged one.
NoFalseCollision ==
  \A p \in dormant : \E h \in gossip : h.from \in Processes \ {p} /\ h.valid
=============================================================================
