---------------------------- MODULE LineLiveness ----------------------------
(***************************************************************************)
(* The three liveness loops of a Communerdette (communerdette.rs).  L1     *)
(* trusts a recent successful request or pings, L2 asks the peer to sign a *)
(* challenge, L3 asks it for a stamp; each reads what the one below wrote  *)
(* last, from flags that the loops and the requests share without a lock.  *)
(* A call is answered at one moment and its answer stored at a later one.  *)
(***************************************************************************)
EXTENDS Naturals

CONSTANTS
  MaxTurns       \* bound: how often the peer goes away and comes back

VARIABLES
  up,                 \* the peer answers calls
  published,          \* the DHT knows the peer
  clock_ok,           \* the system clock can be read
  turns,              \* bound
  l1_last_ok, l2_last_ok, binding_rejected, \* LivenessCycleFlags
  rpc_age,            \* last_application_rpc_ns against the L1 interval
  rpc_held,           \* a request has its answer and has not noted the time yet
  l1_pc, l2_pc, l3_pc, \* where each loop stands
  l1_ans, l2_ans,     \* the answer a loop holds
  cancelled           \* the line's cancellation token

flags == <<l1_last_ok, l2_last_ok, binding_rejected>>
loops == <<l1_pc, l2_pc, l3_pc, l1_ans, l2_ans>>
env   == <<up, published, clock_ok, turns>>
rpc   == <<rpc_age, rpc_held>>
livenessVars == <<env, flags, rpc, loops, cancelled>>

LivenessInit ==
  /\ up = TRUE /\ published = TRUE /\ clock_ok = TRUE /\ turns = 0
  /\ l1_last_ok = TRUE /\ l2_last_ok = TRUE /\ binding_rejected = FALSE
  /\ rpc_age = "never" /\ rpc_held = FALSE
  /\ l1_pc = "wait" /\ l2_pc = "wait" /\ l3_pc = "wait"
  /\ l1_ans = FALSE /\ l2_ans = FALSE
  /\ cancelled = FALSE

\* The peer goes away or comes back; its DHT record expires or is renewed.
PeerTurns ==
  /\ turns < MaxTurns /\ turns' = turns + 1
  /\ up' = ~up
  /\ UNCHANGED <<published, clock_ok, flags, rpc, loops, cancelled>>
DhtTurns ==
  /\ published' = ~published
  /\ turns < MaxTurns /\ turns' = turns + 1
  /\ UNCHANGED <<up, clock_ok, flags, rpc, loops, cancelled>>
\* The clock cannot be read for a while (it is set before 1970): now_ns is 0.
ClockTurns ==
  /\ turns < MaxTurns /\ turns' = turns + 1
  /\ clock_ok' = ~clock_ok
  /\ UNCHANGED <<up, published, flags, rpc, loops, cancelled>>

\* A request of the line or of the queue succeeds, then notes the time; a time of 0
\* is as good as none.
RequestAnswered ==
  /\ up /\ published /\ ~rpc_held /\ rpc_held' = TRUE
  /\ UNCHANGED <<env, flags, rpc_age, loops, cancelled>>
set_last_application_rpc_ns ==
  /\ rpc_held /\ rpc_held' = FALSE
  /\ rpc_age' = IF clock_ok THEN "recent" ELSE "never"
  /\ UNCHANGED <<env, flags, loops, cancelled>>

\* The L1 interval passes since then.
RpcAges ==
  /\ rpc_age = "recent" /\ rpc_age' = "old"
  /\ UNCHANGED <<env, rpc_held, flags, loops, cancelled>>

shutdown ==
  /\ ~cancelled /\ cancelled' = TRUE
  /\ UNCHANGED <<env, flags, rpc, loops>>

-----------------------------------------------------------------------------
(* L1 *)

L1Exit ==
  /\ cancelled /\ l1_pc = "wait" /\ l1_pc' = "stopped"
  /\ UNCHANGED <<env, flags, rpc, l2_pc, l3_pc, l1_ans, l2_ans, cancelled>>

\* Mutant: any success so far counts as recent.
L1TickEver ==
  /\ l1_pc = "wait"
  /\ IF rpc_age \in {"recent", "old"}
     THEN l1_last_ok' = TRUE /\ UNCHANGED l1_pc
     ELSE l1_pc' = "resolve" /\ UNCHANGED l1_last_ok
  /\ UNCHANGED <<env, l2_last_ok, binding_rejected, rpc, l2_pc, l3_pc, l1_ans,
                 l2_ans, cancelled>>
\* No time has passed since a success when the clock cannot be read.
SeemsRecent == rpc_age = "recent" \/ (rpc_age = "old" /\ ~clock_ok)
\* The interval fires (a loop may be picked even after the cancellation:
\* select! chooses between two ready branches at random).
L1Tick ==
  /\ l1_pc = "wait"
  /\ IF SeemsRecent
     THEN l1_last_ok' = TRUE /\ UNCHANGED l1_pc
     ELSE l1_pc' = "resolve" /\ UNCHANGED l1_last_ok
  /\ UNCHANGED <<env, l2_last_ok, binding_rejected, rpc, l2_pc, l3_pc, l1_ans,
                 l2_ans, cancelled>>

\* resolve_peer, then the ping within 5 s: l1_ans is what came of both.
L1Ping ==
  /\ l1_pc = "resolve" /\ l1_pc' = "set"
  /\ l1_ans' \in {published /\ up, FALSE}
  /\ UNCHANGED <<env, flags, rpc, l2_pc, l3_pc, l2_ans, cancelled>>
L1Set ==
  /\ l1_pc = "set" /\ l1_pc' = "wait"
  /\ l1_last_ok' = l1_ans
  /\ UNCHANGED <<env, l2_last_ok, binding_rejected, rpc, l2_pc, l3_pc, l1_ans,
                 l2_ans, cancelled>>

-----------------------------------------------------------------------------
(* L2 *)

L2Exit ==
  /\ cancelled /\ l2_pc = "wait" /\ l2_pc' = "stopped"
  /\ UNCHANGED <<env, flags, rpc, l1_pc, l3_pc, l1_ans, l2_ans, cancelled>>

L2Tick ==
  /\ l2_pc = "wait"
  /\ IF l1_last_ok
     THEN l2_pc' = "resolve" /\ UNCHANGED l2_last_ok
     ELSE l2_last_ok' = FALSE /\ UNCHANGED l2_pc
  /\ UNCHANGED <<env, l1_last_ok, binding_rejected, rpc, l1_pc, l3_pc, l1_ans,
                 l2_ans, cancelled>>

\* AuthenticatedPong: parsed, of the target, echoing and signing the challenge.
verify_pong(kind) == kind = "pong"

\* The challenge as the target, or another node, answers it; a node that takes it
\* for the stamp it is sent as answers with a foretis, which is no pong.
handle_authenticated_ping(mine) == IF mine THEN "pong" ELSE "foreign"
PongKinds == {handle_authenticated_ping(mine) : mine \in BOOLEAN} \cup {"stamp"}

\* resolve_peer and the challenge, sent as a stamp with echo "auth-ping".
L2AuthPing(kind) ==
  /\ l2_pc = "resolve" /\ l2_pc' = "set"
  /\ l2_ans' \in {published /\ up /\ verify_pong(kind), FALSE}
  /\ UNCHANGED <<env, flags, rpc, l1_pc, l3_pc, l1_ans, cancelled>>
L2Set ==
  /\ l2_pc = "set" /\ l2_pc' = "wait"
  /\ l2_last_ok' = l2_ans
  /\ UNCHANGED <<env, l1_last_ok, binding_rejected, rpc, l1_pc, l3_pc, l1_ans,
                 l2_ans, cancelled>>

-----------------------------------------------------------------------------
(* L3: its outcome is only logged *)

L3Exit ==
  /\ cancelled /\ l3_pc = "wait" /\ l3_pc' = "stopped"
  /\ UNCHANGED <<env, flags, rpc, l1_pc, l2_pc, l1_ans, l2_ans, cancelled>>
L3Tick ==
  /\ l3_pc = "wait"
  /\ l2_last_ok /\ ~binding_rejected
  /\ l3_pc' = "stamp"
  /\ UNCHANGED <<env, flags, rpc, l1_pc, l2_pc, l1_ans, l2_ans, cancelled>>
L3Stamp ==
  /\ l3_pc = "stamp" /\ l3_pc' = "wait"
  /\ UNCHANGED <<env, flags, rpc, l1_pc, l2_pc, l1_ans, l2_ans, cancelled>>

LivenessNext ==
  \/ PeerTurns \/ DhtTurns \/ ClockTurns \/ RequestAnswered \/ set_last_application_rpc_ns \/ RpcAges \/ shutdown
  \/ L1Exit \/ L1Tick \/ L1Ping \/ L1Set
  \/ L2Exit \/ L2Tick \/ (\E k \in PongKinds : L2AuthPing(k)) \/ L2Set
  \/ L3Exit \/ L3Tick \/ L3Stamp

\* The intervals keep firing and every call ends by its timeout; time passes.
LivenessFairness ==
  /\ WF_livenessVars(L1Exit) /\ WF_livenessVars(L1Tick) /\ WF_livenessVars(L1Ping)
  /\ WF_livenessVars(L1Set) /\ WF_livenessVars(L2Exit) /\ WF_livenessVars(L2Tick)
  /\ WF_livenessVars(\E k \in PongKinds : L2AuthPing(k)) /\ WF_livenessVars(L2Set)
  /\ SF_livenessVars(L3Exit) /\ WF_livenessVars(L3Stamp) /\ WF_livenessVars(RpcAges)
  /\ WF_livenessVars(set_last_application_rpc_ns)

-----------------------------------------------------------------------------
(* Properties *)

\* A peer that is gone for good is noticed by both loops and stays noticed,
\* whatever answers and old successes were still in flight when it went, once the
\* clock can be read for good: while it cannot, an old success counts as recent.
DeadPeerNoticed ==
  (<>[](~up /\ ~cancelled /\ clock_ok)) => <>[](~l1_last_ok /\ ~l2_last_ok)
=============================================================================
