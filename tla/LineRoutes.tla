----------------------------- MODULE LineRoutes -----------------------------
(***************************************************************************)
(* Binding, routes and backoff of one Communerdette (communerdette.rs,     *)
(* CommunerdetteState): what is known of the TBID, the candidates the DHT  *)
(* gave, the health of the two routes, and until when the line backs off.  *)
(* Times are in units of the first delay's half (1 ns in the code).        *)
(***************************************************************************)
EXTENDS Naturals, FiniteSets

CONSTANTS
  Candidates,     \* DHT records a lookup may return: [peer_id, json_rpc : BOOLEAN]
  BackoffCap,     \* 32 s
  Unhealthy,      \* 5 consecutive failures
  MaxNow,         \* bound: the clock
  MaxFailures     \* bound: failures recorded in a row

ASSUME RouteAssumption ==
  /\ BackoffCap \in Nat \ {0} /\ Unhealthy \in Nat \ {0} /\ MaxNow \in Nat /\ MaxFailures \in Nat

VARIABLES
  now,
  binding,           \* TbidBindingStatus
  candidates,        \* route_candidates
  active_route,
  successes, failures,  \* per route; a route absent from route_stats has neither
  backoff_until,     \* backoff_until_ns; 0 is None
  proof_requested, proof_verified,
  last_failure       \* history: when the last failure was recorded

routeVars == <<now, binding, candidates, active_route, successes, failures,
               backoff_until, proof_requested, proof_verified, last_failure>>

Routes == {"Libp2pDirect", "NoiseJsonRpc"}
None == 0

RouteInit ==
  /\ now = 1 /\ binding = "Unknown" /\ candidates = {} /\ active_route = "Unavailable"
  /\ successes = [r \in Routes |-> FALSE] /\ failures = [r \in Routes |-> 0]
  /\ backoff_until = None /\ proof_requested = FALSE /\ proof_verified = FALSE
  /\ last_failure = 0

Clock ==
  /\ now < MaxNow /\ now' = now + 1
  /\ UNCHANGED <<binding, candidates, active_route, successes, failures, backoff_until,
                 proof_requested, proof_verified, last_failure>>

\* Route statistics: r has an entry once something was recorded for it.
Recorded(r) == successes[r] \/ failures[r] > 0

record_route_success(r) ==
  /\ successes' = [successes EXCEPT ![r] = TRUE]
  /\ failures' = [failures EXCEPT ![r] = 0]
  /\ backoff_until' = None
  /\ UNCHANGED <<now, binding, candidates, active_route, proof_requested, proof_verified,
                 last_failure>>

\* now - backoff_until on u64: while the line still backs off it wraps.
Wrapped == 2 * BackoffCap
current_backoff ==
  IF backoff_until = None THEN 1
  ELSE IF now >= backoff_until THEN now - backoff_until ELSE Wrapped
next_backoff == IF current_backoff * 2 < BackoffCap THEN current_backoff * 2 ELSE BackoffCap

record_route_failure(r) ==
  /\ failures[r] < MaxFailures
  /\ failures' = [failures EXCEPT ![r] = @ + 1]
  /\ backoff_until' = now + next_backoff
  /\ last_failure' = now
  /\ UNCHANGED <<now, binding, candidates, active_route, successes, proof_requested,
                 proof_verified>>

is_in_backoff == backoff_until # None /\ now < backoff_until

-----------------------------------------------------------------------------
(* Binding *)

\* mark_binding_claimed_by_dht overwrites whatever was known.
mark_binding_claimed_by_dht == binding' = "ClaimedByDht"

\* add_route_candidate sets the route without asking which address it has.
add_route_candidate(c) ==
  /\ candidates' = candidates \cup {c}
  /\ active_route' = "Libp2pDirect"

\* refresh_dht_binding: a record of the cache or of the DHT; without one
\* nothing changes.
refresh_dht_binding(c) ==
  /\ mark_binding_claimed_by_dht /\ add_route_candidate(c)
  /\ UNCHANGED <<now, successes, failures, backoff_until, proof_requested, proof_verified,
                 last_failure>>

mark_binding_verified ==
  /\ binding' = "Verified" /\ proof_verified' = TRUE
  /\ UNCHANGED <<now, candidates, active_route, successes, failures, backoff_until,
                 proof_requested, last_failure>>
mark_binding_rejected ==
  /\ binding' = "Rejected"
  /\ UNCHANGED <<now, candidates, active_route, successes, failures, backoff_until,
                 proof_requested, proof_verified, last_failure>>
\* request_tbid_binding_proof notes the request and returns Unsupported.
request_tbid_binding_proof ==
  /\ proof_requested' = TRUE
  /\ UNCHANGED <<now, binding, candidates, active_route, successes, failures, backoff_until,
                 proof_verified, last_failure>>

-----------------------------------------------------------------------------
(* choose_route_with_host: four passes over the candidates *)

HasPeerId == \E c \in candidates : c.peer_id
HasJsonRpc == \E c \in candidates : c.json_rpc

\* Mutant: an unhealthy libp2p route is not tried without another one.
choose_route_with_host_strict(swarm) ==
  CASE swarm /\ HasPeerId /\ failures["Libp2pDirect"] < Unhealthy -> "Libp2pDirect"
    [] Recorded("NoiseJsonRpc") /\ failures["NoiseJsonRpc"] < Unhealthy /\ HasJsonRpc
         -> "NoiseJsonRpc"
    [] OTHER -> "Unavailable"
choose_route_with_host(swarm) ==
  CASE swarm /\ HasPeerId /\ failures["Libp2pDirect"] < Unhealthy -> "Libp2pDirect"
    [] ~(swarm /\ HasPeerId /\ failures["Libp2pDirect"] < Unhealthy)
       /\ Recorded("NoiseJsonRpc") /\ failures["NoiseJsonRpc"] < Unhealthy /\ HasJsonRpc
         -> "NoiseJsonRpc"
    [] OTHER -> IF swarm /\ HasPeerId THEN "Libp2pDirect"
                ELSE IF HasJsonRpc THEN "NoiseJsonRpc" ELSE "Unavailable"

set_active_route(swarm) ==
  /\ active_route' = choose_route_with_host(swarm)
  /\ UNCHANGED <<now, binding, candidates, successes, failures, backoff_until,
                 proof_requested, proof_verified, last_failure>>

RouteNext ==
  \/ Clock \/ mark_binding_verified \/ mark_binding_rejected \/ request_tbid_binding_proof
  \/ \E r \in Routes : record_route_success(r) \/ record_route_failure(r)
  \/ \E c \in Candidates : refresh_dht_binding(c)
  \/ \E swarm \in BOOLEAN : set_active_route(swarm)

RouteSpec == RouteInit /\ [][RouteNext]_routeVars

-----------------------------------------------------------------------------
(* Properties *)

\* A line is never locked out: however failures, waits and successes follow
\* one another, also when a failure is recorded while the line backs off, it
\* backs off for at most the cap after its last failure; and a route is found
\* whenever a candidate can be reached, however unhealthy the routes are.
NeverStranded ==
  /\ is_in_backoff => backoff_until <= last_failure + BackoffCap
  /\ \A swarm \in BOOLEAN :
       choose_route_with_host(swarm) = "Unavailable" <=> ~(swarm /\ HasPeerId) /\ ~HasJsonRpc
=============================================================================
