------------------------------- MODULE MCNode -------------------------------
(***************************************************************************)
(* A node among its peers for TLC.  The parts touch different variables,   *)
(* so a behaviour exercises one of them (`part`); the others keep their    *)
(* initial values.                                                         *)
(***************************************************************************)
EXTENDS Directory, Swarm, Collision, Probity, Store, Service

CONSTANTS T1, T2

VARIABLE part

\* The owner's record and a forged one, and an unsigned one.
MCDht == [t \in Tbids |-> IF t = T1
  THEN {[tbid |-> T1, signer |-> T1], [tbid |-> T1, signer |-> T2]}
  ELSE {[tbid |-> T2, signer |-> "none"]}]
MCValues == {-100, 100}
\* Ticks of the blocks that are appended: a run from the first number, runs with a
\* gap, and a block that fills the gap and ends with the last number of the word.
MCRuns == {<<0, 1, 2>>, <<1, 2, 4, 5, 6>>, <<3, 7>>}
MCMaxClientCalls == [standalone |-> 3, ptp |-> 2, p2p |-> 1]

MCvars == <<part, directoryVars, swarmVars, collisionVars, probityVars, storeVars, lruVars,
            serviceVars>>

MCInit ==
  /\ part \in {"lookups", "registry", "swarm", "requests", "heartbeats", "probity",
               "file", "cache", "service"}
  /\ DirectoryInit /\ IF part = "registry" THEN EmptyRegistry ELSE FullRegistry
  /\ part \notin {"lookups", "registry"} => swarm
  /\ SwarmInit
  /\ part = "requests" => serve.peers /\ ~serve.dht_bootstrap /\ ~serve.known_servers
  /\ part \notin {"swarm", "requests"} => \A f \in DOMAIN serve : serve[f]
  /\ CollisionInit /\ (part # "heartbeats" => started = {})
  /\ ProbityInit /\ StoreInit /\ LruInit
  /\ ServiceInit
  /\ part # "service" => foretias = connect(<<"node">>, FALSE) /\ p2p_on /\ ~is_dormant
  \* Only a standalone client ever saves.
  /\ foretias.persist_path => foretias.level = "standalone"
  \* A standalone client asks no node.  A node on a saved calendar, of at most one
  \* record, is asked by Ptp clients.
  /\ part = "service" /\ foretias.level = "standalone" => is_dormant /\ ~p2p_on
  /\ is_dormant => foretias.level # "p2p" /\ current_tick["node"] <= IF foretias.level = "ptp" THEN 1 ELSE 0
  \* Ptp clients ask a new node that is in no network, or one of a network on a saved
  \* calendar, whose record has a content like any other.
  /\ part = "service" /\ foretias.level = "ptp" => (p2p_on <=> is_dormant)
  /\ \A s \in issued : s.f.content = CHOOSE content \in Contents : TRUE

DirectoryStep ==
  /\ \/ part = "lookups" /\ LookupNext
     \/ part = "registry" /\ RegistryNext
  /\ UNCHANGED <<swarmVars, collisionVars, probityVars, storeVars, lruVars, serviceVars>>
SwarmStep ==
  /\ \/ part = "swarm" /\ SwarmNext
     \/ part = "requests" /\ RpcNext
  /\ UNCHANGED <<directoryVars, collisionVars, probityVars, storeVars, lruVars, serviceVars>>
GossipStep ==
  /\ \/ part = "heartbeats" /\ CollisionNext /\ UNCHANGED probityVars
     \/ part = "probity" /\ ProbityNext /\ UNCHANGED collisionVars
  /\ UNCHANGED <<directoryVars, swarmVars, storeVars, lruVars, serviceVars>>
\* Nothing is claimed of the cache once its count has drifted.
StoreStep ==
  /\ \/ part = "file" /\ StoreNext /\ UNCHANGED lruVars
     \/ part = "cache" /\ ~drifted /\ LruNext /\ UNCHANGED storeVars
  /\ UNCHANGED <<directoryVars, swarmVars, collisionVars, probityVars, serviceVars>>
ServiceStep ==
  /\ part = "service" /\ ServiceNext
  /\ UNCHANGED <<directoryVars, swarmVars, collisionVars, probityVars, storeVars, lruVars>>

MCNext ==
  /\ UNCHANGED part
  /\ \/ DirectoryStep \/ SwarmStep \/ GossipStep \/ StoreStep \/ ServiceStep

MCSpec == MCInit /\ [][MCNext]_MCvars
=============================================================================
