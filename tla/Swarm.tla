-------------------------------- MODULE Swarm --------------------------------
(***************************************************************************)
(* A node on the p2p network: its start-up (main.rs) with Communerd's      *)
(* self-registration (communerd/mod.rs), the loop that owns the swarm      *)
(* (p2p/swarm.rs), and                                                     *)
(* requests to a peer over libp2p with the Noise JSON-RPC transport as the *)
(* fall-back (libp2p_transport.rs, json_rpc_transport.rs).  libp2p itself  *)
(* is the environment: it connects, disconnects, answers and fails.        *)
(***************************************************************************)
EXTENDS Naturals, Sequences, FiniteSets

CONSTANTS
  Nodes,        \* the other peers
  Calls,        \* requests to a peer
  MaxCommands   \* bound: commands in the channel

VARIABLES
  serve,        \* ServeConfig of the process
  serve_pc,     \* how far cmd_serve is: "up" when it serves, "ended" when it failed
  p2p,          \* enable_p2p: "off", "spawned", "on"; "failed" when building it failed
  listen_addr,  \* the loop's local_multiaddr is known
  multiaddr,    \* Communerd's copy of it is
  listeners, connected,
  commands,     \* the command channel
  register_pc,  \* register_and_discover
  dht_queries,  \* the loop's DHT queries: [kind, arg, found]
  dht,          \* records this node has put: [key, tbid, signer]
  retrieved,    \* peers whose records were retrieved and not handled yet
  peer_pool,    \* addresses: [rpc, id]
  call,         \* per request: [pc, reply]
  pending_rpc,  \* requests the loop holds a reply sender for
  remote,       \* per request: where its execution at the peer stands
  executed      \* history: how often the peer executed the request

serveVars == <<serve, serve_pc>>
dhtVars == <<dht_queries, dht, retrieved, peer_pool>>
nodeVars == <<serveVars, p2p, listen_addr, multiaddr, listeners, connected, register_pc, dhtVars>>
rpcVars == <<call, pending_rpc, remote, executed>>
swarmVars == <<nodeVars, commands, rpcVars>>

Me == "me"
CommunerdKey == "communerd_key"   \* Communerd::new generates a key of its own
Command(name, arg) == [name |-> name, arg |-> arg]
Query(kind, arg) == [kind |-> kind, arg |-> arg, found |-> {}]

\* What the command line gives: each list may be empty.
ServeConfig == [peers : BOOLEAN, p2p_listen : BOOLEAN, dht_bootstrap : BOOLEAN, known_servers : BOOLEAN]
\* cmd_serve makes a Communerd only for a server that is given peers.
communerd == serve.peers

SwarmInit ==
  /\ serve \in ServeConfig /\ serve_pc = "setup"
  /\ p2p = "off" /\ listen_addr = FALSE /\ multiaddr = FALSE
  /\ listeners = {} /\ connected = {} /\ commands = << >>
  /\ register_pc = "no" /\ dht_queries = {} /\ dht = {} /\ retrieved = {} /\ peer_pool = {}
  /\ call = [c \in Calls |-> [pc |-> "new", reply |-> "none"]]
  /\ pending_rpc = {} /\ remote = [c \in Calls |-> "none"] /\ executed = [c \in Calls |-> 0]

Send(cs) ==
  /\ Len(commands) + Len(cs) <= MaxCommands
  /\ commands' = commands \o cs

-----------------------------------------------------------------------------
(* Start-up *)

\* setup_p2p: a swarm needs an address to listen on, given or picked for the known
\* servers.  Building it may fail, which ends the process.
ListenAddr == serve.p2p_listen \/ serve.known_servers
build_and_spawn_swarm ==
  /\ serve_pc = "setup" /\ communerd /\ ListenAddr
  /\ \/ p2p' = "spawned" /\ serve_pc' = "enable"
     \/ p2p' = "failed" /\ serve_pc' = "ended"
  /\ UNCHANGED <<serve, listen_addr, multiaddr, listeners, connected, register_pc, dhtVars,
                 commands, rpcVars>>
WithoutSwarm ==
  /\ serve_pc = "setup" /\ ~(communerd /\ ListenAddr) /\ serve_pc' = "bootstrap"
  /\ UNCHANGED <<serve, p2p, listen_addr, multiaddr, listeners, connected, register_pc, dhtVars,
                 commands, rpcVars>>
\* The rest of enable_p2p: it copies the listen address as it is at that moment.
enable_p2p ==
  /\ serve_pc = "enable" /\ serve_pc' = "bootstrap" /\ p2p' = "on" /\ multiaddr' = listen_addr
  /\ UNCHANGED <<serve, listen_addr, listeners, connected, register_pc, dhtVars, commands,
                 rpcVars>>

\* Swarm events.
NewListenAddr(l) ==
  /\ p2p \in {"spawned", "on"} /\ listeners = {}
  /\ listeners' = {l} /\ listen_addr' = TRUE
  /\ UNCHANGED <<serveVars, p2p, multiaddr, connected, register_pc, dhtVars, commands, rpcVars>>
ListenerClosed(l) ==
  /\ l \in listeners /\ listeners' = listeners \ {l}
  /\ UNCHANGED <<serveVars, p2p, listen_addr, multiaddr, connected, register_pc, dhtVars, commands, rpcVars>>
ConnectionEstablished(n) ==
  /\ listeners # {} /\ connected' = connected \cup {n}
  /\ UNCHANGED <<serveVars, p2p, listen_addr, multiaddr, listeners, register_pc, dhtVars, commands, rpcVars>>
ConnectionClosed(n) ==
  /\ n \in connected /\ connected' = connected \ {n}
  /\ UNCHANGED <<serveVars, p2p, listen_addr, multiaddr, listeners, register_pc, dhtVars, commands, rpcVars>>

-----------------------------------------------------------------------------
(* Registration *)

\* Without a swarm it fails, which start-up ignores.
bootstrap_dht(n) ==
  /\ serve_pc = "bootstrap" /\ serve_pc' = "register"
  /\ IF communerd /\ serve.dht_bootstrap /\ p2p = "on"
     THEN Send(<<Command("Dial", n), Command("Bootstrap", n)>>) ELSE UNCHANGED commands
  /\ UNCHANGED <<serve, p2p, listen_addr, multiaddr, listeners, connected, register_pc, dhtVars,
                 rpcVars>>
publish_attest_willing ==
  /\ p2p = "on" /\ Send(<<Command("Provide", Me)>>)
  /\ UNCHANGED <<nodeVars, rpcVars>>

\* register_and_discover: the known servers other than this node are dialled; 2 s
\* later the copied listen address is needed.
register_and_discover(n) ==
  /\ serve_pc = "register" /\ communerd /\ serve.known_servers
  /\ serve_pc' = "registering" /\ register_pc' = "dialled"
  /\ Send(<<Command("Dial", n)>>)
  /\ UNCHANGED <<serve, p2p, listen_addr, multiaddr, listeners, connected, dhtVars, rpcVars>>
NothingToRegister ==
  /\ serve_pc = "register" /\ ~(communerd /\ serve.known_servers) /\ serve_pc' = "up"
  /\ UNCHANGED <<serve, p2p, listen_addr, multiaddr, listeners, connected, register_pc, dhtVars,
                 commands, rpcVars>>
\* An error, which start-up ignores: the node is never registered.
ListenAddressUnknown ==
  /\ register_pc = "dialled" /\ ~multiaddr /\ register_pc' = "no" /\ serve_pc' = "up"
  /\ UNCHANGED <<serve, p2p, listen_addr, multiaddr, listeners, connected, dhtVars, commands,
                 rpcVars>>

\* The signed PeerRegistrationRecord, as published under both keys.
OwnRecord(key) == [key |-> key, tbid |-> Me, signer |-> CommunerdKey]
PutCommands == <<Command("PutRecord", OwnRecord("peers")), Command("PutRecord", OwnRecord("tbid"))>>
BootstrapFirst ==
  /\ register_pc = "dialled" /\ multiaddr /\ register_pc' = "bootstrapped"
  /\ Send(<<Command("Bootstrap", Me)>>)
  /\ UNCHANGED <<serveVars, p2p, listen_addr, multiaddr, listeners, connected, dhtVars, rpcVars>>
PutOwnRecord ==
  /\ register_pc = "bootstrapped" /\ register_pc' = "registered" /\ serve_pc' = "up"
  /\ Send(PutCommands \o <<Command("GetRecord", Me)>>)
  /\ UNCHANGED <<serve, p2p, listen_addr, multiaddr, listeners, connected, dhtVars, rpcVars>>
refresh_self_registration ==
  /\ register_pc = "registered" /\ multiaddr
  /\ Send(PutCommands)
  /\ UNCHANGED <<nodeVars, rpcVars>>

\* PeerPool: an address is known by its json_rpc.  handle_peer_records adds the
\* peers of valid records, handle_dht_peer_discovered ones without an address.
AddPeer(p) == peer_pool' = IF \E q \in peer_pool : q.rpc = p.rpc THEN peer_pool ELSE peer_pool \cup {p}
handle_peer_records(n) ==
  /\ p2p = "on" /\ n \in retrieved /\ retrieved' = retrieved \ {n}
  /\ AddPeer([rpc |-> n, id |-> n])
  /\ UNCHANGED <<serveVars, p2p, listen_addr, multiaddr, listeners, connected, register_pc, dht_queries, dht, commands, rpcVars>>
handle_dht_peer_discovered(n) ==
  /\ p2p = "on" /\ AddPeer([rpc |-> "", id |-> n])
  /\ UNCHANGED <<serveVars, p2p, listen_addr, multiaddr, listeners, connected, register_pc, dht_queries, dht, retrieved, commands, rpcVars>>
remove_peer(n) ==
  /\ peer_pool' = {q \in peer_pool : q.rpc # n}
  /\ UNCHANGED <<serveVars, p2p, listen_addr, multiaddr, listeners, connected, register_pc, dht_queries, dht, retrieved, commands, rpcVars>>

-----------------------------------------------------------------------------
(* The loop's commands *)

Take(name) ==
  /\ p2p \in {"spawned", "on"} /\ commands # << >> /\ Head(commands).name = name
  /\ commands' = Tail(commands)

\* swarm.dial: the connection comes, or not.
Dial ==
  /\ Take("Dial")
  /\ connected' \in {connected, connected \cup ({Head(commands).arg} \cap Nodes)}
  /\ UNCHANGED <<serveVars, p2p, listen_addr, multiaddr, listeners, register_pc, dhtVars, rpcVars>>
\* put_record: a query, or an error at once, which nobody reads.
PutRecord ==
  /\ Take("PutRecord")
  /\ dht_queries' \in {dht_queries, dht_queries \cup {Query("put", Head(commands).arg)}}
  /\ UNCHANGED <<serveVars, p2p, listen_addr, multiaddr, listeners, connected, register_pc, dht,
                 retrieved, peer_pool, rpcVars>>
GetRecord ==
  /\ Take("GetRecord") /\ dht_queries' = dht_queries \cup {Query("get", Head(commands).arg)}
  /\ UNCHANGED <<serveVars, p2p, listen_addr, multiaddr, listeners, connected, register_pc, dht,
                 retrieved, peer_pool, rpcVars>>
\* How the queries end; nobody reads whether a put was one of success.
PutRecordEnds(q, stored) ==
  /\ q \in dht_queries /\ q.kind = "put" /\ dht_queries' = dht_queries \ {q}
  /\ dht' = IF stored THEN dht \cup {q.arg} ELSE dht
  /\ UNCHANGED <<serveVars, p2p, listen_addr, multiaddr, listeners, connected, register_pc,
                 retrieved, peer_pool, commands, rpcVars>>
FoundRecord(q, n) ==
  /\ q \in dht_queries /\ q.kind = "get"
  /\ dht_queries' = (dht_queries \ {q}) \cup {[q EXCEPT !.found = @ \cup {n}]}
  /\ UNCHANGED <<serveVars, p2p, listen_addr, multiaddr, listeners, connected, register_pc, dht,
                 retrieved, peer_pool, commands, rpcVars>>
\* What a query that fails has found is dropped.
PeersQueryEnds(q, ok) ==
  /\ q \in dht_queries /\ q.kind = "get" /\ dht_queries' = dht_queries \ {q}
  /\ retrieved' = IF ok THEN retrieved \cup q.found ELSE retrieved
  /\ UNCHANGED <<serveVars, p2p, listen_addr, multiaddr, listeners, connected, register_pc, dht,
                 peer_pool, commands, rpcVars>>
\* Everything is closed; the loop goes on.
EnterDormancy ==
  /\ Take("EnterDormancy") /\ connected' = {} /\ listeners' = {}
  /\ UNCHANGED <<serveVars, p2p, listen_addr, multiaddr, register_pc, dhtVars, rpcVars>>
SendEnterDormancy ==
  /\ p2p = "on" /\ Send(<<Command("EnterDormancy", Me)>>)
  /\ UNCHANGED <<nodeVars, rpcVars>>
\* What these cause comes as events of other peers.
Bootstrap == Take("Bootstrap") /\ UNCHANGED <<nodeVars, rpcVars>>
ProvideForCapability == Take("Provide") /\ UNCHANGED <<nodeVars, rpcVars>>

-----------------------------------------------------------------------------
(* Requests *)

\* Over libp2p: the reply comes over a oneshot.
rpc_call(c) == Send(<<Command("RequestResponse", c)>>) /\ call' = [call EXCEPT ![c].pc = "wait"]
\* Without a swarm or a peer id the JSON-RPC transport is used at once.
SendOrFallBack(c, has_peer_id) ==
  /\ serve_pc = "up" /\ communerd /\ call[c].pc = "new"
  /\ IF p2p = "on" /\ has_peer_id THEN rpc_call(c)
     ELSE call' = [call EXCEPT ![c].pc = "tcp"] /\ UNCHANGED commands
  /\ UNCHANGED <<nodeVars, pending_rpc, remote, executed>>
\* host_execute_calendar_slice alike.
host_execute_stamp(c, has_peer_id) == SendOrFallBack(c, has_peer_id)
get_calendar_slice(c, has_peer_id) == SendOrFallBack(c, has_peer_id)
\* Announcements, dumps, health checks, pings and channel challenges only ever
\* use the JSON-RPC transport.
mirror_rpc(c) ==
  /\ serve_pc = "up" /\ communerd /\ call[c].pc = "new" /\ call' = [call EXCEPT ![c].pc = "tcp"]
  /\ UNCHANGED <<nodeVars, commands, pending_rpc, remote, executed>>

RequestResponse ==
  /\ Take("RequestResponse")
  /\ LET c == Head(commands).arg IN
     /\ pending_rpc' = pending_rpc \cup {c}
     /\ remote' = [remote EXCEPT ![c] = "sent"]
  /\ UNCHANGED <<nodeVars, call, executed>>

\* At the peer: invalid requests are dropped, the handler runs in a task of its
\* own, and an error it returns goes back as an empty answer.  An answer can
\* also carry a JSON-RPC error.
Handle(c) ==
  /\ remote[c] = "sent" /\ executed' = [executed EXCEPT ![c] = @ + 1]
  /\ remote' = [remote EXCEPT ![c] = "handled"]
  /\ UNCHANGED <<nodeVars, commands, call, pending_rpc>>
HandleFails(c) ==
  /\ remote[c] = "sent" /\ remote' = [remote EXCEPT ![c] = "empty"]
  /\ UNCHANGED <<nodeVars, commands, call, pending_rpc, executed>>
Drop(c) ==
  /\ remote[c] \in {"sent", "handled", "empty"} /\ remote' = [remote EXCEPT ![c] = "lost"]
  /\ UNCHANGED <<nodeVars, commands, call, pending_rpc, executed>>

\* Delivering to a receiver that is gone does nothing.
Deliver(c, reply) ==
  call' = [call EXCEPT ![c].reply = IF call[c].pc = "wait" THEN reply ELSE @]

\* Mutant: the sender stays in the map when the answer does not parse.
ResponseKeeps(c) ==
  /\ remote[c] \in {"handled", "empty"} /\ remote' = [remote EXCEPT ![c] = "done"]
  /\ c \in pending_rpc
  /\ IF remote[c] = "empty" THEN UNCHANGED <<pending_rpc, call>>
     ELSE pending_rpc' = pending_rpc \ {c} /\ Deliver(c, "ok")
  /\ UNCHANGED <<nodeVars, commands, executed>>
Response(c) ==
  /\ remote[c] \in {"handled", "empty"} /\ remote' = [remote EXCEPT ![c] = "done"]
  /\ c \in pending_rpc /\ pending_rpc' = pending_rpc \ {c}
  /\ \E reply \in {"ok", "error"} : (remote[c] = "empty" => reply = "error") /\ Deliver(c, reply)
  /\ UNCHANGED <<nodeVars, commands, executed>>
OutboundFailure(c) ==
  /\ remote[c] = "lost" /\ remote' = [remote EXCEPT ![c] = "done"]
  /\ c \in pending_rpc /\ pending_rpc' = pending_rpc \ {c}
  /\ Deliver(c, "error")
  /\ UNCHANGED <<nodeVars, commands, executed>>

\* The caller's answer: a failure is followed by the other transport.
Replied(c) ==
  /\ call[c].pc = "wait" /\ call[c].reply # "none"
  /\ call' = [call EXCEPT ![c].pc = IF call[c].reply = "ok" THEN "ok" ELSE "tcp"]
  /\ UNCHANGED <<nodeVars, commands, pending_rpc, remote, executed>>
Timeout(c) ==
  /\ call[c].pc = "wait" /\ call[c].reply = "none"
  /\ call' = [call EXCEPT ![c].pc = "tcp"]
  /\ UNCHANGED <<nodeVars, commands, pending_rpc, remote, executed>>

\* json_rpc_call: one connection and one session for one request; it ends with
\* an answer, an error or its timeout, also after the peer executed the request.
json_rpc_call(c) ==
  /\ call[c].pc = "tcp"
  /\ \/ executed' = [executed EXCEPT ![c] = @ + 1] /\ call' = [call EXCEPT ![c].pc = "ok"]
     \/ executed' = [executed EXCEPT ![c] = @ + 1] /\ call' = [call EXCEPT ![c].pc = "failed"]
     \/ call' = [call EXCEPT ![c].pc = "failed"] /\ UNCHANGED executed
  /\ UNCHANGED <<nodeVars, commands, pending_rpc, remote>>

SwarmNext ==
  \/ build_and_spawn_swarm \/ WithoutSwarm \/ enable_p2p \/ NothingToRegister \/ publish_attest_willing
  \/ \E l \in {"listener"} : NewListenAddr(l) \/ ListenerClosed(l)
  \/ \E n \in Nodes : \/ ConnectionEstablished(n) \/ ConnectionClosed(n) \/ bootstrap_dht(n)
                      \/ register_and_discover(n)
                      \/ handle_peer_records(n) \/ handle_dht_peer_discovered(n) \/ remove_peer(n)
  \/ ListenAddressUnknown \/ BootstrapFirst \/ PutOwnRecord \/ refresh_self_registration
  \/ Dial \/ PutRecord \/ GetRecord \/ EnterDormancy \/ SendEnterDormancy \/ Bootstrap
  \/ ProvideForCapability
  \/ \E q \in dht_queries :
       \/ \E ok \in BOOLEAN : PutRecordEnds(q, ok) \/ PeersQueryEnds(q, ok)
       \/ \E n \in Nodes : FoundRecord(q, n)
\* In these behaviours the node has nothing to bootstrap or register with.
RpcNext ==
  \/ build_and_spawn_swarm \/ WithoutSwarm \/ enable_p2p \/ NothingToRegister \/ RequestResponse
  \/ \E n \in Nodes : bootstrap_dht(n)
  \/ \E c \in Calls :
       \/ \E has_peer_id \in BOOLEAN :
            host_execute_stamp(c, has_peer_id) \/ get_calendar_slice(c, has_peer_id)
       \/ mirror_rpc(c)
       \/ Handle(c) \/ HandleFails(c) \/ Drop(c) \/ Response(c) \/ OutboundFailure(c)
       \/ Replied(c) \/ Timeout(c) \/ json_rpc_call(c)

\* Both together, for any node.
SwarmSpec == SwarmInit /\ [][SwarmNext \/ RpcNext]_swarmVars

-----------------------------------------------------------------------------
(* Properties *)

\* While a caller waits, something still answers it: its command is queued, the
\* loop holds its sender and the request is under way, or the answer is there.
\* The loop holds no sender of a request that is over.  An answer means that
\* the peer executed the request, and it executes it at most twice: once for
\* each transport.
CallsAccountedFor ==
  \A c \in Calls :
    /\ (call[c].pc = "wait" /\ call[c].reply = "none") =>
         \/ \E i \in DOMAIN commands : commands[i] = Command("RequestResponse", c)
         \/ c \in pending_rpc /\ remote[c] # "done"
    /\ c \in pending_rpc => remote[c] \in {"sent", "handled", "empty", "lost"}
    /\ call[c].pc = "ok" => executed[c] > 0
    /\ executed[c] <= 2

\* "The signature field is an Ed25519 signature ... produced by the TBID owner's
\* signing key" (PeerRegistrationRecord): what a node registers validates.
RegistrationValidates == \A r \in dht : r.signer = r.tbid
=============================================================================
