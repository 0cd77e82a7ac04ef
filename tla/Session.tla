------------------------------- MODULE Session -------------------------------
(***************************************************************************)
(* A request over TCP: the Noise XX handshake of the C core                *)
(* (core/src/noise_xx.c) as noise.rs drives it, the client's one request   *)
(* per connection (foretias-client/src/noise_ptp.rs) and the server's      *)
(* thread per connection (server/mod.rs).                                  *)
(*                                                                         *)
(* Keys are symbols: a secret shared by x and y is the set {x, y}, the     *)
(* chaining key and the handshake hash are the sequences of what was mixed *)
(* into them, and a ciphertext records its key, nonce, associated data and *)
(* contents.  On the way a frame may be altered and a connection cut.      *)
(***************************************************************************)
EXTENDS Naturals, Sequences, FiniteSets

CONSTANTS
  Conns,        \* connections, each with a client of its own
  Requests      \* what a client may ask: "stamp", "failing", "unknown", "unversioned"

VARIABLES
  client, server,  \* per connection: the two ends of its session
  toServer, toClient, \* frames on the wire
  asked,           \* per connection: the request
  outcome,         \* per connection: what noise_json_rpc returned, or "waiting"
  run_requests         \* history: the requests that were executed, as a sequence of connections

sessionVars == <<client, server, toServer, toClient, asked, outcome, run_requests>>

Junk == <<"junk">>
NoCipher == [k |-> <<"none">>, n |-> 0, ad |-> << >>, pt |-> <<"none">>]
JunkCipher == [NoCipher EXCEPT !.k = Junk]
Frame(e, c) == [e |-> e, c |-> c]

-----------------------------------------------------------------------------
(* Symmetric state *)

mix_hash(h, x) == Append(h, x)
DH(x, y) == {x, y}
\* mix_key returns the next chaining key; Key is the cipher key it derives.
mix_key(ck, dh) == Append(ck, dh)
Key(ck) == <<"key", ck>>
SplitFirst(ck) == <<"first", ck>>
SplitSecond(ck) == <<"second", ck>>

ae_enc(k, n, ad, pt) == [k |-> k, n |-> n, ad |-> ad, pt |-> pt]
ae_dec(k, n, ad, c) == c.k = k /\ c.n = n /\ c.ad = ad

\* The client makes a key pair for every request, the server one at start.
StaticOf(c, side) == IF side = "client" THEN <<"static", c>> ELSE <<"static", "server">>
NewSession(c, side) ==
  [step |-> 0, static |-> StaticOf(c, side), eph |-> <<"ephemeral", c, side>>,
   h |-> << <<"protocol">> >>, ck |-> << >>, re |-> <<"none">>, rs |-> <<"none">>,
   send_key |-> <<"none">>, recv_key |-> <<"none">>, send_nonce |-> 0, recv_nonce |-> 0,
   open |-> TRUE]
Complete(s) == s.step = 3
ConnClosed(s) == [s EXCEPT !.open = FALSE]

-----------------------------------------------------------------------------
(* The handshake: foretias_noise_step *)

\* Initiator, step 0: -> e
InitiatorHello(s) == [s EXCEPT !.h = mix_hash(@, s.eph), !.step = 1]

\* Initiator, step 1: <- e, ee, s, es.  The responder's static key is taken
\* from the message whatever key the caller expected.
InitiatorAccepts(s, f) ==
  ae_dec(Key(mix_key(s.ck, DH(s.eph, f.e))), s.recv_nonce, mix_hash(s.h, f.e), f.c)
InitiatorRead(s, f) ==
  LET ck == mix_key(mix_key(s.ck, DH(s.eph, f.e)), DH(s.eph, f.c.pt)) IN
  [s EXCEPT !.re = f.e, !.rs = f.c.pt, !.ck = ck, !.send_key = Key(ck),
            !.h = mix_hash(mix_hash(@, f.e), f.c), !.recv_nonce = @ + 1, !.step = 2]

\* Initiator, step 2: -> s, se
InitiatorStatic(s) == ae_enc(s.send_key, s.send_nonce, s.h, s.static)
InitiatorFinish(s) ==
  LET ck == mix_key(s.ck, DH(s.static, s.re)) IN
  [s EXCEPT !.h = mix_hash(@, InitiatorStatic(s)), !.ck = ck, !.send_nonce = @ + 1,
            !.send_key = SplitFirst(ck), !.recv_key = SplitSecond(ck), !.step = 3]

\* Responder, step 0: any 32 bytes are an ephemeral key; more bytes are ignored.
ResponderRead(s, f) == [s EXCEPT !.re = f.e, !.h = mix_hash(@, f.e), !.step = 1]

\* Responder, step 1: -> e, ee, s, es
ResponderHello(s) ==
  Frame(s.eph, ae_enc(Key(mix_key(s.ck, DH(s.eph, s.re))), s.send_nonce, mix_hash(s.h, s.eph), s.static))
ResponderSent(s) ==
  LET ck == mix_key(mix_key(s.ck, DH(s.eph, s.re)), DH(s.static, s.re)) IN
  [s EXCEPT !.h = mix_hash(mix_hash(@, s.eph), ResponderHello(s).c), !.ck = ck,
            !.send_key = Key(ck), !.send_nonce = @ + 1, !.step = 2]

\* Responder, step 2: <- s, se.  The keys of the split are the initiator's, swapped.
ResponderAccepts(s, f) == ae_dec(s.send_key, s.recv_nonce, s.h, f.c)
\* Mutant: the keys are not swapped.
ResponderFinish_unswapped(s, f) ==
  LET ck == mix_key(s.ck, DH(s.eph, f.c.pt)) IN
  [s EXCEPT !.rs = f.c.pt, !.h = mix_hash(@, f.c), !.ck = ck, !.recv_nonce = @ + 1,
            !.send_key = SplitFirst(ck), !.recv_key = SplitSecond(ck), !.step = 3]
ResponderFinish(s, f) ==
  LET ck == mix_key(s.ck, DH(s.eph, f.c.pt)) IN
  [s EXCEPT !.rs = f.c.pt, !.h = mix_hash(@, f.c), !.ck = ck, !.recv_nonce = @ + 1,
            !.send_key = SplitSecond(ck), !.recv_key = SplitFirst(ck), !.step = 3]

\* noise_send and noise_recv: the nonces go on from the handshake's.
Sealed(s, pt) == Frame(<<"none">>, ae_enc(s.send_key, s.send_nonce, << >>, pt))
Sent(s) == [s EXCEPT !.send_nonce = @ + 1]
Opens(s, f) == ae_dec(s.recv_key, s.recv_nonce, << >>, f.c)
Received(s) == [s EXCEPT !.recv_nonce = @ + 1]

-----------------------------------------------------------------------------
(* The client: noise_json_rpc *)

SessionInit ==
  /\ client = [c \in Conns |-> ConnClosed(NewSession(c, "client"))]
  /\ server = [c \in Conns |-> ConnClosed(NewSession(c, "server"))]
  /\ toServer = [c \in Conns |-> << >>] /\ toClient = [c \in Conns |-> << >>]
  /\ asked \in [Conns -> Requests] /\ outcome = [c \in Conns |-> "none"]
  /\ run_requests = << >>

Returns(c, result) ==
  outcome' = [outcome EXCEPT ![c] = result] /\ client' = [client EXCEPT ![c] = ConnClosed(@)]

\* Connect and write the first message; the server starts a thread for it.
Connect(c) ==
  /\ outcome[c] = "none" /\ outcome' = [outcome EXCEPT ![c] = "waiting"]
  /\ client' = [client EXCEPT ![c] = InitiatorHello(NewSession(c, "client"))]
  /\ server' = [server EXCEPT ![c] = NewSession(c, "server")]
  /\ toServer' = [toServer EXCEPT ![c] = Append(@, Frame(client[c].eph, NoCipher))]
  /\ UNCHANGED <<toClient, asked, run_requests>>

\* The server's message in, the third message and the request out.
ClientHandshake(c) ==
  /\ client[c].open /\ client[c].step = 1 /\ toClient[c] # << >>
  /\ toClient' = [toClient EXCEPT ![c] = Tail(@)]
  /\ LET s == client[c]
         f == Head(toClient[c])
         done == InitiatorFinish(InitiatorRead(s, f))
     IN  \/ /\ ~InitiatorAccepts(s, f) /\ Returns(c, "noise error")
            /\ UNCHANGED toServer
         \/ /\ InitiatorAccepts(s, f) /\ client' = [client EXCEPT ![c] = Sent(done)]
            /\ toServer' = [toServer EXCEPT ![c] =
                 @ \o <<Frame(<<"none">>, InitiatorStatic(InitiatorRead(s, f))),
                        Sealed(done, <<"request", c>>)>>]
            /\ UNCHANGED outcome
  /\ UNCHANGED <<server, asked, run_requests>>

\* validate_jsonrpc_response does not compare the answer's id with the request's.
ClientReceive(c) ==
  /\ client[c].open /\ client[c].step = 3 /\ toClient[c] # << >>
  /\ toClient' = [toClient EXCEPT ![c] = Tail(@)]
  /\ LET f == Head(toClient[c]) IN
     Returns(c, IF ~Opens(client[c], f) THEN "decode error"
                ELSE IF f.c.pt[1] = "result" THEN "result" ELSE "rpc error")
  /\ UNCHANGED <<server, toServer, asked, run_requests>>

\* The request's timeout covers everything, whatever the server has done by then.
ClientTimeout(c) ==
  /\ client[c].open /\ Returns(c, "timeout")
  /\ UNCHANGED <<server, toServer, toClient, asked, run_requests>>
\* The other end is gone and nothing is left to read.
ClientConnectionLost(c) ==
  /\ client[c].open /\ ~server[c].open /\ toClient[c] = << >> /\ Returns(c, "connection lost")
  /\ UNCHANGED <<server, toServer, toClient, asked, run_requests>>

-----------------------------------------------------------------------------
(* The server: handle_connection *)

ServerHello(c) ==
  /\ server[c].open /\ server[c].step = 0 /\ toServer[c] # << >>
  /\ LET s == ResponderRead(server[c], Head(toServer[c])) IN
     /\ server' = [server EXCEPT ![c] = ResponderSent(s)]
     /\ toClient' = [toClient EXCEPT ![c] = Append(@, ResponderHello(s))]
  /\ toServer' = [toServer EXCEPT ![c] = Tail(@)]
  /\ UNCHANGED <<client, asked, outcome, run_requests>>
ServerHandshake(c) ==
  /\ server[c].open /\ server[c].step = 2 /\ toServer[c] # << >>
  /\ toServer' = [toServer EXCEPT ![c] = Tail(@)]
  /\ server' = [server EXCEPT ![c] = IF ResponderAccepts(@, Head(toServer[c]))
                                     THEN ResponderFinish(@, Head(toServer[c])) ELSE ConnClosed(@)]
  /\ UNCHANGED <<client, toClient, asked, outcome, run_requests>>

\* process_request: a stamp claims its tick before it makes a key and a record, and
\* is answered with an error if one of these fails ("failing").  Text that does not
\* parse or lacks its version is an error like an unknown method is; each is answered.
Executes(request) == request \in {"stamp", "failing"}
process_request(request) == IF request = "stamp" THEN "result" ELSE "error"
Serve(c) ==
  /\ server[c].open /\ Complete(server[c]) /\ toServer[c] # << >>
  /\ toServer' = [toServer EXCEPT ![c] = Tail(@)]
  /\ LET s == server[c]
         f == Head(toServer[c])
         of == f.c.pt[2]
     IN  \/ /\ ~Opens(s, f) /\ server' = [server EXCEPT ![c] = ConnClosed(@)]
            /\ UNCHANGED <<toClient, run_requests>>
         \/ /\ Opens(s, f) /\ server' = [server EXCEPT ![c] = Sent(Received(@))]
            /\ toClient' = [toClient EXCEPT ![c] =
                 Append(@, Sealed(Received(s), <<process_request(asked[of]), of>>))]
            /\ run_requests' = IF Executes(asked[of]) THEN Append(run_requests, of) ELSE run_requests
  /\ UNCHANGED <<client, asked, outcome>>
ServerConnectionLost(c) ==
  /\ server[c].open /\ ~client[c].open /\ toServer[c] = << >>
  /\ server' = [server EXCEPT ![c] = ConnClosed(@)]
  /\ UNCHANGED <<client, toServer, toClient, asked, outcome, run_requests>>

-----------------------------------------------------------------------------
(* The network *)

\* A frame is altered, or takes the place of one of another connection.
Alterations(f, way) ==
  {[f EXCEPT !.e = Junk], [f EXCEPT !.c = JunkCipher]} \cup {Head(way[d]) : d \in {d \in Conns : way[d] # << >>}}
Alter(c) ==
  /\ \/ /\ toServer[c] # << >> /\ UNCHANGED toClient
        /\ \E f \in Alterations(Head(toServer[c]), toServer) : toServer' = [toServer EXCEPT ![c][1] = f]
     \/ /\ toClient[c] # << >> /\ UNCHANGED toServer
        /\ \E f \in Alterations(Head(toClient[c]), toClient) : toClient' = [toClient EXCEPT ![c][1] = f]
  /\ UNCHANGED <<client, server, asked, outcome, run_requests>>
\* What is on the way is lost, and both ends find out.
Cut(c) ==
  /\ client[c].open \/ server[c].open
  /\ toServer' = [toServer EXCEPT ![c] = << >>] /\ toClient' = [toClient EXCEPT ![c] = << >>]
  /\ server' = [server EXCEPT ![c] = ConnClosed(@)]
  /\ IF client[c].open THEN Returns(c, "connection lost") ELSE UNCHANGED <<client, outcome>>
  /\ UNCHANGED <<asked, run_requests>>

SessionNext ==
  \E c \in Conns :
    \/ Connect(c) \/ ClientHandshake(c) \/ ClientReceive(c) \/ ClientTimeout(c)
    \/ ClientConnectionLost(c) \/ ServerHello(c) \/ ServerHandshake(c) \/ Serve(c)
    \/ ServerConnectionLost(c) \/ Alter(c) \/ Cut(c)

SessionSpec == SessionInit /\ [][SessionNext]_sessionVars

-----------------------------------------------------------------------------
(* Properties *)

Times(c) == Cardinality({i \in DOMAIN run_requests : run_requests[i] = c})

\* The client's end of c has taken the server's end of d for its peer.
TalksTo(c, d) == Complete(client[c]) /\ client[c].re = server[d].eph
Agree(x, y) ==
  /\ x.h = y.h /\ x.rs = y.static /\ y.rs = x.static
  /\ x.send_key = y.recv_key /\ x.recv_key = y.send_key /\ x.send_key # x.recv_key
  /\ y.recv_nonce <= x.send_nonce /\ x.recv_nonce <= y.send_nonce

\* Frames copied from one connection to another may join the ends of two
\* connections crosswise.  Still a server's end that believes its handshake
\* complete has exactly one client's end as its peer, the two know each other's
\* static keys and agree on the hash of the whole exchange, and what one sends
\* the other can open; a request executes at most once and only if it was asked
\* for; and whoever is answered, with a result or an error, learns how its own
\* request ended, which ran once if there is a handler for it (one that fails may
\* have claimed its tick), whatever was cut, timed out, altered or copied.
SessionAgrees ==
  /\ \A d \in Conns : Complete(server[d]) =>
       \E c \in Conns : TalksTo(c, d) /\ Agree(client[c], server[d]) /\ \A e \in Conns : TalksTo(e, d) => e = c
  /\ \A c \in Conns :
       /\ Times(c) <= (IF Executes(asked[c]) THEN 1 ELSE 0)
       /\ outcome[c] \in {"result", "rpc error"} =>
            /\ Times(c) = (IF Executes(asked[c]) THEN 1 ELSE 0)
            /\ outcome[c] = "result" <=> process_request(asked[c]) = "result"
=============================================================================
