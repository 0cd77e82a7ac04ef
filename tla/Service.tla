------------------------------- MODULE Service -------------------------------
(***************************************************************************)
(* Stamping and verifying through the client library                       *)
(* (foretias-client/src/foretias.rs) and a node's JSON-RPC handlers        *)
(* (foretias-server/src/server/handlers.rs, core-engine tick.rs).  The     *)
(* client works on a calendar of its own (Standalone) or on its first      *)
(* peer's (Ptp and P2p); a call to the peer may be lost, time out while    *)
(* the peer still works on it, or die with the thread that serves it.  The *)
(* command line (foretias-server/src/main.rs) is such a client.            *)
(*                                                                         *)
(* Each of the two runs an engine (core-engine/src/chronomatter/mod.rs)    *)
(* whose stamps and ticks are made by threads that overlap: a record may   *)
(* hold another key than the stamp of its number was signed with, or be    *)
(* refused by the calendar.  Keys are numbered as they are generated, a    *)
(* signature is its key and what it covers.                                *)
(***************************************************************************)
EXTENDS Naturals, Sequences, FiniteSets

CONSTANTS
  Contents,      \* what is stamped
  MaxClientCalls,  \* bound: calls of the client, by its level
  MaxRecords     \* bound: ticks of an engine

ASSUME ServiceAssumption == MaxRecords \in Nat

VARIABLES
  node_tbid,     \* the node: its TBID, not the calendar's when that was loaded
  is_dormant,    \* ... whether it is dormant
  p2p_on,        \* ... whether it has a Communerd
  foretias,      \* the client: [level, peers, persist_path]
  at_client,     \* ... how much of its own calendar was saved, and whether it is dormant
  client_calls,  \* ... its calls, oldest first
  calendars,     \* by owner: the records, [number, key]
  current_tick, keypairs, \* by owner: ticks claimed and keys generated by its engine
  making,        \* the stamps and ticks under way in the engines
  issued,        \* history: every stamp, [f, sig]
  alone          \* history: those that were made while nothing else was

engineVars == <<calendars, current_tick, keypairs, making>>
serviceVars == <<node_tbid, is_dormant, p2p_on, foretias, at_client, client_calls, engineVars,
                 issued, alone>>

\* The owners of the engines.
Owners == {"node", "client"}

\* An empty signature.
NoSig == [key |-> <<"none", 0>>, over |-> "nothing"]
Absent == [key |-> <<"absent", 0>>, over |-> "nothing"]
\* The content stands for its hash.  Chronons are numbered from 1.
ForetisRecord(owner, n, content) == [tbid |-> owner, number |-> n, content |-> content]
Stamp(owner, n, content, key) ==
  LET f == ForetisRecord(owner, n, content) IN
  [f |-> f, sig |-> [key |-> <<owner, key>>, over |-> f]]
CalendarRecord(owner, n, key) == [number |-> n, key |-> <<owner, key>>]
NotFound == [number |-> 0, key |-> <<"none", 0>>]
latest(cal) == IF cal = << >> THEN 0 ELSE cal[Len(cal)].number

-----------------------------------------------------------------------------
(* Chronomatter: stamp and daemon_tick.  `call` is the call a stamp is for. *)

Timer == 0

ClaimTick(owner, call) ==
  /\ current_tick[owner] < MaxRecords
  /\ current_tick' = [current_tick EXCEPT ![owner] = @ + 1]
  /\ making' =
       {[m EXCEPT !.alone = @ /\ m.owner # owner] : m \in making}
         \cup {[owner |-> owner, call |-> call, pc |-> "generate", number |-> current_tick[owner] + 1,
                pub |-> 0, sig |-> 0, alone |-> \A m \in making : m.owner # owner]}
  /\ UNCHANGED <<calendars, keypairs>>

Steps(m, n) == making' = (making \ {m}) \cup {n}
MakingVars == <<node_tbid, is_dormant, p2p_on, foretias, calendars, current_tick>>

generate_and_store_keypair(m) ==
  /\ m.pc = "generate" /\ Steps(m, [m EXCEPT !.pc = "pub"])
  /\ keypairs' = [keypairs EXCEPT ![m.owner] = @ + 1]
  /\ UNCHANGED <<MakingVars, at_client, client_calls, issued, alone>>
\* new_pub is the newest key by now.
keypair_pub(m) ==
  /\ m.pc = "pub"
  /\ Steps(m, [m EXCEPT !.pc = IF m.call = Timer THEN "notify" ELSE "sign", !.pub = keypairs[m.owner]])
  /\ UNCHANGED <<MakingVars, keypairs, at_client, client_calls, issued, alone>>
\* The stamp is signed with the newest key by then.
sign_with_keypair(m) ==
  /\ m.pc = "sign" /\ Steps(m, [m EXCEPT !.pc = "notify", !.sig = keypairs[m.owner]])
  /\ UNCHANGED <<MakingVars, keypairs, at_client, client_calls, issued, alone>>

-----------------------------------------------------------------------------
(* tick::verify *)

\* Calendar::get filters by number; as the records are in order, what it finds from
\* number n on begins at this place.
PlaceFrom(n, cal) ==
  CHOOSE j \in 1..(Len(cal) + 1) :
    /\ j <= Len(cal) => cal[j].number >= n
    /\ \A k \in 1..(j - 1) : cal[k].number < n
get(n, count, cal) ==
  LET last == PlaceFrom(n, cal) + count - 1 IN
  SubSeq(cal, PlaceFrom(n, cal), IF last < Len(cal) THEN last ELSE Len(cal))

\* get(n, 1): the first record from number n on.
\* Mutant: the newest record.
get_first_newest(n, cal) == IF n > latest(cal) \/ cal = << >> THEN NotFound ELSE cal[Len(cal)]
get_first(n, cal) == IF PlaceFrom(n, cal) > Len(cal) THEN NotFound ELSE cal[PlaceFrom(n, cal)]

\* A missing record is an error.  verify_with slices the signature before it
\* looks at it: one that is too short ends the thread.
tick_verify(f, sig, content, record) ==
  IF f.content # content THEN "false"
  ELSE IF record = NotFound THEN "error"
  ELSE IF sig = NoSig THEN "panic"
  ELSE IF sig.key = record.key /\ sig.over = f THEN "true" ELSE "false"

-----------------------------------------------------------------------------
(* The node's handlers: the answers they may give *)

\* cross_node_verify fetches the record through a line, which may fail; the stamp
\* it checks was parsed without its signature.
cross_node_verify == IF p2p_on THEN {"error", "no_answer"} ELSE {"error"}

try_local_verify(c) ==
  tick_verify(c.f, c.sig, c.content, get_first(c.f.number, calendars["node"]))

\* A signature that is missing is taken for an empty one.
parse_verify_params(c) == IF c.sig = Absent THEN [c EXCEPT !.sig = NoSig] ELSE c

handle_verify(c) ==
  LET local == try_local_verify(parse_verify_params(c)) IN
  IF local = "panic" THEN {"no_answer"}
  ELSE IF local = "true" THEN {"true"}
  ELSE IF ~c.cross_node \/ c.f.tbid = node_tbid THEN {"false"}
  ELSE cross_node_verify

handle_get_calendar_slice(start, count) == get(start, count, calendars["node"])

-----------------------------------------------------------------------------
(* The client *)

\* The ways to make one.  A P2p client made from a configuration asks the peers of
\* its Ptp part and never its known servers; one that joins asks its known peers.
ForetiasConfig ==
  [level : {"standalone", "ptp", "p2p"}, persist_path : BOOLEAN,
   peers : {<< >>, <<"node">>}, known_servers : {<< >>, <<"node">>}]
new(persist) == [level |-> "standalone", peers |-> << >>, persist_path |-> persist]
connect(peers, persist) == [level |-> "ptp", peers |-> peers, persist_path |-> persist]
join(known_peers) == [level |-> "p2p", peers |-> known_peers, persist_path |-> FALSE]
with_config(cfg) ==
  CASE cfg.level = "standalone" -> new(cfg.persist_path)
    [] cfg.level = "ptp" -> connect(cfg.peers, cfg.persist_path)
    [] cfg.level = "p2p" -> [join(cfg.peers) EXCEPT !.persist_path = cfg.persist_path]

create_standalone_state == [saved |-> 0, dormant |-> FALSE]

\* The node's start: with a new calendar, or dormant on one that was saved, under
\* a TBID of its own; without a path to load from it does not start.
new_with_config == [tbid |-> "node", records |-> 0, dormant |-> FALSE]
from_calendar(records) == [tbid |-> "loader", records |-> records, dormant |-> TRUE]
create_server(start_dormant, persist_path) ==
  IF ~start_dormant THEN {new_with_config}
  ELSE IF persist_path THEN {from_calendar(n) : n \in 0..MaxRecords} ELSE {}

\* A server begins with the records of its calendar, each with a stamp its caller kept.
StartsAs(server) ==
  /\ node_tbid = server.tbid /\ is_dormant = server.dormant
  /\ calendars = [o \in Owners |-> IF o = "client" THEN << >>
                    ELSE [n \in 1..server.records |-> CalendarRecord("node", n, n)]]
  /\ current_tick = [o \in Owners |-> Len(calendars[o])]
  /\ keypairs = current_tick /\ making = {}
  /\ \E stamped \in [1..server.records -> Contents] :
       issued = {Stamp("node", n, stamped[n], n) : n \in 1..server.records}
  /\ alone = issued

ServiceInit ==
  /\ \E d, p \in BOOLEAN : \E server \in create_server(d, p) : StartsAs(server)
  /\ p2p_on \in BOOLEAN
  /\ foretias \in {with_config(cfg) : cfg \in ForetiasConfig}
                  \cup {join(known) : known \in {<< >>, <<"node">>}}
  /\ at_client = create_standalone_state
  /\ client_calls = << >>

ServerVars == <<node_tbid, is_dormant, p2p_on>>
NewClientCall(kind, f, sig, content, cross) ==
  [kind |-> kind, f |-> f, sig |-> sig, content |-> content, cross_node |-> cross,
   state |-> "sent", answer |-> "none", result |-> "pending"]
Finished(c, result) == [c EXCEPT !.state = "done", !.result = result]
NewCall(c) ==
  Len(client_calls) < MaxClientCalls[foretias.level] /\ client_calls' = Append(client_calls, c)
NoForetis == [tbid |-> "none", number |-> 0, content |-> "none"]

\* stamp runs in the caller's thread, and several callers may share a client.  A
\* dormant one refuses.
stamp_standalone(content) ==
  LET c == NewClientCall("stamp", NoForetis, NoSig, content, FALSE) IN
  /\ foretias.level = "standalone"
  /\ \/ at_client.dormant /\ NewCall(Finished(c, "error")) /\ UNCHANGED engineVars
     \/ /\ ~at_client.dormant /\ NewCall([c EXCEPT !.state = "making"])
        /\ ClaimTick("client", Len(client_calls) + 1)
  /\ UNCHANGED <<ServerVars, foretias, at_client, issued, alone>>

\* What is saved after a stamp, where there is a path: failures are not looked at, and
\* saves that overlap leave an older calendar or an unreadable one.
save_calendar(records) ==
  {[at_client EXCEPT !.saved = saved] :
     saved \in IF foretias.persist_path THEN 0..records ELSE {at_client.saved}}

\* from_persist: what was saved last, verify-only.  Stamps under way are lost with
\* the engine that made them.
from_persist ==
  /\ foretias.level = "standalone" /\ at_client.saved > 0
  /\ at_client' = [at_client EXCEPT !.dormant = TRUE]
  /\ calendars' = [calendars EXCEPT !["client"] = SubSeq(@, 1, at_client.saved)]
  /\ making' = {m \in making : m.owner # "client"}
  /\ client_calls' = [i \in DOMAIN client_calls |->
       IF client_calls[i].state = "making" THEN Finished(client_calls[i], "error") ELSE client_calls[i]]
  /\ UNCHANGED <<ServerVars, foretias, current_tick, keypairs, issued, alone>>

\* verify and verify_with_proof on the client's own calendar.
verify_standalone(kind, f, sig, content) ==
  /\ foretias.level = "standalone"
  /\ NewCall(Finished(NewClientCall(kind, f, sig, content, FALSE),
       tick_verify(f, sig, content, get_first(f.number, calendars["client"]))))
  /\ UNCHANGED <<ServerVars, foretias, at_client, engineVars, issued, alone>>

primary_peer == IF foretias.peers = << >> THEN "none" ELSE Head(foretias.peers)

\* noise_json_rpc to the first peer, if there is one.
Ask(kind, f, sig, content, cross) ==
  /\ foretias.level # "standalone"
  /\ LET c == NewClientCall(kind, f, sig, content, cross) IN
     NewCall(IF primary_peer # "none" THEN c ELSE Finished(c, "error"))
  /\ UNCHANGED <<ServerVars, foretias, at_client, engineVars, issued, alone>>
stamp_remote(content) == Ask("stamp", NoForetis, NoSig, content, FALSE)
verify_remote(f, sig, content) == Ask("verify", f, sig, content, FALSE)
\* The slice that verify_with_proof asks for.
calendar_slice_remote(f, sig, content) == Ask("proof", f, sig, content, FALSE)

\* CommunerdReader: it sends no signature.
reader_verify(f, content) == Ask("verify", f, Absent, content, FALSE)

\* The command line.  A stamp file without a signature is taken to hold an empty one;
\* for cmd_verify a signature given beside the stamp goes before the stamp's own.
cmd_stamp(content) == stamp_remote(content)
SigHex(stamp_obj) == IF stamp_obj.sig = Absent THEN NoSig ELSE stamp_obj.sig
cmd_verify_with_proof(stamp_obj, content) ==
  calendar_slice_remote(stamp_obj.f, SigHex(stamp_obj), content)
cmd_verify(stamp_obj, signature, content) ==
  verify_remote(stamp_obj.f, IF signature # Absent THEN signature ELSE SigHex(stamp_obj), content)

\* Any other JSON-RPC client may route a stamp, or have other nodes asked.
RpcRouteStamp(target, content) ==
  Ask("route", [NoForetis EXCEPT !.tbid = target], NoSig, content, FALSE)
RpcVerify(f, sig, content) == Ask("verify", f, sig, content, TRUE)

-----------------------------------------------------------------------------
(* The node serves call i, whether or not the client still waits *)

ToServe(i, kinds) == client_calls[i].state \in {"sent", "abandoned"} /\ client_calls[i].kind \in kinds
Answer(i, a) ==
  /\ client_calls' = [client_calls EXCEPT ![i].state = "served", ![i].answer = a]
  /\ UNCHANGED <<issued, alone>>
AnswerStamp(i, s) ==
  /\ client_calls' = [client_calls EXCEPT ![i].state = "served", ![i].answer = "stamped",
                                          ![i].f = s.f, ![i].sig = s.sig]
  /\ issued' = issued \cup {s}

\* The record goes to the calendar, which refuses one that is not the newest; the
\* stamp is returned either way.
notify_observer(m) ==
  LET cal == calendars[m.owner]
      after == IF m.number > latest(cal)
               THEN Append(cal, CalendarRecord(m.owner, m.number, m.pub)) ELSE cal
      s == Stamp(m.owner, m.number, client_calls[m.call].content, m.sig)
  IN  /\ m.pc = "notify" /\ making' = making \ {m}
      /\ calendars' = [calendars EXCEPT ![m.owner] = after]
      /\ IF m.call = Timer THEN UNCHANGED <<at_client, client_calls, issued, alone>>
         ELSE /\ alone' = alone \cup (IF m.alone THEN {s} ELSE {})
              /\ IF m.owner = "node" THEN AnswerStamp(m.call, s) /\ UNCHANGED at_client
                 ELSE /\ client_calls' = [client_calls EXCEPT ![m.call] =
                           Finished([@ EXCEPT !.f = s.f, !.sig = s.sig], "stamped")]
                      /\ issued' = issued \cup {s}
                      /\ at_client' \in save_calendar(Len(after))
      /\ UNCHANGED <<ServerVars, foretias, current_tick, keypairs>>

\* A key, a signature or the record fails: the tick is spent.
MakingFails(m) ==
  /\ making' = making \ {m}
  /\ client_calls' = IF m.call = Timer THEN client_calls
       ELSE [client_calls EXCEPT ![m.call] =
              IF m.owner = "client" THEN Finished(@, "error")
              ELSE [@ EXCEPT !.state = "served", !.answer = "error"]]
  /\ UNCHANGED <<MakingVars, keypairs, at_client, issued, alone>>

\* A stamp, or one that is routed to the node itself; a dormant node refuses.
handle_stamp(i) ==
  /\ ToServe(i, {"stamp", "route"})
  /\ client_calls[i].kind = "route" => client_calls[i].f.tbid = node_tbid
  /\ \/ is_dormant /\ Answer(i, "error") /\ UNCHANGED engineVars
     \/ /\ ~is_dormant /\ ClaimTick("node", i)
        /\ client_calls' = [client_calls EXCEPT ![i].state = "making"]
        /\ UNCHANGED <<issued, alone>>
  /\ UNCHANGED <<ServerVars, foretias, at_client>>

\* A stamp routed to another time being, dormant or not: it comes back through a
\* line, which passes on only stamps of a first chronon.
handle_route_stamp(i) ==
  /\ ToServe(i, {"route"}) /\ client_calls[i].f.tbid # node_tbid
  /\ \/ Answer(i, "error")
     \/ /\ p2p_on /\ UNCHANGED alone
        /\ AnswerStamp(i, Stamp(client_calls[i].f.tbid, 1, client_calls[i].content, 1))
  /\ UNCHANGED <<ServerVars, foretias, at_client, engineVars>>

ServeVerify(i) ==
  /\ ToServe(i, {"verify"})
  /\ \E a \in handle_verify(client_calls[i]) : Answer(i, a)
  /\ UNCHANGED <<ServerVars, foretias, at_client, engineVars>>
ServeSlice(i) ==
  /\ ToServe(i, {"proof"})
  /\ Answer(i, handle_get_calendar_slice(client_calls[i].f.number, 2))
  /\ UNCHANGED <<ServerVars, foretias, at_client, engineVars>>

\* FetchedCalendar holds the first record of the slice, under its own number.
verify_with_proof(c) ==
  IF c.answer = << >> THEN "error"
  ELSE tick_verify(c.f, c.sig, c.content,
                   IF c.answer[1].number = c.f.number THEN c.answer[1] ELSE NotFound)

\* The answer reaches a client that still waits.
AnswerReturns(i) ==
  /\ client_calls[i].state = "served" /\ client_calls[i].result = "pending"
  /\ client_calls' = [client_calls EXCEPT ![i] = Finished(@,
       IF @.kind = "proof" THEN verify_with_proof(@)
       ELSE IF @.answer = "no_answer" THEN "error" ELSE @.answer)]
  /\ UNCHANGED <<ServerVars, foretias, at_client, engineVars, issued, alone>>
\* The timeout passes; the node may serve the call later or never see it.
WaitTimesOut(i) ==
  /\ client_calls[i].result = "pending" /\ foretias.level # "standalone"
  /\ client_calls' = [client_calls EXCEPT ![i].result = "error",
       ![i].state = IF @ = "sent" THEN "abandoned" ELSE @]
  /\ UNCHANGED <<ServerVars, foretias, at_client, engineVars, issued, alone>>

\* The node's own clock ticks too, and the node may go dormant.
daemon_tick ==
  /\ ~is_dormant /\ \A m \in making : m.call # Timer
  /\ ClaimTick("node", Timer)
  /\ UNCHANGED <<ServerVars, foretias, at_client, client_calls, issued, alone>>
NodeDormant ==
  /\ ~is_dormant /\ is_dormant' = TRUE
  /\ UNCHANGED <<node_tbid, p2p_on, foretias, at_client, client_calls, engineVars, issued, alone>>

\* What a user asks to have verified: a stamp as it was issued, or changed.
Variants(s) ==
  {s, [s EXCEPT !.sig = NoSig], [s EXCEPT !.sig = Absent]}
    \cup {[s EXCEPT !.f.number = n] : n \in {s.f.number - 1, s.f.number + 1}}
    \cup {[s EXCEPT !.f.tbid = "other"]}

ServiceNext ==
  \/ \E content \in Contents :
       \/ stamp_standalone(content) \/ cmd_stamp(content)
       \/ \E target \in {"node", "other"} : RpcRouteStamp(target, content)
       \/ \E s \in UNION {Variants(x) : x \in issued} :
            \/ s.sig # Absent /\ \E kind \in {"verify", "proof"} :
                                   verify_standalone(kind, s.f, s.sig, content)
            \/ reader_verify(s.f, content) \/ cmd_verify_with_proof(s, content)
            \/ RpcVerify(s.f, s.sig, content)
            \/ \E sig \in {Absent} \cup {x.sig : x \in issued} : cmd_verify(s, sig, content)
  \/ \E i \in DOMAIN client_calls :
       \/ handle_stamp(i) \/ handle_route_stamp(i) \/ ServeVerify(i) \/ ServeSlice(i)
       \/ AnswerReturns(i) \/ WaitTimesOut(i)
  \/ \E m \in making :
       \/ generate_and_store_keypair(m) \/ keypair_pub(m) \/ sign_with_keypair(m)
       \/ notify_observer(m) \/ MakingFails(m)
  \/ from_persist \/ daemon_tick \/ NodeDormant

ServiceSpec == ServiceInit /\ [][ServiceNext]_serviceVars

-----------------------------------------------------------------------------
(* Properties *)

Verdicts == {"true", "false"}
Checks(c) == c.kind \in {"verify", "proof"}
Intact(c) == [f |-> c.f, sig |-> c.sig] \in issued /\ c.content = c.f.content

\* Where the client has its stamps checked.
Asked == IF foretias.level = "standalone" THEN "client" ELSE "node"
\* The calendar that is asked holds the record of c's stamp, with the key that
\* signed it.
Kept(c) ==
  /\ c.f.tbid = Asked
  /\ \E j \in DOMAIN calendars[Asked] :
       calendars[Asked][j] = [number |-> c.f.number, key |-> c.sig.key]
\* Nothing else was being made while c's stamp was, and the calendar reaches it.
MadeAlone(c) ==
  /\ [f |-> c.f, sig |-> c.sig] \in alone
  /\ c.f.tbid = Asked /\ c.f.number <= latest(calendars[Asked])

\* A call that says a stamp is valid was given one that was issued, unchanged,
\* for that content.  And an unchanged stamp is never called invalid if no other
\* stamp or tick of its engine overlapped its making, or if the calendar kept its
\* record with the key that signed it: the call says valid or fails, even when
\* the calendar grows between stamping, fetching a proof and checking it, the
\* node is a dormant one that loaded the calendar, or the client was restored
\* from a calendar that was saved before the stamp.  (A stamp whose making was
\* overlapped may be refused by the calendar or stand under another key, and is
\* then called invalid: IssuedStampVerifies in Chronomatter.)
VerdictGenuine ==
  \A i \in DOMAIN client_calls :
    LET c == client_calls[i] IN
    Checks(c) =>
      /\ c.result = "true" => Intact(c)
      /\ Intact(c) /\ (Kept(c) \/ MadeAlone(c)) /\ c.result \in Verdicts => c.result = "true"
=============================================================================
