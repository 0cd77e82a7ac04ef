------------------------------ MODULE Directory ------------------------------
(***************************************************************************)
(* Communerd's directory (foretias-server/src/communerd/mod.rs): the index *)
(* of peer records by TBID, the lookups that wait for the DHT, the family  *)
(* lookups and the registry of lines.  Callers run on                      *)
(* threads of their own; one gossip loop applies what the swarm retrieved. *)
(*                                                                         *)
(* A peer record names a TBID.  `signer` is the TBID whose Ed25519 key     *)
(* signed it, "none" for an unsigned one.  What the node a record leads to *)
(* answers, and what the line accepts of it, is in LineGates.              *)
(***************************************************************************)
EXTENDS Naturals, FiniteSets, Sequences

CONSTANTS
  Tbids,
  Callers,
  Dht,          \* [Tbids -> SUBSET of records]: what is filed under /tbid/<t>/v1
  MaxCalls,     \* bound: requests started
  MaxLines      \* bound: lines made

ASSUME DirectoryAssumption == IsFiniteSet(Tbids) /\ MaxCalls \in Nat /\ MaxLines \in Nat

VARIABLES
  swarm,        \* p2p_cmd_tx is set
  tbid_index,
  pending_lookups, pending_family_lookups,  \* key -> the request whose sender it is
  queries,      \* GetRecord commands and queries under way in the swarm
  events,       \* RecordRetrieved events for the gossip loop
  caller,       \* per caller: [id, pc, op, tbid, rx, rec, line]
  failed,       \* history: the requests whose query failed without an event
  calls,
  communerdettes, \* TBID -> line, 0 is none
  lines, cancelled, \* lines made so far; those whose token is cancelled
  shutdown_pc, sweep, affected \* shutdown_relationships; lines out when it began

lookupVars == <<tbid_index, pending_lookups, pending_family_lookups, queries, events>>
lineVars == <<communerdettes, lines, cancelled, shutdown_pc, sweep, affected>>
directoryVars == <<swarm, lookupVars, caller, failed, calls, lineVars>>

Nobody == "nobody"
NoRecord == [tbid |-> Nobody, signer |-> Nobody]
Idle == [id |-> 0, pc |-> "idle", op |-> "none", tbid |-> Nobody, rx |-> "open", rec |-> NoRecord,
         line |-> 0]

\* A Communerd without lines and with the answer of an earlier lookup still to
\* be handled, and one that has a line for every TBID.
EmptyRegistry ==
  /\ communerdettes = [t \in Tbids |-> 0] /\ lines = 0
  /\ events \in {<<[kind |-> "tbid", key |-> t, found |-> Dht[t]]>> : t \in Tbids}
FullRegistry ==
  /\ lines = Cardinality(Tbids) /\ events = << >>
  /\ communerdettes = CHOOSE f \in [Tbids -> 1..lines] : \A t, u \in Tbids : f[t] = f[u] => t = u

DirectoryInit ==
  /\ swarm \in BOOLEAN
  /\ tbid_index = [t \in Tbids |-> NoRecord]
  /\ pending_lookups = [t \in Tbids |-> 0]
  /\ pending_family_lookups = [t \in Tbids |-> 0]
  /\ queries = {}
  /\ caller = [c \in Callers |-> Idle] /\ failed = {} /\ calls = 0
  /\ cancelled = {}
  /\ shutdown_pc = "no" /\ sweep = {} /\ affected = {}

\* validate_peer_registration; the structural checks hold for every record here.
validate_peer_registration(r) == r.signer \in {"none", r.tbid}

\* The end of a oneshot: its value, or "closed" when the sender is dropped.
Closed(ids) ==
  [c \in Callers |-> IF caller[c].id \in ids \ {0} /\ caller[c].rx = "open"
                     THEN [caller[c] EXCEPT !.rx = "closed"] ELSE caller[c]]

Return(c) == caller' = [caller EXCEPT ![c] = Idle]

-----------------------------------------------------------------------------
(* The registry of lines *)

Begin(c, op, t, pc) ==
  /\ caller[c].pc = "idle" /\ calls < MaxCalls /\ calls' = calls + 1
  /\ caller' = [caller EXCEPT ![c] = [Idle EXCEPT !.id = calls', !.pc = pc, !.op = op, !.tbid = t]]
  /\ UNCHANGED <<swarm, lookupVars, failed, lineVars>>

route_stamp(c, t) == Begin(c, "stamp", t, "line")
get_calendar_slice_by_tbid(c, t) == Begin(c, "slice", t, "line")
\* A line that is already held looks its peer up (CommunerdetteHost).
host_lookup_tbid(c, t) == Begin(c, "stamp", t, "lookup")
fetch_and_cache_family_record(c, t) == Begin(c, "family", t, "lookup")

\* line_for_tbid: the registered line, or none.
line_for_tbid(c) ==
  /\ caller[c].pc = "line"
  /\ LET l == communerdettes[caller[c].tbid] IN
     caller' = [caller EXCEPT ![c].pc = IF l = 0 THEN "insert" ELSE "lookup", ![c].line = l]
  /\ UNCHANGED <<swarm, lookupVars, failed, calls, lineVars>>
\* ... then a new one, inserted over whatever is there by now.
InsertLine(c) ==
  /\ caller[c].pc = "insert" /\ lines < MaxLines
  /\ lines' = lines + 1
  /\ communerdettes' = [communerdettes EXCEPT ![caller[c].tbid] = lines + 1]
  /\ caller' = [caller EXCEPT ![c].pc = "lookup", ![c].line = lines + 1]
  /\ UNCHANGED <<swarm, lookupVars, failed, calls, cancelled, shutdown_pc, sweep, affected>>

\* shutdown_relationships goes through the map entry by entry.
shutdown_relationships ==
  /\ shutdown_pc = "no" /\ shutdown_pc' = "sweep" /\ sweep' = Tbids
  /\ affected' = {caller[c].line : c \in Callers} \ {0}
  /\ UNCHANGED <<swarm, lookupVars, caller, failed, calls, communerdettes, lines, cancelled>>
\* Mutant: the first entry ends the sweep.
ShutdownEntryOnce(t) ==
  /\ shutdown_pc = "sweep" /\ t \in sweep /\ sweep' = {} /\ shutdown_pc' = "done"
  /\ cancelled' = cancelled \cup ({communerdettes[t]} \ {0})
  /\ UNCHANGED <<swarm, lookupVars, caller, failed, calls, communerdettes, lines, affected>>
ShutdownEntry(t) ==
  /\ shutdown_pc = "sweep" /\ t \in sweep /\ sweep' = sweep \ {t}
  /\ cancelled' = cancelled \cup ({communerdettes[t]} \ {0})
  /\ shutdown_pc' = IF sweep' = {} THEN "done" ELSE "sweep"
  /\ UNCHANGED <<swarm, lookupVars, caller, failed, calls, communerdettes, lines, affected>>

-----------------------------------------------------------------------------
(* Lookups *)

\* lookup_tbid: the index answers, or the caller's sender takes the key's place
\* in the map (dropping the one there) and the swarm is asked.
lookup_tbid(c) ==
  /\ caller[c].pc = "lookup" /\ caller[c].op \in {"stamp", "slice"}
  /\ LET t == caller[c].tbid IN
     IF tbid_index[t] # NoRecord
     THEN /\ caller' = [caller EXCEPT ![c].pc = "call", ![c].rec = tbid_index[t]]
          /\ UNCHANGED lookupVars
     ELSE IF ~swarm THEN Return(c) /\ UNCHANGED lookupVars
     ELSE /\ caller' = [Closed({pending_lookups[t]}) EXCEPT ![c].pc = "wait"]
          /\ pending_lookups' = [pending_lookups EXCEPT ![t] = caller[c].id]
          /\ queries' = queries \cup {[id |-> caller[c].id, kind |-> "tbid", key |-> t]}
          /\ UNCHANGED <<tbid_index, pending_family_lookups, events>>
  /\ UNCHANGED <<swarm, failed, calls, lineVars>>

\* The family cache is empty for as long as no fetch succeeds, and none does:
\* the bytes that come back are encoded once more and parse as no FamilyRecord.
LookupFamily(c) ==
  /\ caller[c].pc = "lookup" /\ caller[c].op = "family"
  /\ LET t == caller[c].tbid IN
     IF ~swarm THEN Return(c) /\ UNCHANGED lookupVars
     ELSE /\ caller' = [Closed({pending_family_lookups[t]}) EXCEPT ![c].pc = "wait"]
          /\ pending_family_lookups' = [pending_family_lookups EXCEPT ![t] = caller[c].id]
          /\ queries' = queries \cup {[id |-> caller[c].id, kind |-> "family", key |-> t]}
          /\ UNCHANGED <<tbid_index, pending_lookups, events>>
  /\ UNCHANGED <<swarm, failed, calls, lineVars>>

\* The swarm: a query accumulates records until it finishes with an event, or
\* fails without one.
GetRecordFinishes(q) ==
  /\ q \in queries /\ queries' = queries \ {q}
  /\ \E found \in SUBSET Dht[q.key] :
       /\ (q.kind = "family") => found = {}
       /\ events' = Append(events, [kind |-> q.kind, key |-> q.key, found |-> found])
  /\ UNCHANGED <<swarm, tbid_index, pending_lookups, pending_family_lookups, caller, failed, calls,
                 lineVars>>
GetRecordFails(q) ==
  /\ q \in queries /\ queries' = queries \ {q} /\ failed' = failed \cup {q.id}
  /\ UNCHANGED <<swarm, tbid_index, pending_lookups, pending_family_lookups, events, caller, calls,
                 lineVars>>

\* bridge_dht_to_communerdette: a line exists for the TBID of every record.
Bridged(rs) == {t \in Tbids : communerdettes[t] = 0 /\ \E r \in rs : r.tbid = t}

\* The keys that leave the map when caller c is answered: all of them, for the
\* drain they are taken from is dropped after its first one.
\* Mutant: only the one that is answered.
DrainedOne(c) == {t \in Tbids : pending_lookups[t] = caller[c].id}
Drained(c) == Tbids

\* handle_tbid_records: index and bridge every valid record, then answer any
\* one of the pending lookups with the first of them and drop all the others.
handle_tbid_records ==
  /\ events # << >> /\ Head(events).kind = "tbid" /\ events' = Tail(events)
  /\ LET valid == {r \in Head(events).found : validate_peer_registration(r)}
         waiting == {pending_lookups[t] : t \in Tbids} \ {0}
         new == Bridged(valid)
     IN  /\ tbid_index' \in {f \in [Tbids -> valid \cup {tbid_index[t] : t \in Tbids}] :
              \A t \in Tbids : LET rs == {r \in valid : r.tbid = t} IN
                f[t] \in IF rs = {} THEN {tbid_index[t]} ELSE rs}
         /\ lines + Cardinality(new) <= MaxLines
         /\ lines' = lines + Cardinality(new)
         /\ communerdettes' \in {f \in [Tbids -> 0..lines'] :
              /\ \A t \in Tbids \ new : f[t] = communerdettes[t]
              /\ {f[t] : t \in new} = (lines + 1)..lines'}
         /\ \/ waiting = {} /\ UNCHANGED <<caller, pending_lookups>>
            \/ \E c \in Callers, r \in valid \cup {NoRecord} :
                 /\ caller[c].id \in waiting
                 /\ (r = NoRecord) <=> (valid = {})
                 /\ pending_lookups' = [t \in Tbids |-> IF t \in Drained(c) THEN 0 ELSE pending_lookups[t]]
                 /\ caller' = [Closed({pending_lookups[t] : t \in Drained(c)} \ {caller[c].id}) EXCEPT
                      ![c] = IF @.pc = "wait" THEN [@ EXCEPT !.rx = "value", !.rec = r] ELSE @]
  /\ UNCHANGED <<swarm, pending_family_lookups, queries, failed, calls, cancelled, shutdown_pc, sweep,
                 affected>>

\* handle_record_retrieved for a family key.
RetrieveFamily ==
  /\ events # << >> /\ Head(events).kind = "family" /\ events' = Tail(events)
  /\ LET t == Head(events).key IN
     /\ pending_family_lookups' = [pending_family_lookups EXCEPT ![t] = 0]
     /\ caller' = Closed({pending_family_lookups[t]})
  /\ UNCHANGED <<swarm, tbid_index, pending_lookups, queries, failed, calls, lineVars>>

\* The receiver wakes: with a record, without one, or because its sender is gone.
Answered(c) ==
  /\ caller[c].pc = "wait" /\ caller[c].rx # "open"
  /\ IF caller[c].rec # NoRecord
     THEN caller' = [caller EXCEPT ![c].pc = "call"]
     ELSE Return(c)
  /\ UNCHANGED <<swarm, lookupVars, failed, calls, lineVars>>

\* 5 s pass (10 s for a family): the receiver is dropped, then the key removed.
TimesOut(c) ==
  /\ caller[c].pc = "wait" /\ caller[c].rx = "open"
  /\ caller' = [caller EXCEPT ![c].pc = "expire"]
  /\ UNCHANGED <<swarm, lookupVars, failed, calls, lineVars>>

\* The key of a TBID lookup is removed, whoever waits for it by now.  A family
\* lookup removes its key from this map too, where it is not, and leaves its
\* own sender behind.
\* Mutant: nothing is removed.
RemovePendingNever(c) ==
  /\ caller[c].pc = "expire" /\ Return(c)
  /\ UNCHANGED <<swarm, lookupVars, failed, calls, lineVars>>
RemovePending(c) ==
  /\ caller[c].pc = "expire"
  /\ IF caller[c].op = "family" THEN Return(c) /\ UNCHANGED pending_lookups
     ELSE LET t == caller[c].tbid IN
          /\ caller' = [Closed({pending_lookups[t]}) EXCEPT ![c] = Idle]
          /\ pending_lookups' = [pending_lookups EXCEPT ![t] = 0]
  /\ UNCHANGED <<swarm, tbid_index, pending_family_lookups, queries, events, failed, calls, lineVars>>

-----------------------------------------------------------------------------
(* The request itself *)

\* The line calls the node the record leads to, gates its answer (LineGates)
\* and the request returns.
CallPeer(c) ==
  /\ caller[c].pc = "call" /\ Return(c)
  /\ UNCHANGED <<swarm, lookupVars, failed, calls, lineVars>>

-----------------------------------------------------------------------------
RetrieveNext ==
  \/ handle_tbid_records \/ RetrieveFamily
  \/ \E q \in queries :
       GetRecordFinishes(q) \/ GetRecordFails(q)
CallerStep(c) ==
  \/ lookup_tbid(c) \/ LookupFamily(c)
  \/ Answered(c) \/ TimesOut(c) \/ RemovePending(c) \/ CallPeer(c)

\* lookup_tbid_cached answers.
LookupCached(c) == caller[c].tbid \in Tbids /\ tbid_index[caller[c].tbid] # NoRecord /\ lookup_tbid(c)

LookupNext ==
  \/ \E c \in Callers, t \in Tbids :
       host_lookup_tbid(c, t) \/ fetch_and_cache_family_record(c, t)
  \/ \E c \in Callers : CallerStep(c)
  \/ RetrieveNext
\* The registry alone: callers that make lines while the relationships end.
RegistryNext ==
  \/ \E c \in Callers, t \in Tbids : route_stamp(c, t) \/ get_calendar_slice_by_tbid(c, t)
  \/ \E c \in Callers :
       line_for_tbid(c) \/ InsertLine(c) \/ LookupCached(c) \/ CallPeer(c)
  \/ handle_tbid_records
  \/ shutdown_relationships \/ \E t \in Tbids : ShutdownEntry(t)

\* All of it together.
DirectorySpec ==
  /\ DirectoryInit /\ (EmptyRegistry \/ FullRegistry)
  /\ [][LookupNext \/ RegistryNext]_directoryVars

-----------------------------------------------------------------------------
(* Properties *)

\* Whatever replaces, answers, drops or expires lookups in whatever order, a
\* sender in the TBID map belongs to a caller that still waits for that key:
\* the map never grows beyond the lookups under way.
PendingHasWaiter ==
  \A t \in Tbids : pending_lookups[t] # 0 =>
    \E c \in Callers : /\ caller[c].id = pending_lookups[t] /\ caller[c].tbid = t
                       /\ caller[c].pc \in {"wait", "expire"} /\ caller[c].op # "family"

\* The sender of a lookup is in its map; what will take it out is on its way.
Kind(w) == IF w.op = "family" THEN "family" ELSE "tbid"
SenderKept(w) ==
  w.id = IF w.op = "family" THEN pending_family_lookups[w.tbid] ELSE pending_lookups[w.tbid]
AnswerComing(w) ==
  \/ [id |-> w.id, kind |-> Kind(w), key |-> w.tbid] \in queries
  \/ \E i \in 1..Len(events) : events[i].kind = Kind(w) /\ events[i].key = w.tbid
  \/ w.id \in failed

\* Lookups are replaced, answered with another key's records, dropped and timed
\* out; none is forgotten.  While a caller waits on an open receiver its sender
\* is in the map and something is still to come that takes it out: its query is
\* under way, or an event for its key is in the queue.  Only the failure of its
\* own query leaves it to its timeout.
LookupsAccountedFor ==
  \A c \in Callers : caller[c].pc = "wait" /\ caller[c].rx = "open" =>
    SenderKept(caller[c]) /\ AnswerComing(caller[c])

\* shutdown_relationships cancels while callers make lines.  When it is done,
\* every line that was out when it began is cancelled or has been replaced: a
\* second caller that had not seen it registered another in its place.
ShutdownReachesRegistered ==
  shutdown_pc = "done" =>
    \A t \in Tbids : communerdettes[t] \in affected => communerdettes[t] \in cancelled
=============================================================================
