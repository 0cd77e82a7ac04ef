----------------------------- MODULE Attestation -----------------------------
(***************************************************************************)
(* Mutual attestation and the check of recorded attestations: the tasks    *)
(* DoChrononAttestation, DoEpochAttestation and VerifyFbRecorded of the    *)
(* calendar's worker pool (foretias-server/src/calendar/task_queue.rs) and *)
(* the handlers and the tick observer that queue them.  A worker asks the  *)
(* target for its latest chronon, stamps locally, signs the stamp with the *)
(* calendar's key and has the target stamp it; each step may fail and      *)
(* nothing is retried or taken back.                                       *)
(*                                                                         *)
(* A line (LineGates) fails or returns what passed its gates: a record or  *)
(* a stamp of the target's first chronon.  The target is any peer that     *)
(* holds the key of that chronon.  A call that fails over libp2p is made   *)
(* again over JSON-RPC, so one request may be served twice.                *)
(***************************************************************************)
EXTENDS Naturals, Sequences, FiniteSets

CONSTANTS
  Workers,          \* tasks of the pool
  MaxTasks,         \* bound: tasks queued
  MaxVerifyRecords  \* most records asked for in one check (100)

ASSUME MaxVerifyRecordsAssumption == MaxVerifyRecords \in Nat \ {0}
ASSUME PoolAssumption == IsFiniteSet(Workers) /\ MaxTasks \in Nat

VARIABLES
  wired,          \* what the pool was given: "communerd", "chronomatter", "key"
  task_tx,        \* whether the task queue was started
  tasks,          \* the channel, oldest first
  queued,         \* history: tasks ever queued
  worker,         \* per worker: where it is and its locals
  stamp_refused,  \* whether the chronomatter refuses to stamp (dormant)
  local_stamps,   \* stamps made for attestations, [content]
  in_flight,      \* requests to stamp on their way: [over, echo, try]
  remote_stamps,  \* what the target stamped: [over, echo, number]
  completed,      \* [local, remote] of attestations that were completed
  fetched         \* history: [latest, start, count] of the slices asked for

attestationVars == <<wired, task_tx, tasks, queued, worker, stamp_refused,
                     local_stamps, in_flight, remote_stamps, completed, fetched>>

\* A TBID is hex of the right length, hex of another length, or not hex.
TbidHex == {"target", "short", "not hex"}
FromHex(t) == t = "target"
Attestations == {"chronon", "epoch"}
\* What the pool may be given; without a key when none could be generated.
WorkerContexts == SUBSET {"communerd", "chronomatter", "key"}
AtRest == [pc |-> "idle", kind |-> "none", tbid |-> "none", local |-> 0, latest |-> 0, tries |-> 0]

AttestationInit ==
  /\ wired \in WorkerContexts
  /\ task_tx \in BOOLEAN /\ stamp_refused = FALSE
  /\ tasks = << >> /\ queued = 0
  /\ worker = [w \in Workers |-> AtRest]
  /\ local_stamps = << >> /\ in_flight = {} /\ remote_stamps = << >> /\ completed = {} /\ fetched = {}

-----------------------------------------------------------------------------
(* Queueing *)

QueueKept == UNCHANGED <<wired, task_tx, worker, stamp_refused, local_stamps,
                         in_flight, remote_stamps, completed, fetched>>
enqueue_task(kind, tbid) ==
  /\ task_tx /\ queued < MaxTasks
  /\ tasks' = Append(tasks, [kind |-> kind, tbid |-> tbid]) /\ queued' = queued + 1

\* Only the hex is checked; the chronon or epoch number is read and dropped.
handle_stamp_my_chronon(tbid) ==
  tbid # "not hex" /\ enqueue_task("chronon", tbid) /\ QueueKept
handle_stamp_my_chronon_block(tbid) ==
  tbid # "not hex" /\ enqueue_task("epoch", tbid) /\ QueueKept
\* A tick was appended; now and then it queues a check of the node's own records.
on_tick_advance == enqueue_task("verify", "target") /\ QueueKept

-----------------------------------------------------------------------------
(* A worker's task *)

AtStep(w, pc) == worker[w].pc = pc
Goes(w, pc) == worker' = [worker EXCEPT ![w].pc = pc]
Ends(w) == worker' = [worker EXCEPT ![w] = AtRest]
StampsKept == UNCHANGED <<wired, task_tx, queued, stamp_refused, local_stamps,
                          in_flight, remote_stamps, completed>>

\* The handlers up to their first await: what the pool was not given, or a TBID
\* that is none, ends the task.
handle_do_chronon_attestation(t) ==
  t.kind = "chronon" /\ {"communerd", "chronomatter"} \subseteq wired /\ FromHex(t.tbid)
handle_do_epoch_attestation(t) ==
  t.kind = "epoch" /\ {"communerd", "chronomatter"} \subseteq wired /\ FromHex(t.tbid)
handle_verify_fb_recorded(t) == t.kind = "verify" /\ "communerd" \in wired /\ FromHex(t.tbid)

\* A worker receives a task under the lock of the channel's end and dispatches it.
handle_task(w) ==
  /\ AtStep(w, "idle") /\ tasks # << >> /\ tasks' = Tail(tasks)
  /\ LET t == Head(tasks) IN
     worker' = IF \/ handle_do_chronon_attestation(t) \/ handle_do_epoch_attestation(t)
                  \/ handle_verify_fb_recorded(t)
               THEN [worker EXCEPT ![w] = [AtRest EXCEPT !.pc = "latest", !.kind = t.kind,
                                                         !.tbid = t.tbid]]
               ELSE worker
  /\ UNCHANGED fetched /\ StampsKept

\* pick_verify_range, for every draw of its start.
pick_verify_range(latest) ==
  {[latest |-> latest, start |-> s,
    count |-> LET left == (IF latest < s THEN 0 ELSE latest - s) + 1 IN
              IF MaxVerifyRecords < left THEN MaxVerifyRecords ELSE left]
     : s \in IF latest <= 1 THEN {1} ELSE 1..latest}

\* The line was asked for the target's latest record: it fails, or a record came.
LatestFails(w) ==
  AtStep(w, "latest") /\ Ends(w) /\ UNCHANGED <<tasks, fetched>> /\ StampsKept
FetchedLatest(w) ==
  /\ AtStep(w, "latest") /\ worker[w].kind = "chronon"
  /\ worker' = [worker EXCEPT ![w].pc = "stamp", ![w].latest = 1]
  /\ UNCHANGED <<tasks, fetched>> /\ StampsKept
\* The number is not used further on.
get_target_latest_epoch(w) ==
  /\ AtStep(w, "latest") /\ worker[w].kind = "epoch" /\ Goes(w, "stamp")
  /\ UNCHANGED <<tasks, fetched>> /\ StampsKept
get_verify_latest_chronon(w) ==
  /\ AtStep(w, "latest") /\ worker[w].kind = "verify"
  /\ worker' = [worker EXCEPT ![w].pc = "slice", ![w].latest = 1]
  /\ \E range \in pick_verify_range(1) : fetched' = fetched \cup {range}
  /\ UNCHANGED tasks /\ StampsKept
\* get_calendar_slice answered: the coverage is only logged.
SliceAnswered(w) ==
  AtStep(w, "slice") /\ Ends(w) /\ UNCHANGED <<tasks, fetched>> /\ StampsKept

\* The content to stamp locally: the same for every attestation of a kind.
StampContent(kind, tbid) == [kind |-> kind, tbid |-> tbid]

\* With the key the calendar generated at start, if that worked.
sign_with_calendar_key == "key" \in wired

\* Mutant: the attestation goes on without the calendar's signature.
stamp_and_sign_unsigned(w) ==
  /\ AtStep(w, "stamp")
  /\ \/ stamp_refused /\ Ends(w) /\ UNCHANGED local_stamps
     \/ /\ ~stamp_refused
        /\ local_stamps' = Append(local_stamps, StampContent(worker[w].kind, worker[w].tbid))
        /\ worker' = [worker EXCEPT ![w].pc = "transmit", ![w].local = Len(local_stamps) + 1]
  /\ UNCHANGED <<wired, task_tx, tasks, queued, stamp_refused, in_flight, remote_stamps,
                 completed, fetched>>
\* No await between the stamp and the signature; the stamp stays when that fails.
stamp_and_sign(w) ==
  /\ AtStep(w, "stamp")
  /\ \/ stamp_refused /\ Ends(w) /\ UNCHANGED local_stamps
     \/ /\ ~stamp_refused
        /\ local_stamps' = Append(local_stamps, StampContent(worker[w].kind, worker[w].tbid))
        /\ IF sign_with_calendar_key
           THEN worker' = [worker EXCEPT ![w].pc = "transmit", ![w].local = Len(local_stamps) + 1]
           ELSE Ends(w)
  /\ UNCHANGED <<wired, task_tx, tasks, queued, stamp_refused, in_flight, remote_stamps,
                 completed, fetched>>
stamp_and_sign_chronon_attestation(w) == worker[w].kind = "chronon" /\ stamp_and_sign(w)
stamp_and_sign_epoch_attestation(w) == worker[w].kind = "epoch" /\ stamp_and_sign(w)

\* do_stamp: over libp2p and, when that fails, again over JSON-RPC.
do_stamp(w) ==
  /\ AtStep(w, "transmit") /\ worker[w].tries < 2
  /\ in_flight' = in_flight \cup {[over |-> worker[w].local, try |-> worker[w].tries,
                                  echo |-> <<worker[w].kind, worker[w].local>>]}
  /\ worker' = [worker EXCEPT ![w].tries = @ + 1]
  /\ UNCHANGED <<wired, task_tx, tasks, queued, stamp_refused, local_stamps, remote_stamps,
                 completed, fetched>>
\* The target serves a request, perhaps after the worker gave up on it.
TargetStamps(r) ==
  /\ in_flight' = in_flight \ {r}
  /\ \E n \in 1..2 : remote_stamps' = Append(remote_stamps,
                                             [over |-> r.over, echo |-> r.echo, number |-> n])
  /\ UNCHANGED <<wired, task_tx, tasks, queued, worker, stamp_refused, local_stamps, completed,
                 fetched>>
RequestLost(r) ==
  /\ in_flight' = in_flight \ {r}
  /\ UNCHANGED <<wired, task_tx, tasks, queued, worker, stamp_refused, local_stamps, remote_stamps,
                 completed, fetched>>

\* A stamp the line lets through: over what was sent, of the first chronon.
Passes(w, r) == remote_stamps[r].over = worker[w].local /\ remote_stamps[r].number = 1

\* line.stamp() failed, or returned the remote stamp r.
TransmitFails(w) ==
  /\ AtStep(w, "transmit") /\ worker[w].tries > 0 /\ Ends(w)
  /\ UNCHANGED <<wired, task_tx, tasks, queued, stamp_refused, local_stamps, in_flight,
                 remote_stamps, completed, fetched>>
Completes(w, r) ==
  /\ AtStep(w, "transmit") /\ worker[w].tries > 0 /\ Passes(w, r)
  /\ completed' = completed \cup {[local |-> worker[w].local, remote |-> r]}
  /\ UNCHANGED <<wired, task_tx, tasks, queued, stamp_refused, local_stamps, in_flight,
                 remote_stamps, fetched>>
transmit_chronon_attestation(w, r) ==
  worker[w].kind = "chronon" /\ Completes(w, r) /\ Goes(w, "recorded")
transmit_epoch_attestation(w, r) == worker[w].kind = "epoch" /\ Completes(w, r) /\ Ends(w)

\* verify_chronon_attestation_recorded asks for the target's chronon again; every
\* outcome is only logged.
verify_chronon_attestation_recorded(w) ==
  AtStep(w, "recorded") /\ Ends(w) /\ UNCHANGED <<tasks, fetched>> /\ StampsKept

ChronomatterDormant ==
  /\ ~stamp_refused /\ stamp_refused' = TRUE
  /\ UNCHANGED <<wired, task_tx, tasks, queued, worker, local_stamps, in_flight,
                 remote_stamps, completed, fetched>>

AttestationNext ==
  \/ \E t \in TbidHex : handle_stamp_my_chronon(t) \/ handle_stamp_my_chronon_block(t)
  \/ on_tick_advance \/ ChronomatterDormant
  \/ \E w \in Workers :
       \/ handle_task(w) \/ LatestFails(w) \/ FetchedLatest(w) \/ get_target_latest_epoch(w)
       \/ get_verify_latest_chronon(w) \/ SliceAnswered(w)
       \/ stamp_and_sign_chronon_attestation(w) \/ stamp_and_sign_epoch_attestation(w)
       \/ do_stamp(w) \/ TransmitFails(w) \/ verify_chronon_attestation_recorded(w)
       \/ \E r \in DOMAIN remote_stamps :
            transmit_chronon_attestation(w, r) \/ transmit_epoch_attestation(w, r)
  \/ \E r \in in_flight : TargetStamps(r) \/ RequestLost(r)

AttestationSpec == AttestationInit /\ [][AttestationNext]_attestationVars

-----------------------------------------------------------------------------
(* Properties *)

\* Two workers attest to one target at once with equal contents, and a request
\* may be served twice: still every completed attestation has a local and a
\* remote stamp of its own, the remote one is over the local one and bears its
\* echo, and the target only ever stamps what a keyed calendar has signed, at
\* most twice.  A local stamp is made for at most one task.  The slices asked
\* for lie within the target's chronons.
AttestationPaired ==
  /\ \A c \in completed :
       /\ remote_stamps[c.remote].over = c.local
       /\ remote_stamps[c.remote].echo = <<local_stamps[c.local].kind, c.local>>
       /\ \A d \in completed : c.local = d.local <=> c.remote = d.remote
  /\ remote_stamps # << >> => "key" \in wired
  /\ \A l \in DOMAIN local_stamps :
       Cardinality({r \in DOMAIN remote_stamps : remote_stamps[r].over = l}) <= 2
  /\ \A r \in DOMAIN remote_stamps : remote_stamps[r].over \in DOMAIN local_stamps
  /\ Len(local_stamps) <= queued
  /\ \A f \in fetched : 1 <= f.start /\ 1 <= f.count /\ f.start + f.count - 1 <= f.latest
=============================================================================
