-------------------------------- MODULE Mirror --------------------------------
(***************************************************************************)
(* Active mirroring of one calendar (foretias-server/src/calendar and the  *)
(* mirror handlers of foretias-server/src/server).  On the source, a pool  *)
(* of workers takes tasks from one queue: find a mirror, dump the history  *)
(* to it, probe it, expire it.  They share the set of active mirrors and   *)
(* the failure counters, each access under its own short lock, and keep    *)
(* nothing locked across a call to a peer.  On a peer, every request is    *)
(* served by a thread of its own, which verifies a record against the      *)
(* newest one the peer holds and inserts it later.  Calls time out while   *)
(* the peer still works on them, and a peer that restarts forgets what it  *)
(* mirrored (MirrorStore is kept in memory).                               *)
(*                                                                         *)
(* Records are numbers: record n verifies exactly against record n - 1,    *)
(* which is verify_pair on a calendar whose chain is intact (Chronomatter  *)
(* says when it is).  A chunk is one record (DUMP_CHUNK_SIZE = 1).         *)
(***************************************************************************)
EXTENDS Naturals, Sequences, FiniteSets

CONSTANTS
  Workers,            \* the worker pool
  Peers,              \* candidates for mirroring
  NoPeer, NoWorker,   \* placeholders
  MinMirrors,         \* min_mirrors
  TargetMirrors,      \* target_mirrors
  MaxHealthFailures,  \* MAX_HEALTH_FAILURES
  MaxTicks,           \* bound: records of the source
  MaxPosted,          \* bound: tasks enqueued from outside the pool
  MaxClients,         \* bound: stream_tick and ship_ack requests
  MaxFaults           \* bound: calls that time out and peers that restart

ASSUME PoolAssumption == IsFiniteSet(Workers) /\ NoWorker \notin Workers
ASSUME PeerAssumption == IsFiniteSet(Peers) /\ NoPeer \notin Peers
ASSUME TargetAssumption ==
  /\ MinMirrors \in Nat /\ TargetMirrors \in Nat \ {0} /\ MinMirrors <= TargetMirrors
  /\ MaxHealthFailures \in Nat \ {0}
ASSUME BoundAssumption ==
  /\ MaxTicks \in Nat /\ MaxPosted \in Nat /\ MaxClients \in Nat /\ MaxFaults \in Nat

VARIABLES
  queue,            \* the task channel
  mirrors,          \* MirrorState.mirrors
  health_failures,  \* MirrorState.health_failures; absent is 0
  ticks,            \* records of the source's calendar
  pc, job,          \* where each worker stands, and its local variables
  requests,         \* what the threads of the peers are serving
  store,            \* MirrorStore of each peer, for this calendar
  posted, clients, faults,  \* bounds
  promised,         \* history: records of the dumps reported complete
  owed,             \* history: the source's records when a mirror first enrolled
  streak,           \* history: longest run of failed probes of a peer
  run               \* history: failed probes of a peer since the last good one

source  == <<queue, mirrors, health_failures>>
worker  == <<pc, job>>
peer    == <<requests, store>>
bounds  == <<posted, clients, faults>>
history == <<promised, owed, streak, run>>
vars    == <<source, ticks, worker, peer, bounds, history>>

Never == MaxTicks + 1
Task(kind, p) == [kind |-> kind, mirror |-> p]
NoJob == [mirror |-> NoPeer, candidates |-> {}, next |-> 0, total |-> 0, intact |-> TRUE]

Init ==
  /\ queue = << >> /\ mirrors = {} /\ health_failures = [p \in Peers |-> 0]
  /\ ticks = 0
  /\ pc = [w \in Workers |-> "idle"] /\ job = [w \in Workers |-> NoJob]
  /\ requests = {} /\ store = [p \in Peers |-> {}]
  /\ posted = 0 /\ clients = 0 /\ faults = 0
  /\ promised = [p \in Peers |-> 0] /\ owed = [p \in Peers |-> Never]
  /\ streak = [p \in Peers |-> 0] /\ run = [p \in Peers |-> 0]

Goto(w, from, to) == pc[w] = from /\ pc' = [pc EXCEPT ![w] = to]
Done(w) == pc' = [pc EXCEPT ![w] = "idle"] /\ job' = [job EXCEPT ![w] = NoJob]
Larger(m, n) == IF m > n THEN m ELSE n

-----------------------------------------------------------------------------
(* The task queue *)

\* Calendar::enqueue_task, by whoever watches the mirrors.
enqueue_task(t) ==
  /\ posted < MaxPosted
  /\ t = Task("FindNewMirror", NoPeer) \/ \E p \in mirrors : t = Task("ExploreMirror", p)
  /\ posted' = posted + 1
  /\ queue' = Append(queue, t)
  /\ UNCHANGED <<mirrors, health_failures, ticks, worker, peer, clients, faults, history>>

\* Where a worker starts on a task.  StartStream is a placeholder that does nothing.
handle_task ==
  [FindNewMirror |-> "find", InitiateDump |-> "dump", StartStream |-> "idle",
   ExploreMirror |-> "probe", ExpireMirror |-> "expire"]

\* A worker takes the oldest task.
TakeTask(w) ==
  /\ queue # << >>
  /\ Goto(w, "idle", handle_task[Head(queue).kind])
  /\ job' = [job EXCEPT ![w] = [NoJob EXCEPT !.mirror =
               IF pc'[w] = "idle" THEN NoPeer ELSE Head(queue).mirror]]
  /\ queue' = Tail(queue)
  /\ UNCHANGED <<mirrors, health_failures, ticks, peer, bounds, history>>

-----------------------------------------------------------------------------
(* handle_find_new_mirror *)

CheckTarget(w) ==
  /\ Goto(w, "find", IF Cardinality(mirrors) >= TargetMirrors THEN "idle" ELSE "known")
  /\ UNCHANGED <<source, ticks, job, peer, bounds, history>>

\* The candidates: peers known now that are not mirrors now.
SnapshotCandidates(w, known) ==
  /\ Goto(w, "known", "announce")
  /\ job' = [job EXCEPT ![w].candidates = known \ mirrors]
  /\ UNCHANGED <<source, ticks, peer, bounds, history>>

can_accept_mirror(p) == store[p] = {}

\* handle_mirror_announce on the peer says yes.
AnnounceAccepted(w, p) ==
  /\ p \in job[w].candidates
  /\ can_accept_mirror(p)
  /\ Goto(w, "announce", "accepted")
  /\ job' = [job EXCEPT ![w].candidates = @ \ {p}, ![w].mirror = p]
  /\ UNCHANGED <<source, ticks, peer, bounds, history>>

\* It holds this calendar already, is full of others, or cannot be reached.
AnnounceDeclined(w, p) ==
  /\ pc[w] = "announce"
  /\ p \in job[w].candidates
  /\ job' = [job EXCEPT ![w].candidates = @ \ {p}]
  /\ UNCHANGED <<source, ticks, pc, peer, bounds, history>>

CandidatesExhausted(w) ==
  /\ pc[w] = "announce"
  /\ job[w].candidates = {}
  /\ Done(w)
  /\ UNCHANGED <<source, ticks, peer, bounds, history>>

Enrol(w) ==
  /\ Goto(w, "accepted", "enrolled")
  /\ mirrors' = mirrors \cup {job[w].mirror}
  /\ owed' = [owed EXCEPT ![job[w].mirror] = IF @ = Never THEN ticks ELSE @]
  /\ UNCHANGED <<queue, health_failures, ticks, job, peer, bounds, promised, streak, run>>

\* Mutant: the dump is queued only if the worker goes on.
EnqueueDumpAfterBreak(w) ==
  /\ Goto(w, "enrolled",
          IF Cardinality(mirrors) >= TargetMirrors THEN "idle" ELSE "announce")
  /\ queue' = IF pc'[w] = "idle" THEN queue
              ELSE Append(queue, Task("InitiateDump", job[w].mirror))
  /\ job' = [job EXCEPT ![w] = IF pc'[w] = "idle" THEN NoJob ELSE [@ EXCEPT !.mirror = NoPeer]]
  /\ UNCHANGED <<mirrors, health_failures, ticks, peer, bounds, history>>

\* Mutant: the target is not looked at again.
EnqueueDumpNoBreak(w) ==
  /\ Goto(w, "enrolled", "announce")
  /\ queue' = Append(queue, Task("InitiateDump", job[w].mirror))
  /\ job' = [job EXCEPT ![w].mirror = NoPeer]
  /\ UNCHANGED <<mirrors, health_failures, ticks, peer, bounds, history>>

\* The dump is queued, and the worker goes on until the target is reached.
EnqueueDump(w) ==
  /\ Goto(w, "enrolled",
          IF Cardinality(mirrors) >= TargetMirrors THEN "idle" ELSE "announce")
  /\ queue' = Append(queue, Task("InitiateDump", job[w].mirror))
  /\ job' = [job EXCEPT ![w] = IF pc'[w] = "idle" THEN NoJob ELSE [@ EXCEPT !.mirror = NoPeer]]
  /\ UNCHANGED <<mirrors, health_failures, ticks, peer, bounds, history>>

-----------------------------------------------------------------------------
(* handle_initiate_dump *)

\* The calendar is copied; nothing to send if it is empty.
SnapshotCalendar(w) ==
  /\ pc[w] = "dump"
  /\ IF ticks = 0
     THEN Done(w)
     ELSE /\ pc' = [pc EXCEPT ![w] = "send"]
          /\ job' = [job EXCEPT ![w].total = ticks, ![w].next = 1]
  /\ UNCHANGED <<source, ticks, peer, bounds, history>>

Request(owner, p, first, last, verified) ==
  [owner |-> owner, mirror |-> p, first |-> first, last |-> last, verified |-> verified]

SendChunk(w) ==
  /\ Goto(w, "send", "chunk")
  /\ requests' = requests \cup
       {Request(w, job[w].mirror, job[w].next, job[w].next, FALSE)}
  /\ UNCHANGED <<source, ticks, job, store, bounds, history>>

\* Mutant: the last chunk is left out.
AcknowledgedShort(w) ==
  IF job[w].next + 1 >= job[w].total
  THEN pc' = [pc EXCEPT ![w] = "complete"] /\ UNCHANGED job
  ELSE /\ pc' = [pc EXCEPT ![w] = "send"]
       /\ job' = [job EXCEPT ![w].next = @ + 1]

\* The chunk's answer: on to the next one, or to the end marker.
Acknowledged(w) ==
  IF job[w].next = job[w].total
  THEN pc' = [pc EXCEPT ![w] = "complete"] /\ UNCHANGED job
  ELSE /\ pc' = [pc EXCEPT ![w] = "send"]
       /\ job' = [job EXCEPT ![w].next = @ + 1]

\* The call times out: the dump is aborted.  The request is lost, or the peer
\* goes on with it.
ChunkTimesOut(w, r) ==
  /\ faults < MaxFaults
  /\ r \in requests /\ r.owner = w
  /\ \/ requests' = requests \ {r}
     \/ requests' = (requests \ {r}) \cup {[r EXCEPT !.owner = NoWorker]}
  /\ faults' = faults + 1
  /\ Done(w)
  /\ UNCHANGED <<source, ticks, store, posted, clients, history>>

\* history_dump_complete is answered.  What the peer says it holds is only logged.
DumpCompletes(w) ==
  /\ pc[w] = "complete"
  /\ queue' = Append(queue, Task("StartStream", job[w].mirror))
  /\ promised' = IF job[w].intact
                 THEN [promised EXCEPT ![job[w].mirror] = Larger(@, job[w].total)]
                 ELSE promised
  /\ Done(w)
  /\ UNCHANGED <<mirrors, health_failures, ticks, peer, bounds, owed, streak, run>>

CompleteTimesOut(w) ==
  /\ faults < MaxFaults
  /\ pc[w] = "complete"
  /\ faults' = faults + 1
  /\ Done(w)
  /\ UNCHANGED <<source, ticks, peer, posted, clients, history>>

-----------------------------------------------------------------------------
(* handle_explore_mirror and handle_expire_mirror *)

\* Mutant: an answer does not clear the failures before it.
ProbeAnsweredKeeps(w) ==
  /\ pc[w] = "probe"
  /\ run' = [run EXCEPT ![job[w].mirror] = 0]
  /\ Done(w)
  /\ UNCHANGED <<source, ticks, peer, bounds, promised, owed, streak>>

ProbeAnswered(w) ==
  /\ pc[w] = "probe"
  /\ health_failures' = [health_failures EXCEPT ![job[w].mirror] = 0]
  /\ run' = [run EXCEPT ![job[w].mirror] = 0]
  /\ Done(w)
  /\ UNCHANGED <<queue, mirrors, ticks, peer, bounds, promised, owed, streak>>

\* From the last failure allowed on, every one asks for the mirror's expiry.
ProbeFails(w) ==
  LET p == job[w].mirror IN
  /\ pc[w] = "probe"
  /\ health_failures' = [health_failures EXCEPT ![p] = @ + 1]
  /\ queue' = IF health_failures'[p] >= MaxHealthFailures
              THEN Append(queue, Task("ExpireMirror", p)) ELSE queue
  /\ run' = [run EXCEPT ![p] = @ + 1]
  /\ streak' = [streak EXCEPT ![p] = Larger(@, run'[p])]
  /\ Done(w)
  /\ UNCHANGED <<mirrors, ticks, peer, bounds, promised, owed>>

ExpireMirror(w) ==
  /\ pc[w] = "expire"
  /\ IF job[w].mirror \in mirrors
     THEN pc' = [pc EXCEPT ![w] = "forget"] /\ UNCHANGED job
     ELSE Done(w)
  /\ mirrors' = mirrors \ {job[w].mirror}
  /\ UNCHANGED <<queue, health_failures, ticks, peer, bounds, history>>

ForgetFailures(w) ==
  /\ Goto(w, "forget", "refill")
  /\ health_failures' = [health_failures EXCEPT ![job[w].mirror] = 0]
  /\ UNCHANGED <<queue, mirrors, ticks, job, peer, bounds, history>>

\* Mutant: the mirror just expired is counted.
RefillStale(w) ==
  /\ pc[w] = "refill"
  /\ queue' = IF Cardinality(mirrors \cup {job[w].mirror}) < MinMirrors
              THEN Append(queue, Task("FindNewMirror", NoPeer)) ELSE queue
  /\ Done(w)
  /\ UNCHANGED <<mirrors, health_failures, ticks, peer, bounds, history>>

Refill(w) ==
  /\ pc[w] = "refill"
  /\ queue' = IF Cardinality(mirrors) < MinMirrors
              THEN Append(queue, Task("FindNewMirror", NoPeer)) ELSE queue
  /\ Done(w)
  /\ UNCHANGED <<mirrors, health_failures, ticks, peer, bounds, history>>

-----------------------------------------------------------------------------
(* The peers *)

Latest(p) == CHOOSE n \in store[p] \cup {0} : \A m \in store[p] : m <= n

\* Mutant: any newer record is taken for the next one.
verify_history_dump_chunk_newer(r) ==
  /\ r \in requests /\ ~r.verified
  /\ r.first > Latest(r.mirror)
  /\ requests' = (requests \ {r}) \cup {[r EXCEPT !.verified = TRUE]}
  /\ UNCHANGED <<source, ticks, worker, store, bounds, history>>

\* The chain check, against the newest record the peer holds.
verify_history_dump_chunk(r) ==
  /\ r \in requests /\ ~r.verified
  /\ r.first = Latest(r.mirror) + 1
  /\ requests' = (requests \ {r}) \cup {[r EXCEPT !.verified = TRUE]}
  /\ UNCHANGED <<source, ticks, worker, store, bounds, history>>

\* The record does not follow: an error, on which the source aborts its dump.
RefuseRecord(r) ==
  /\ r \in requests /\ ~r.verified
  /\ r.first # Latest(r.mirror) + 1
  /\ requests' = requests \ {r}
  /\ IF r.owner \in Workers THEN Done(r.owner) ELSE UNCHANGED worker
  /\ UNCHANGED <<source, ticks, store, bounds, history>>

\* One record is inserted; a number the peer has already is skipped.
insert_mirrored(r) ==
  /\ r \in requests /\ r.verified
  /\ store' = [store EXCEPT ![r.mirror] = @ \cup {r.first}]
  /\ IF r.first < r.last
     THEN /\ requests' = (requests \ {r}) \cup {[r EXCEPT !.first = @ + 1]}
          /\ UNCHANGED worker
     ELSE /\ requests' = requests \ {r}
          /\ IF r.owner \in Workers THEN Acknowledged(r.owner) ELSE UNCHANGED worker
  /\ UNCHANGED <<source, ticks, bounds, history>>

\* A record pushed by another sender, checked like a chunk.
handle_stream_tick(p, n) ==
  /\ clients < MaxClients
  /\ n \in 1..ticks
  /\ clients' = clients + 1
  /\ requests' = requests \cup {Request(NoWorker, p, n, n, FALSE)}
  /\ UNCHANGED <<source, ticks, worker, store, posted, faults, history>>

\* A batch from the first record on: its chain is checked within the batch, not
\* against the store.
handle_ship_ack(p, n) ==
  /\ clients < MaxClients
  /\ n \in 1..ticks
  /\ clients' = clients + 1
  /\ requests' = requests \cup {Request(NoWorker, p, 1, n, TRUE)}
  /\ UNCHANGED <<source, ticks, worker, store, posted, faults, history>>

\* A peer restarts without its mirrors; calls it was serving fail.
Restart(p) ==
  LET broken == {w \in Workers : \E r \in requests : r.owner = w /\ r.mirror = p} IN
  /\ faults < MaxFaults
  /\ faults' = faults + 1
  /\ store' = [store EXCEPT ![p] = {}]
  /\ requests' = {r \in requests : r.mirror # p}
  /\ pc' = [w \in Workers |-> IF w \in broken THEN "idle" ELSE pc[w]]
  /\ job' = [w \in Workers |->
               IF w \in broken THEN NoJob
               ELSE [job[w] EXCEPT !.intact = @ /\ job[w].mirror # p]]
  /\ promised' = [promised EXCEPT ![p] = 0]
  /\ UNCHANGED <<source, ticks, posted, clients, owed, streak, run>>

\* The source's calendar grows.
Tick ==
  /\ ticks < MaxTicks
  /\ ticks' = ticks + 1
  /\ UNCHANGED <<source, worker, peer, bounds, history>>

-----------------------------------------------------------------------------
Work(w) ==
  \/ TakeTask(w) \/ CheckTarget(w)
  \/ \E known \in SUBSET Peers : SnapshotCandidates(w, known)
  \/ \E p \in Peers : AnnounceAccepted(w, p) \/ AnnounceDeclined(w, p)
  \/ CandidatesExhausted(w) \/ Enrol(w) \/ EnqueueDump(w)
  \/ SnapshotCalendar(w) \/ SendChunk(w) \/ DumpCompletes(w)
  \/ ProbeAnswered(w) \/ ProbeFails(w)
  \/ ExpireMirror(w) \/ ForgetFailures(w) \/ Refill(w)

Serve(r) == verify_history_dump_chunk(r) \/ RefuseRecord(r) \/ insert_mirrored(r)

Fault ==
  \/ \E w \in Workers, r \in requests : ChunkTimesOut(w, r)
  \/ \E w \in Workers : CompleteTimesOut(w)
  \/ \E p \in Peers : Restart(p)

Next ==
  \/ \E w \in Workers : Work(w)
  \/ \E r \in requests : Serve(r)
  \/ \E p \in Peers, n \in 1..MaxTicks : handle_stream_tick(p, n) \/ handle_ship_ack(p, n)
  \/ \E p \in Peers \cup {NoPeer}, k \in {"FindNewMirror", "ExploreMirror"} :
       enqueue_task(Task(k, p))
  \/ Tick
  \/ Fault

Spec == Init /\ [][Next]_vars

\* A worker runs each task to its end, every call it makes has a timeout, and a
\* peer's thread does not wait between verifying and inserting.
FairSpec ==
  /\ Spec
  /\ \A w \in Workers : WF_vars(Work(w))
  /\ WF_vars(\E r \in requests : Serve(r))

-----------------------------------------------------------------------------
(* Properties *)

Kinds == {"FindNewMirror", "InitiateDump", "StartStream", "ExploreMirror", "ExpireMirror"}

\* MirrorState, the workers' locals and the peers' stores hold values of their types.
TypeOK ==
  /\ queue \in Seq([kind : Kinds, mirror : Peers \cup {NoPeer}])
  /\ mirrors \in SUBSET Peers
  /\ health_failures \in [Peers -> Nat]
  /\ ticks \in Nat
  /\ pc \in [Workers -> {"idle", "find", "known", "announce", "accepted", "enrolled",
                         "dump", "send", "chunk", "complete", "probe", "expire",
                         "forget", "refill"}]
  /\ job \in [Workers -> [mirror : Peers \cup {NoPeer}, candidates : SUBSET Peers,
                          next : Nat, total : Nat, intact : BOOLEAN]]
  /\ requests \in SUBSET [owner : Workers \cup {NoWorker}, mirror : Peers,
                          first : Nat, last : Nat, verified : BOOLEAN]
  /\ store \in [Peers -> SUBSET Nat]
  /\ posted \in Nat /\ clients \in Nat /\ faults \in Nat
  /\ promised \in [Peers -> Nat] /\ owed \in [Peers -> Nat]
  /\ streak \in [Peers -> Nat] /\ run \in [Peers -> Nat]

\* What a peer holds is a gap-free beginning of the source's calendar, however
\* dumps, streamed records, batches, timeouts and restarts interleave between the
\* check of a record and its insertion.
MirrorHoldsPrefix ==
  \A p \in Peers : \E n \in 0..ticks : store[p] = 1..n

\* "Upper-bound mirror count target. `FindNewMirror` stops when reached."
AtMostTarget == Cardinality(mirrors) <= TargetMirrors

\* Each worker compares the active set with the target on its own, so together
\* they overshoot it, by at most one mirror for every other worker, whatever
\* expires and enrols meanwhile.
BoundedOvershoot == Cardinality(mirrors) <= TargetMirrors + Cardinality(Workers) - 1

\* A dump that was reported complete is: the peer holds every record of it, even
\* when another dump, a streamed record or a late request of an aborted dump
\* interfered, unless it restarted since the dump began.
CompleteDumpArrived == \A p \in Peers : promised[p] <= Cardinality(store[p])

DumpPending(p) ==
  \/ \E i \in DOMAIN queue : queue[i] = Task("InitiateDump", p)
  \/ \E w \in Workers : job[w].mirror = p /\ pc[w] \in {"enrolled", "dump", "send", "chunk", "complete"}

\* Two workers may enrol the same peer and dump to it at once; one of the dumps is
\* refused and aborted, never both: without faults and other senders, a mirror that
\* has no dump pending holds every record there was when it enrolled first.
OneDumpGetsThrough ==
  faults = 0 /\ clients = 0 =>
    \A p \in mirrors : DumpPending(p) \/ owed[p] <= Cardinality(store[p])

\* "After N=3 consecutive failures, the worker enqueues ExpireMirror": a mirror is
\* dropped only if that many probes in a row failed at some time, even with several
\* workers probing it.
OnlyFailingExpire ==
  [][\A p \in mirrors \ mirrors' : streak[p] >= MaxHealthFailures]_vars

\* An expiry that leaves too few mirrors leads to a new search, even when several
\* workers expire mirrors at once.
ExpiryRefills ==
  (\E w \in Workers : pc[w] \in {"forget", "refill"}) /\ Cardinality(mirrors) < MinMirrors
    ~> (\E w \in Workers : pc[w] = "find") \/ Cardinality(mirrors) >= MinMirrors
=============================================================================
