------------------------------ MODULE Reconcile ------------------------------
(***************************************************************************)
(* The mirror's side of replication when the source's calendar may fork    *)
(* (foretias-server/src/server/handlers.rs, MirrorStore in                 *)
(* foretias-client/src/calendar/mirror.rs).  A source that crashes starts  *)
(* again from the calendar it saved last, and goes on with other keys; a   *)
(* mirror may hold records that the source has lost.  Mirror models the    *)
(* source's workers; here its requests come in any order.                  *)
(*                                                                         *)
(* Record n of a calendar is its branch and the branch of the record       *)
(* before it, which its signatures cover.                                  *)
(***************************************************************************)
EXTENDS Naturals, Sequences, FiniteSets

CONSTANTS
  MaxSourceTicks,  \* bound: records of the source
  MaxForks,        \* bound: crashes of the source
  MaxBatches,      \* bound: requests in flight
  OwnTicks,        \* the records of the mirror's own calendar
  MaxCalendarSliceCount,
  MaxIntegrityRecords  \* most records of an integrity check (10 000)

ASSUME ReconcileAssumption ==
  /\ MaxSourceTicks \in Nat /\ MaxForks \in Nat /\ MaxBatches \in Nat /\ OwnTicks \in Nat
  /\ MaxCalendarSliceCount \in Nat /\ MaxIntegrityRecords \in Nat

VARIABLES
  source, branch,  \* the source's calendar, and the branch it is on
  mirrored,        \* the records the mirror holds for it
  batches,         \* batches not yet inserted: [next, records, checked]
  told,            \* the mirror's last answer about its state
  mixed            \* history: a request of several records met a fork

reconcileVars == <<source, branch, mirrored, batches, told, mixed>>

Record(b, after) == [branch |-> b, after |-> after]
LastBranch(cal) == IF cal = << >> THEN 0 ELSE cal[Len(cal)].branch

\* An answer: its status, the record it names, the count it gives and the
\* calendar that is counted; `branch` is the source's at that time.
NothingTold == [status |-> "none", tick |-> 0, count |-> 0, of |-> "mirrored", branch |-> 0]
ReconcileInit ==
  /\ source = <<Record(0, 0)>> /\ branch = 0 /\ mirrored = << >>
  /\ batches = {} /\ told = NothingTold /\ mixed = FALSE

-----------------------------------------------------------------------------
(* The source *)

SourceTicks ==
  /\ Len(source) < MaxSourceTicks
  /\ source' = Append(source, Record(branch, LastBranch(source)))
  /\ UNCHANGED <<branch, mirrored, batches, told, mixed>>
\* The source starts again from the first n records.
SourceForks(n) ==
  /\ branch < MaxForks /\ branch' = branch + 1
  /\ source' = SubSeq(source, 1, n)
  /\ mixed' = (mixed \/ \E b \in batches : Len(b.records) > 1)
  /\ UNCHANGED <<mirrored, batches, told>>

-----------------------------------------------------------------------------
(* The mirror's handlers *)

\* verify_pair, and Calendar::integrity_check: every pair of neighbours verifies.
verify_pair(cal, n) == cal[n].after = cal[n - 1].branch
integrity_check(cal, start, end) ==
  \A n \in DOMAIN cal : start < n /\ n <= end => verify_pair(cal, n)

\* verify_stream_tick_record and verify_history_dump_chunk: the first record
\* against the newest one held, or a genesis if none is, the others in turn.
Follows(n, r) ==
  IF mirrored = << >> THEN n = 1
  ELSE n = Len(mirrored) + 1 /\ r.after = LastBranch(mirrored)
\* verify_ship_ack_chain: a batch that starts with a genesis, checked by itself.
StartsAtGenesis(first) == first = 1
verify_ship_ack_chain(first, recs) == StartsAtGenesis(first) /\ integrity_check(recs, 1, Len(recs))

InFlight(b) == Cardinality(batches) < MaxBatches /\ batches' = batches \cup {b}
Batch(first, last, checked) ==
  [next |-> first, records |-> SubSeq(source, first, last), checked |-> checked]
Check(first, last, ok) ==
  /\ ok /\ InFlight(Batch(first, last, TRUE))
  /\ mixed' = (mixed \/ (branch > 0 /\ first < last))
  /\ UNCHANGED <<source, branch, mirrored, told>>
handle_stream_tick(n) == Check(n, n, Follows(n, source[n]))
handle_history_dump_chunk(first, last) == Check(first, last, Follows(first, source[first]))

\* handle_ship_batch answers with records of the source, which come back to the
\* mirror in a handle_ship_ack, later.
handle_ship_batch(first, count) ==
  /\ count <= MaxCalendarSliceCount
  /\ LET last == IF first + count - 1 > Len(source) THEN Len(source) ELSE first + count - 1 IN
     InFlight(Batch(first, last, FALSE))
  /\ UNCHANGED <<source, branch, mirrored, told, mixed>>
handle_ship_ack(b) ==
  /\ ~b.checked
  /\ batches' = (batches \ {b}) \cup
       (IF verify_ship_ack_chain(b.next, b.records) THEN {[b EXCEPT !.checked = TRUE]} ELSE {})
  /\ mixed' = (mixed \/ (branch > 0 /\ Len(b.records) > 1))
  /\ UNCHANGED <<source, branch, mirrored, told>>

\* insert_mirrored, one record of a request: a number that is held is skipped.
insert_mirrored(b) ==
  /\ b.checked
  /\ mirrored' = IF b.next <= Len(mirrored) THEN mirrored ELSE Append(mirrored, b.records[1])
  /\ batches' = (batches \ {b}) \cup
       (IF Len(b.records) = 1 THEN {}
        ELSE {[b EXCEPT !.next = @ + 1, !.records = Tail(@)]})
  /\ UNCHANGED <<source, branch, told, mixed>>

\* compute_hash_sanity covers the numbers of the records and nothing else.
compute_hash_sanity(cal) == DOMAIN cal

\* handle_mirror_reconcile; the peer's count and hash are those of `cal`.
\* Mutant: the newest record held is named instead of the next one.
divergence_tick_held(status) == IF status \in {"behind", "diverged"} THEN Len(mirrored) ELSE 0
divergence_tick(status) == IF status \in {"behind", "diverged"} THEN Len(mirrored) + 1 ELSE 0
ReconcileStatus(cal) ==
  IF mirrored = << >> THEN "not_mirrored"
  ELSE IF Len(mirrored) = Len(cal) /\ compute_hash_sanity(mirrored) = compute_hash_sanity(cal)
       THEN "in_sync"
  ELSE IF Len(mirrored) < Len(cal) THEN "behind"
  ELSE IF Len(mirrored) > Len(cal) THEN "ahead" ELSE "diverged"
Tells(answer) ==
  told' = [answer EXCEPT !.branch = branch] /\ UNCHANGED <<source, branch, mirrored, batches, mixed>>
handle_mirror_reconcile ==
  LET status == ReconcileStatus(source) IN
  Tells([NothingTold EXCEPT !.status = status, !.tick = divergence_tick(status),
                            !.count = Len(mirrored)])

\* can_accept_mirror: not held, and room for one more (which Mirror counts).
can_accept_mirror(room) == mirrored = << >> /\ room
mirror_tick_count == Len(mirrored)

\* mirror_request and mirror_mutual answer with the counts of the mirror's own
\* calendar, mirror_announce and history_dump_request with what is mirrored.
Accepts(room, count, of) ==
  Tells([NothingTold EXCEPT !.status = IF can_accept_mirror(room) THEN "accept" ELSE "reject",
                            !.count = IF can_accept_mirror(room) THEN count ELSE 0, !.of = of])
handle_mirror_request(room) == Accepts(room, OwnTicks, "own")
handle_mirror_mutual(room) == Accepts(room, OwnTicks, "own")
handle_mirror_announce(room) == Accepts(room, mirror_tick_count, "mirrored")
handle_history_dump_request(room, first, last) ==
  first <= last /\ Accepts(room, mirror_tick_count, "mirrored")

Counts(status) ==
  Tells([NothingTold EXCEPT !.status = status, !.tick = Len(mirrored), !.count = mirror_tick_count])
handle_history_dump_complete == Counts("complete")
handle_mirror_health_check == Counts("alive")

\* mirror_accept, stream_ack and history_dump_ack echo what they are sent.
Echoes(count) == Tells([NothingTold EXCEPT !.status = "echo", !.count = count, !.of = "caller"])
handle_mirror_accept == Echoes(Len(source))
handle_stream_ack(n) == Echoes(n)
handle_history_dump_ack == Echoes(0)

\* integrity_check of the source's own calendar: the numbers of the pairs that
\* were checked and fail.
chronomatter_integrity_check(start, end) ==
  {n \in 2..Len(source) : /\ start < n /\ n <= end /\ n < start + MaxIntegrityRecords
                          /\ ~verify_pair(source, n)}
handle_integrity_check(start, end) == [all_valid |-> chronomatter_integrity_check(start, end) = {}]

Asked ==
  \/ handle_mirror_reconcile \/ handle_history_dump_complete \/ handle_mirror_health_check
  \/ handle_mirror_accept \/ handle_history_dump_ack
  \/ \E n \in DOMAIN source : handle_stream_ack(n)
  \/ \E room \in BOOLEAN :
       \/ handle_mirror_request(room) \/ handle_mirror_mutual(room) \/ handle_mirror_announce(room)
       \/ \E first, last \in {1, Len(source)} : handle_history_dump_request(room, first, last)

ReconcileNext ==
  \/ SourceTicks \/ (\E n \in DOMAIN source : SourceForks(n))
  \/ \E n \in DOMAIN source : handle_stream_tick(n)
  \/ \E first, last \in DOMAIN source : first < last /\ handle_history_dump_chunk(first, last)
  \/ \E first \in DOMAIN source, count \in 1..MaxSourceTicks : handle_ship_batch(first, count)
  \/ \E b \in batches : handle_ship_ack(b) \/ insert_mirrored(b)
  \/ Asked

ReconcileSpec == ReconcileInit /\ [][ReconcileNext]_reconcileVars

-----------------------------------------------------------------------------
(* Properties *)

\* "behind" names a record that, as long as neither side has changed since, the
\* source has and the mirror takes next; without forks "in sync" means the same
\* calendar; what a mirror holds is one chain from the genesis, whatever crashed
\* and raced, unless a request of several records met a fork (a held number is
\* skipped and its successor is not checked again); a calendar that forked is
\* never called diverged; and the source's own calendar passes integrity_check
\* over every range, however often it has started again.
ReconcileMeans ==
  /\ told.status # "diverged"
  /\ told.status = "behind" /\ told.branch = 0 /\ branch = 0 /\ told.count = Len(mirrored) =>
       told.tick \in DOMAIN source /\ Follows(told.tick, source[told.tick])
  /\ told.of = "mirrored" => told.count <= Len(mirrored)
  /\ branch = 0 => mirrored = SubSeq(source, 1, Len(mirrored))
  /\ ~mixed => integrity_check(mirrored, 1, Len(mirrored))
  /\ \A start \in 0..Len(source), end \in DOMAIN source : handle_integrity_check(start, end).all_valid
=============================================================================
