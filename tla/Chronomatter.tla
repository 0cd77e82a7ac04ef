----------------------------- MODULE Chronomatter -----------------------------
(***************************************************************************)
(* The tick engine of a time being (core-engine/src/chronomatter/mod.rs)   *)
(* with the calendar that observes it.  stamp() runs on the threads that   *)
(* serve requests, daemon_tick() on the timer task, and nothing serialises *)
(* them: the counters are atomics, the keypairs sit behind an RwLock that  *)
(* every step takes and releases on its own, and the calendar behind       *)
(* another.  Each action below is one such atomic access, in the order of  *)
(* the code.                                                               *)
(*                                                                         *)
(* Keys are numbered in the order they are generated.  A signature is the  *)
(* key that made it together with the message it covers, so it verifies    *)
(* exactly under that key and for that message (external: Ed25519).        *)
(***************************************************************************)
EXTENDS Naturals, Sequences, FiniteSets, Functions

CONSTANTS
  Stampers,     \* threads that call stamp()
  Daemons,      \* timer tasks start_daemon() may spawn
  NoDaemon,     \* daemon_handle = None
  MaxTick,      \* bound: ticks handed out
  MaxFaults     \* bound: steps that fail (RNG, clock, signing)

ASSUME ProcAssumption ==
  /\ Stampers \cap Daemons = {}
  /\ NoDaemon \notin Daemons
  /\ IsFiniteSet(Stampers) /\ IsFiniteSet(Daemons)
ASSUME BoundAssumption == MaxTick \in Nat /\ MaxFaults \in Nat

Procs == Stampers \cup Daemons

VARIABLES
  current_tick,         \* AtomicU64
  keypairs,             \* the keys retained, oldest first
  chronon_stamp_count,  \* AtomicU64
  is_dormant,           \* AtomicBool
  daemon_handle,        \* the task stop_daemon() would abort
  daemon_tasks,         \* timer tasks whose loop is still running
  pc,                   \* where each call stands
  call,                 \* the local variables of each call
  calendar,             \* the observer's ticks: a sequence of records
  births,               \* history: births[k] is current_tick when key k appeared
  issued,               \* history: the stamps returned, [tick, key]
  stamp_calls,          \* history: stamp() calls that were counted
  overlapped,           \* history: two calls have been under way at once
  faults                \* history: steps that failed

vars == <<current_tick, keypairs, chronon_stamp_count, is_dormant,
          daemon_handle, daemon_tasks, pc, call, calendar, births, issued,
          stamp_calls, overlapped, faults>>

history == <<issued, stamp_calls, overlapped>>
daemon  == <<daemon_handle, daemon_tasks>>

-----------------------------------------------------------------------------
(* Records and signatures *)

Signature(key, msg) == [key |-> key, msg |-> msg]

\* The nonce is left out: it is stored in the record and only read back.
auto_attestation_blob(a_tick, a_pk, b_tick, b_pk, stamps) ==
  [a_tick |-> a_tick, a_pk |-> a_pk, b_tick |-> b_tick, b_pk |-> b_pk,
   stamps |-> stamps]

\* The blob of a call.  The genesis tick attests to itself.
CallBlob(c) ==
  IF c.tick = 1
  THEN auto_attestation_blob(1, c.new_pub, 1, c.new_pub, c.stamps)
  ELSE auto_attestation_blob(c.tick - 1, c.prev_pub, c.tick, c.new_pub, c.stamps)

ChrononRecord(c) ==
  [chronon_number |-> c.tick,
   public_key |-> c.new_pub,
   forward_foretis |-> Signature(c.forward, CallBlob(c)),
   backward_foretis |-> Signature(c.backward, CallBlob(c)),
   chronon_stamp_count |-> c.stamps]

\* In a calendar curr is never tick 1, so the genesis branch is not reached.
verify_pair(prev, curr) ==
  LET blob == auto_attestation_blob(prev.chronon_number, prev.public_key,
                                    curr.chronon_number, curr.public_key,
                                    curr.chronon_stamp_count)
  IN  /\ curr.forward_foretis = Signature(prev.public_key, blob)
      /\ curr.backward_foretis = Signature(curr.public_key, blob)

integrity_check(cal) == \A i \in 1..Len(cal) - 1 : verify_pair(cal[i], cal[i + 1])

\* CalendarLookup::get(n, 1): the first record numbered n or more, as a set of
\* at most one index.
FirstFrom(cal, n) ==
  {i \in DOMAIN cal : /\ cal[i].chronon_number >= n
                      /\ \A j \in 1..i - 1 : cal[j].chronon_number < n}

\* tick::verify for a stamp: content hash intact, signature under the key of
\* the record that get() returns.
verify(stamp, cal) ==
  \E i \in FirstFrom(cal, stamp.tick) : cal[i].public_key = stamp.key

\* Mutant: the order is not checked.
CanAppendAnything(cal, n) == TRUE

\* Calendar::append refuses a number that is not strictly greater.
CanAppend(cal, n) == Len(cal) = 0 \/ cal[Len(cal)].chronon_number < n

-----------------------------------------------------------------------------
(* Keypairs: `keypair_pub(i)` and `sign_with_keypair(i)` count from the end. *)

NewKey == Len(births) + 1
\* Mutant: one key too many survives.
RetainThree(s) == IF Len(s) > 3 THEN Tail(s) ELSE s
Retain(s) == IF Len(s) > 2 THEN Tail(s) ELSE s
keypair(i) == keypairs[Len(keypairs) - i]

-----------------------------------------------------------------------------
Idle == [tick |-> 0, new_pub |-> 0, sig |-> 0, stamps |-> 0, prev_pub |-> 0,
         forward |-> 0, backward |-> 0]

Init ==
  /\ current_tick = 0
  /\ keypairs = << >>
  /\ chronon_stamp_count = 0
  /\ is_dormant = FALSE
  /\ daemon_handle = NoDaemon
  /\ daemon_tasks = {}
  /\ pc = [p \in Procs |-> "idle"]
  /\ call = [p \in Procs |-> Idle]
  /\ calendar = << >>
  /\ births = << >>
  /\ issued = {}
  /\ stamp_calls = 0
  /\ overlapped = FALSE
  /\ faults = 0

Goto(p, from, to) == pc[p] = from /\ pc' = [pc EXCEPT ![p] = to]
Return(p) == pc' = [pc EXCEPT ![p] = "idle"] /\ call' = [call EXCEPT ![p] = Idle]

\* Bound: no call starts once the ticks it may claim would pass MaxTick.
Room == current_tick + Cardinality({p \in Procs : pc[p] = "claim"}) < MaxTick

\* stamp() / daemon_tick(): the dormancy check.  A refused call changes nothing.
Begin(p) ==
  /\ p \in Stampers \cup daemon_tasks
  /\ ~is_dormant
  /\ Room
  /\ Goto(p, "idle", "claim")
  /\ overlapped' = (overlapped \/ \E q \in Procs \ {p} : pc[q] # "idle")
  /\ UNCHANGED <<current_tick, keypairs, chronon_stamp_count, is_dormant, daemon,
                 call, calendar, births, issued, stamp_calls, faults>>

\* Mutant: the timer reads the counter instead of advancing it.
ClaimTickLoad(p) ==
  /\ Goto(p, "claim", IF p \in Stampers THEN "count" ELSE "generate")
  /\ current_tick' = IF p \in Stampers THEN current_tick + 1 ELSE current_tick
  /\ call' = [call EXCEPT ![p].tick = current_tick + 1]
  /\ UNCHANGED <<keypairs, chronon_stamp_count, is_dormant, daemon, calendar,
                 births, history, faults>>

ClaimTick(p) ==
  /\ Goto(p, "claim", IF p \in Stampers THEN "count" ELSE "generate")
  /\ current_tick' = current_tick + 1
  /\ call' = [call EXCEPT ![p].tick = current_tick + 1]
  /\ UNCHANGED <<keypairs, chronon_stamp_count, is_dormant, daemon, calendar,
                 births, history, faults>>

CountStamp(p) ==
  /\ Goto(p, "count", "generate")
  /\ chronon_stamp_count' = chronon_stamp_count + 1
  /\ stamp_calls' = stamp_calls + 1
  /\ UNCHANGED <<current_tick, keypairs, is_dormant, daemon, call, calendar,
                 births, issued, overlapped, faults>>

\* Mutant: two keys are enough, no further one is generated.
GenerateKeyTwice(p) ==
  /\ Goto(p, "generate", "pub")
  /\ keypairs' = IF Len(keypairs) < 2 THEN Append(keypairs, NewKey) ELSE keypairs
  /\ births' = IF Len(keypairs) < 2 THEN Append(births, current_tick) ELSE births
  /\ UNCHANGED <<current_tick, chronon_stamp_count, is_dormant, daemon, call,
                 calendar, history, faults>>

GenerateKey(p) ==
  /\ Goto(p, "generate", "pub")
  /\ keypairs' = Retain(Append(keypairs, NewKey))
  /\ births' = Append(births, current_tick)
  /\ UNCHANGED <<current_tick, chronon_stamp_count, is_dormant, daemon, call,
                 calendar, history, faults>>

\* The newest key, which another thread may have generated meanwhile.
ReadNewPub(p) ==
  /\ Goto(p, "pub", IF p \in Stampers THEN "sign" ELSE "swap")
  /\ call' = [call EXCEPT ![p].new_pub = keypair(0)]
  /\ UNCHANGED <<current_tick, keypairs, chronon_stamp_count, is_dormant, daemon,
                 calendar, births, history, faults>>

\* Mutant: the stamp is signed by the previous key.
SignForetisPrevious(p) ==
  /\ Goto(p, "sign", "swap")
  /\ call' = [call EXCEPT ![p].sig = IF Len(keypairs) >= 2 THEN keypair(1) ELSE keypair(0)]
  /\ UNCHANGED <<current_tick, keypairs, chronon_stamp_count, is_dormant, daemon,
                 calendar, births, history, faults>>

SignForetis(p) ==
  /\ Goto(p, "sign", "swap")
  /\ call' = [call EXCEPT ![p].sig = keypair(0)]
  /\ UNCHANGED <<current_tick, keypairs, chronon_stamp_count, is_dormant, daemon,
                 calendar, births, history, faults>>

\* Mutant: one stamp is subtracted instead of all.
SwapStampCountSub(p) ==
  /\ Goto(p, "swap", IF call[p].tick = 1 THEN "genesis" ELSE "prev")
  /\ call' = [call EXCEPT ![p].stamps = chronon_stamp_count]
  /\ chronon_stamp_count' = chronon_stamp_count - 1
  /\ UNCHANGED <<current_tick, keypairs, is_dormant, daemon, calendar, births,
                 history, faults>>

\* Mutant: the counter is read and not reset.
SwapStampCountLoad(p) ==
  /\ Goto(p, "swap", IF call[p].tick = 1 THEN "genesis" ELSE "prev")
  /\ call' = [call EXCEPT ![p].stamps = chronon_stamp_count]
  /\ UNCHANGED <<current_tick, keypairs, chronon_stamp_count, is_dormant, daemon,
                 calendar, births, history, faults>>

SwapStampCount(p) ==
  /\ Goto(p, "swap", IF call[p].tick = 1 THEN "genesis" ELSE "prev")
  /\ call' = [call EXCEPT ![p].stamps = chronon_stamp_count]
  /\ chronon_stamp_count' = 0
  /\ UNCHANGED <<current_tick, keypairs, is_dormant, daemon, calendar, births,
                 history, faults>>

\* Tick 1: one signature by the newest key serves both directions.
SignGenesis(p) ==
  /\ Goto(p, "genesis", "notify")
  /\ call' = [call EXCEPT ![p].forward = keypair(0), ![p].backward = keypair(0)]
  /\ UNCHANGED <<current_tick, keypairs, chronon_stamp_count, is_dormant, daemon,
                 calendar, births, history, faults>>

ReadPrevPub(p) ==
  /\ Len(keypairs) >= 2
  /\ Goto(p, "prev", "forward")
  /\ call' = [call EXCEPT ![p].prev_pub = keypair(1)]
  /\ UNCHANGED <<current_tick, keypairs, chronon_stamp_count, is_dormant, daemon,
                 calendar, births, history, faults>>

\* Mutant: the call waits for a previous key.
MissingPreviousWaits(p) ==
  /\ pc[p] = "prev"
  /\ Len(keypairs) < 2
  /\ UNCHANGED vars

\* "missing previous keypair": the call fails, its tick and its stamp count gone.
MissingPrevious(p) ==
  /\ pc[p] = "prev"
  /\ Len(keypairs) < 2
  /\ Return(p)
  /\ UNCHANGED <<current_tick, keypairs, chronon_stamp_count, is_dormant, daemon,
                 calendar, births, history, faults>>

\* Mutant: the newest key signs forward.
SignForwardNewest(p) ==
  /\ Goto(p, "forward", "backward")
  /\ call' = [call EXCEPT ![p].forward = keypair(0)]
  /\ UNCHANGED <<current_tick, keypairs, chronon_stamp_count, is_dormant, daemon,
                 calendar, births, history, faults>>

SignForward(p) ==
  /\ Goto(p, "forward", "backward")
  /\ call' = [call EXCEPT ![p].forward = keypair(1)]
  /\ UNCHANGED <<current_tick, keypairs, chronon_stamp_count, is_dormant, daemon,
                 calendar, births, history, faults>>

SignBackward(p) ==
  /\ Goto(p, "backward", "notify")
  /\ call' = [call EXCEPT ![p].backward = keypair(0)]
  /\ UNCHANGED <<current_tick, keypairs, chronon_stamp_count, is_dormant, daemon,
                 calendar, births, history, faults>>

\* Mutant: a late record is inserted where it belongs.
NotifyObserverSorted(p) ==
  LET n == call[p].tick
  IN  /\ pc[p] = "notify"
      /\ calendar' = SelectSeq(calendar, LAMBDA r : r.chronon_number < n)
                     \o <<ChrononRecord(call[p])>>
                     \o SelectSeq(calendar, LAMBDA r : r.chronon_number > n)
      /\ issued' = IF p \in Stampers
                   THEN issued \cup {[tick |-> n, key |-> call[p].sig]} ELSE issued
      /\ Return(p)
      /\ UNCHANGED <<current_tick, keypairs, chronon_stamp_count, is_dormant, daemon,
                     births, stamp_calls, overlapped, faults>>

\* on_tick_advance: an append the calendar refuses is only logged, and the
\* stamp is returned all the same.
NotifyObserver(p) ==
  /\ pc[p] = "notify"
  /\ calendar' = IF CanAppend(calendar, call[p].tick)
                 THEN Append(calendar, ChrononRecord(call[p])) ELSE calendar
  /\ issued' = IF p \in Stampers
               THEN issued \cup {[tick |-> call[p].tick, key |-> call[p].sig]}
               ELSE issued
  /\ Return(p)
  /\ UNCHANGED <<current_tick, keypairs, chronon_stamp_count, is_dormant, daemon,
                 births, stamp_calls, overlapped, faults>>

\* Steps that return an error early: key generation; the clock or the foretis
\* signature; the genesis signature; the nonce or a signature of the attestation.
CanFail(p) ==
  \/ pc[p] \in {"generate", "sign", "genesis", "forward", "backward"}
  \/ pc[p] = "swap" /\ call[p].tick = 1

\* Mutant: a failed call gives its tick back.
FailReturnsTick(p) ==
  /\ faults < MaxFaults
  /\ CanFail(p)
  /\ faults' = faults + 1
  /\ current_tick' = current_tick - 1
  /\ Return(p)
  /\ UNCHANGED <<keypairs, chronon_stamp_count, is_dormant, daemon, calendar, births,
                 history>>

Fail(p) ==
  /\ faults < MaxFaults
  /\ CanFail(p)
  /\ faults' = faults + 1
  /\ Return(p)
  /\ UNCHANGED <<current_tick, keypairs, chronon_stamp_count, is_dormant, daemon,
                 calendar, births, history>>

set_dormant(d) ==
  /\ is_dormant # d
  /\ is_dormant' = d
  /\ UNCHANGED <<current_tick, keypairs, chronon_stamp_count, daemon, pc, call,
                 calendar, births, history, faults>>

\* A second start overwrites the handle and leaves the first loop running.
start_daemon(d) ==
  /\ d \notin daemon_tasks
  /\ pc[d] = "idle"
  /\ daemon_tasks' = daemon_tasks \cup {d}
  /\ daemon_handle' = d
  /\ UNCHANGED <<current_tick, keypairs, chronon_stamp_count, is_dormant, pc, call,
                 calendar, births, history, faults>>

\* abort() takes effect at the loop's await: a tick under way completes.
stop_daemon ==
  /\ daemon_handle # NoDaemon
  /\ daemon_tasks' = daemon_tasks \ {daemon_handle}
  /\ daemon_handle' = NoDaemon
  /\ UNCHANGED <<current_tick, keypairs, chronon_stamp_count, is_dormant, pc, call,
                 calendar, births, history, faults>>

\* The steps of a call once it has begun.
Step(p) ==
  \/ ClaimTick(p) \/ CountStamp(p) \/ GenerateKey(p) \/ ReadNewPub(p)
  \/ SignForetis(p) \/ SwapStampCount(p) \/ SignGenesis(p) \/ ReadPrevPub(p)
  \/ MissingPrevious(p) \/ SignForward(p) \/ SignBackward(p) \/ NotifyObserver(p)
  \/ Fail(p)

Next ==
  \/ \E p \in Procs : Begin(p) \/ Step(p)
  \/ \E d \in BOOLEAN : set_dormant(d)
  \/ \E d \in Daemons : start_daemon(d)
  \/ stop_daemon

Spec == Init /\ [][Next]_vars

\* A thread that is inside stamp() or daemon_tick() never awaits: it runs on.
FairSpec == Spec /\ \A p \in Procs : WF_vars(Step(p))

-----------------------------------------------------------------------------
(* Properties *)

Calls == [tick : Nat, new_pub : Nat, sig : Nat, stamps : Nat, prev_pub : Nat,
          forward : Nat, backward : Nat]

Blobs == [a_tick : Nat, a_pk : Nat, b_tick : Nat, b_pk : Nat, stamps : Nat]
Signatures == [key : Nat, msg : Blobs]
Records == [chronon_number : Nat, public_key : Nat, forward_foretis : Signatures,
            backward_foretis : Signatures, chronon_stamp_count : Nat]

PCs == {"idle", "claim", "count", "generate", "pub", "sign", "swap", "genesis",
        "prev", "forward", "backward", "notify"}

\* The variables of Chronomatter and Calendar hold values of their Rust types.
TypeOK ==
  /\ current_tick \in Nat
  /\ keypairs \in Seq(Nat)
  /\ chronon_stamp_count \in Nat
  /\ is_dormant \in BOOLEAN
  /\ daemon_handle \in Daemons \cup {NoDaemon}
  /\ daemon_tasks \in SUBSET Daemons
  /\ pc \in [Procs -> PCs]
  /\ call \in [Procs -> Calls]
  /\ calendar \in Seq(Records)
  /\ births \in Seq(Nat)
  /\ issued \in SUBSET [tick : Nat, key : Nat]
  /\ stamp_calls \in Nat
  /\ overlapped \in BOOLEAN
  /\ faults \in Nat

\* Calls that hold a tick number, and those that have generated their key.
Holding == {p \in Procs : pc[p] \notin {"idle", "claim"}}
AfterKey == {p \in Holding : pc[p] \notin {"count", "generate"}}

\* A tick number is handed to one call only, however the threads of stamp()
\* and daemon_tick() interleave: two calls in flight never hold the same one,
\* and none holds one already stamped or recorded.
TicksDistinct ==
  /\ \A p, q \in Holding : call[p].tick = call[q].tick => p = q
  /\ \A p \in Holding : \A s \in issued : call[p].tick # s.tick
  /\ \A p \in Holding : \A i \in DOMAIN calendar :
       call[p].tick # calendar[i].chronon_number

\* The calendar is strictly increasing (what tick_at's binary search and
\* load-time verification rely on), and holds only ticks handed out.
CalendarOrdered ==
  /\ \A i, j \in DOMAIN calendar :
       i < j => calendar[i].chronon_number < calendar[j].chronon_number
  /\ \A i \in DOMAIN calendar : calendar[i].chronon_number \in 1..current_tick

\* Exactly the newest two keys are retained (REQ-Z4.3), in order: a key older
\* than the previous one can sign nothing more.
NewestKeysRetained ==
  /\ Len(keypairs) = IF Len(births) < 2 THEN Len(births) ELSE 2
  /\ \A i \in DOMAIN keypairs : keypairs[i] = Len(births) - Len(keypairs) + i

KeyNotBefore(k, n) == k \in DOMAIN births /\ births[k] >= n

\* Backdating is impossible: the key that signs a stamp of tick n, the key a
\* record of tick n publishes and the key that signs it backward all came into
\* being after tick n had been handed out, even when threads swap keys.
BackdateProof ==
  /\ \A s \in issued : KeyNotBefore(s.key, s.tick)
  /\ \A i \in DOMAIN calendar :
       LET r == calendar[i] IN
       /\ KeyNotBefore(r.public_key, r.chronon_number)
       /\ KeyNotBefore(r.backward_foretis.key, r.chronon_number)

\* Forward and backward signatures are made in two lock acquisitions; keys
\* generated in between may shift both, but the forward signer is always
\* strictly older than the backward signer, and not older than the previous
\* key the blob names.
LinksPointBackwards ==
  \A i \in DOMAIN calendar :
    LET r == calendar[i] IN
    r.chronon_number > 1 =>
      /\ r.forward_foretis.key < r.backward_foretis.key
      /\ r.forward_foretis.msg.a_pk <= r.forward_foretis.key

\* The calendar is append-only: no step changes or removes a record.
CalendarAppendOnly ==
  [][/\ Len(calendar') >= Len(calendar)
     /\ \A i \in DOMAIN calendar : calendar'[i] = calendar[i]]_calendar

\* Every call that got past the dormancy check returns (no lock is held across
\* steps, so no call waits for another).
CallsReturn == \A p \in Procs : pc[p] = "claim" ~> pc[p] = "idle"

\* "It cryptographically proves that a message existed at a specific tick in a
\* specific calendar": a stamp that stamp() returned verifies against the
\* calendar at once and from then on.
IssuedStampVerifies == \A s \in issued : verify(s, calendar)

\* Each tick of the calendar has its own keypair.
EachTickOwnKey ==
  \A i, j \in DOMAIN calendar :
    calendar[i].public_key = calendar[j].public_key => i = j

\* When no call is under way, every tick handed out has been recorded.
EveryTickRecorded ==
  (\A p \in Procs : pc[p] = "idle") =>
    \A n \in 1..current_tick :
      \E i \in DOMAIN calendar : calendar[i].chronon_number = n

\* Calls that follow one another keep the whole promise of the calendar, however
\* many ticks, dormancies and restarts of the timer lie between them: stamps
\* verify, no key serves two ticks, and as long as no step has failed every tick
\* is recorded and integrity_check() passes.
SequentialSound ==
  ~overlapped =>
    /\ IssuedStampVerifies
    /\ EachTickOwnKey
    /\ faults = 0 => EveryTickRecorded /\ integrity_check(calendar)

\* The stamps that records count and calls hold, and all there are anywhere.
Recorded(cal) == [i \in DOMAIN cal |-> cal[i].chronon_stamp_count]
Held(c) == [p \in Procs |-> c[p].stamps]
StampTotal ==
  SumFunctionOnSet(Recorded(calendar), DOMAIN calendar)
    + SumFunctionOnSet(Held(call), Procs) + chronon_stamp_count

\* The stamp counter is drained by whichever tick comes first and a failed or
\* refused tick loses what it drained, but no stamp is counted twice: what the
\* calendar records, what calls hold and what is pending never exceeds the
\* stamps taken, and while nothing was lost it is exactly that.
StampsCountedOnce ==
  /\ StampTotal <= stamp_calls
  /\ Len(calendar) = current_tick => StampTotal = stamp_calls

-----------------------------------------------------------------------------
(* What the ticks look like from outside: see TickLog. *)

Log == INSTANCE TickLog WITH
  handed_out <- current_tick,
  unsettled <- {call[p].tick : p \in Holding},
  log <- [i \in DOMAIN calendar |-> calendar[i].chronon_number],
  stamped <- {s.tick : s \in issued}

\* Every interleaving of stamp(), daemon_tick() and failures keeps the promise
\* of TickLog.
RefinesTickLog == Log!Spec
=============================================================================
