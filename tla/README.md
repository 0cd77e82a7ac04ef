# A verification of Foretias

Foretias is a distributed time-stamping system. Every node is a *time being*: it
counts ticks, makes a fresh Ed25519 key for each tick, signs with it the stamps
of that tick and a link to the key of the tick before, and records the tick in
its *calendar*. Whoever has the calendar can check that a message existed at a
tick. Nodes copy (mirror) each other's calendars, look each other up in a DHT,
watch for a second node with the same identity, and report on each other.

This directory holds TLA+ models of the code under `src/p2p`, TLC configurations
that check them on small instances, and TLAPS proofs. `PROJECT.json` lists the
runs, the source lines behind every definition, the hazards and the theorems.

    tlc -config MCChronomatter.cfg MCChronomatter     # one run
    tlc -config MCNode.cfg MCNode                     # the node among its peers, minutes
    tlc -config MCCalendar.cfg MCCalendar             # its file, sessions and mirrors
    tlapm ChronomatterProofs.tla                      # the proofs of one module

## 1. Inventory

| Component | State | Operations | Where it is hard | Correct when | Module |
|---|---|---|---|---|---|
| **Chronomatter** `core-engine/src/chronomatter/mod.rs` | tick counter, last two key pairs, stamp counter, dormancy flag, timer handle | `stamp`, `daemon_tick`, `start_daemon`, `stop_daemon`, `set_dormant`, `verify`, `integrity_check` | `stamp` on several request threads and the timer share everything; no lock spans a call | ticks are unique, no key signs for an earlier tick, stamps verify | `Chronomatter`, `TickLog` |
| **Calendar and tick records** `core-engine/src/foretias/calendar.rs`, `tick.rs`, `foretias-server/src/calendar/mod.rs` | the records; the observer that appends them | `append`, `get`, `tick_at`, `verify`, `verify_pair`, `integrity_check` | records arrive in the order calls finish | ordered, append-only, every link verifies | `Chronomatter`, `Service`, `Reconcile` |
| **Persistence** `calendar.rs` `save`/`load`, `server/handlers.rs`, `server/mod.rs` | `<path>`, `<path>.tmp` | save after each stamp and at shutdown, load twice on a dormant start | concurrent saves, kill at any step | what was saved survives | `CalendarPersist` |
| **Mirroring** `foretias-server/src/calendar/task_queue.rs`, `server/handlers.rs`, `foretias-client/src/calendar/mirror.rs` | task queue, active mirrors, failure counters; on a peer, the mirrored records | find, dump, probe, expire; announce, chunk, stream, ship, reconcile | four workers and the peers' threads; timeouts, restarts, forks of the source | a mirror holds a chain; enough mirrors, not too many | `Mirror`, `Reconcile` |
| **Attestation** `calendar/task_queue.rs`, `server/handlers.rs` | tasks, local and remote stamps | attest a chronon or an epoch, check a recorded one | four remote steps without retry; a request may be served twice | a completed attestation pairs two stamps of the same thing | `Attestation` |
| **Calendar store** `foretias-server/src/calendar_store`, `core/src/merkle.c` | encrypted JSONL blocks, next block id; LRU bins | append, read, migrate, query, prove; insert, touch, evict | torn lines, ids after a failed append, ranges up to the last `u64`, evictors that let go of their lock, byte accounting | no id twice, answers are exact, the byte count is the bytes | `Store`, `Merkle` |
| **Communerd** `foretias-server/src/communerd/mod.rs`, `peer_pool.rs` | lines by TBID, index, pending DHT lookups | `line_for_tbid`, `lookup_tbid`, family lookups, `shutdown_relationships` | answers matched to pending lookups, timeouts, look-up-then-insert | no lookup is forgotten, shutdown reaches every line | `Directory` |
| **Communerdette** `communerd/communerdette.rs`, `clean_auth.rs` | binding, routes, queue, liveness flags of one peer | request and gate, bind, choose a route, back off, probe | a stamp and its record come from two calls; three loops share flags without a lock | only the target's data passes; a dead peer is noticed; the end of a line releases its callers | `LineGates`, `LineQueue`, `LineLiveness`, `LineRoutes` |
| **Swarm, transports** `communerd/p2p`, `*_transport.rs`, start-up in `main.rs` | commands, DHT queries, pending requests, peers | start, register, dial, put, get, request, fall back | order of events; a timeout whose answer still comes | every waiting call is accounted for | `Swarm` |
| **RPC server and client** `server/*.rs`, `foretias-client/src`, `core/src/noise_xx.c` | sessions; the client's own calendar | one thread per connection; handshake, seal, open; stamp, verify, prove | cut or altered frames, a timeout after the work was done, stamps that overlap, a proof fetched while the calendar grows | both ends agree; a verdict is genuine | `Session`, `Service` |
| **Collision** `core-engine/src/collision/detector.rs` | nonce window | heartbeat, detect, go dormant | a heartbeat of one's own that returns late | no false alarm | `Collision` |
| **Probity** `foretias-server/src/probity` | reports, scores | report, gate, ingest, recompute | duplicates, reordering, eviction | nothing counts that nobody vouches for | `Probity` |
| **Epoch, committee, FROST** `core-engine/src/epoch` | - | schedule, select | not called by server or client | deterministic selection | not modelled |
| **Crypto primitives** | none over time | pure functions | - | - | abstract everywhere |

How they interact. `handle_stamp` (a connection's thread) calls
`Chronomatter::stamp`, which calls the observer `Calendar::on_tick_advance`, and
then saves the calendar. The timer task calls `daemon_tick`, which reaches the
same observer and saves nothing. Tasks for mirrors and attestations go through an
unbounded channel to the worker pool, which calls peers through a
`MirrorDispatcher` or a line (both are Communerd's in production). A line resolves
its peer in Communerd's directory, which asks the swarm's loop over a command
channel and gets the answers back as events; a request then goes over libp2p and,
if that fails, over Noise and JSON-RPC to the peer's handlers. What comes back
passes the line's gates before anybody uses it.

## 2. Modules

A module has the state of its component as variables with the names of the
code's fields, and one action per operation, cut where the code takes another
lock, awaits or does I/O. Signatures are pairs of a key and what is signed,
hashes are injective. Components whose state does not overlap are composed in
one TLC module with a variable `part`: a behaviour exercises one part and leaves
the others in their initial state, so that the state spaces add up instead of
multiplying. Where two components do interact, the one carries what the other
promises it: what a line does with the record that `Directory` finds is in
`LineGates`, `Service` runs two engines in the steps of `Chronomatter` that
decide which key a record holds, `Attestation` uses a line as one that fails or
passes its gates, and `CalendarPersist` relies on the append-only calendar of
`Chronomatter`.

### TickLog and Chronomatter

`TickLog` is the abstract promise: a tick number is handed out once, settled once
(recorded or dropped), the log only grows and only with larger numbers.

`Chronomatter` is the engine with its calendar; `pc` and `call` are the program
counter and the locals of each call of `stamp()` (`Stampers`) or `daemon_tick()`
(`Daemons`). **Each action is one atomic access of the code**: the dormancy check
(`Begin`), the `fetch_add` of the tick (`ClaimTick`) and of the stamp counter
(`CountStamp`), the write lock under which a key is generated and the oldest
evicted (`GenerateKey`), the read of the newest public key (`ReadNewPub`), the
signature of the stamp (`SignForetis`), the swap of the stamp counter
(`SwapStampCount`), the previous key (`ReadPrevPub`, or the error
`MissingPrevious`), the two signatures of the link (`SignForward`,
`SignBackward`), and the observer's append with the call's return
(`NotifyObserver`). `Fail` is an RNG, clock or signing error at any step that can
have one. Keys are numbered in the order they appear; hashes, nonces and times of
day are left out: nothing reads them back but to compare them. The post-quantum
co-signature of the genesis tick is made in the same steps and is not told apart.

### CalendarPersist

The file protocol: `save()` under the calendar's *read* lock (so that saves
overlap, but no append does), as open-with-truncation, two writes and a rename of
`.tmp`; the kill of the process at any step; the orderly shutdown; and the
dormant restart, which loads the file twice. A calendar is its length, since it
only grows (`CalendarAppendOnly` of Chronomatter). Files are inodes: a thread
that has `.tmp` open goes on writing after another has renamed it. Only the death
of the process is modelled; `save()` never calls fsync, so a power failure can do
more.

### Mirror

The source's worker pool and the peers. `queue`, `mirrors` and `health_failures`
are the channel and the two locked maps of `MirrorState`; a worker's task is cut
at every `await` and at every lock. `requests` are the threads of the peers: a
record is checked against the newest one held (`verify_history_dump_chunk`) in
one step and inserted (`insert_mirrored`) in another, since the code takes the
store's lock twice. A call may time out while the peer goes on with it
(`ChunkTimesOut` leaves the request without an owner), and a peer that restarts
has forgotten its mirrors (`Restart`). Record *n* verifies exactly against record
*n - 1*: this is `verify_pair` on a calendar whose chain is intact. `StartStream`
does nothing in the code; nothing in the repository sends `stream_tick` or
`ship_ack` on a source's behalf, so they are other clients' requests. A genesis
record of version 1 or more, which a mirror refuses, is left out: such a calendar
is never mirrored. The limit on mirrored calendars is one reason of
`AnnounceDeclined`.

### Reconcile

The other half of mirroring: the mirror's handlers when the *source* may crash,
come back with the calendar it saved last and go on with other keys. A record is
its branch and the branch of its predecessor, which is what `verify_pair` can
tell. All handlers of a mirror (`stream_tick`, `history_dump_chunk`,
`ship_batch`, `ship_ack`, `mirror_reconcile`, `mirror_request`, and so on) and
`integrity_check` are actions or answers; checks and inserts are separate steps.

### Attestation

The tasks `DoChrononAttestation`, `DoEpochAttestation` and `VerifyFbRecorded`, the
handlers and the observer that queue them, and the pool's four workers as
`Workers`. Each task is cut at its calls: fetch the target's latest chronon,
stamp locally, sign with the calendar's key, have the target stamp it. `wired`
says which of its three collaborators the pool was given.

### LineGates, LineQueue, LineLiveness, LineRoutes (composed in MCCommunerdette)

One line to one peer. `LineGates`: a request resolves the peer, calls it and
gates the answer; the answers are any records, stamps or proofs out of sets that
contain the right ones and ones wrong in one respect. A record of the target is
one that names its TBID: a genesis record that a peer made itself under that
TBID passes the code's gates and the model's. `LineQueue`: the priority queue
and its worker. `LineLiveness`: the loops L1 to L3, with the moment a call is
answered apart from the moment its answer is stored, and a clock that may fail
to be read. `LineRoutes`: binding status, candidates, route health and
exponential back-off with the code's wrap-around arithmetic scaled down.

### Directory, Swarm, Collision, Probity, Store, Service (composed in MCNode)

`Directory`: callers (stamping, fetching a slice, looking up a TBID or a family,
making a line) against the gossip loop that applies retrieved records and the
host that shuts lines down. `Dht` holds a genuine, a forged and an unsigned
record. `Swarm`: what `cmd_serve` starts depending on its options, the loop that
owns the swarm with its command channel, DHT queries and events, registration,
and requests to a peer over libp2p with the fall-back; libp2p is the
environment. `Collision`: processes with one identity, and gossip that delays,
repeats, reorders and forges. `Probity`: gated reports, the per-subject limit,
and the two passes of `recompute_all` in integer arithmetic. `Store`: the block
file down to the two writes of a line, with crashes that tear it, queries and
storage proofs over what can be read (`Merkle` is the C core's tree over a free
hash) in the arithmetic of a machine word (`TickModulus`, `u64` in the code),
and the LRU cache with any number of threads between its locks: `evict_to_fit`
picks, subtracts and removes in three steps, `remove` removes and subtracts in
two. `Service`: the client library at its three levels and the command line
against the node's handlers, with lost calls, timeouts and serving threads that
die. A stamp is made in the steps of the engine: the claim of the tick, the new
key, the key that is published, the key that signs, the record's way to the
calendar; those of other stamps and of the timer fall in between.

### Session (composed with CalendarPersist, Reconcile and Attestation in MCCalendar)

Noise XX with symbolic keys, hashes and nonces, both ends frame by frame, a
network that alters frames of its own connection or copies from another, and
cuts. What the ends owe each other is stated for the ends that *talk*, not for the
two ends of a connection: with four connections, frames copied crosswise join the
client's end of one to the server's end of another, each of them complete. The
attempt to prove the property for each connection brought this up; two
connections, as many as TLC can take, cannot show it.

## 3. Runs

| Run | Instance | What it shows |
|---|---|---|
| `chronomatter` | 2 request threads, timer, 3 ticks | every interleaving keeps `TicksDistinct`, `CalendarOrdered`, `NewestKeysRetained`, `BackdateProof`, `LinksPointBackwards` |
| `chronomatter_faults` | 1 thread, timer, 3 ticks, 1 failing step, fair | `StampsCountedOnce`, `SequentialSound` (calls that do not overlap keep the whole promise), `CalendarAppendOnly`, `RefinesTickLog`, `CallsReturn` |
| `chronomatter_stamp_verifies` | 2 threads | **violated**: `IssuedStampVerifies` |
| `calendar` | see *Bounds* | the file, with 3 threads, shutdown, 4 records and 2 I/O errors: `SavedSurvives`, `MainNeverRegresses`, `MainSettles`, `TmpNotOlder`, `DormantServesSaved`; and one property for each other part: `SessionAgrees`, `ReconcileMeans`, `AttestationPaired` |
| `persist_main_intact` | 2 threads | **violated**: `MainIntact` |
| `persist_leftover` | 1 thread | **violated**: `LeftoverRecovered` |
| `mirror` | 2 workers, 2 peers, target 1, 2 records, 3 tasks, 1 other sender, 1 fault | `MirrorHoldsPrefix`, `CompleteDumpArrived`, `OneDumpGetsThrough` |
| `mirror_pool` | 2 workers, 3 peers, target 1, 4 tasks, fair | `BoundedOvershoot`, `OnlyFailingExpire`, `ExpiryRefills` |
| `mirror_over_target` | 2 workers, 2 peers | **violated**: `AtMostTarget` |
| `line` | 3 commands, 3 priorities, 3 turns of the peer, answers of up to 3 records, 2 contents | `AcceptedIsAuthentic`, `ServedInOrder`, `CallersReleasedAtEnd`, `DeadPeerNoticed`, `NeverStranded` |
| `node` | see *Bounds* | one property for each part: `PendingHasWaiter`, `LookupsAccountedFor` (lookups), `ShutdownReachesRegistered` (registry), `CallsAccountedFor` (requests), `NoFalseCollision`, `OnlyVouchedCount`, `StoreSound`, `RangeAnswersExact`, `CacheAccounts`, `VerdictGenuine` |
| `registration` | as `node` | **violated**: `RegistrationValidates` |

What the violations show:

- `IssuedStampVerifies`. Two threads claim ticks 1 and 2, and the second
  generates its key and notifies the calendar first. Either both read the newest
  key, so a stamp is signed by the other tick's key, or the lower tick's record is
  refused by `append`, which is only logged. The stamp is returned and does not
  verify. `SequentialSound` shows that overlap is the only cause.
- `MainIntact`. The second thread truncates `.tmp` just before the first renames
  it, so the main file is empty until the second has written. `MainSettles` shows
  that it is repaired when all saves end, and `DormantServesSaved` that a crash in
  between leads to a refused start rather than to an older calendar.
- `LeftoverRecovered`. The first of the two loads takes a longer `.tmp` and
  deletes it; the second finds the old main file.
- `AtMostTarget`. Two searches each see too few mirrors. `BoundedOvershoot` says
  how far that goes.
- `RegistrationValidates`. A node signs its registration with the key that
  Communerd generated for itself, not with the key of the TBID the record names,
  so no other node's `validate_peer_registration` accepts it.

What the passing properties of `line`, `calendar` and `node` say is stated above
each of them in its module. Several of them name the condition under which they
hold, and that condition is the content: `StoreSound` and `RangeAnswersExact`
hold while the file can be read, and `RangeAnswersExact` names what is different
at the end of the machine word; `CacheAccounts` until a calendar is replaced by
one of another size, or one in an evictor's hands is replaced, removed or picked
by a second evictor; `VerdictGenuine` for a stamp that nothing overlapped or
whose record was kept with the key that signed it; `LookupsAccountedFor` leaves
a lookup whose own query failed to its timeout; `NoFalseCollision` while a
heartbeat comes back within the window, `ReconcileMeans` until a request of
several records meets a fork. `CallersReleasedAtEnd` promises nothing to a
caller that keeps its sender while it waits.

**Bounds.** Two concurrent calls and a timer are what it takes for one call to
have its key evicted by two others; three ticks give a genesis tick, a regular
one and a successor. The runs have one timer task; that `start_daemon` may leave
several running is covered by the theorems, which hold for any number. Three
saving threads are needed for one to truncate what a second is about to rename
while a third has the old inode open. Two records and two workers let one dump be
refused by the other's first record and a late request arrive after an abort;
three peers let the two workers enrol, expire and replace mirrors at once.

In `line`, three commands give two of equal and one of higher priority with a
shutdown overtaking one; three turns let the peer leave, come back and leave;
`BackoffCap` 3 lets the doubled delay both stay under and exceed the cap. In
`node`: two TBIDs, two callers and three calls, so that one lookup replaces
another and a third meets its late answer; four lines, so that a line lost in
the race is replaced and shut down; one other node, two requests and three
queued commands; two twins with a window of 2, a delay of 1 and three
heartbeats, so that the first nonce leaves the window; two peers, three reports
with a limit of two, and a clock that reaches every segment of the weight curve;
two appenders and three appends of blocks with and without gaps, so that one can
fail between two others, on a word of 8 numbers, of which the blocks hold the
first and the last; two calendars of sizes 1 and 2 in a cache of 1, with two
threads, so that both can be in the hands of one victim; two contents, two ticks
of each engine, so that one stamp overlaps another or the timer, and three calls
of a client with its own calendar (two stamps that overlap and a check of
either, or a stamp, a restart and a check), two of one that asks its peer (a
stamp and a check, with the timer as what overlaps them, of a node that is new
or loaded a calendar of one record), and one of one with a Communerd. In
`calendar`, besides the file: two connections, so that frames can be swapped,
and requests that succeed, fail after they ran, and name no method; three ticks
of the source and one fork; two workers with two tasks. Quantities the code
compares with a large constant keep it (`MaxIntegrityRecords`,
`MaxVerifyRecords`) or scale it down with what it is compared to (`LruModulus`,
`TickModulus`, `NonceWindow`, `Hot` to `Ancient`).

Constants commented as `bound:` occur only in guards and in the range of inputs.
Deadlock is checked except where the system may rest: when the queue is empty and
the bound on tasks, calls or commands is reached (`mirror`, `line`, `node`; in
`calendar` the file is checked for deadlock and the other parts may rest).
Symmetry is used in two safety runs, `chronomatter` and `mirror`.

**Fairness.** `Chronomatter!FairSpec`: weak fairness of each call's steps. The
functions never await and hold no lock from one step to the next, so a thread
that is inside one runs on; `Begin` is not fair, nobody has to call.
`Mirror!FairSpec`: weak fairness of each worker (a worker loops for ever, and
its calls to peers have timeouts) and of the peers' handlers (they do not wait).
Faults, ticks and requests are not fair. `QueueFairness`: the runtime polls the
worker, and nothing is asked of its callers. The worker executes nothing while a
sender lives, so a caller that holds its sender and waits for its answer may
wait for ever; what is promised is the release of everybody once the senders are
gone or a Shutdown is in the channel. `LivenessFairness`: intervals fire, calls
end by their timeouts and time passes; strong fairness only of L3's exit, which
competes with its interval in a `select!` that picks among the ready branches at
random.

Every property has a mutant: a change of one definition that a plausible bug
would make, under which TLC finds the property violated. The mutants stand before
the definition they change, and nothing else uses them. The type invariants of
`CalendarPersist` and `Mirror` are stated for the proofs and are not checked by a
run of their own.

## 4. Proofs

Every theorem is about all values of the constants: any number of threads,
connections, workers, peers, records and faults, where a run has two or three.
Each component's specification is `Init /\ [][Next]_vars` without fairness
(`Spec`, or `SessionSpec`, `QueueSpec` and so on where several components meet
in one module), and each proof has the same three parts: the initial states
satisfy an inductive invariant, every action keeps it, and it implies the
property. The invariants were checked by TLC before they were proved.
Assumptions on constants stand in the module that declares them and say no more
than their type, that sets of threads, peers or calendars are finite and
disjoint, that a limit or a word is not zero, and, for `Collision`, that a
heartbeat's delay is below the nonce window. The theorems on storage proofs say
under which hypotheses they hold: the ticks of a block are in order, and no
block holds more than 64 of them in the range
(`FORETIAS_MERKLE_MAX_RANGE_PROOF`), because `build_merkle_proofs` leaves out a
block whose range proof fails and says nothing of it. Those on ranges are about
the arithmetic of a machine word of any size, with what it does at its end.

| Module | Theorem | States | Rests on |
|---|---|---|---|
| `ChronomatterProofs` | `TypeCorrect`, `TicksNeverShared`, `CalendarStaysOrdered`, `OnlyNewestKeys`, `NoBackdating`, `LinksOrdered`, `AppendOnly`, `ImplementsTickLog` | the promises of the engine under every interleaving, and the refinement of `TickLog` | `IInv` |
| | `SequentialCallsSound` | `SequentialSound` | `SeqInv` |
| | `NoStampCountedTwice` | `StampsCountedOnce` | `StampsInv` |
| `PeerProofs` | `LineNeverStranded`, `QueueServesInOrder`, `LineReturnsAuthentic` | `NeverStranded`, `ServedInOrder`, `AcceptedIsAuthentic` | one invariant for each part of a line |
| | `MirrorsHoldPrefixes`, `CompletedDumpsArrived`, `OneOfTwoDumpsArrives`, `OvershootIsBounded`, `OnlyFailingMirrorsExpire` | the safety properties of `Mirror` | `MirrorInv` and one more part for each |
| `NodeProofs` | `DormancyHasATwin` | `NoFalseCollision` | `CollisionInv` |
| | `ScoresAreVouchedFor` | `OnlyVouchedCount` | `ProbityInv` |
| | `PendingLookupsHaveWaiters`, `NoLookupForgotten`, `ShutdownReachesLines`, `RequestsAccountedFor` | `PendingHasWaiter`, `LookupsAccountedFor`, `ShutdownReachesRegistered`, `CallsAccountedFor` | `DirectoryInv`, `AccountInv`, `SwarmInv` |
| `CalendarProofs` | `SavedCalendarSurvives`, `LeftoverIsNeverOlder`, `DormantNodeServesSaved`, `OverlappingSavesSettle`, `MainOnlyAdvances` | all five properties of the file | `IInv` of that module |
| | `MirrorAnswersMean`, `AttestationsPaired` | `ReconcileMeans`, `AttestationPaired` | `ReconcileInv`, `AttestationInv` |
| `StoreProofs` | `StoreIsSound` | `StoreSound` | `StoreInv` |
| | `CacheIsAccountedFor` | `CacheAccounts` | `CacheInv` |
| | `RangeQueriesAreExact` | of any range of the word and any file, what `RangeAnswersExact` says of range queries | `StoreInv` |
| | `StorageProofsAreExact`, `RangeAnswersAreExact` | what it says of storage proofs; `RangeAnswersExact` | `StoreInv`, `MerkleProofs` |
| `MerkleProofs` | `RangeProofsVerify`, `FromTheFirstLeaf` | a range proof verifies from where its range begins, and from leaf 0 only if it begins there | induction over the levels of the tree |
| `ClientProofs` | `VerdictsGenuine`, `SessionsAgree` | `VerdictGenuine`, `SessionAgrees` | `ServiceInv`, `SessionInv` |
| `SumTheorems` | `SumChange`, `SumRemove`, `SumNotPositive`, `QuotientBounds`, `ModAdd`, ... | what a sum over a finite set, a quotient and a wrapped count do | a least counterexample |

Why the invariants are what they are:

- *Chronomatter*, `IInv`: the properties with `HeldTicks` (what a call holds,
  and what was stamped or recorded, has been handed out, so the next tick is
  new), `OwnKeyBorn` (a call past `GenerateKey` holds a tick not later than the
  birth of the newest key, which is why reading *some* newest key is good
  enough), `LocalsFresh` (the keys a call has read were born after its tick) and
  `LinksSoFar` (they are in order, which survives newer keys because only the
  newest two sign). The refinement maps the ticks held by calls to `unsettled`;
  `ClaimTick` is `HandOut`, the end of a call `Settle`, everything else
  stutters. `SeqInv`, for calls that do not overlap: there is at most one call
  (`OneCall`), it reads the key it generated (`OwnKeys`, `KeysAscend`), and
  every stamp has its record (`StampsRecorded`, `NothingLost`).
- *CalendarPersist*, `IInv`: `TmpApart` and `TmpCurrent` say which inode a
  thread that is writing has open and what `.tmp` will hold when it is done;
  `OneWriter` and `MainSaved` tie the main file to the last save that reported
  success while saves do not overlap; `TornIsMended` says that where they do, a
  thread that will repair the main file is under way.
- *A line*: `ServedFromTheTop` and `ChannelOrdered` (what is waiting is behind
  what was served, in priority and then in turn); the gates of `LineGates` are
  followed from the call to the caller, so that a stamp and the record that
  proves it are the same peer's although two calls brought them.
- *Collision*: the window is exactly the last nonces sent (`RemembersLast`), and
  a nonce of one's own that can still arrive is one of them.
- *Directory*: a pending lookup belongs to the caller whose receiver is open
  (`PendingOpen`, `FamilyOwn`), and every line a caller can reach is registered
  or was lost in the race (`LinesOK`). `AccountInv` adds that the query of a
  lookup that waits is under way, finished with an event for its key, or failed:
  whatever takes its sender out of the map also closes its receiver or answers
  it, because the drain an answer is taken from is dropped whole. *Swarm*: a
  call is in exactly one of the places that will answer it.
- *Mirror*: a request that was verified begins at most one record past what the
  mirror holds (`RequestsOK`); mirrors and searching workers together stay below
  the target plus the number of workers (`SearchOK`); of two dumps to one peer,
  the one that sends the next record cannot be refused (`Leads`).
- *Reconcile*: the mirror's records are one chain of one branch (`Chain`,
  `OneBranch`) until a batch has met a fork (`Unmixed`), and what the source was
  told still describes it (`ToldOK`). *Attestation*: whatever the target stamps
  was signed by the calendar (`RequestsSigned`), each pair is of one task
  (`PairsMatch`), and a task is tried at most twice (`TriesBound`).
- *Service*, `ServiceInv`. Of the engines: records are in order and none is
  numbered past the ticks claimed (`RecordsOK`); a stamp that nothing overlapped
  so far is newer than its calendar, and the key it published is the one that
  will sign (`MakerOK`, `OnlyOne`), so its record is kept (`AloneKept`); a
  calendar has reached the number of every stamp it issued, unless it will never
  grow again (`IssuedOK`, `Frozen`). Of the calls: each holds the signature of
  an issued stamp or none (`SigKnown`), so a verdict "valid" means the stamp is
  intact; a verdict "invalid" that its record, under the key that signed it, is
  not where it is checked and never will be (`Hopeless`): the calendar is past
  its number, or frozen. A stamp made alone would have been kept, so it is not
  hopeless where the calendar reaches it.
- *Session*: the session state of an end is determined by its step and its peer
  (`ClientEnd`, `ServerEnd`), and only the messages of these ends are ever on
  the wire, whatever is altered or copied (`Up`, `Down`). The hash in a message
  names both ends, so whoever accepts it is the end it was meant for; the keys
  of the split name the client, so a server executes the request of the client
  it talks to, and its receiving nonce shows whether it has.

- *Sums* (`SumTheorems`). `SumFunctionOnSet` folds over a set by a function that
  is recursive on its subsets. That this function exists, and that which element
  is taken first makes no difference, is shown by the least number of elements
  for which it would not be so; the component proofs then cite `SumChange` for a
  step that changes one summand.
- *Stamp counts*, `StampsInv`: the counts in the records, held by the calls and
  still in the counter never exceed the stamps made, and equal them as long as
  every tick handed out is recorded or held by a call (`Accounts`): only a tick
  that is lost loses stamps. A call that has yet to swap the counter holds none
  (`NotYetDrained`).
- *Probity*, `ProbityInv`: every report kept is one that was said
  (`KeptWasSaid`). A sum that is not zero has a summand that is not, so a
  second-pass score rests on a report whose reporter had a first-pass score
  above zero, which rests on a report that favoured it (`ScoresFounded`).
- *Store*, `StoreInv`: while the file can be read, the ids in it are distinct,
  below the next id and different from the ids of threads that have yet to write
  (`IdsGivenOut`), and what was acknowledged is in it (`WrittenHeld`). A range
  query is exact for every file: the number `find_gaps` expects before a record
  is the one after the last record found below it. The *cache*, `CacheInv`: the
  byte count is, modulo the word, the sum of the sizes that still count and of
  what threads have removed and not yet subtracted (`BytesCounted`); unless
  `drifted`, the copy of each thread that evicts is the record, and no two
  threads hold a copy of one (`CopiesAreCurrent`); a calendar of one's own is in
  its bin (`OwnInBin`).
- *Ranges*. `find_gaps` walks the records with the number it expects next, which
  wraps behind the last number of the word only (`ExpectedIs`, `LastGap`); so
  the gaps are the others, but for those behind the last record when the range
  ends with the word, and the count of requested numbers is right, but for the
  range of all.
- *Storage proofs*. On every level of the tree the nodes of a range are those
  from `Low` to `High`. A climb from where the range begins holds exactly them,
  and the siblings it has not used are those of the levels above (`At`), so it
  ends with the root. If a climb from leaf 0 ends with the root, then,
  downwards, the first node it holds on each level is the first node of that
  level, because a hash determines what was hashed, so the range begins with the
  first leaf. Two ticks of a block in order are different leaves; a block
  therefore verifies exactly if its range begins at its first tick. The ticks in
  a range are those between `First` and `After` by order, and blocks without any
  add nothing to the sums.

Every safety property the runs check is the statement of a theorem. Only
model-checked:

- liveness under fairness, which is outside the prover: `CallsReturn`,
  `ExpiryRefills`, `DeadPeerNoticed`, `CallersReleasedAtEnd`.

## 5. Plan

Modelled: everything in the inventory but its last two rows. Proved: every safety
property the runs check. What could come next are lemmas a reader of one component
may want by themselves, above all that no other leaves than those of the tree have
a range proof that verifies against its root.

## 6. What the modelling brought to light

These are behaviours of the code that the models contain as they are.

*Lines.* In production only `mark_binding_claimed_by_dht` and the three gated
requests of a line run; the queue worker, the route choice with its back-off,
the loops L1 to L3 and channel binding run in tests. The queue executes nothing
until every sender is gone, so a caller that keeps its sender while it waits for
its answer waits for ever. The gates take the first record of a target for its
genesis on its own word: one that a peer made itself under the target's TBID
passes, with the stamps it signs. When L1 cannot read the clock it takes the
time for 0, and any earlier success for a recent one. L2's challenge is sent as
a stamp, whose answer never parses as a pong, and `binding_rejected` is never
set. The back-off arithmetic wraps in `u64`. A gated slice must begin at the
genesis record with `tb_version` 0, so a stamp of a peer past its first chronon
is refused. `verify_slow_only` and the DualKey entries of `clean_auth` name a
verifier that `from_id_string` does not know, so they always fail.

*Directory and swarm.* A retrieved record answers any lookup that is pending,
also that of a late query; `get_calendar_slice_by_tbid` does not gate what it
returns. Family lookups never succeed (the bytes are serialised twice, and
`ExternalizedBuilder::build` drops the signatures) and leak their pending entry
on a timeout. The pool tells peers apart by their JSON-RPC address, so it keeps
one peer without. Options such as `--known-servers` are ignored without
`--peers`. Communerd copies the listen address once, mostly before it is known,
so `register_and_discover` fails and the failure is dropped. A request that
fails over libp2p is repeated over JSON-RPC and may execute twice. Two callers
of `line_for_tbid` can leave a line that shutdown does not know, although
`shutdown_relationships` (`communerd/mod.rs:1422`) promises to reach all lines:
`ShutdownReachesRegistered` is about those that are still registered. An answer
drops all the lookups but one, whichever TBID they are for; the dropped ones
return without a record. Expiries of mirrors that enrolled again meanwhile are
permitted by `OnlyFailingExpire`. `start_liveness_pings`, `DhtPeerSource`, the
tiers and `tbid_handshake` are used by tests only.

*Collision and probity.* The keys of swarm and Communerd are fresh in every
process, so two nodes with one identity do not recognise each other's heartbeats
in production; `EnterDormancy` stops neither the loop nor the chronomatter.
`report_probity` names the libp2p peer id as the reporter, and other nodes drop
the report; `verify_full` checks that the slow signature is there, not that it
verifies.

*Store.* The server only reads its store. Two writers, or a crash between a line's
text and its newline, make the file unreadable for good, and the next start then
counts block ids from 0. `verify_storage_proof` verifies from leaf 0, so a proof
that starts inside a block fails, and a block with more than 64 ticks in the range
is left out of the proof without a word. A request may ask for any two `u64`
numbers, and `end - start + 1` and `end + 1` are not checked: where overflow is (a
debug build), `0..u64::MAX` and a missing `u64::MAX` end the thread; otherwise all
numbers are never complete and never verified, and a range that ends with
`u64::MAX` is silent of the numbers behind its last record. In the cache, `touch`
takes a pinned calendar out of its bin, inserting one again with another size lets
the byte count drift, the evictor removes a calendar that was inserted again after
it was picked, two evictors that pick one calendar subtract it twice, and so do an
evictor and a `remove` of its victim.

*Server and client.* The static key expected of a Noise peer is not enforced,
and the counter behind the key-wrapping nonces in `privkey.c` is a static shared
by threads without synchronisation. Of stamps that overlap, one may be refused
by the calendar or stand there under another key, and is then called invalid
although nothing in it was changed (`IssuedStampVerifies`). A dormant node
serves its calendar under a TBID of its own, and calls a stamp made after the
last save invalid. Verification across nodes never says valid: the signature
does not arrive, and slicing an empty one ends the serving thread. A P2p client
with `known_servers` only has no peer.

*Mirrors and attestation.* `hash_sanity` covers the tick numbers only, so a forked
calendar of the same length is "in sync" and "diverged" is unreachable. A mirror
that holds a record its source has lost can never follow again, and a request of
several records that meets a fork leaves a chain that does not verify. In
production the attestation pool is given neither Communerd nor Chronomatter, so
its tasks are skipped; with them, `get_chronon(u64::MAX)` yields nothing from this
server, and a target past its first chronon is refused by the line.

## 7. Not modelled

- Epochs, committees and FROST: neither server nor client calls them, and they are
  functions of their arguments.
- Cryptographic primitives, the C core's key-slot table, encodings and wire
  formats: taken to be perfect, injective, and of a fixed outcome.
- `liege.rs`, `DhtPeerSource`, the tiers, `tbid_handshake`: nothing but tests uses
  them. The parsing of configuration and options, printing, the inspection
  commands, `status` and `collision_status` change nothing.
- Envelopes of several signatures in `clean_auth`: no code makes one that passes.
- libp2p itself: it may connect, disconnect, answer, fail and lose in any order.
- Power failures: `save()` does not sync, so nothing can be promised for them.
