-------------------------------- MODULE Store --------------------------------
(***************************************************************************)
(* The calendar store (foretias-server/src/calendar_store): a file of      *)
(* sealed blocks of ticks, one to a line, appended by threads that share   *)
(* nothing but the next block id; storage proofs and range queries over    *)
(* it; and the cache of other nodes' calendars, sorted into bins.          *)
(*                                                                         *)
(* A line of the file is what was written up to a newline: blocks, and the *)
(* remains of a write that a crash cut short.  Only a line that is exactly *)
(* one block decodes.                                                      *)
(***************************************************************************)
EXTENDS Naturals, Sequences, FiniteSets, FiniteSetsExt, SequencesExt, Merkle

CONSTANTS
  Appenders,    \* threads that appender
  Runs,         \* the ticks of a block: sequences of numbers
  MaxAppends,   \* bound: blocks begun
  TickModulus,  \* the machine word of tick numbers, 2^64 in the code
  Calendars,    \* calendars in the cache
  CacheThreads, \* threads that call the cache
  Sizes, Budget,
  LruModulus,   \* the machine word of the cache's sums, 2^64 in the code
  StaleThreshold,
  MaxClock      \* bound: the cache's clock

ASSUME StoreAssumption ==
  TickModulus \in Nat \ {0} /\ Runs \subseteq Seq(0..(TickModulus - 1))

VARIABLES
  file,          \* lines; the last one is open when it is not empty
  next_block_id,
  appender,        \* per thread: [pc, id, ticks]
  appends,
  acknowledged,  \* history: the appends that returned Ok, [id, ticks]
  lru, current_bytes,
  lru_clock,
  cache_call,    \* per thread: [pc, calendar, size, incoming, now]
  own,           \* history: calendars inserted as MyOwn and not touched since
  drifted        \* history: the count of bytes may be off

storeVars == <<file, next_block_id, appender, appends, acknowledged>>
lruVars == <<lru, current_bytes, lru_clock, cache_call, own, drifted>>

NotAppending == [pc |-> "idle", id |-> 0, ticks |-> << >>]
Torn == [id |-> 0, ticks |-> << >>, whole |-> FALSE]
Block(id, ticks) == [id |-> id, ticks |-> ticks, whole |-> TRUE]

StoreInit ==
  /\ file = << << >> >> /\ next_block_id = 0
  /\ appender = [a \in Appenders |-> NotAppending] /\ appends = 0 /\ acknowledged = {}

-----------------------------------------------------------------------------
(* The file *)

\* Blank lines are skipped; one line that does not decode fails the whole read.
\* What is read are the blocks by the numbers of their lines.
Lines(f) == {i \in DOMAIN f : f[i] # << >>}
Decodes(l) == Len(l) = 1 /\ l[1].whole
Readable(f) == \A i \in Lines(f) : Decodes(f[i])
read_all(f) == [i \in Lines(f) |-> f[i][1]]

\* One more than the highest id, and 0 if anything is unreadable.
\* Mutant: the highest id itself.
compute_next_block_id_same(f) ==
  IF ~Readable(f) \/ Lines(f) = {} THEN 0 ELSE Max({b.id : b \in Range(read_all(f))})
compute_next_block_id(f) ==
  IF ~Readable(f) \/ Lines(f) = {} THEN 0 ELSE Max({b.id : b \in Range(read_all(f))}) + 1

OnLastLine(f, x) == [f EXCEPT ![Len(f)] = Append(@, x)]

\* append_block takes an id; the clock, the Merkle root or the sealing may fail.
append_block(a, ticks) ==
  /\ appender[a].pc = "idle" /\ appends < MaxAppends /\ appends' = appends + 1
  /\ next_block_id' = next_block_id + 1
  /\ appender' = [appender EXCEPT ![a] = [pc |-> "text", id |-> next_block_id, ticks |-> ticks]]
  /\ UNCHANGED <<file, acknowledged>>
\* migrate_plaintext appends the ticks of a v0.1 calendar as one block.
migrate_plaintext(a, ticks) == ticks # << >> /\ append_block(a, ticks)
\* An I/O error may come after a part of the text, or before the newline.
AppendFails(a, torn) ==
  /\ appender[a].pc \in (IF torn THEN {"text"} ELSE {"text", "newline"})
  /\ file' = IF torn THEN OnLastLine(file, Torn) ELSE file
  /\ appender' = [appender EXCEPT ![a] = NotAppending]
  /\ UNCHANGED <<next_block_id, appends, acknowledged>>
\* writeln! on an unbuffered file writes the text and the newline separately.
WriteText(a) ==
  /\ appender[a].pc = "text"
  /\ file' = OnLastLine(file, Block(appender[a].id, appender[a].ticks))
  /\ appender' = [appender EXCEPT ![a].pc = "newline"]
  /\ UNCHANGED <<next_block_id, appends, acknowledged>>
WriteNewline(a) ==
  /\ appender[a].pc = "newline"
  /\ file' = Append(file, << >>)
  /\ acknowledged' = acknowledged \cup {[id |-> appender[a].id, ticks |-> appender[a].ticks]}
  /\ appender' = [appender EXCEPT ![a] = NotAppending]
  /\ UNCHANGED <<next_block_id, appends>>

\* The process ends, perhaps in the middle of a write, and starts again.
Restart(torn) ==
  /\ torn => \E a \in Appenders : appender[a].pc = "text"
  /\ file' = IF torn THEN OnLastLine(file, Torn) ELSE file
  /\ appender' = [a \in Appenders |-> NotAppending]
  /\ next_block_id' = compute_next_block_id(file')
  /\ UNCHANGED <<appends, acknowledged>>

StoreNext ==
  \/ \E a \in Appenders :
       \/ \E ticks \in Runs : append_block(a, ticks) \/ migrate_plaintext(a, ticks)
       \/ \E torn \in BOOLEAN : AppendFails(a, torn)
       \/ WriteText(a) \/ WriteNewline(a)
  \/ \E torn \in BOOLEAN : Restart(torn)

StoreSpec == StoreInit /\ [][StoreNext]_storeVars

-----------------------------------------------------------------------------
(* Queries *)

\* u64 arithmetic of tick numbers, on a smaller word, as in a release build; one
\* that checks overflow panics where these wrap.
TickNumbers == 0..(TickModulus - 1)
Succ(n) == (n + 1) % TickModulus
Requested(lo, hi) == (hi - lo + 1) % TickModulus

Within(t, lo, hi) == lo <= t /\ t <= hi

\* find_tick_index and find_tick_index_after, as the range [First, After).
First(ticks, lo) == Cardinality({i \in DOMAIN ticks : \A j \in 1..i : ticks[j] < lo})
\* Mutant: up to the last tick of the range, without it.
After_short(ticks, hi) == Max({0} \cup {i - 1 : i \in {j \in DOMAIN ticks : ticks[j] <= hi}})
After(ticks, hi) == Max({0} \cup {i \in DOMAIN ticks : ticks[i] <= hi})

\* build_merkle_proofs: a proof for every block with a tick in the range.
LeavesOf(b) == [i \in DOMAIN b.ticks |-> Leaf(b.ticks[i])]
BlockProof(b, lo, hi) ==
  [root |-> root_from_leaves(LeavesOf(b)), start |-> First(b.ticks, lo),
   proof |-> range_proof(LeavesOf(b), First(b.ticks, lo), After(b.ticks, hi))]
Overlaps(b, lo, hi) == \E i \in DOMAIN b.ticks : Within(b.ticks[i], lo, hi)
Provable(b, lo, hi) ==
  Overlaps(b, lo, hi) /\ RangeOk(Len(b.ticks), First(b.ticks, lo), After(b.ticks, hi))
build_merkle_proofs(blocks, lo, hi) ==
  [i \in {j \in DOMAIN blocks : Provable(blocks[j], lo, hi)} |-> BlockProof(blocks[i], lo, hi)]
Leaves(p) == Len(p.proof.leaves)

\* prove_storage: no proofs when the range is empty, the file unreadable or no
\* block in the range, which handle_storage_proof_request answers with an error.
prove_storage(f, lo, hi) ==
  IF lo > hi \/ ~Readable(f) THEN << >> ELSE build_merkle_proofs(read_all(f), lo, hi)
handle_storage_proof_request(f, lo, hi) ==
  LET ps == prove_storage(f, lo, hi) IN [ok |-> DOMAIN ps # {}, blocks |-> ps]

\* reconstruct_range_proof and verify_storage_proof check the range as if it began
\* at leaf 0, whatever the block's own start is.  Nothing verifies where no tick was
\* requested, and that is also what the count of the whole word comes to.
BlockVerified(p) == verify_range_proof(p.root, p.proof, 0, Leaves(p))
Counted(p, known_roots) == BlockVerified(p) /\ (known_roots = {} \/ p.root \in known_roots)
verify_storage_proof(lo, hi, ps, known_roots) ==
  LET requested_count == IF lo > hi THEN 0 ELSE Requested(lo, hi) IN
  [verified |-> requested_count # 0 /\ \A i \in DOMAIN ps : Counted(ps[i], known_roots),
   covered |-> IF requested_count = 0 THEN 0
     ELSE SumFunctionOnSet([i \in DOMAIN ps |-> IF Counted(ps[i], known_roots) THEN Leaves(ps[i]) ELSE 0],
                           DOMAIN ps)]
handle_storage_proof_verify(lo, hi, answer, known_roots) ==
  verify_storage_proof(lo, hi, answer.blocks, known_roots)

\* find_gaps goes through the records found, in order: the number it expects next.
\* What is expected after the last of them, and the end of the last gap, may wrap.
Expected(found, lo, n) ==
  LET before == {t \in found : t < n} IN IF before = {} THEN lo ELSE Succ(Max(before))
find_gaps(found, lo, hi) ==
  {<<Expected(found, lo, n), n>> : n \in {m \in found : m > Expected(found, lo, m)}}
    \cup (IF Succ(Max(found)) <= hi THEN {<<Succ(Max(found)), Succ(hi)>>} ELSE {})

\* get_chronon_chain: what is there of a range, each number once, and the runs of
\* numbers that are missing.
Found(blocks, lo, hi) == {t \in UNION {Range(b.ticks) : b \in Range(blocks)} : Within(t, lo, hi)}
get_chronon_chain(f, lo, hi) ==
  LET found == IF lo > hi \/ ~Readable(f) THEN {} ELSE Found(read_all(f), lo, hi)
      status == IF found = {} THEN "none"
                ELSE IF Cardinality(found) = Requested(lo, hi) THEN "complete" ELSE "partial"
  IN  [records |-> found, status |-> status,
       gaps |-> IF status = "partial" THEN find_gaps(found, lo, hi) ELSE {}]
\* get_chronon: the first record of that number, through the block it is in; an
\* unreadable file is a record that is not found.
get_chronon(f, n) ==
  IF ~Readable(f) THEN 0
  ELSE LET bs == read_all(f)
           holding == {i \in DOMAIN bs : n \in Range(bs[i].ticks)}
       IN  IF holding = {} THEN 0 ELSE Min(holding)
handle_get_chronon(f, n) == IF get_chronon(f, n) = 0 THEN "not_found" ELSE "found"

-----------------------------------------------------------------------------
(* The bins of the cache *)

NoCalendar == [bin |-> "none", size |-> 0, last |-> 0]
NoCall == [pc |-> "idle", calendar |-> "none", size |-> 0, incoming |-> 0, now |-> 0]
LruInit ==
  /\ lru = [c \in Calendars |-> NoCalendar] /\ current_bytes = 0 /\ lru_clock = 0
  /\ cache_call = [w \in CacheThreads |-> NoCall] /\ own = {} /\ drifted = FALSE

ASSUME CacheAssumption ==
  /\ IsFiniteSet(Calendars) /\ IsFiniteSet(CacheThreads)
  /\ Sizes \subseteq Nat /\ LruModulus \in Nat \ {0}

\* u64 arithmetic, on a smaller word.
Wrap(x) == x % LruModulus

\* A thread that evicts works on a copy of the record: what happens to the calendar
\* meanwhile makes the count of bytes wrong, a second thread that evicts it too.
Evicting(w) == cache_call[w].pc \in {"picked", "deleting"}
Held(c) == \E w \in CacheThreads : Evicting(w) /\ cache_call[w].calendar = c

\* The size of a calendar that is known already is not counted again.
lru_insert(c, bin, size) ==
  /\ current_bytes' = IF lru[c] = NoCalendar THEN Wrap(current_bytes + size) ELSE current_bytes
  /\ lru' = [lru EXCEPT ![c] = [bin |-> bin, size |-> size, last |-> lru_clock]]
  /\ own' = IF bin = "MyOwn" THEN own \cup {c} ELSE own \ {c}
  /\ drifted' = (drifted \/ Held(c) \/ (lru[c] # NoCalendar /\ lru[c].size # size))
  /\ UNCHANGED <<lru_clock, cache_call>>
\* touch promotes whatever the calendar is, one's own too.
touch(c) ==
  /\ lru[c] # NoCalendar
  /\ lru' = [lru EXCEPT ![c].bin = "Used", ![c].last = lru_clock] /\ own' = own \ {c}
  /\ UNCHANGED <<current_bytes, lru_clock, cache_call, drifted>>

\* demote_stale_to_unused reads the clock before it takes the lock; a record
\* touched in between has an age below zero, which wraps.
DemoteReadsClock(w) ==
  /\ cache_call[w].pc = "idle"
  /\ cache_call' = [cache_call EXCEPT ![w] = [NoCall EXCEPT !.pc = "demote", !.now = lru_clock]]
  /\ UNCHANGED <<lru, current_bytes, lru_clock, own, drifted>>
Stale(r, now) == Wrap(LruModulus + now - r.last) > StaleThreshold
Demoted(w, bins) ==
  [c \in Calendars |-> IF lru[c].bin \in bins /\ Stale(lru[c], cache_call[w].now)
                       THEN [lru[c] EXCEPT !.bin = "Unused"] ELSE lru[c]]
\* Mutant: every bin is demoted.
demote_all_to_unused(w) ==
  /\ cache_call[w].pc = "demote" /\ cache_call' = [cache_call EXCEPT ![w] = NoCall]
  /\ lru' = Demoted(w, {"MyOwn", "Used", "Unused"})
  /\ UNCHANGED <<current_bytes, lru_clock, own, drifted>>
demote_stale_to_unused(w) ==
  /\ cache_call[w].pc = "demote" /\ cache_call' = [cache_call EXCEPT ![w] = NoCall]
  /\ lru' = Demoted(w, {"Used"})
  /\ UNCHANGED <<current_bytes, lru_clock, own, drifted>>
LruTime ==
  /\ lru_clock < MaxClock /\ lru_clock' = lru_clock + 1
  /\ UNCHANGED <<lru, current_bytes, cache_call, own, drifted>>

\* evict_to_fit, once around its loop: it fits; or any unused calendar is picked
\* under the read lock, its bytes are given back, and it is removed, whatever
\* became of it in between; or none is unused (OutOfSpace).  Nothing keeps two
\* threads from picking one calendar.
Checking(incoming) == [NoCall EXCEPT !.pc = "check", !.incoming = incoming]
evict_to_fit(w, incoming) ==
  /\ cache_call[w].pc = "idle" /\ cache_call' = [cache_call EXCEPT ![w] = Checking(incoming)]
  /\ UNCHANGED <<lru, current_bytes, lru_clock, own, drifted>>
Fitting(w) ==
  /\ cache_call[w].pc = "check"
  /\ cache_call' = [cache_call EXCEPT ![w] =
       IF Wrap(current_bytes + @.incoming) > Budget THEN [@ EXCEPT !.pc = "pick"] ELSE NoCall]
  /\ UNCHANGED <<lru, current_bytes, lru_clock, own, drifted>>
pick_unused_random(w, c) ==
  /\ cache_call[w].pc = "pick" /\ lru[c].bin = "Unused"
  /\ cache_call' = [cache_call EXCEPT ![w] =
       [@ EXCEPT !.pc = "picked", !.calendar = c, !.size = lru[c].size]]
  /\ drifted' = (drifted \/ Held(c))
  /\ UNCHANGED <<lru, current_bytes, lru_clock, own>>
OutOfSpace(w) ==
  /\ cache_call[w].pc = "pick" /\ \A c \in Calendars : lru[c].bin # "Unused"
  /\ cache_call' = [cache_call EXCEPT ![w] = NoCall]
  /\ UNCHANGED <<lru, current_bytes, lru_clock, own, drifted>>
EvictSubtracts(w) ==
  /\ cache_call[w].pc = "picked" /\ cache_call' = [cache_call EXCEPT ![w].pc = "deleting"]
  /\ current_bytes' = Wrap(LruModulus + current_bytes - cache_call[w].size)
  /\ UNCHANGED <<lru, lru_clock, own, drifted>>
EvictRemoves(w) ==
  LET c == cache_call[w].calendar IN
  /\ cache_call[w].pc = "deleting" /\ lru' = [lru EXCEPT ![c] = NoCalendar] /\ own' = own \ {c}
  /\ cache_call' = [cache_call EXCEPT ![w] = Checking(@.incoming)]
  /\ UNCHANGED <<current_bytes, lru_clock, drifted>>

\* remove takes the record out under the lock, and subtracts its bytes after it.
lru_remove(w, c) ==
  /\ cache_call[w].pc = "idle" /\ lru[c] # NoCalendar
  /\ lru' = [lru EXCEPT ![c] = NoCalendar] /\ own' = own \ {c}
  /\ cache_call' = [cache_call EXCEPT ![w] =
       [NoCall EXCEPT !.pc = "removed", !.size = lru[c].size]]
  /\ drifted' = (drifted \/ Held(c))
  /\ UNCHANGED <<current_bytes, lru_clock>>
RemoveSubtracts(w) ==
  /\ cache_call[w].pc = "removed" /\ cache_call' = [cache_call EXCEPT ![w] = NoCall]
  /\ current_bytes' = Wrap(LruModulus + current_bytes - cache_call[w].size)
  /\ UNCHANGED <<lru, lru_clock, own, drifted>>

CallNext(w) ==
  \/ \E c \in Calendars : lru_remove(w, c) \/ pick_unused_random(w, c)
  \/ \E incoming \in Sizes : evict_to_fit(w, incoming)
  \/ Fitting(w) \/ OutOfSpace(w) \/ EvictSubtracts(w) \/ EvictRemoves(w) \/ RemoveSubtracts(w)
  \/ DemoteReadsClock(w) \/ demote_stale_to_unused(w)
LruNext ==
  \/ \E c \in Calendars :
       \/ \E bin \in {"MyOwn", "Used", "Unused"}, size \in Sizes : lru_insert(c, bin, size)
       \/ touch(c)
  \/ \E w \in CacheThreads : CallNext(w)
  \/ LruTime

LruSpec == LruInit /\ [][LruNext]_lruVars

-----------------------------------------------------------------------------
(* Properties *)

\* As long as the file can be read at all (no crash or second writer has put two
\* texts on one line), it holds every block whose appender returned Ok, once, and
\* no two blocks of it have one id, across failed appends and restarts.
StoreSound ==
  Readable(file) =>
    LET bs == read_all(file) IN
    /\ \A x \in acknowledged : \E i \in DOMAIN bs : bs[i] = Block(x.id, x.ticks)
    /\ \A i, j \in DOMAIN bs : bs[i].id = bs[j].id => i = j

\* A range query of a file returns each stored number of the range once, as the
\* query for one record would, and its gaps are the others; but at the end of the
\* word, where u64 wraps, it is silent of those after the last one stored, and all
\* numbers there are never count as complete.
ChainExact(f, lo, hi) ==
  LET chain == get_chronon_chain(f, lo, hi)
      held == {n \in lo..hi : handle_get_chronon(f, n) = "found"}
      silent == IF hi = TickModulus - 1 THEN {n \in lo..hi : \A m \in held : m < n} ELSE {}
  IN  /\ chain.records = held
      /\ chain.status = "none" <=> held = {}
      /\ chain.status = "complete" <=> held = lo..hi /\ Requested(lo, hi) # 0
      /\ chain.status = "partial" =>
           UNION {g[1]..(g[2] - 1) : g \in chain.gaps} = ((lo..hi) \ held) \ silent

InRange(ticks, lo, hi) == {j \in DOMAIN ticks : Within(ticks[j], lo, hi)}

\* A storage proof of a range covers as many ticks as the blocks hold in it, counts
\* alike with the roots known or not, and verifies if and only if every block in
\* the range has its first tick there; a range of the whole word never verifies.
ProofExact(f, lo, hi) ==
  LET bs == read_all(f)
      answer == handle_storage_proof_request(f, lo, hi)
      ps == answer.blocks
      result == handle_storage_proof_verify(lo, hi, answer, {})
      sizes == [i \in DOMAIN ps |-> Leaves(ps[i])]
  IN  /\ ~answer.ok <=> get_chronon_chain(f, lo, hi).status = "none"
      /\ result.verified <=> Requested(lo, hi) # 0 /\ \A i \in DOMAIN ps : ps[i].start = 0
      /\ result.covered <= SumFunctionOnSet(sizes, DOMAIN ps)
      /\ handle_storage_proof_verify(lo, hi, answer, {ps[i].root : i \in DOMAIN ps}) = result
      /\ SumFunctionOnSet(sizes, DOMAIN ps) =
         SumFunctionOnSet([i \in DOMAIN bs |-> Cardinality(InRange(bs[i].ticks, lo, hi))], DOMAIN bs)

\* Whatever was appended, and whichever range of u64 numbers is asked for, before,
\* inside, between or after the blocks, up to the last number: a range query and a
\* storage proof of it agree with the records, with those exceptions.
RangeAnswersExact ==
  Lines(file) # {} /\ Readable(file) =>
    \A lo \in TickNumbers : \A hi \in lo..(TickModulus - 1) : ChainExact(file, lo, hi) /\ ProofExact(file, lo, hi)

\* What the count should hold of each: nothing once it was subtracted by a thread
\* that evicts it, and its size until it was by one that removed it.
CountedSizes ==
  [c \in Calendars |->
     IF \E w \in CacheThreads : cache_call[w].pc = "deleting" /\ cache_call[w].calendar = c
     THEN 0 ELSE lru[c].size]
RemovedSizes == [w \in CacheThreads |-> IF cache_call[w].pc = "removed" THEN cache_call[w].size ELSE 0]

\* A calendar inserted as one's own is never picked for eviction until it is
\* touched, replaced or removed, however stale it grows; and the bytes counted,
\* at every step of several threads that evict and remove, are the sizes of the
\* calendars in the cache, until one is replaced by one of another size, or one that
\* a thread is evicting is replaced, removed or picked by a second thread.
CacheAccounts ==
  ~drifted =>
    /\ \A w \in CacheThreads : Evicting(w) => cache_call[w].calendar \notin own
    /\ current_bytes = Wrap(SumFunctionOnSet(CountedSizes, Calendars)
                            + SumFunctionOnSet(RemovedSizes, CacheThreads))
=============================================================================
