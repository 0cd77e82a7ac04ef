------------------------- MODULE ChronomatterProofs -------------------------
(***************************************************************************)
(* Theorems about Chronomatter for any number of request threads, timer    *)
(* tasks, ticks and failures.                                              *)
(***************************************************************************)
EXTENDS TLAPS, Chronomatter, SumTheorems, FiniteSetTheorems

\* What keypair(i) returns when NewestKeysRetained holds.
LEMMA KeypairIsNewest ==
  ASSUME births \in Seq(Nat), keypairs \in Seq(Nat), NewestKeysRetained
  PROVE  /\ Len(births) >= 1 => Len(keypairs) >= 1 /\ keypair(0) = Len(births)
         /\ Len(keypairs) >= 2 => Len(births) >= 2 /\ keypair(1) = Len(births) - 1
BY DEF NewestKeysRetained, keypair

\* What Append does to a sequence of naturals (keypairs.push).
LEMMA AppendFacts ==
  ASSUME NEW s \in Seq(Nat), NEW x \in Nat
  PROVE  /\ Append(s, x) \in Seq(Nat)
         /\ Len(Append(s, x)) = Len(s) + 1
         /\ Append(s, x)[Len(s) + 1] = x
         /\ \A i \in 1..Len(s) : Append(s, x)[i] = s[i]
OBVIOUS

\* What Tail does to one (keypairs.remove(0)).
LEMMA TailFacts ==
  ASSUME NEW s \in Seq(Nat), Len(s) >= 1
  PROVE  /\ Tail(s) \in Seq(Nat)
         /\ Len(Tail(s)) = Len(s) - 1
         /\ \A i \in 1..Len(s) - 1 : Tail(s)[i] = s[i + 1]
OBVIOUS

\* The eviction happens on three keys only.
LEMMA TailOfThree ==
  ASSUME NEW s \in Seq(Nat), Len(s) = 3
  PROVE  Tail(s) \in Seq(Nat) /\ Len(Tail(s)) = 2 /\ Tail(s)[1] = s[2] /\ Tail(s)[2] = s[3]
<1>0. Len(s) >= 1
  OBVIOUS
<1>1. \A i \in 1..Len(s) - 1 : Tail(s)[i] = s[i + 1]
  BY <1>0, TailFacts, Zenon
<1>5. Tail(s) \in Seq(Nat) /\ Len(Tail(s)) = Len(s) - 1
  BY <1>0, TailFacts, Zenon
<1>2. Tail(s) \in Seq(Nat) /\ Len(Tail(s)) = 2
  BY <1>5
<1>3. 1 \in 1..Len(s) - 1 /\ 2 \in 1..Len(s) - 1
  OBVIOUS
<1>4. Tail(s)[1] = s[1+1] /\ Tail(s)[2] = s[2+1]
  BY <1>1, <1>3, Zenon
<1> QED
  BY <1>2, <1>4

\* Pushing a key and evicting the oldest beyond two (generate_and_store_keypair)
\* keeps the newest keys in order.
LEMMA RetainKeepsNewest ==
  ASSUME NEW ks \in Seq(Nat), NEW n \in Nat,
         Len(ks) = IF n < 2 THEN n ELSE 2,
         \A i \in 1..Len(ks) : ks[i] = n - Len(ks) + i
  PROVE  LET r == Retain(Append(ks, n + 1))
         IN  /\ r \in Seq(Nat)
             /\ Len(r) = IF n + 1 < 2 THEN n + 1 ELSE 2
             /\ \A i \in 1..Len(r) : r[i] = (n + 1) - Len(r) + i
<1>1. PICK m \in Nat : m = n + 1
  OBVIOUS
<1>2. PICK s : s = Append(ks, m)
  OBVIOUS
<1>3. /\ s \in Seq(Nat) /\ Len(s) = Len(ks) + 1 /\ s[Len(ks) + 1] = m
      /\ \A i \in 1..Len(ks) : s[i] = ks[i]
  BY <1>2, AppendFacts
<1>4. CASE n >= 2
  <2>1. Len(s) = 3 /\ Retain(s) = Tail(s) /\ s \in Seq(Nat)
    BY <1>3, <1>4 DEF Retain
  <2>4. s[1] = n - 1 /\ s[2] = n /\ s[3] = n + 1
    BY <1>1, <1>3, <1>4
  <2>2. PICK t : t = Tail(s)
    OBVIOUS
  <2>3. t \in Seq(Nat) /\ Len(t) = 2 /\ t[1] = s[2] /\ t[2] = s[3]
    BY <2>1, <2>2, TailOfThree
  <2>5. \A i \in 1..2 : t[i] = (n + 1) - 2 + i
    BY <1>4, <2>4, <2>3
  <2>6. Retain(Append(ks, n + 1)) = t
    BY <1>1, <1>2, <2>1, <2>2
  <2>7. t \in Seq(Nat) /\ Len(t) = (IF n + 1 < 2 THEN n + 1 ELSE 2)
        /\ \A i \in 1..Len(t) : t[i] = (n + 1) - Len(t) + i
    BY <1>4, <2>3, <2>5
  <2> QED
    BY <2>6, <2>7, Zenon
<1>5. CASE n < 2
  <2>1. Len(s) = n + 1 /\ Retain(s) = s
    BY <1>3, <1>5 DEF Retain
  <2> QED
    BY <1>1, <1>2, <1>3, <1>5, <2>1
<1> QED
  BY <1>4, <1>5

\* Records are well typed when the locals they are built from are.
LEMMA RecordType == ASSUME NEW c \in Calls, c.tick # 0 PROVE ChrononRecord(c) \in Records
<1>1. CallBlob(c) \in Blobs
  BY DEF Calls, CallBlob, auto_attestation_blob, Blobs
<1>2. QED
  BY <1>1 DEF Calls, ChrononRecord, Signature, Signatures, Records

\* Each local variable of a call holds a natural number.
LEMMA FieldTypes ==
  ASSUME call \in [Procs -> Calls], NEW p \in Procs, NEW n \in Nat
  PROVE  /\ [call EXCEPT ![p].tick = n] \in [Procs -> Calls]
         /\ [call EXCEPT ![p].new_pub = n] \in [Procs -> Calls]
         /\ [call EXCEPT ![p].sig = n] \in [Procs -> Calls]
         /\ [call EXCEPT ![p].stamps = n] \in [Procs -> Calls]
         /\ [call EXCEPT ![p].prev_pub = n] \in [Procs -> Calls]
         /\ [call EXCEPT ![p].forward = n] \in [Procs -> Calls]
         /\ [call EXCEPT ![p].backward = n] \in [Procs -> Calls]
         /\ [call EXCEPT ![p].forward = n, ![p].backward = n] \in [Procs -> Calls]
         /\ [call EXCEPT ![p] = Idle] \in [Procs -> Calls]
BY DEF Calls, Idle

-----------------------------------------------------------------------------
(* The inductive invariant.                                                  *)

\* A tick a call holds lies between 1 and the counter; so does a stamped one.
HeldTicks ==
  /\ \A p \in Holding : call[p].tick \in 1..current_tick
  /\ \A s \in issued : s.tick \in 1..current_tick

\* Once a call has generated its key, the newest key is at least as young as
\* the tick of the call.
OwnKeyBorn == \A p \in AfterKey : KeyNotBefore(Len(births), call[p].tick)

\* The keys a call has read so far are not older than its tick.
LocalsFresh ==
  \A p \in AfterKey :
    /\ pc[p] # "pub" => KeyNotBefore(call[p].new_pub, call[p].tick)
    /\ p \in Stampers /\ pc[p] \notin {"pub", "sign"}
         => KeyNotBefore(call[p].sig, call[p].tick)
    /\ pc[p] = "notify" => KeyNotBefore(call[p].backward, call[p].tick)

\* The previous key is read, then signs forward, and then the newest one signs
\* backward: each reading is no older than the one before.
LinkSoFar(p) ==
  /\ pc[p] = "genesis" => call[p].tick = 1
  /\ pc[p] = "forward" => /\ call[p].prev_pub >= 1
                          /\ call[p].prev_pub < Len(births)
  /\ pc[p] = "backward" => /\ call[p].prev_pub <= call[p].forward
                           /\ call[p].forward < Len(births)
  /\ pc[p] = "notify" /\ call[p].tick > 1 =>
       /\ call[p].prev_pub <= call[p].forward
       /\ call[p].forward < call[p].backward

LinksSoFar == \A p \in Procs : LinkSoFar(p)

IInv ==
  /\ TypeOK /\ HeldTicks
  /\ NewestKeysRetained /\ OwnKeyBorn /\ LocalsFresh /\ LinksSoFar
  /\ TicksDistinct /\ CalendarOrdered /\ BackdateProof /\ LinksPointBackwards

\* Once a call has generated its key, keypair(0) is the newest key, and not older
\* than the tick of the call.
LEMMA NewestKeyFresh ==
  ASSUME IInv, NEW p \in Procs, p \in AfterKey
  PROVE  keypair(0) \in Nat /\ keypair(0) = Len(births) /\ KeyNotBefore(keypair(0), call[p].tick)
<1>1. KeyNotBefore(Len(births), call[p].tick)
  BY DEF IInv, OwnKeyBorn
<1>2. births \in Seq(Nat) /\ keypairs \in Seq(Nat) /\ NewestKeysRetained
  BY DEF IInv, TypeOK
<1>3. Len(births) \in Nat /\ Len(births) >= 1
  BY <1>1, <1>2 DEF KeyNotBefore
<1>4. keypair(0) = Len(births)
  BY <1>2, <1>3, KeypairIsNewest
<1> QED
  BY <1>1, <1>3, <1>4

\* A step of a call that neither claims a tick nor returns leaves the ticks alone.
LEMMA TicksFrame ==
  ASSUME IInv, Holding' = Holding, \A q \in Holding : call'[q].tick = call[q].tick,
         UNCHANGED <<current_tick, issued, calendar>>
  PROVE  HeldTicks' /\ TicksDistinct'
BY DEF IInv, HeldTicks, TicksDistinct

\* New keys do not disturb what another call has read.
LEMMA LinkFrame ==
  ASSUME NEW q, call[q] \in Calls, LinkSoFar(q), pc'[q] = pc[q], call'[q] = call[q],
         Len(births) \in Nat, Len(births') \in Nat, Len(births') >= Len(births)
  PROVE  LinkSoFar(q)'
BY DEF LinkSoFar, Calls

\* A new Chronomatter satisfies the invariant.
LEMMA IInvInit == Init => IInv
<1> SUFFICES ASSUME Init PROVE IInv
  OBVIOUS
<1>1. TypeOK
  <2>1. Idle \in Calls
    BY DEF Idle, Calls
  <2>2. calendar \in Seq(Records) /\ births \in Seq(Nat) /\ keypairs \in Seq(Nat)
    BY DEF Init
  <2> QED
    BY <2>1, <2>2 DEF Init, TypeOK, PCs
<1>2. Holding = {} /\ AfterKey = {} /\ calendar = << >> /\ issued = {}
  BY DEF Init, Holding, AfterKey
<1>3. HeldTicks /\ OwnKeyBorn /\ LocalsFresh
  BY <1>2 DEF HeldTicks, OwnKeyBorn, LocalsFresh
<1>4. NewestKeysRetained
  BY DEF Init, NewestKeysRetained
<1>5. LinksSoFar
  BY DEF Init, LinksSoFar, LinkSoFar, Idle
<1>6. TicksDistinct /\ CalendarOrdered /\ BackdateProof /\ LinksPointBackwards
  BY <1>2 DEF TicksDistinct, CalendarOrdered, BackdateProof, LinksPointBackwards
<1> QED
  BY <1>1, <1>3, <1>4, <1>5, <1>6 DEF IInv

\* Passing the dormancy check claims nothing yet.
LEMMA BeginStep == ASSUME IInv, NEW p \in Procs, Begin(p) PROVE IInv'
<1> USE DEF IInv
<1>1. TypeOK'
  BY DEF TypeOK, Begin, Goto, PCs, daemon, history
<1>2. HeldTicks' /\ TicksDistinct'
  BY <1>1 DEF TypeOK, HeldTicks, TicksDistinct, CalendarOrdered, Holding, Begin, Goto, Calls, daemon, history
<1>3. NewestKeysRetained' /\ CalendarOrdered' /\ BackdateProof' /\ LinksPointBackwards'
  BY DEF NewestKeysRetained, CalendarOrdered, BackdateProof, LinksPointBackwards,
         KeyNotBefore, TypeOK, Begin, Goto, daemon, history
<1>4. OwnKeyBorn' /\ LocalsFresh'
  BY <1>1 DEF TypeOK, HeldTicks, OwnKeyBorn, LocalsFresh, AfterKey, Holding, KeyNotBefore,
         Begin, Goto, Calls, daemon, history
<1>5. LinksSoFar'
  BY <1>1 DEF TypeOK, LinksSoFar, LinkSoFar, Begin, Goto, Calls, daemon, history
<1> QED
  BY <1>1, <1>2, <1>3, <1>4, <1>5

\* The tick fetch_add hands out is larger than every one seen so far.
LEMMA ClaimTickStep == ASSUME IInv, NEW p \in Procs, ClaimTick(p) PROVE IInv'
<1> USE DEF IInv
<1>0. /\ current_tick \in Nat /\ current_tick + 1 \in Nat
      /\ current_tick' = current_tick + 1
      /\ calendar' = calendar /\ births' = births /\ issued' = issued
      /\ keypairs' = keypairs
  BY DEF TypeOK, ClaimTick, history
<1>1. TypeOK'
  <2>1. call' \in [Procs -> Calls]
    BY <1>0, FieldTypes DEF TypeOK, ClaimTick
  <2> QED
    BY <1>0, <2>1 DEF TypeOK, ClaimTick, Goto, PCs, daemon, history
<1>2. /\ call'[p].tick = current_tick + 1
      /\ \A q \in Procs : q # p => call'[q] = call[q] /\ pc'[q] = pc[q]
      /\ Holding' = Holding \cup {p} /\ p \notin Holding
  BY DEF TypeOK, ClaimTick, Goto, Calls, Holding
<1>3. HeldTicks'
  BY <1>0, <1>2 DEF HeldTicks, Holding
<1>4. TicksDistinct'
  BY <1>0, <1>2 DEF HeldTicks, TicksDistinct, CalendarOrdered, Holding
<1>5. CalendarOrdered'
  BY <1>0 DEF CalendarOrdered
<1>6. NewestKeysRetained' /\ BackdateProof' /\ LinksPointBackwards'
  BY <1>0 DEF NewestKeysRetained, BackdateProof, LinksPointBackwards, KeyNotBefore
<1>7. OwnKeyBorn' /\ LocalsFresh'
  BY <1>0, <1>2 DEF TypeOK, OwnKeyBorn, LocalsFresh, AfterKey, Holding, KeyNotBefore,
                    ClaimTick, Goto
<1>8. LinksSoFar'
  BY <1>0, <1>2 DEF TypeOK, LinksSoFar, LinkSoFar, ClaimTick, Goto
<1> QED
  BY <1>1, <1>3, <1>4, <1>5, <1>6, <1>7, <1>8

\* Counting the stamp touches no key and no tick.
LEMMA CountStampStep == ASSUME IInv, NEW p \in Procs, CountStamp(p) PROVE IInv'
<1> USE DEF IInv
<1>1. TypeOK'
  BY DEF TypeOK, CountStamp, Goto, PCs, daemon, history
<1>2. HeldTicks' /\ TicksDistinct'
  BY <1>1 DEF TypeOK, HeldTicks, TicksDistinct, CalendarOrdered, Holding, CountStamp, Goto, Calls, daemon, history
<1>3. NewestKeysRetained' /\ CalendarOrdered' /\ BackdateProof' /\ LinksPointBackwards'
  BY DEF NewestKeysRetained, CalendarOrdered, BackdateProof, LinksPointBackwards,
         KeyNotBefore, TypeOK, CountStamp, Goto, daemon, history
<1>4. OwnKeyBorn' /\ LocalsFresh'
  BY <1>1 DEF TypeOK, HeldTicks, OwnKeyBorn, LocalsFresh, AfterKey, Holding, KeyNotBefore,
         CountStamp, Goto, Calls, daemon, history
<1>5. LinksSoFar'
  BY <1>1 DEF TypeOK, LinksSoFar, LinkSoFar, CountStamp, Goto, Calls, daemon, history
<1> QED
  BY <1>1, <1>2, <1>3, <1>4, <1>5

\* The public key read is the newest, born after this call's tick.
LEMMA ReadNewPubStep == ASSUME IInv, NEW p \in Procs, ReadNewPub(p) PROVE IInv'
<1> USE DEF IInv
<1>0. keypair(0) \in Nat /\ keypair(0) = Len(births) /\ KeyNotBefore(keypair(0), call[p].tick)
  <2>1. p \in AfterKey
    BY DEF AfterKey, Holding, ReadNewPub, Goto
  <2> QED
    BY <2>1, NewestKeyFresh
<1>1. TypeOK'
  BY FieldTypes, <1>0 DEF TypeOK, ReadNewPub, Goto, PCs, daemon, history
<1>2. HeldTicks' /\ TicksDistinct'
  <2>1. Holding' = Holding /\ \A q \in Holding : call'[q].tick = call[q].tick
    BY DEF TypeOK, Holding, ReadNewPub, Goto, Calls
  <2>2. UNCHANGED <<current_tick, issued, calendar>>
    BY DEF ReadNewPub, history
  <2> QED
    BY <2>1, <2>2, TicksFrame
<1>3. NewestKeysRetained' /\ CalendarOrdered' /\ BackdateProof' /\ LinksPointBackwards'
  BY DEF NewestKeysRetained, CalendarOrdered, BackdateProof, LinksPointBackwards,
         KeyNotBefore, TypeOK, ReadNewPub, Goto, daemon, history
<1>4. OwnKeyBorn' /\ LocalsFresh'
  BY <1>1, <1>0 DEF TypeOK, HeldTicks, OwnKeyBorn, LocalsFresh, AfterKey, Holding, KeyNotBefore,
         ReadNewPub, Goto, Calls, daemon, history
<1>5. LinksSoFar'
  BY <1>1, <1>0 DEF TypeOK, LinksSoFar, LinkSoFar, ReadNewPub, Goto, Calls, daemon, history
<1> QED
  BY <1>1, <1>2, <1>3, <1>4, <1>5

\* The key that signs the foretis is the newest.
LEMMA SignForetisStep == ASSUME IInv, NEW p \in Procs, SignForetis(p) PROVE IInv'
<1> USE DEF IInv
<1>0. keypair(0) \in Nat /\ keypair(0) = Len(births) /\ KeyNotBefore(keypair(0), call[p].tick)
  <2>1. p \in AfterKey
    BY DEF AfterKey, Holding, SignForetis, Goto
  <2> QED
    BY <2>1, NewestKeyFresh
<1>1. TypeOK'
  BY FieldTypes, <1>0 DEF TypeOK, SignForetis, Goto, PCs, daemon, history
<1>2. HeldTicks' /\ TicksDistinct'
  <2>1. Holding' = Holding /\ \A q \in Holding : call'[q].tick = call[q].tick
    BY DEF TypeOK, Holding, SignForetis, Goto, Calls
  <2>2. UNCHANGED <<current_tick, issued, calendar>>
    BY DEF SignForetis, history
  <2> QED
    BY <2>1, <2>2, TicksFrame
<1>3. NewestKeysRetained' /\ CalendarOrdered' /\ BackdateProof' /\ LinksPointBackwards'
  BY DEF NewestKeysRetained, CalendarOrdered, BackdateProof, LinksPointBackwards,
         KeyNotBefore, TypeOK, SignForetis, Goto, daemon, history
<1>4. OwnKeyBorn' /\ LocalsFresh'
  BY <1>1, <1>0 DEF TypeOK, HeldTicks, OwnKeyBorn, LocalsFresh, AfterKey, Holding, KeyNotBefore,
         SignForetis, Goto, Calls, daemon, history
<1>5. LinksSoFar'
  BY <1>1, <1>0 DEF TypeOK, LinksSoFar, LinkSoFar, SignForetis, Goto, Calls, daemon, history
<1> QED
  BY <1>1, <1>2, <1>3, <1>4, <1>5

\* The genesis signature is made by the newest key.
LEMMA SignGenesisStep == ASSUME IInv, NEW p \in Procs, SignGenesis(p) PROVE IInv'
<1> USE DEF IInv
<1>0. keypair(0) \in Nat /\ keypair(0) = Len(births) /\ KeyNotBefore(keypair(0), call[p].tick)
  <2>1. p \in AfterKey
    BY DEF AfterKey, Holding, SignGenesis, Goto
  <2> QED
    BY <2>1, NewestKeyFresh
<1>6. /\ \A q \in Procs : q # p => call'[q] = call[q] /\ pc'[q] = pc[q]
      /\ call'[p].tick = call[p].tick /\ pc'[p] = "notify" /\ pc[p] = "genesis"
      /\ births' = births /\ current_tick' = current_tick
      /\ calendar' = calendar /\ issued' = issued
  BY DEF TypeOK, SignGenesis, Goto, Calls, history
<1>1. TypeOK'
  BY FieldTypes, <1>0 DEF TypeOK, SignGenesis, Goto, PCs, daemon, history
<1>2. HeldTicks' /\ TicksDistinct'
  <2>1. Holding' = Holding /\ \A q \in Holding : call'[q].tick = call[q].tick
    BY <1>6 DEF Holding
  <2> QED
    BY <1>6, <2>1 DEF HeldTicks, TicksDistinct
<1>3. NewestKeysRetained' /\ CalendarOrdered' /\ BackdateProof' /\ LinksPointBackwards'
  BY DEF NewestKeysRetained, CalendarOrdered, BackdateProof, LinksPointBackwards,
         KeyNotBefore, TypeOK, SignGenesis, Goto, daemon, history
<1>4. OwnKeyBorn' /\ LocalsFresh'
  <2>1. AfterKey' = AfterKey /\ \A q \in AfterKey : call'[q].tick = call[q].tick
    BY <1>6 DEF AfterKey, Holding
  <2>2. OwnKeyBorn'
    BY <1>6, <2>1 DEF OwnKeyBorn, KeyNotBefore
  <2>3. /\ call'[p].new_pub = call[p].new_pub /\ call'[p].sig = call[p].sig
        /\ call'[p].backward = keypair(0)
    BY DEF TypeOK, SignGenesis, Calls
  <2>4. LocalsFresh'
    <3>1. p \in AfterKey /\ KeyNotBefore(call[p].new_pub, call[p].tick)
          /\ (p \in Stampers => KeyNotBefore(call[p].sig, call[p].tick))
      BY <1>6 DEF LocalsFresh, AfterKey, Holding
    <3>2. /\ KeyNotBefore(call[p].new_pub, call[p].tick)'
          /\ p \in Stampers => KeyNotBefore(call[p].sig, call[p].tick)'
          /\ KeyNotBefore(call[p].backward, call[p].tick)'
      BY <1>0, <1>6, <2>3, <3>1 DEF KeyNotBefore
    <3>3. ASSUME NEW q \in AfterKey, q # p
          PROVE  /\ pc'[q] # "pub" => KeyNotBefore(call[q].new_pub, call[q].tick)'
                 /\ q \in Stampers /\ pc'[q] \notin {"pub", "sign"}
                      => KeyNotBefore(call[q].sig, call[q].tick)'
                 /\ pc'[q] = "notify" => KeyNotBefore(call[q].backward, call[q].tick)'
      BY <1>6, <3>3 DEF LocalsFresh, KeyNotBefore, AfterKey, Holding
    <3> QED
      BY <1>6, <2>1, <3>2, <3>3 DEF LocalsFresh
  <2> QED
    BY <2>2, <2>4
<1>5. LinksSoFar'
  BY <1>6 DEF LinksSoFar, LinkSoFar
<1> QED
  BY <1>1, <1>2, <1>3, <1>4, <1>5

\* The backward signature is made by the newest key, younger than the forward one.
LEMMA SignBackwardStep == ASSUME IInv, NEW p \in Procs, SignBackward(p) PROVE IInv'
<1> USE DEF IInv
<1>0. keypair(0) \in Nat /\ keypair(0) = Len(births) /\ KeyNotBefore(keypair(0), call[p].tick)
  <2>1. p \in AfterKey
    BY DEF AfterKey, Holding, SignBackward, Goto
  <2> QED
    BY <2>1, NewestKeyFresh
<1>1. TypeOK'
  BY FieldTypes, <1>0 DEF TypeOK, SignBackward, Goto, PCs, daemon, history
<1>2. HeldTicks' /\ TicksDistinct'
  <2>1. Holding' = Holding /\ \A q \in Holding : call'[q].tick = call[q].tick
    BY DEF TypeOK, Holding, SignBackward, Goto, Calls
  <2>2. UNCHANGED <<current_tick, issued, calendar>>
    BY DEF SignBackward, history
  <2> QED
    BY <2>1, <2>2, TicksFrame
<1>3. NewestKeysRetained' /\ CalendarOrdered' /\ BackdateProof' /\ LinksPointBackwards'
  BY DEF NewestKeysRetained, CalendarOrdered, BackdateProof, LinksPointBackwards,
         KeyNotBefore, TypeOK, SignBackward, Goto, daemon, history
<1>4. OwnKeyBorn' /\ LocalsFresh'
  BY <1>1, <1>0 DEF TypeOK, HeldTicks, OwnKeyBorn, LocalsFresh, AfterKey, Holding, KeyNotBefore,
         SignBackward, Goto, Calls, daemon, history
<1>5. LinksSoFar'
  BY <1>1, <1>0 DEF TypeOK, LinksSoFar, LinkSoFar, SignBackward, Goto, Calls, daemon, history
<1> QED
  BY <1>1, <1>2, <1>3, <1>4, <1>5

\* Draining the stamp counter touches no key.
LEMMA SwapStampCountStep == ASSUME IInv, NEW p \in Procs, SwapStampCount(p) PROVE IInv'
<1> USE DEF IInv
<1>1. TypeOK'
  BY FieldTypes DEF TypeOK, SwapStampCount, Goto, PCs, daemon, history
<1>2. HeldTicks' /\ TicksDistinct'
  <2>1. Holding' = Holding /\ \A q \in Holding : call'[q].tick = call[q].tick
    BY DEF TypeOK, Holding, SwapStampCount, Goto, Calls
  <2>2. UNCHANGED <<current_tick, issued, calendar>>
    BY DEF SwapStampCount, history
  <2> QED
    BY <2>1, <2>2, TicksFrame
<1>3. NewestKeysRetained' /\ CalendarOrdered' /\ BackdateProof' /\ LinksPointBackwards'
  BY DEF NewestKeysRetained, CalendarOrdered, BackdateProof, LinksPointBackwards,
         KeyNotBefore, TypeOK, SwapStampCount, Goto, daemon, history
<1>4. OwnKeyBorn' /\ LocalsFresh'
  BY <1>1 DEF TypeOK, HeldTicks, OwnKeyBorn, LocalsFresh, AfterKey, Holding, KeyNotBefore,
         SwapStampCount, Goto, Calls, daemon, history
<1>5. LinksSoFar'
  BY <1>1 DEF TypeOK, LinksSoFar, LinkSoFar, SwapStampCount, Goto, Calls, daemon, history
<1> QED
  BY <1>1, <1>2, <1>3, <1>4, <1>5

\* The previous key read is the one before the newest.
LEMMA ReadPrevPubStep == ASSUME IInv, NEW p \in Procs, ReadPrevPub(p) PROVE IInv'
<1> USE DEF IInv
<1>0. keypair(1) \in Nat /\ keypair(1) = Len(births) - 1
  <2>1. births \in Seq(Nat) /\ keypairs \in Seq(Nat) /\ NewestKeysRetained
    BY DEF TypeOK
  <2>2. Len(keypairs) >= 2
    BY DEF ReadPrevPub
  <2>3. Len(births) \in Nat /\ Len(births) >= 2 /\ keypair(1) = Len(births) - 1
    BY <2>1, <2>2, KeypairIsNewest
  <2> QED
    BY <2>3
<1>1. TypeOK'
  BY FieldTypes, <1>0 DEF TypeOK, ReadPrevPub, Goto, PCs, daemon, history
<1>2. HeldTicks' /\ TicksDistinct'
  <2>1. Holding' = Holding /\ \A q \in Holding : call'[q].tick = call[q].tick
    BY DEF TypeOK, Holding, ReadPrevPub, Goto, Calls
  <2>2. UNCHANGED <<current_tick, issued, calendar>>
    BY DEF ReadPrevPub, history
  <2> QED
    BY <2>1, <2>2, TicksFrame
<1>3. NewestKeysRetained' /\ CalendarOrdered' /\ BackdateProof' /\ LinksPointBackwards'
  BY DEF NewestKeysRetained, CalendarOrdered, BackdateProof, LinksPointBackwards,
         KeyNotBefore, TypeOK, ReadPrevPub, Goto, daemon, history
<1>4. OwnKeyBorn' /\ LocalsFresh'
  BY <1>1, <1>0 DEF TypeOK, HeldTicks, OwnKeyBorn, LocalsFresh, AfterKey, Holding, KeyNotBefore,
         ReadPrevPub, Goto, Calls, daemon, history
<1>5. LinksSoFar'
  <2>1. /\ \A q \in Procs : q # p => call'[q] = call[q] /\ pc'[q] = pc[q]
        /\ call'[p].prev_pub = Len(births) - 1 /\ pc'[p] = "forward"
        /\ births' = births /\ Len(births) \in Nat /\ Len(births) >= 2
    BY <1>0, KeypairIsNewest DEF TypeOK, ReadPrevPub, Goto, Calls
  <2> QED
    BY <2>1 DEF LinksSoFar, LinkSoFar
<1> QED
  BY <1>1, <1>2, <1>3, <1>4, <1>5

\* The forward signature is made by the key before the newest, which is not
\* older than the previous key read before.
LEMMA SignForwardStep == ASSUME IInv, NEW p \in Procs, SignForward(p) PROVE IInv'
<1> USE DEF IInv
<1>0. /\ Len(births) \in Nat /\ call[p] \in Calls /\ call[p].prev_pub \in Nat
      /\ pc[p] = "forward" /\ call[p].prev_pub >= 1 /\ call[p].prev_pub < Len(births)
  <2>1. Len(births) \in Nat /\ call[p] \in Calls /\ pc[p] = "forward"
    BY DEF TypeOK, SignForward, Goto
  <2> QED
    BY <2>1 DEF LinksSoFar, LinkSoFar, Calls
<1>1. keypair(1) = Len(births) - 1 /\ keypair(1) \in Nat
  <2>1. Len(births) >= 2
    BY <1>0
  <2>2. Len(keypairs) = 2
    BY <2>1 DEF NewestKeysRetained
  <2> QED
    BY <2>2, KeypairIsNewest DEF TypeOK
<1>2. /\ \A q \in Procs : q # p => call'[q] = call[q] /\ pc'[q] = pc[q]
      /\ call'[p] = [call[p] EXCEPT !.forward = Len(births) - 1]
      /\ pc'[p] = "backward"
      /\ births' = births /\ current_tick' = current_tick /\ keypairs' = keypairs
      /\ calendar' = calendar /\ issued' = issued
  BY <1>1 DEF TypeOK, SignForward, Goto, history
<1>3. /\ call'[p].tick = call[p].tick /\ call'[p].new_pub = call[p].new_pub
      /\ call'[p].sig = call[p].sig /\ call'[p].prev_pub = call[p].prev_pub
      /\ call'[p].forward = Len(births) - 1
  BY <1>0, <1>2 DEF Calls
<1>4. TypeOK'
  BY FieldTypes, <1>1 DEF TypeOK, SignForward, Goto, PCs, daemon, history
<1>5. HeldTicks' /\ TicksDistinct'
  <2>1. Holding' = Holding /\ \A q \in Holding : call'[q].tick = call[q].tick
    BY <1>0, <1>2, <1>3 DEF Holding
  <2> QED
    BY <1>2, <2>1 DEF HeldTicks, TicksDistinct
<1>6. NewestKeysRetained' /\ CalendarOrdered' /\ BackdateProof' /\ LinksPointBackwards'
  BY <1>2 DEF NewestKeysRetained, CalendarOrdered, BackdateProof, LinksPointBackwards,
              KeyNotBefore
<1>7. OwnKeyBorn' /\ LocalsFresh'
  <2>1. AfterKey' = AfterKey
    BY <1>0, <1>2 DEF AfterKey, Holding
  <2>2. \A q \in AfterKey : call'[q].tick = call[q].tick
    BY <1>2, <1>3 DEF AfterKey, Holding
  <2>3. OwnKeyBorn'
    BY <1>2, <2>1, <2>2 DEF OwnKeyBorn, KeyNotBefore
  <2>4. LocalsFresh'
    BY <1>0, <1>2, <1>3, <2>1 DEF LocalsFresh, KeyNotBefore, AfterKey, Holding
  <2> QED
    BY <2>3, <2>4
<1>8. LinksSoFar'
  <2>1. LinkSoFar(p)'
    BY <1>0, <1>2, <1>3 DEF LinkSoFar
  <2>2. ASSUME NEW q \in Procs, q # p PROVE LinkSoFar(q)'
    BY <1>2, <2>2 DEF LinksSoFar, LinkSoFar
  <2> QED
    BY <2>1, <2>2 DEF LinksSoFar
<1> QED
  BY <1>4, <1>5, <1>6, <1>7, <1>8

\* A new key is the newest; it is born at the current tick, which no call has
\* passed, and the keys calls have read stay as old as they were.
LEMMA GenerateKeyStep == ASSUME IInv, NEW p \in Procs, GenerateKey(p) PROVE IInv'
<1> USE DEF IInv
<1>0. /\ births \in Seq(Nat) /\ keypairs \in Seq(Nat) /\ current_tick \in Nat
      /\ births' = Append(births, current_tick)
      /\ keypairs' = Retain(Append(keypairs, NewKey))
      /\ call' = call /\ calendar' = calendar /\ issued' = issued
      /\ current_tick' = current_tick
      /\ \A q \in Procs : q # p => pc'[q] = pc[q]
      /\ pc[p] = "generate" /\ pc'[p] = "pub"
  BY DEF TypeOK, GenerateKey, Goto, history
<1>1. /\ Len(births') = Len(births) + 1
      /\ births'[Len(births')] = current_tick
      /\ \A k \in DOMAIN births : k \in DOMAIN births' /\ births'[k] = births[k]
  BY <1>0
<1>2. \A k, n : KeyNotBefore(k, n) => KeyNotBefore(k, n)'
  BY <1>1 DEF KeyNotBefore
<1>3. /\ keypairs' \in Seq(Nat) /\ NewestKeysRetained'
  <2>1. Len(births) \in Nat /\ NewKey = Len(births) + 1
    BY <1>0 DEF NewKey
  <2>2. /\ Len(keypairs) = IF Len(births) < 2 THEN Len(births) ELSE 2
        /\ \A i \in 1..Len(keypairs) : keypairs[i] = Len(births) - Len(keypairs) + i
    <3>1. DOMAIN keypairs = 1..Len(keypairs)
      BY <1>0
    <3> QED
      BY <3>1 DEF NewestKeysRetained
  <2>3. /\ keypairs' \in Seq(Nat)
        /\ Len(keypairs') = IF Len(births) + 1 < 2 THEN Len(births) + 1 ELSE 2
        /\ \A i \in 1..Len(keypairs') : keypairs'[i] = (Len(births) + 1) - Len(keypairs') + i
    <3>1. keypairs' = Retain(Append(keypairs, Len(births) + 1))
      BY <1>0, <2>1
    <3>2. LET r == Retain(Append(keypairs, Len(births) + 1))
          IN  /\ r \in Seq(Nat)
              /\ Len(r) = IF Len(births) + 1 < 2 THEN Len(births) + 1 ELSE 2
              /\ \A i \in 1..Len(r) : r[i] = (Len(births) + 1) - Len(r) + i
      BY <1>0, <2>1, <2>2, RetainKeepsNewest, Zenon
    <3> QED
      BY <3>1, <3>2, Zenon
  <2>4. DOMAIN keypairs' = 1..Len(keypairs')
    <3>1. keypairs' \in Seq(Nat)
      BY <2>3
    <3>2. \A s \in Seq(Nat) : DOMAIN s = 1..Len(s)
      OBVIOUS
    <3> QED
      BY <3>1, <3>2, Zenon
  <2> QED
    BY <1>1, <2>3, <2>4 DEF NewestKeysRetained
<1>4. TypeOK'
  BY <1>0, <1>3 DEF TypeOK, GenerateKey, Goto, PCs, daemon, history
<1>5. Holding' = Holding /\ AfterKey' = AfterKey \cup {p} /\ p \in Holding
  BY <1>0 DEF Holding, AfterKey, TypeOK
<1>6. HeldTicks' /\ TicksDistinct' /\ CalendarOrdered' /\ LinksPointBackwards'
  BY <1>0, <1>5 DEF HeldTicks, TicksDistinct, CalendarOrdered, LinksPointBackwards
<1>7. BackdateProof'
  BY <1>0, <1>2 DEF BackdateProof
<1>8. OwnKeyBorn'
  <2>1. \A q \in Holding : call[q].tick <= current_tick
    BY DEF HeldTicks
  <2>2. AfterKey \subseteq Holding
    BY DEF AfterKey
  <2> QED
    BY <1>0, <1>1, <1>5, <2>1, <2>2 DEF OwnKeyBorn, KeyNotBefore
<1>9. LocalsFresh'
  BY <1>0, <1>2, <1>5 DEF LocalsFresh, AfterKey, Holding
<1>10. LinksSoFar'
  <2>1. Len(births) \in Nat /\ \A q \in Procs : call[q] \in Calls
    BY DEF TypeOK
  <2>2. Len(births') \in Nat /\ Len(births') >= Len(births)
    BY <1>1, <2>1
  <2>3. LinkSoFar(p)'
    BY <1>0 DEF LinkSoFar
  <2>4. ASSUME NEW q \in Procs, q # p PROVE LinkSoFar(q)'
    BY <1>0, <2>1, <2>2, <2>4, LinkFrame DEF LinksSoFar
  <2> QED
    BY <2>3, <2>4 DEF LinksSoFar
<1> QED
  BY <1>3, <1>4, <1>6, <1>7, <1>8, <1>9, <1>10

\* A call that returns early gives up its tick and touches nothing else.
LEMMA ReturnStep ==
  ASSUME IInv, NEW p \in Procs, Return(p), TypeOK',
         UNCHANGED <<current_tick, keypairs, calendar, births, issued>>
  PROVE  IInv'
<1> USE DEF IInv
<1>1. /\ \A q \in Procs : q # p => call'[q] = call[q] /\ pc'[q] = pc[q]
      /\ pc'[p] = "idle"
      /\ births' = births /\ current_tick' = current_tick /\ keypairs' = keypairs
      /\ calendar' = calendar /\ issued' = issued
  BY DEF TypeOK, Return
<1>2. Holding' = Holding \ {p} /\ AfterKey' = AfterKey \ {p}
  BY <1>1 DEF Holding, AfterKey
<1>3. HeldTicks' /\ TicksDistinct'
  BY <1>1, <1>2 DEF HeldTicks, TicksDistinct, Holding
<1>4. NewestKeysRetained' /\ CalendarOrdered' /\ BackdateProof' /\ LinksPointBackwards'
  BY <1>1 DEF NewestKeysRetained, CalendarOrdered, BackdateProof, LinksPointBackwards,
              KeyNotBefore
<1>5. OwnKeyBorn' /\ LocalsFresh'
  BY <1>1, <1>2 DEF OwnKeyBorn, LocalsFresh, AfterKey, Holding, KeyNotBefore
<1>6. LinksSoFar'
  BY <1>1 DEF LinksSoFar, LinkSoFar
<1> QED
  BY <1>3, <1>4, <1>5, <1>6

\* "missing previous keypair", and the other errors.
LEMMA MissingPreviousStep == ASSUME IInv, NEW p \in Procs, MissingPrevious(p) PROVE IInv'
<1>1. TypeOK'
  BY FieldTypes DEF IInv, TypeOK, MissingPrevious, Return, PCs, daemon, history
<1> QED
  BY <1>1, ReturnStep DEF MissingPrevious, history

\* An error of the clock, the RNG or the signer.
LEMMA FailStep == ASSUME IInv, NEW p \in Procs, Fail(p) PROVE IInv'
<1>1. TypeOK'
  <2>1. call' \in [Procs -> Calls] /\ pc' \in [Procs -> PCs]
    BY FieldTypes DEF IInv, TypeOK, Fail, Return, PCs
  <2>2. faults' \in Nat
    BY DEF IInv, TypeOK, Fail
  <2>3. UNCHANGED <<current_tick, keypairs, chronon_stamp_count, is_dormant, daemon_handle,
                    daemon_tasks, calendar, births, issued, stamp_calls, overlapped>>
    BY DEF Fail, daemon, history
  <2> QED
    BY <2>1, <2>2, <2>3 DEF IInv, TypeOK
<1> QED
  BY <1>1, ReturnStep DEF Fail, history

\* The observer's calendar keeps what it has, and what it adds is the record of
\* this call, numbered above everything recorded.
LEMMA CalendarGrows ==
  ASSUME IInv, NEW p \in Procs, NotifyObserver(p)
  PROVE  /\ calendar' \in Seq(Records)
         /\ Len(calendar') >= Len(calendar)
         /\ \A i \in DOMAIN calendar : i \in DOMAIN calendar' /\ calendar'[i] = calendar[i]
         /\ \A i \in DOMAIN calendar' \ DOMAIN calendar :
              /\ calendar'[i] = ChrononRecord(call[p])
              /\ i = Len(calendar) + 1
              /\ \A j \in DOMAIN calendar : calendar[j].chronon_number < call[p].tick
<1> DEFINE c == call[p]
           r == ChrononRecord(call[p])
<1>1. c \in Calls /\ p \in Holding /\ calendar \in Seq(Records)
  BY DEF IInv, TypeOK, NotifyObserver, Holding
<1>2. r \in Records
  <2>1. c.tick # 0
    BY <1>1 DEF IInv, HeldTicks
  <2> QED
    BY <1>1, <2>1, RecordType
<1>3. CASE CanAppend(calendar, c.tick)
  <2>1. calendar' = Append(calendar, r)
    BY <1>3 DEF NotifyObserver
  <2>2. \A j \in DOMAIN calendar : calendar[j].chronon_number < c.tick
    <3>1. ASSUME NEW j \in DOMAIN calendar PROVE calendar[j].chronon_number < c.tick
      <4>1. Len(calendar) \in DOMAIN calendar /\ j <= Len(calendar)
            /\ calendar[Len(calendar)].chronon_number < c.tick
        BY <1>1, <1>3 DEF CanAppend
      <4>2. calendar[j].chronon_number \in Nat /\ c.tick \in Nat
            /\ calendar[Len(calendar)].chronon_number \in Nat
        <5>1. calendar[j] \in Records /\ calendar[Len(calendar)] \in Records
          BY <1>1, <4>1
        <5> QED
          BY <1>1, <5>1 DEF Records, Calls
      <4>3. j < Len(calendar) =>
              calendar[j].chronon_number < calendar[Len(calendar)].chronon_number
        BY <4>1 DEF IInv, CalendarOrdered
      <4> QED
        BY <1>1, <4>1, <4>2, <4>3
    <3> QED
      BY <3>1
  <2> HIDE DEF c, r
  <2>3. /\ Append(calendar, r) \in Seq(Records) /\ Len(Append(calendar, r)) = Len(calendar) + 1
        /\ Append(calendar, r)[Len(calendar) + 1] = r
        /\ \A i \in DOMAIN calendar : i \in DOMAIN Append(calendar, r) /\ Append(calendar, r)[i] = calendar[i]
        /\ \A i \in DOMAIN Append(calendar, r) \ DOMAIN calendar : i = Len(calendar) + 1
    BY <1>1, <1>2
  <2>4. Len(calendar) + 1 >= Len(calendar)
    BY <1>1
  <2> QED
    BY <1>1, <2>1, <2>2, <2>3, <2>4, Zenon DEF c, r
<1>4. CASE ~CanAppend(calendar, c.tick)
  <2>1. calendar' = calendar
    BY <1>4 DEF NotifyObserver
  <2> QED
    BY <1>1, <2>1
<1> QED
  BY <1>3, <1>4

\* What the record of a call says.
LEMMA RecordFields ==
  ASSUME NEW c
  PROVE  /\ ChrononRecord(c).chronon_number = c.tick
         /\ ChrononRecord(c).public_key = c.new_pub
         /\ ChrononRecord(c).forward_foretis.key = c.forward
         /\ ChrononRecord(c).backward_foretis.key = c.backward
         /\ c.tick # 1 => ChrononRecord(c).forward_foretis.msg.a_pk = c.prev_pub
BY DEF ChrononRecord, Signature, CallBlob, auto_attestation_blob

\* Recording a tick and returning the stamp.
LEMMA NotifyObserverStep == ASSUME IInv, NEW p \in Procs, NotifyObserver(p) PROVE IInv'
<1> USE DEF IInv
<1> DEFINE c == call[p]
<1>1. /\ \A q \in Procs : q # p => call'[q] = call[q] /\ pc'[q] = pc[q]
      /\ pc'[p] = "idle" /\ pc[p] = "notify" /\ c \in Calls
      /\ births' = births /\ current_tick' = current_tick /\ keypairs' = keypairs
  BY DEF TypeOK, NotifyObserver, Return
<1>2. Holding' = Holding \ {p} /\ AfterKey' = AfterKey \ {p} /\ p \in Holding /\ p \in AfterKey
  BY <1>1 DEF Holding, AfterKey
<1>3. /\ c.tick \in 1..current_tick
      /\ KeyNotBefore(c.new_pub, c.tick) /\ KeyNotBefore(c.backward, c.tick)
      /\ p \in Stampers => KeyNotBefore(c.sig, c.tick)
      /\ c.tick > 1 => c.prev_pub <= c.forward /\ c.forward < c.backward
  BY <1>1, <1>2 DEF HeldTicks, LocalsFresh, LinksSoFar, LinkSoFar
<1>4. \A s \in issued' : \/ s \in issued
                         \/ /\ p \in Stampers /\ s.tick = c.tick /\ s.key = c.sig
                            /\ s \in [tick : Nat, key : Nat]
  BY <1>1 DEF NotifyObserver, Calls
<1>5. TypeOK'
  <2>1. issued' \in SUBSET [tick : Nat, key : Nat]
    BY <1>4 DEF TypeOK
  <2>2. call' \in [Procs -> Calls] /\ pc' \in [Procs -> PCs]
    BY FieldTypes DEF TypeOK, NotifyObserver, Return, PCs
  <2>3. calendar' \in Seq(Records)
    BY CalendarGrows
  <2>4. UNCHANGED <<current_tick, keypairs, chronon_stamp_count, is_dormant, daemon_handle,
                    daemon_tasks, births, stamp_calls, overlapped, faults>>
    BY DEF NotifyObserver, daemon
  <2> QED
    BY <2>1, <2>2, <2>3, <2>4 DEF TypeOK
<1>6. HeldTicks'
  BY <1>1, <1>2, <1>3, <1>4 DEF HeldTicks, Holding
<1>7. \A i \in DOMAIN calendar' :
        \/ i \in DOMAIN calendar /\ calendar'[i] = calendar[i]
        \/ /\ i = Len(calendar) + 1 /\ calendar'[i].chronon_number = c.tick
           /\ calendar'[i].public_key = c.new_pub
           /\ calendar'[i].forward_foretis.key = c.forward
           /\ calendar'[i].backward_foretis.key = c.backward
           /\ c.tick # 1 => calendar'[i].forward_foretis.msg.a_pk = c.prev_pub
           /\ \A j \in DOMAIN calendar : calendar[j].chronon_number < c.tick
  <2>1. LET r == ChrononRecord(c) IN
        /\ r.chronon_number = c.tick /\ r.public_key = c.new_pub
        /\ r.forward_foretis.key = c.forward /\ r.backward_foretis.key = c.backward
        /\ c.tick # 1 => r.forward_foretis.msg.a_pk = c.prev_pub
    BY RecordFields
  <2>2. \A i \in DOMAIN calendar' :
          \/ i \in DOMAIN calendar /\ calendar'[i] = calendar[i]
          \/ /\ i = Len(calendar) + 1 /\ calendar'[i] = ChrononRecord(c)
             /\ \A j \in DOMAIN calendar : calendar[j].chronon_number < c.tick
    BY CalendarGrows, Zenon
  <2> QED
    BY <2>1, <2>2, Zenon
<1> HIDE DEF c
<1>8. TicksDistinct'
  <2>1. \A q \in Holding' : call'[q] = call[q] /\ call[q].tick # c.tick /\ q \in Holding
    BY <1>1, <1>2 DEF TicksDistinct, Holding, c
  <2> QED
    BY <1>4, <1>7, <2>1 DEF TicksDistinct
<1>9. CalendarOrdered'
  <2>1. \A i \in DOMAIN calendar' : calendar'[i].chronon_number \in 1..current_tick
    BY <1>3, <1>7 DEF CalendarOrdered
  <2>2. ASSUME NEW i \in DOMAIN calendar', NEW j \in DOMAIN calendar', i < j
        PROVE calendar'[i].chronon_number < calendar'[j].chronon_number
    <3>1. DOMAIN calendar = 1..Len(calendar) /\ Len(calendar) \in Nat
      BY DEF TypeOK
    <3>2. i \in DOMAIN calendar
      BY <1>7, <2>2, <3>1
    <3>3. calendar'[i] = calendar[i]
      BY <1>7, <3>1, <3>2
    <3> QED
      BY <1>7, <2>2, <3>2, <3>3 DEF CalendarOrdered
  <2> QED
    BY <1>1, <2>1, <2>2 DEF CalendarOrdered
<1>10. NewestKeysRetained'
  BY <1>1 DEF NewestKeysRetained
<1>11. BackdateProof'
  BY <1>1, <1>3, <1>4, <1>7 DEF BackdateProof, KeyNotBefore
<1>12. LinksPointBackwards'
  <2>1. c.tick \in Nat
    BY <1>1 DEF Calls
  <2> QED
    BY <1>3, <1>7, <2>1 DEF LinksPointBackwards
<1>13. OwnKeyBorn' /\ LocalsFresh'
  BY <1>1, <1>2 DEF OwnKeyBorn, LocalsFresh, AfterKey, Holding, KeyNotBefore
<1>14. LinksSoFar'
  BY <1>1 DEF LinksSoFar, LinkSoFar
<1> QED
  BY <1>5, <1>6, <1>8, <1>9, <1>10, <1>11, <1>12, <1>13, <1>14

\* Dormancy and the timer's start and stop leave calls and records alone, and so
\* does a stuttering step.
LEMMA OutsideStep ==
  ASSUME IInv, TypeOK', UNCHANGED <<current_tick, keypairs, pc, call, calendar, births, issued>>
  PROVE  IInv'
<1> USE DEF IInv
<1>1. Holding' = Holding /\ AfterKey' = AfterKey
  BY DEF Holding, AfterKey
<1>2. HeldTicks' /\ TicksDistinct' /\ CalendarOrdered' /\ NewestKeysRetained' /\ LinksPointBackwards'
  BY <1>1 DEF HeldTicks, TicksDistinct, CalendarOrdered, NewestKeysRetained, LinksPointBackwards
<1>3. BackdateProof' /\ OwnKeyBorn' /\ LocalsFresh'
  BY <1>1 DEF BackdateProof, OwnKeyBorn, LocalsFresh, KeyNotBefore
<1>4. LinksSoFar'
  BY DEF LinksSoFar, LinkSoFar
<1> QED
  BY <1>2, <1>3, <1>4

\* set_dormant, start_daemon, stop_daemon and stuttering preserve the invariant.
LEMMA ControlStep ==
  ASSUME IInv,
         \/ \E d \in BOOLEAN : set_dormant(d)
         \/ \E d \in Daemons : start_daemon(d)
         \/ stop_daemon
         \/ UNCHANGED vars
  PROVE  IInv'
<1>1. CASE \E d \in BOOLEAN : set_dormant(d)
  <2>1. TypeOK'
    BY <1>1 DEF IInv, TypeOK, set_dormant, daemon, history
  <2> QED
    BY <1>1, <2>1, OutsideStep DEF set_dormant, history
<1>2. CASE \E d \in Daemons : start_daemon(d)
  <2>1. TypeOK'
    BY <1>2 DEF IInv, TypeOK, start_daemon, history
  <2> QED
    BY <1>2, <2>1, OutsideStep DEF start_daemon, history
<1>3. CASE stop_daemon
  <2>1. TypeOK'
    BY <1>3 DEF IInv, TypeOK, stop_daemon, history
  <2> QED
    BY <1>3, <2>1, OutsideStep DEF stop_daemon, history
<1>4. CASE UNCHANGED vars
  <2>1. TypeOK'
    BY <1>4 DEF IInv, TypeOK, vars
  <2> QED
    BY <1>4, <2>1, OutsideStep DEF vars
<1> QED
  BY <1>1, <1>2, <1>3, <1>4

\* Every step preserves the invariant.
LEMMA IInvNext == IInv /\ [Next]_vars => IInv'
<1> SUFFICES ASSUME IInv, [Next]_vars PROVE IInv'
  OBVIOUS
<1>1. ASSUME NEW p \in Procs, Begin(p) \/ Step(p) PROVE IInv'
  BY <1>1, BeginStep, ClaimTickStep, CountStampStep, GenerateKeyStep, ReadNewPubStep,
     SignForetisStep, SwapStampCountStep, SignGenesisStep, ReadPrevPubStep,
     MissingPreviousStep, SignForwardStep, SignBackwardStep, NotifyObserverStep, FailStep
     DEF Step
<1>2. CASE \/ \E d \in BOOLEAN : set_dormant(d)
           \/ \E d \in Daemons : start_daemon(d)
           \/ stop_daemon
           \/ UNCHANGED vars
  BY <1>2, ControlStep
<1> QED
  BY <1>1, <1>2 DEF Next

\* The inductive invariant holds in every reachable state.
THEOREM Invariant == Spec => []IInv
BY IInvInit, IInvNext, PTL DEF Spec

\* Whatever the threads do, the variables of the engine keep their types.
THEOREM TypeCorrect == Spec => []TypeOK
<1>1. IInv => TypeOK
  BY DEF IInv
<1> QED
  BY <1>1, Invariant, PTL

\* No tick number is ever held, stamped or recorded twice over (fetch_add in
\* stamp() and daemon_tick()).
THEOREM TicksNeverShared == Spec => []TicksDistinct
<1>1. IInv => TicksDistinct
  BY DEF IInv
<1> QED
  BY <1>1, Invariant, PTL

\* The calendar the observer keeps is strictly increasing and holds only ticks
\* handed out, whatever order the calls notify it in.
THEOREM CalendarStaysOrdered == Spec => []CalendarOrdered
<1>1. IInv => CalendarOrdered
  BY DEF IInv
<1> QED
  BY <1>1, Invariant, PTL

\* generate_and_store_keypair keeps exactly the newest two keys.
THEOREM OnlyNewestKeys == Spec => []NewestKeysRetained
<1>1. IInv => NewestKeysRetained
  BY DEF IInv
<1> QED
  BY <1>1, Invariant, PTL

\* No stamp and no record of tick n is signed by a key older than tick n, even
\* when threads take each other's keys.
THEOREM NoBackdating == Spec => []BackdateProof
<1>1. IInv => BackdateProof
  BY DEF IInv
<1> QED
  BY <1>1, Invariant, PTL

\* The signer of a forward link is older than the signer of the backward link.
THEOREM LinksOrdered == Spec => []LinksPointBackwards
<1>1. IInv => LinksPointBackwards
  BY DEF IInv
<1> QED
  BY <1>1, Invariant, PTL

\* No step of any thread rewrites or removes a record of the calendar.
THEOREM AppendOnly == Spec => CalendarAppendOnly
<1> DEFINE Grows == /\ Len(calendar') >= Len(calendar)
                    /\ \A i \in DOMAIN calendar : calendar'[i] = calendar[i]
<1>1. ASSUME IInv, [Next]_vars, calendar' # calendar PROVE Grows
  <2>1. PICK p \in Procs : NotifyObserver(p)
    BY <1>1 DEF Next, Step, vars, Begin, ClaimTick, CountStamp, GenerateKey, ReadNewPub,
                SignForetis, SwapStampCount, SignGenesis, ReadPrevPub, MissingPrevious,
                SignForward, SignBackward, Fail, set_dormant, start_daemon, stop_daemon
  <2> QED
    BY <1>1, <2>1, CalendarGrows
<1>2. IInv /\ [Next]_vars => [Grows]_calendar
  BY <1>1
<1> QED
  BY <1>2, Invariant, PTL DEF Spec, CalendarAppendOnly

-----------------------------------------------------------------------------
(* Refinement: the engine implements TickLog. *)

Unsettled == {call[p].tick : p \in Holding}
Logged == [i \in DOMAIN calendar |-> calendar[i].chronon_number]
Stamped == {s.tick : s \in issued}

\* A step inside a call is invisible to TickLog.
LEMMA InnerStep ==
  ASSUME UNCHANGED <<current_tick, calendar, issued>>, Holding' = Holding,
         \A q \in Holding : call'[q].tick = call[q].tick
  PROVE  UNCHANGED Log!vars
<1>1. Unsettled' = Unsettled
  BY DEF Unsettled
<1>2. Logged' = Logged /\ Stamped' = Stamped
  BY DEF Logged, Stamped
<1> QED
  BY <1>1, <1>2 DEF Log!vars, Unsettled, Logged, Stamped

\* Claiming a tick hands it out.
LEMMA ClaimHandsOut == ASSUME IInv, NEW p \in Procs, ClaimTick(p) PROVE Log!HandOut
<1>1. /\ current_tick' = current_tick + 1 /\ calendar' = calendar /\ issued' = issued
      /\ call'[p].tick = current_tick + 1
      /\ \A q \in Procs : q # p => call'[q] = call[q] /\ pc'[q] = pc[q]
      /\ Holding' = Holding \cup {p} /\ p \notin Holding
  BY DEF IInv, TypeOK, ClaimTick, Goto, Calls, Holding, history
<1>2. Unsettled' = Unsettled \cup {current_tick + 1}
  BY <1>1 DEF Unsettled, Holding
<1>3. Logged' = Logged /\ Stamped' = Stamped
  BY <1>1 DEF Logged, Stamped
<1> QED
  BY <1>1, <1>2, <1>3 DEF Log!HandOut, Unsettled, Logged, Stamped

\* A call that returns settles its tick, and only its tick.
LEMMA ReturnUnsettles ==
  ASSUME IInv, NEW p \in Holding, Return(p)
  PROVE  call[p].tick \in Unsettled /\ Unsettled' = Unsettled \ {call[p].tick}
<1>1. /\ \A q \in Procs : q # p => call'[q] = call[q] /\ pc'[q] = pc[q]
      /\ pc'[p] = "idle" /\ p \in Procs
  BY DEF IInv, TypeOK, Return, Holding
<1>2. Holding' = Holding \ {p}
  BY <1>1 DEF Holding
<1>3. \A q \in Holding : call[q].tick = call[p].tick => q = p
  BY DEF IInv, TicksDistinct
<1>4. \A q \in Holding' : call'[q] = call[q]
  BY <1>1, <1>2 DEF Holding
<1> QED
  BY <1>2, <1>3, <1>4 DEF Unsettled

\* A call that fails settles its tick without recording or stamping it.
LEMMA FailureSettles ==
  ASSUME IInv, NEW p \in Procs, MissingPrevious(p) \/ Fail(p)
  PROVE  Log!Settle(call[p].tick) /\ call[p].tick \in Unsettled
<1>1. p \in Holding /\ Return(p) /\ UNCHANGED <<current_tick, calendar, issued>>
  BY DEF MissingPrevious, Fail, CanFail, Holding, history
<1>2. Logged' = Logged /\ Stamped' = Stamped
  BY <1>1 DEF Logged, Stamped
<1> QED
  BY <1>1, <1>2, ReturnUnsettles DEF Log!Settle, Unsettled, Logged, Stamped

\* Notifying the observer settles the tick, recorded or not, stamped or not.
LEMMA NotifySettles ==
  ASSUME IInv, NEW p \in Procs, NotifyObserver(p)
  PROVE  Log!Settle(call[p].tick) /\ call[p].tick \in Unsettled
<1> DEFINE n == call[p].tick
<1>1. p \in Holding /\ Return(p) /\ current_tick' = current_tick
  BY DEF NotifyObserver, Holding
<1>2. Stamped' \in {Stamped, Stamped \cup {n}}
  <2>1. CASE p \in Stampers
    <3>1. issued' = issued \cup {[tick |-> call[p].tick, key |-> call[p].sig]}
      BY <2>1 DEF NotifyObserver
    <3>2. Stamped' = Stamped \cup {n}
      <4>1. PICK s : s = [tick |-> call[p].tick, key |-> call[p].sig]
        OBVIOUS
      <4>2. s.tick = n
        BY <4>1
      <4> QED
        BY <3>1, <4>1, <4>2, Zenon DEF Stamped
    <3> QED
      BY <3>2
  <2>2. CASE p \notin Stampers
    BY <2>2 DEF NotifyObserver, Stamped
  <2> QED
    BY <2>1, <2>2
<1>3. \/ (\A i \in DOMAIN Logged : Logged[i] < n) /\ Logged' = Append(Logged, n)
      \/ Logged' = Logged
  <2>1. CASE calendar' = calendar
    BY <2>1 DEF Logged
  <2>2. CASE calendar' # calendar
    <3>1. calendar' = Append(calendar, ChrononRecord(call[p])) /\ calendar \in Seq(Records)
      BY <2>2 DEF NotifyObserver, IInv, TypeOK
    <3>2. PICK r : r = ChrononRecord(call[p])
      OBVIOUS
    <3>3. r \in Records /\ r.chronon_number = n /\ n \in Nat
      <4>1. call[p] \in Calls /\ call[p].tick # 0
        BY <1>1 DEF IInv, TypeOK, HeldTicks, Calls
      <4> QED
        BY <3>2, <4>1, RecordType, RecordFields DEF Calls
    <3>4. DOMAIN calendar = 1..Len(calendar) /\ Len(calendar) \in Nat
          /\ DOMAIN calendar' = 1..Len(calendar) + 1
          /\ calendar'[Len(calendar) + 1] = r
          /\ \A i \in 1..Len(calendar) : calendar'[i] = calendar[i]
      BY <3>1, <3>2, <3>3
    <3>5. Logged \in Seq(Nat) /\ Len(Logged) = Len(calendar)
      <4>1. \A i \in 1..Len(calendar) : calendar[i].chronon_number \in Nat
        <5>1. \A i \in 1..Len(calendar) : calendar[i] \in Records
          BY <3>1
        <5> QED
          BY <5>1 DEF Records
      <4> QED
        BY <3>4, <4>1 DEF Logged
    <3>6. Logged' = Append(Logged, n)
      BY <3>3, <3>4, <3>5 DEF Logged
    <3>7. \A i \in DOMAIN Logged : Logged[i] < n
      <4>1. Len(calendar) + 1 \in DOMAIN calendar' \ DOMAIN calendar
        BY <3>4
      <4> QED
        BY <4>1, CalendarGrows DEF Logged
    <3> QED
      BY <3>6, <3>7
  <2> QED
    BY <2>1, <2>2
<1> QED
  BY <1>1, <1>2, <1>3, ReturnUnsettles DEF Log!Settle, Unsettled, Logged, Stamped

\* Every step is a step of TickLog or invisible to it.
LEMMA StepRefines == IInv /\ [Next]_vars => [Log!Next]_(Log!vars)
<1> SUFFICES ASSUME IInv, [Next]_vars PROVE [Log!Next]_(Log!vars)
  OBVIOUS
<1>1. ASSUME NEW p \in Procs, ClaimTick(p) PROVE Log!Next
  BY <1>1, ClaimHandsOut DEF Log!Next
<1>2. ASSUME NEW p \in Procs, MissingPrevious(p) \/ Fail(p) \/ NotifyObserver(p) PROVE Log!Next
  <2>1. Log!Settle(call[p].tick) /\ call[p].tick \in Unsettled
    BY <1>2, FailureSettles, NotifySettles
  <2> QED
    BY <2>1 DEF Log!Next, Log!Settle, Unsettled
<1>3. ASSUME NEW p \in Procs, Begin(p) \/ CountStamp(p) \/ GenerateKey(p)
      PROVE UNCHANGED Log!vars
  <2>1. call' = call /\ UNCHANGED <<current_tick, calendar, issued>>
    BY <1>3 DEF Begin, CountStamp, GenerateKey, history
  <2>2. Holding' = Holding
    BY <1>3 DEF IInv, TypeOK, Begin, CountStamp, GenerateKey, Goto, Holding
  <2> QED
    BY <2>1, <2>2, InnerStep
<1>4. ASSUME NEW p \in Procs,
             \/ ReadNewPub(p) \/ SignForetis(p) \/ SwapStampCount(p) \/ SignGenesis(p)
             \/ ReadPrevPub(p) \/ SignForward(p) \/ SignBackward(p)
      PROVE UNCHANGED Log!vars
  <2>1. UNCHANGED <<current_tick, calendar, issued>>
    BY <1>4 DEF ReadNewPub, SignForetis, SwapStampCount, SignGenesis, ReadPrevPub,
                SignForward, SignBackward, history
  <2>2. Holding' = Holding
    BY <1>4 DEF IInv, TypeOK, ReadNewPub, SignForetis, SwapStampCount, SignGenesis,
                ReadPrevPub, SignForward, SignBackward, Goto, Holding
  <2>3. \A q \in Procs : call'[q].tick = call[q].tick
    <3>1. PICK n, m : \/ call' = [call EXCEPT ![p].new_pub = n]
                      \/ call' = [call EXCEPT ![p].sig = n]
                      \/ call' = [call EXCEPT ![p].stamps = n]
                      \/ call' = [call EXCEPT ![p].prev_pub = n]
                      \/ call' = [call EXCEPT ![p].forward = n]
                      \/ call' = [call EXCEPT ![p].backward = n]
                      \/ call' = [call EXCEPT ![p].forward = n, ![p].backward = m]
      BY <1>4, Zenon DEF ReadNewPub, SignForetis, SwapStampCount, SignGenesis, ReadPrevPub,
                         SignForward, SignBackward
    <3>2. call \in [Procs -> Calls]
      BY DEF IInv, TypeOK
    <3> QED
      BY <3>1, <3>2 DEF Calls
  <2> QED
    BY <2>1, <2>2, <2>3, InnerStep DEF Holding
<1>5. CASE \/ \E d \in BOOLEAN : set_dormant(d)
           \/ \E d \in Daemons : start_daemon(d)
           \/ stop_daemon
           \/ UNCHANGED vars
  <2>1. UNCHANGED <<current_tick, calendar, issued, pc, call>>
    BY <1>5 DEF set_dormant, start_daemon, stop_daemon, vars, history
  <2>2. Holding' = Holding
    BY <2>1 DEF Holding
  <2> QED
    BY <2>1, <2>2, InnerStep
<1> QED
  BY <1>1, <1>2, <1>3, <1>4, <1>5 DEF Next, Step

\* However stamp(), daemon_tick() and failures interleave, the engine keeps the
\* promise of TickLog.
THEOREM ImplementsTickLog == Spec => RefinesTickLog
<1>1. Init => Log!Init
  <2> SUFFICES ASSUME Init PROVE Log!Init
    OBVIOUS
  <2>1. Holding = {} /\ issued = {} /\ calendar = << >> /\ current_tick = 0
    BY DEF Init, Holding
  <2>2. Unsettled = {} /\ Stamped = {}
    BY <2>1 DEF Unsettled, Stamped
  <2>3. Logged = << >>
    BY <2>1 DEF Logged
  <2> QED
    BY <2>1, <2>2, <2>3 DEF Log!Init, Unsettled, Stamped, Logged
<1> QED
  BY <1>1, StepRefines, Invariant, PTL DEF Spec, RefinesTickLog, Log!Spec

-----------------------------------------------------------------------------
(* Calls that follow one another.                                            *)

\* At most one call is under way, and it holds the newest tick.
OneCall ==
  /\ \A p, q \in Procs : pc[p] # "idle" /\ pc[q] # "idle" => p = q
  /\ \A p \in Holding : call[p].tick = current_tick

\* What the call under way has read: its own key and the one before it.
OwnKeys(p) ==
  /\ pc[p] # "pub" => call[p].new_pub = Len(births)
  /\ p \in Stampers /\ pc[p] \notin {"pub", "sign"} => call[p].sig = Len(births)
  /\ pc[p] \in {"prev", "forward", "backward"} => call[p].tick # 1
  /\ pc[p] \in {"forward", "backward", "notify"} /\ call[p].tick # 1
       => call[p].prev_pub = Len(births) - 1
  /\ pc[p] \in {"backward", "notify"} /\ call[p].tick # 1
       => call[p].forward = Len(births) - 1
  /\ pc[p] = "notify" => call[p].backward = Len(births)

\* Records publish ever younger keys; a key generated and not yet published is
\* younger than all of them.
KeysAscend ==
  /\ \A i, j \in DOMAIN calendar :
       i < j => calendar[i].public_key < calendar[j].public_key
  /\ \A i \in DOMAIN calendar :
       /\ calendar[i].public_key <= Len(births)
       /\ AfterKey # {} => calendar[i].public_key < Len(births)

\* Every stamp returned has the record that verifies it.
StampsRecorded ==
  \A s \in issued : \E i \in DOMAIN calendar :
    calendar[i].chronon_number = s.tick /\ calendar[i].public_key = s.key

\* Nothing failed: tick n is record n, published under key n.
NothingLost ==
  /\ \A i \in DOMAIN calendar : /\ calendar[i].chronon_number = i
                                /\ calendar[i].public_key = i
  /\ Len(calendar) = IF Holding = {} THEN current_tick ELSE current_tick - 1
  /\ Len(births) = IF Holding = AfterKey THEN current_tick ELSE current_tick - 1
  /\ integrity_check(calendar)

SeqInv ==
  ~overlapped =>
    /\ OneCall
    /\ \A p \in AfterKey : OwnKeys(p)
    /\ KeysAscend /\ StampsRecorded
    /\ faults = 0 => NothingLost

\* A new Chronomatter has no calls, keys or records.
LEMMA SeqInvInit == Init => SeqInv
<1> SUFFICES ASSUME Init PROVE SeqInv
  OBVIOUS
<1>1. /\ Holding = {} /\ AfterKey = {} /\ calendar = << >> /\ births = << >> /\ issued = {}
      /\ current_tick = 0 /\ \A p \in Procs : pc[p] = "idle"
  BY DEF Init, Holding, AfterKey
<1>2. OneCall /\ \A p \in AfterKey : OwnKeys(p)
  BY <1>1 DEF OneCall
<1>3. KeysAscend /\ StampsRecorded
  BY <1>1 DEF KeysAscend, StampsRecorded
<1>4. NothingLost
  BY <1>1 DEF NothingLost, integrity_check
<1> QED
  BY <1>2, <1>3, <1>4 DEF SeqInv

\* While one call is under way the others are idle.
LEMMA OthersIdle ==
  ASSUME OneCall, NEW p \in Procs, pc[p] # "idle"
  PROVE  /\ \A q \in Procs : q # p => pc[q] = "idle"
         /\ Holding \subseteq {p} /\ AfterKey \subseteq {p}
         /\ Holding = {p} <=> pc[p] # "claim"
         /\ AfterKey = {p} <=> pc[p] \notin {"claim", "count", "generate"}
<1>1. \A q \in Procs : q # p => pc[q] = "idle"
  BY DEF OneCall
<1> QED
  BY <1>1 DEF Holding, AfterKey

\* A step that moves no call in or out leaves the records as sound as they were.
LEMMA RecordsFrame ==
  ASSUME SeqInv, ~overlapped, Holding' = Holding, AfterKey' = AfterKey,
         UNCHANGED <<current_tick, calendar, births, issued, faults>>
  PROVE  KeysAscend' /\ StampsRecorded' /\ (faults' = 0 => NothingLost')
<1>1. KeysAscend' /\ StampsRecorded'
  BY DEF SeqInv, KeysAscend, StampsRecorded
<1>2. faults' = 0 => NothingLost'
  BY DEF SeqInv, NothingLost, integrity_check
<1> QED
  BY <1>1, <1>2

\* A step of the call under way that reads a key or the stamp counter.
LEMMA InnerSeqStep ==
  ASSUME SeqInv, TypeOK, NEW p \in Procs,
         pc[p] \notin {"idle", "claim", "count", "generate"},
         pc'[p] \notin {"idle", "claim", "count", "generate"},
         \A q \in Procs : q # p => pc'[q] = pc[q],
         \A q \in Procs : call'[q].tick = call[q].tick,
         UNCHANGED <<current_tick, calendar, births, issued, overlapped, faults>>,
         ~overlapped => OwnKeys(p)'
  PROVE  SeqInv'
<1> SUFFICES ASSUME ~overlapped PROVE SeqInv'
  BY DEF SeqInv
<1>0. OneCall
  BY DEF SeqInv
<1>1. /\ \A q \in Procs : q # p => pc[q] = "idle"
      /\ Holding = {p} /\ AfterKey = {p}
  BY <1>0, OthersIdle
<1>2. \A q \in Procs : q # p => pc'[q] = "idle"
  BY <1>1
<1>3. Holding' = {p} /\ AfterKey' = {p}
  BY <1>2 DEF Holding, AfterKey
<1>4. OneCall'
  BY <1>0, <1>1, <1>2, <1>3 DEF OneCall
<1>5. KeysAscend' /\ StampsRecorded' /\ (faults' = 0 => NothingLost')
  BY <1>1, <1>3, RecordsFrame
<1> QED
  BY <1>3, <1>4, <1>5 DEF SeqInv

\* The keys of the call under way are the newest one and the one before it.
LEMMA KeypairsRead ==
  ASSUME IInv, NEW p \in Procs, p \in AfterKey
  PROVE  /\ keypair(0) = Len(births) /\ Len(births) \in Nat
         /\ Len(keypairs) >= 2 => keypair(1) = Len(births) - 1
<1>1. births \in Seq(Nat) /\ keypairs \in Seq(Nat) /\ NewestKeysRetained
  BY DEF IInv, TypeOK
<1> QED
  BY <1>1, NewestKeyFresh, KeypairIsNewest

\* The call under way reads its keys and makes its signatures.
LEMMA ReadSeqStep ==
  ASSUME IInv, SeqInv, NEW p \in Procs,
         ReadNewPub(p) \/ SignForetis(p) \/ SwapStampCount(p) \/ SignGenesis(p)
  PROVE  SeqInv'
<1>1. p \in AfterKey /\ call \in [Procs -> Calls] /\ pc \in [Procs -> PCs] /\ TypeOK
  BY DEF IInv, TypeOK, ReadNewPub, SignForetis, SwapStampCount, SignGenesis, Goto, AfterKey, Holding
<1>2. PICK k : k = keypair(0)
  OBVIOUS
<1>3. k = Len(births) /\ k \in Nat
  BY <1>1, <1>2, KeypairsRead
<1>4. LinkSoFar(p) /\ (~overlapped => OwnKeys(p))
  BY <1>1 DEF IInv, LinksSoFar, SeqInv
<1>5. UNCHANGED <<current_tick, calendar, births, issued, overlapped, faults>>
  BY DEF ReadNewPub, SignForetis, SwapStampCount, SignGenesis, history
<1>6. CASE ReadNewPub(p)
  <2>1. /\ pc[p] = "pub" /\ pc'[p] \in {"sign", "swap"} /\ (p \in Stampers => pc'[p] = "sign")
        /\ \A q \in Procs : q # p => pc'[q] = pc[q]
        /\ call' = [call EXCEPT ![p].new_pub = k]
    BY <1>1, <1>2, <1>6 DEF ReadNewPub, Goto
  <2>2. \A q \in Procs : call'[q].tick = call[q].tick
    BY <1>1, <2>1 DEF Calls
  <2>3. OwnKeys(p)'
    BY <1>1, <1>3, <1>5, <2>1 DEF OwnKeys, Calls
  <2> QED
    BY <1>1, <1>5, <2>1, <2>2, <2>3, InnerSeqStep
<1>7. CASE SignForetis(p)
  <2>1. /\ pc[p] = "sign" /\ pc'[p] = "swap"
        /\ \A q \in Procs : q # p => pc'[q] = pc[q]
        /\ call' = [call EXCEPT ![p].sig = k]
    BY <1>1, <1>2, <1>7 DEF SignForetis, Goto
  <2>2. \A q \in Procs : call'[q].tick = call[q].tick
    BY <1>1, <2>1 DEF Calls
  <2>3. ~overlapped => OwnKeys(p)'
    BY <1>1, <1>3, <1>4, <1>5, <2>1 DEF OwnKeys, Calls
  <2> QED
    BY <1>1, <1>5, <2>1, <2>2, <2>3, InnerSeqStep
<1>8. CASE SwapStampCount(p)
  <2>1. /\ pc[p] = "swap" /\ pc'[p] = IF call[p].tick = 1 THEN "genesis" ELSE "prev"
        /\ \A q \in Procs : q # p => pc'[q] = pc[q]
        /\ call' = [call EXCEPT ![p].stamps = chronon_stamp_count]
    BY <1>1, <1>8 DEF SwapStampCount, Goto
  <2>2. \A q \in Procs : call'[q].tick = call[q].tick
    BY <1>1, <2>1 DEF Calls
  <2>3. ~overlapped => OwnKeys(p)'
    BY <1>1, <1>4, <1>5, <2>1 DEF OwnKeys, Calls
  <2> QED
    BY <1>1, <1>5, <2>1, <2>2, <2>3, InnerSeqStep
<1>9. CASE SignGenesis(p)
  <2>1. /\ pc[p] = "genesis" /\ pc'[p] = "notify"
        /\ \A q \in Procs : q # p => pc'[q] = pc[q]
        /\ call' = [call EXCEPT ![p].forward = k, ![p].backward = k]
    BY <1>1, <1>2, <1>9 DEF SignGenesis, Goto
  <2>2. \A q \in Procs : call'[q].tick = call[q].tick
    BY <1>1, <2>1 DEF Calls
  <2>3. ~overlapped => OwnKeys(p)'
    <3>1. call[p].tick = 1
      BY <1>4, <2>1 DEF LinkSoFar
    <3> QED
      BY <1>1, <1>3, <1>4, <1>5, <2>1, <3>1 DEF OwnKeys, Calls
  <2> QED
    BY <1>1, <1>5, <2>1, <2>2, <2>3, InnerSeqStep
<1> QED
  BY <1>6, <1>7, <1>8, <1>9

\* The attestation: the previous key is read and signs forward, the newest backward.
LEMMA AttestSeqStep ==
  ASSUME IInv, SeqInv, NEW p \in Procs, ReadPrevPub(p) \/ SignForward(p) \/ SignBackward(p)
  PROVE  SeqInv'
<1>1. p \in AfterKey /\ call \in [Procs -> Calls] /\ pc \in [Procs -> PCs] /\ TypeOK
  BY DEF IInv, TypeOK, ReadPrevPub, SignForward, SignBackward, Goto, AfterKey, Holding
<1>2. PICK k, l : k = keypair(0) /\ l = keypair(1)
  OBVIOUS
<1>3. k = Len(births) /\ k \in Nat /\ (Len(keypairs) >= 2 => l = Len(births) - 1)
  BY <1>1, <1>2, KeypairsRead
<1>4. ~overlapped => OwnKeys(p)
  BY <1>1 DEF SeqInv
<1>5. UNCHANGED <<current_tick, calendar, births, issued, overlapped, faults>>
  BY DEF ReadPrevPub, SignForward, SignBackward, history
<1>6. CASE ReadPrevPub(p)
  <2>1. /\ pc[p] = "prev" /\ pc'[p] = "forward" /\ Len(keypairs) >= 2
        /\ \A q \in Procs : q # p => pc'[q] = pc[q]
        /\ call' = [call EXCEPT ![p].prev_pub = l]
    BY <1>1, <1>2, <1>6 DEF ReadPrevPub, Goto
  <2>2. \A q \in Procs : call'[q].tick = call[q].tick
    BY <1>1, <2>1 DEF Calls
  <2>3. ~overlapped => OwnKeys(p)'
    BY <1>1, <1>3, <1>4, <1>5, <2>1 DEF OwnKeys, Calls
  <2> QED
    BY <1>1, <1>5, <2>1, <2>2, <2>3, InnerSeqStep
<1>7. CASE SignForward(p)
  <2>1. /\ pc[p] = "forward" /\ pc'[p] = "backward"
        /\ \A q \in Procs : q # p => pc'[q] = pc[q]
        /\ call' = [call EXCEPT ![p].forward = l]
    BY <1>1, <1>2, <1>7 DEF SignForward, Goto
  <2>2. \A q \in Procs : call'[q].tick = call[q].tick
    BY <1>1, <2>1 DEF Calls
  <2>3. Len(keypairs) >= 2
    <3>1. call[p].prev_pub >= 1 /\ call[p].prev_pub < Len(births)
      BY <2>1 DEF IInv, LinksSoFar, LinkSoFar
    <3>2. births \in Seq(Nat) /\ call[p].prev_pub \in Nat
          /\ Len(keypairs) = (IF Len(births) < 2 THEN Len(births) ELSE 2)
      BY <1>1 DEF IInv, TypeOK, NewestKeysRetained, Calls
    <3> QED
      BY <3>1, <3>2
  <2>4. ~overlapped => OwnKeys(p)'
    BY <1>1, <1>3, <1>4, <1>5, <2>1, <2>3 DEF OwnKeys, Calls
  <2> QED
    BY <1>1, <1>5, <2>1, <2>2, <2>4, InnerSeqStep
<1>8. CASE SignBackward(p)
  <2>1. /\ pc[p] = "backward" /\ pc'[p] = "notify"
        /\ \A q \in Procs : q # p => pc'[q] = pc[q]
        /\ call' = [call EXCEPT ![p].backward = k]
    BY <1>1, <1>2, <1>8 DEF SignBackward, Goto
  <2>2. \A q \in Procs : call'[q].tick = call[q].tick
    BY <1>1, <2>1 DEF Calls
  <2>3. ~overlapped => OwnKeys(p)'
    BY <1>1, <1>3, <1>4, <1>5, <2>1 DEF OwnKeys, Calls
  <2> QED
    BY <1>1, <1>5, <2>1, <2>2, <2>3, InnerSeqStep
<1> QED
  BY <1>6, <1>7, <1>8

\* A call that begins while another is under way ends the sequence; alone, it is
\* the only one.
LEMMA BeginSeqStep == ASSUME IInv, SeqInv, NEW p \in Procs, Begin(p) PROVE SeqInv'
<1> SUFFICES ASSUME ~overlapped' PROVE SeqInv'
  BY DEF SeqInv
<1>1. /\ ~overlapped /\ \A q \in Procs : q # p => pc[q] = "idle"
      /\ pc[p] = "idle" /\ pc' = [pc EXCEPT ![p] = "claim"] /\ call' = call
      /\ UNCHANGED <<current_tick, calendar, births, issued, faults>>
  BY DEF Begin, Goto
<1>2. pc \in [Procs -> PCs]
  BY DEF IInv, TypeOK
<1>3. Holding = {} /\ Holding' = {} /\ AfterKey = {} /\ AfterKey' = {}
  BY <1>1, <1>2 DEF Holding, AfterKey
<1>4. OneCall'
  BY <1>1, <1>2, <1>3 DEF OneCall
<1>5. KeysAscend' /\ StampsRecorded' /\ (faults' = 0 => NothingLost')
  BY <1>1, <1>3, RecordsFrame
<1> QED
  BY <1>3, <1>4, <1>5 DEF SeqInv

\* Counting the stamp touches no key and no tick.
LEMMA CountSeqStep == ASSUME IInv, SeqInv, NEW p \in Procs, CountStamp(p) PROVE SeqInv'
<1> SUFFICES ASSUME ~overlapped' PROVE SeqInv'
  BY DEF SeqInv
<1>1. /\ ~overlapped /\ pc[p] = "count" /\ pc' = [pc EXCEPT ![p] = "generate"] /\ call' = call
      /\ UNCHANGED <<current_tick, calendar, births, issued, faults>>
  BY DEF CountStamp, Goto
<1>2. pc \in [Procs -> PCs] /\ OneCall
  BY <1>1 DEF IInv, TypeOK, SeqInv
<1>3. Holding' = Holding /\ AfterKey = {} /\ AfterKey' = {}
  <2>1. \A q \in Procs : q # p => pc[q] = "idle"
    BY <1>1, <1>2, OthersIdle
  <2> QED
    BY <1>1, <1>2, <2>1 DEF Holding, AfterKey
<1>4. OneCall'
  BY <1>1, <1>2, <1>3 DEF OneCall
<1>5. KeysAscend' /\ StampsRecorded' /\ (faults' = 0 => NothingLost')
  BY <1>1, <1>3, RecordsFrame
<1> QED
  BY <1>3, <1>4, <1>5 DEF SeqInv

\* The tick claimed is the newest, and not yet recorded.
LEMMA ClaimSeqStep == ASSUME IInv, SeqInv, NEW p \in Procs, ClaimTick(p) PROVE SeqInv'
<1> SUFFICES ASSUME ~overlapped' PROVE SeqInv'
  BY DEF SeqInv
<1>1. /\ ~overlapped /\ pc[p] = "claim" /\ current_tick' = current_tick + 1
      /\ UNCHANGED <<calendar, births, issued, faults>>
  BY DEF ClaimTick, Goto, history
<1>2. /\ pc \in [Procs -> PCs] /\ call \in [Procs -> Calls] /\ OneCall /\ current_tick \in Nat
      /\ Len(calendar) \in Nat /\ Len(births) \in Nat
  BY <1>1 DEF IInv, TypeOK, SeqInv
<1>3. \A q \in Procs : q # p => pc[q] = "idle"
  BY <1>1, <1>2, OthersIdle
<1>4. /\ \A q \in Procs : q # p => pc'[q] = "idle"
      /\ pc'[p] \in {"count", "generate"} /\ call'[p].tick = current_tick + 1
  BY <1>2, <1>3 DEF ClaimTick, Goto, Calls
<1>5. Holding = {} /\ AfterKey = {}
  BY <1>1, <1>3 DEF Holding, AfterKey
<1>6. Holding' = {p} /\ AfterKey' = {}
  BY <1>4 DEF Holding, AfterKey
<1>7. OneCall'
  BY <1>1, <1>4, <1>6 DEF OneCall
<1>8. KeysAscend' /\ StampsRecorded'
  BY <1>1, <1>5, <1>6 DEF SeqInv, KeysAscend, StampsRecorded
<1>9. faults' = 0 => NothingLost'
  <2> SUFFICES ASSUME faults' = 0 PROVE NothingLost'
    OBVIOUS
  <2>1. NothingLost
    BY <1>1 DEF SeqInv
  <2>2. Len(calendar) = current_tick /\ Len(births) = current_tick
    BY <1>5, <2>1 DEF NothingLost
  <2>3. Len(calendar)' = current_tick' - 1 /\ Len(births)' = current_tick' - 1
    BY <1>1, <1>2, <2>2
  <2>4. integrity_check(calendar)'
    BY <1>1, <2>1 DEF NothingLost, integrity_check
  <2>5. \A i \in DOMAIN calendar' : calendar'[i].chronon_number = i /\ calendar'[i].public_key = i
    BY <1>1, <2>1 DEF NothingLost
  <2> QED
    BY <1>6, <2>3, <2>4, <2>5 DEF NothingLost
<1> QED
  BY <1>6, <1>7, <1>8, <1>9 DEF SeqInv

\* The key generated is younger than every key published.
LEMMA GenerateSeqStep == ASSUME IInv, SeqInv, NEW p \in Procs, GenerateKey(p) PROVE SeqInv'
<1> SUFFICES ASSUME ~overlapped' PROVE SeqInv'
  BY DEF SeqInv
<1>1. /\ ~overlapped /\ pc[p] = "generate" /\ pc' = [pc EXCEPT ![p] = "pub"] /\ call' = call
      /\ births' = Append(births, current_tick)
      /\ UNCHANGED <<current_tick, calendar, issued, faults>>
  BY DEF GenerateKey, Goto, history
<1>2. /\ pc \in [Procs -> PCs] /\ call \in [Procs -> Calls] /\ OneCall /\ current_tick \in Nat
      /\ births \in Seq(Nat) /\ calendar \in Seq(Records)
  BY <1>1 DEF IInv, TypeOK, SeqInv
<1>3. Len(births') = Len(births) + 1 /\ Len(births) \in Nat
  BY <1>1, <1>2, AppendFacts
<1>4. \A q \in Procs : q # p => pc[q] = "idle"
  BY <1>1, <1>2, OthersIdle
<1>5. Holding = {p} /\ AfterKey = {}
  BY <1>1, <1>4 DEF Holding, AfterKey
<1>6. Holding' = {p} /\ AfterKey' = {p}
  BY <1>1, <1>2, <1>4 DEF Holding, AfterKey
<1>7. OneCall' /\ OwnKeys(p)'
  <2>1. OneCall'
    BY <1>1, <1>2, <1>4, <1>5, <1>6 DEF OneCall
  <2>2. pc'[p] = "pub"
    BY <1>1, <1>2
  <2> QED
    BY <2>1, <2>2 DEF OwnKeys
<1>8. KeysAscend'
  <2>1. \A i \in DOMAIN calendar : calendar[i].public_key \in Nat
    <3>1. \A i \in DOMAIN calendar : calendar[i] \in Records
      BY <1>2
    <3> QED
      BY <3>1 DEF Records
  <2>2. KeysAscend
    BY <1>1 DEF SeqInv
  <2>3. \A i \in DOMAIN calendar : calendar[i].public_key < Len(births')
    BY <1>3, <2>1, <2>2 DEF KeysAscend
  <2> QED
    BY <1>1, <1>3, <2>1, <2>2, <2>3 DEF KeysAscend
<1>9. StampsRecorded'
  BY <1>1 DEF SeqInv, StampsRecorded
<1>10. faults' = 0 => NothingLost'
  <2> SUFFICES ASSUME faults' = 0 PROVE NothingLost'
    OBVIOUS
  <2>1. NothingLost
    BY <1>1 DEF SeqInv
  <2>2. Len(calendar)' = current_tick' - 1 /\ Len(births) = current_tick - 1
    BY <1>1, <1>5, <2>1 DEF NothingLost
  <2>3. Len(births)' = current_tick'
    BY <1>1, <1>2, <1>3, <2>2
  <2>4. integrity_check(calendar)'
    BY <1>1, <2>1 DEF NothingLost, integrity_check
  <2>5. \A i \in DOMAIN calendar' : calendar'[i].chronon_number = i /\ calendar'[i].public_key = i
    BY <1>1, <2>1 DEF NothingLost
  <2> QED
    BY <1>6, <2>2, <2>3, <2>4, <2>5 DEF NothingLost
<1> QED
  BY <1>6, <1>7, <1>8, <1>9, <1>10 DEF SeqInv

\* A call that fails loses its tick, and that is a failure: without one the
\* previous key is never missing.
LEMMA FailSeqStep ==
  ASSUME IInv, SeqInv, NEW p \in Procs, MissingPrevious(p) \/ Fail(p) PROVE SeqInv'
<1> SUFFICES ASSUME ~overlapped' PROVE SeqInv'
  BY DEF SeqInv
<1>1. /\ ~overlapped /\ pc[p] \notin {"idle", "claim"} /\ Return(p)
      /\ UNCHANGED <<current_tick, calendar, births, issued>>
  BY DEF MissingPrevious, Fail, CanFail, history
<1>2. /\ pc \in [Procs -> PCs] /\ call \in [Procs -> Calls] /\ OneCall /\ faults \in Nat
      /\ Len(births) \in Nat
  BY <1>1 DEF IInv, TypeOK, SeqInv
<1>3. \A q \in Procs : q # p => pc[q] = "idle"
  BY <1>1, <1>2, OthersIdle
<1>4. \A q \in Procs : pc'[q] = "idle"
  BY <1>1, <1>2, <1>3 DEF Return
<1>5. Holding' = {} /\ AfterKey' = {}
  BY <1>4 DEF Holding, AfterKey
<1>6. OneCall'
  BY <1>4, <1>5 DEF OneCall
<1>7. KeysAscend' /\ StampsRecorded'
  BY <1>1, <1>5 DEF SeqInv, KeysAscend, StampsRecorded
<1>8. faults' # 0
  <2>1. CASE Fail(p)
    BY <1>2, <2>1 DEF Fail
  <2>2. CASE MissingPrevious(p)
    <3> SUFFICES ASSUME faults = 0 PROVE FALSE
      BY <2>2 DEF MissingPrevious
    <3>1. pc[p] = "prev" /\ Len(keypairs) < 2 /\ p \in AfterKey /\ p \in Holding
      BY <2>2 DEF MissingPrevious, AfterKey, Holding
    <3>2. call[p].tick # 1 /\ call[p].tick = current_tick /\ call[p].tick \in 1..current_tick
          /\ current_tick \in Nat
      BY <1>1, <1>2, <3>1 DEF SeqInv, OwnKeys, OneCall, IInv, HeldTicks, TypeOK
    <3>3. Holding = {p} /\ AfterKey = {p}
      BY <1>1, <1>2, <3>1, OthersIdle
    <3>4. Len(births) = current_tick
      BY <1>1, <3>3 DEF SeqInv, NothingLost
    <3>5. Len(keypairs) = IF Len(births) < 2 THEN Len(births) ELSE 2
      BY DEF IInv, NewestKeysRetained
    <3> QED
      BY <3>1, <3>2, <3>4, <3>5
  <2> QED
    BY <2>1, <2>2
<1> QED
  BY <1>5, <1>6, <1>7, <1>8 DEF SeqInv

\* Dormancy, the timer's start and stop, and stuttering.
LEMMA ControlSeqStep ==
  ASSUME SeqInv, UNCHANGED <<current_tick, pc, call, calendar, births, issued, overlapped, faults>>
  PROVE  SeqInv'
<1> SUFFICES ASSUME ~overlapped PROVE SeqInv'
  BY DEF SeqInv
<1>1. Holding' = Holding /\ AfterKey' = AfterKey
  BY DEF Holding, AfterKey
<1>2. OneCall' /\ \A p \in AfterKey' : OwnKeys(p)'
  BY <1>1 DEF SeqInv, OneCall, OwnKeys
<1>3. KeysAscend' /\ StampsRecorded' /\ (faults' = 0 => NothingLost')
  BY <1>1, RecordsFrame
<1> QED
  BY <1>2, <1>3 DEF SeqInv

\* The record of a call that attests to the tick before it verifies against that
\* tick's record.
LEMMA RecordVerifies ==
  ASSUME NEW c \in Calls, NEW prev, c.tick # 1,
         prev.chronon_number = c.tick - 1, prev.public_key = c.prev_pub,
         c.forward = c.prev_pub, c.backward = c.new_pub
  PROVE  verify_pair(prev, ChrononRecord(c))
<1>1. CallBlob(c) = auto_attestation_blob(c.tick - 1, c.prev_pub, c.tick, c.new_pub, c.stamps)
  BY DEF CallBlob
<1>2. PICK b : b = CallBlob(c)
  OBVIOUS
<1>3. PICK r : r = ChrononRecord(c)
  OBVIOUS
<1>4. /\ r.chronon_number = c.tick /\ r.public_key = c.new_pub
      /\ r.chronon_stamp_count = c.stamps
      /\ r.forward_foretis = Signature(c.forward, b) /\ r.backward_foretis = Signature(c.backward, b)
  BY <1>2, <1>3 DEF ChrononRecord
<1> QED
  BY <1>1, <1>2, <1>3, <1>4 DEF verify_pair

\* The call under way always gets its record in: its tick is newer than all others.
LEMMA NotifySeqAppends ==
  ASSUME IInv, SeqInv, ~overlapped, NEW p \in Procs, NotifyObserver(p)
  PROVE  /\ calendar' = Append(calendar, ChrononRecord(call[p]))
         /\ Len(calendar') = Len(calendar) + 1 /\ Len(calendar) \in Nat
         /\ DOMAIN calendar = 1..Len(calendar) /\ DOMAIN calendar' = 1..Len(calendar) + 1
         /\ calendar'[Len(calendar) + 1] = ChrononRecord(call[p])
         /\ \A i \in 1..Len(calendar) : calendar'[i] = calendar[i]
<1>1. /\ p \in Holding /\ calendar \in Seq(Records) /\ call[p] \in Calls
      /\ call[p].tick = current_tick /\ call[p].tick \in 1..current_tick /\ current_tick \in Nat
  BY DEF IInv, TypeOK, SeqInv, OneCall, HeldTicks, Holding, NotifyObserver
<1>2. CanAppend(calendar, call[p].tick)
  <2>1. ASSUME Len(calendar) # 0
        PROVE calendar[Len(calendar)].chronon_number < call[p].tick
    <3>1. Len(calendar) \in DOMAIN calendar
      BY <1>1, <2>1
    <3>2. calendar[Len(calendar)].chronon_number \in 1..current_tick
      BY <3>1 DEF IInv, CalendarOrdered
    <3>3. call[p].tick # calendar[Len(calendar)].chronon_number
      BY <1>1, <3>1 DEF IInv, TicksDistinct
    <3> QED
      BY <1>1, <3>2, <3>3
  <2> QED
    BY <2>1 DEF CanAppend
<1>3. PICK r : r = ChrononRecord(call[p])
  OBVIOUS
<1>4. r \in Records
  <2>1. call[p].tick # 0
    BY <1>1
  <2> QED
    BY <1>1, <1>3, <2>1, RecordType
<1>5. calendar' = Append(calendar, r)
  BY <1>2, <1>3 DEF NotifyObserver
<1> QED
  BY <1>1, <1>3, <1>4, <1>5

\* Recording the tick and returning the stamp: the record carries the call's own key.
LEMMA NotifySeqStep == ASSUME IInv, SeqInv, NEW p \in Procs, NotifyObserver(p) PROVE SeqInv'
<1> SUFFICES ASSUME ~overlapped' PROVE SeqInv'
  BY DEF SeqInv
<1>1. /\ ~overlapped /\ pc[p] = "notify" /\ Return(p)
      /\ UNCHANGED <<current_tick, births, faults>>
  BY DEF NotifyObserver
<1>2. PICK c : c = call[p]
  OBVIOUS
<1>3. /\ pc \in [Procs -> PCs] /\ call \in [Procs -> Calls] /\ OneCall /\ Len(births) \in Nat
      /\ c \in Calls /\ p \in Holding /\ p \in AfterKey /\ current_tick \in Nat
  BY <1>1, <1>2 DEF IInv, TypeOK, SeqInv, Holding, AfterKey
<1>4. /\ c.tick = current_tick /\ c.new_pub = Len(births) /\ c.backward = Len(births)
      /\ p \in Stampers => c.sig = Len(births)
      /\ c.tick # 1 => c.prev_pub = Len(births) - 1 /\ c.forward = Len(births) - 1
  BY <1>1, <1>2, <1>3 DEF SeqInv, OwnKeys, OneCall
<1>5. Holding = {p} /\ AfterKey = {p} /\ \A q \in Procs : q # p => pc[q] = "idle"
  BY <1>1, <1>3, OthersIdle
<1>6. \A q \in Procs : pc'[q] = "idle"
  BY <1>1, <1>3, <1>5 DEF Return
<1>7. Holding' = {} /\ AfterKey' = {}
  BY <1>6 DEF Holding, AfterKey
<1>8. OneCall'
  BY <1>6, <1>7 DEF OneCall
<1>9. PICK n \in Nat : n = Len(calendar)
  BY DEF IInv, TypeOK
<1>10. PICK r : r = ChrononRecord(c)
  OBVIOUS
<1>11. /\ Len(calendar') = n + 1 /\ DOMAIN calendar = 1..n /\ DOMAIN calendar' = 1..n + 1
       /\ calendar'[n + 1] = r /\ \A i \in 1..n : calendar'[i] = calendar[i]
  BY <1>1, <1>2, <1>9, <1>10, NotifySeqAppends
<1>12. r.chronon_number = c.tick /\ r.public_key = c.new_pub
  BY <1>10, RecordFields
<1>13. \A i \in 1..n : calendar[i].public_key \in Nat
  <2>1. calendar \in Seq(Records)
    BY DEF IInv, TypeOK
  <2>2. \A i \in 1..n : calendar[i] \in Records
    BY <1>9, <2>1
  <2> QED
    BY <2>2 DEF Records
<1>14. KeysAscend'
  <2>1. \A i \in 1..n : calendar[i].public_key < Len(births)
    BY <1>1, <1>5, <1>11 DEF SeqInv, KeysAscend
  <2>2. \A i, j \in 1..n : i < j => calendar[i].public_key < calendar[j].public_key
    BY <1>1, <1>11 DEF SeqInv, KeysAscend
  <2>3. ASSUME NEW i \in 1..n + 1, NEW j \in 1..n + 1, i < j
        PROVE  calendar'[i].public_key < calendar'[j].public_key
    <3>1. i \in 1..n
      BY <2>3
    <3>2. CASE j = n + 1
      BY <1>4, <1>11, <1>12, <2>1, <3>1, <3>2
    <3>3. CASE j # n + 1
      BY <1>11, <2>2, <2>3, <3>1, <3>3
    <3> QED
      BY <3>2, <3>3
  <2>4. \A i \in 1..n + 1 : calendar'[i].public_key <= Len(births)
    BY <1>3, <1>4, <1>11, <1>12, <1>13, <2>1
  <2> QED
    BY <1>1, <1>7, <1>11, <2>3, <2>4 DEF KeysAscend
<1>15. StampsRecorded'
  <2>1. \A s \in issued : \E i \in 1..n :
          calendar[i].chronon_number = s.tick /\ calendar[i].public_key = s.key
    BY <1>1, <1>11 DEF SeqInv, StampsRecorded
  <2>2. \A s \in issued' : \/ s \in issued
                           \/ p \in Stampers /\ s.tick = c.tick /\ s.key = c.sig
    BY <1>2 DEF NotifyObserver
  <2>3. ASSUME NEW s \in issued'
        PROVE  \E i \in 1..n + 1 :
                 calendar'[i].chronon_number = s.tick /\ calendar'[i].public_key = s.key
    <3>1. CASE s \in issued
      <4>1. PICK i \in 1..n : calendar[i].chronon_number = s.tick /\ calendar[i].public_key = s.key
        BY <2>1, <3>1
      <4>2. i \in 1..n + 1 /\ calendar'[i] = calendar[i]
        BY <1>11
      <4> QED
        BY <4>1, <4>2
    <3>2. CASE p \in Stampers /\ s.tick = c.tick /\ s.key = c.sig
      <4>1. n + 1 \in 1..n + 1
        OBVIOUS
      <4> QED
        BY <1>4, <1>11, <1>12, <3>2, <4>1
    <3> QED
      BY <2>2, <3>1, <3>2
  <2> QED
    BY <1>11, <2>3 DEF StampsRecorded
<1>16. faults' = 0 => NothingLost'
  <2> SUFFICES ASSUME faults' = 0 PROVE NothingLost'
    OBVIOUS
  <2>1. NothingLost
    BY <1>1 DEF SeqInv
  <2>2. n = current_tick - 1 /\ Len(births) = current_tick
    BY <1>5, <1>9, <2>1 DEF NothingLost
  <2>3. n + 1 = current_tick /\ c.tick = n + 1 /\ c.new_pub = n + 1
    BY <1>3, <1>4, <2>2
  <2>4. \A i \in 1..n : calendar[i].chronon_number = i /\ calendar[i].public_key = i
    BY <1>11, <2>1 DEF NothingLost
  <2>5. \A i \in 1..n + 1 : calendar'[i].chronon_number = i /\ calendar'[i].public_key = i
    BY <1>11, <1>12, <2>3, <2>4
  <2>6. ASSUME NEW i \in 1..n PROVE verify_pair(calendar'[i], calendar'[i + 1])
    <3>1. CASE i = n
      <4>1. PICK a : a = calendar[n]
        OBVIOUS
      <4>2. a.chronon_number = n /\ a.public_key = n /\ n >= 1
        BY <2>4, <3>1, <4>1
      <4>3. c.tick # 1 /\ c.prev_pub = n /\ c.forward = n /\ c.backward = c.new_pub /\ c.tick - 1 = n
        BY <1>3, <1>4, <2>2, <2>3, <4>2
      <4>4. verify_pair(a, r)
        BY <1>3, <1>10, <4>2, <4>3, RecordVerifies
      <4>5. calendar'[i] = a /\ calendar'[i + 1] = r
        BY <1>11, <3>1, <4>1
      <4> QED
        BY <4>4, <4>5
    <3>2. CASE i # n
      <4>1. i \in 1..n - 1 /\ i + 1 \in 1..n
        BY <3>2
      <4>2. verify_pair(calendar[i], calendar[i + 1])
        BY <1>9, <2>1, <4>1 DEF NothingLost, integrity_check
      <4>3. calendar'[i] = calendar[i] /\ calendar'[i + 1] = calendar[i + 1]
        BY <1>11, <4>1
      <4> QED
        BY <4>2, <4>3
    <3> QED
      BY <3>1, <3>2
  <2>7. integrity_check(calendar)'
    <3>1. 1..Len(calendar') - 1 = 1..n
      BY <1>11
    <3> QED
      BY <2>6, <3>1 DEF integrity_check
  <2> QED
    BY <1>1, <1>7, <1>11, <2>2, <2>3, <2>5, <2>7 DEF NothingLost
<1> QED
  BY <1>7, <1>8, <1>14, <1>15, <1>16 DEF SeqInv

\* Every step preserves what holds of calls that follow one another.
LEMMA SeqInvNext == IInv /\ SeqInv /\ [Next]_vars => SeqInv'
<1> SUFFICES ASSUME IInv, SeqInv, [Next]_vars PROVE SeqInv'
  OBVIOUS
<1>1. ASSUME NEW p \in Procs, Begin(p) \/ Step(p) PROVE SeqInv'
  BY <1>1, BeginSeqStep, ClaimSeqStep, CountSeqStep, GenerateSeqStep, ReadSeqStep,
     AttestSeqStep, FailSeqStep, NotifySeqStep DEF Step
<1>2. CASE \/ \E d \in BOOLEAN : set_dormant(d)
           \/ \E d \in Daemons : start_daemon(d)
           \/ stop_daemon
           \/ UNCHANGED vars
  <2>1. UNCHANGED <<current_tick, pc, call, calendar, births, issued, overlapped, faults>>
    BY <1>2 DEF set_dormant, start_daemon, stop_daemon, vars, history
  <2> QED
    BY <2>1, ControlSeqStep
<1> QED
  BY <1>1, <1>2 DEF Next

\* The promise of the calendar follows.
LEMMA SeqInvSuffices == IInv /\ SeqInv => SequentialSound
<1> SUFFICES ASSUME IInv, SeqInv, ~overlapped
             PROVE  /\ IssuedStampVerifies /\ EachTickOwnKey
                    /\ faults = 0 => EveryTickRecorded /\ integrity_check(calendar)
  BY DEF SequentialSound
<1>1. calendar \in Seq(Records) /\ DOMAIN calendar = 1..Len(calendar) /\ Len(calendar) \in Nat
  BY DEF IInv, TypeOK
<1>2. \A i \in DOMAIN calendar : calendar[i].public_key \in Nat /\ calendar[i].chronon_number \in Nat
  <2>1. \A i \in DOMAIN calendar : calendar[i] \in Records
    BY <1>1
  <2> QED
    BY <2>1 DEF Records
<1>3. IssuedStampVerifies
  <2>1. ASSUME NEW s \in issued PROVE verify(s, calendar)
    <3>1. PICK i \in DOMAIN calendar :
            calendar[i].chronon_number = s.tick /\ calendar[i].public_key = s.key
      BY DEF SeqInv, StampsRecorded
    <3>2. \A j \in 1..i - 1 : calendar[j].chronon_number < s.tick
      <4>1. \A j \in 1..i - 1 : j \in DOMAIN calendar /\ j < i
        BY <1>1
      <4> QED
        BY <3>1, <4>1 DEF IInv, CalendarOrdered
    <3>3. i \in FirstFrom(calendar, s.tick)
      BY <1>2, <3>1, <3>2 DEF FirstFrom
    <3> QED
      BY <3>1, <3>3 DEF verify
  <2> QED
    BY <2>1 DEF IssuedStampVerifies
<1>4. EachTickOwnKey
  <2>1. \A i, j \in DOMAIN calendar :
          i < j => calendar[i].public_key < calendar[j].public_key
    BY DEF SeqInv, KeysAscend
  <2> QED
    BY <1>1, <1>2, <2>1 DEF EachTickOwnKey
<1>5. ASSUME faults = 0 PROVE EveryTickRecorded /\ integrity_check(calendar)
  <2>1. NothingLost
    BY <1>5 DEF SeqInv
  <2>2. ASSUME \A p \in Procs : pc[p] = "idle"
        PROVE \A n \in 1..current_tick : \E i \in DOMAIN calendar : calendar[i].chronon_number = n
    <3>1. Holding = {}
      BY <2>2 DEF Holding
    <3>2. Len(calendar) = current_tick
      BY <2>1, <3>1 DEF NothingLost
    <3> QED
      BY <1>1, <2>1, <3>2 DEF NothingLost
  <2> QED
    BY <2>1, <2>2 DEF NothingLost, EveryTickRecorded
<1> QED
  BY <1>3, <1>4, <1>5

\* As long as calls of stamp() and daemon_tick() follow one another, every stamp
\* returned verifies, no key serves two ticks and, unless a step failed, every
\* tick is recorded and the calendar passes integrity_check().
THEOREM SequentialCallsSound == Spec => []SequentialSound
<1>1. Spec => []SeqInv
  BY SeqInvInit, SeqInvNext, Invariant, PTL DEF Spec
<1> QED
  BY <1>1, SeqInvSuffices, Invariant, PTL

-----------------------------------------------------------------------------
(* Stamps are counted once.                                                  *)

\* A call holds no stamps until it has drained the counter.
NotYetDrained ==
  \A p \in Procs : pc[p] \in {"idle", "claim", "count", "generate", "pub", "sign", "swap"} =>
    call[p].stamps = 0

\* Of t ticks, n are recorded and h held by calls; the others are lost, and
\* only with one of those can a stamp be.
Accounts(total, counted, n, h, t) ==
  /\ total <= counted /\ n + h <= t
  /\ n + h = t => total = counted

StampsInv ==
  /\ NotYetDrained
  /\ Accounts(StampTotal, stamp_calls, Len(calendar), Cardinality(Holding), current_tick)

RecordSum(cal) == SumFunctionOnSet(Recorded(cal), DOMAIN cal)
HeldSum(c) == SumFunctionOnSet(Held(c), Procs)

\* The calls are finitely many, and so are those that hold a tick.
LEMMA ProcsFinite == IsFiniteSet(Procs)
BY ProcAssumption, FS_Union DEF Procs

\* So their number is one.
LEMMA HoldingFinite == IsFiniteSet(Holding) /\ Cardinality(Holding) \in Nat
<1>1. IsFiniteSet(Holding)
  BY ProcsFinite, FS_Subset DEF Holding
<1> QED
  BY <1>1, FS_CardinalityType

\* What calls hold, when one of them changes and when none does.
LEMMA HeldSumChanges ==
  ASSUME NEW c \in [Procs -> Calls], NEW d \in [Procs -> Calls], NEW p \in Procs,
         \A q \in Procs : q # p => d[q].stamps = c[q].stamps
  PROVE  /\ HeldSum(c) \in Int
         /\ HeldSum(d) = HeldSum(c) - c[p].stamps + d[p].stamps
<1>1. Ints(Held(c), Procs) /\ Ints(Held(d), Procs)
  <2>1. \A q \in Procs : c[q].stamps \in Nat /\ d[q].stamps \in Nat
    BY DEF Calls
  <2> QED
    BY <2>1 DEF Held, Ints
<1>2. Held(c)[p] = c[p].stamps /\ Held(d)[p] = d[p].stamps
      /\ \A q \in Procs : q # p => Held(d)[q] = Held(c)[q]
  BY DEF Held
<1> QED
  BY <1>1, <1>2, ProcsFinite, SumChange, SumIsInt DEF HeldSum

\* No call's stamps change.
LEMMA HeldSumKept ==
  ASSUME NEW c \in [Procs -> Calls], NEW d \in [Procs -> Calls],
         \A q \in Procs : d[q].stamps = c[q].stamps
  PROVE  HeldSum(c) \in Int /\ HeldSum(d) = HeldSum(c)
<1>1. Ints(Held(c), Procs)
  <2>1. \A q \in Procs : c[q].stamps \in Nat
    BY DEF Calls
  <2> QED
    BY <2>1 DEF Held, Ints
<1>2. \A q \in Procs : Held(d)[q] = Held(c)[q]
  BY DEF Held
<1> QED
  BY <1>1, <1>2, ProcsFinite, SumAgrees, SumIsInt DEF HeldSum

\* What the calendar records, and after one record more.
LEMMA RecordSumGrows ==
  ASSUME NEW cal \in Seq(Records), NEW r \in Records, NEW new, new = Append(cal, r)
  PROVE  RecordSum(cal) \in Int /\ RecordSum(new) = RecordSum(cal) + r.chronon_stamp_count
<1>1. PICK n \in Nat : n = Len(cal)
  OBVIOUS
<1>2. /\ DOMAIN cal = 1..n /\ DOMAIN new = 1..(n + 1) /\ new[n + 1] = r
      /\ \A i \in 1..n : new[i] = cal[i] /\ cal[i] \in Records
  BY <1>1
<1>3. /\ \A i \in 1..n : Recorded(cal)[i] = cal[i].chronon_stamp_count /\ Recorded(new)[i] = Recorded(cal)[i]
      /\ Recorded(new)[n + 1] = r.chronon_stamp_count
  BY <1>2 DEF Recorded
<1>4. /\ \A i \in 1..n : cal[i].chronon_stamp_count \in Nat
      /\ r.chronon_stamp_count \in Nat
  BY <1>2 DEF Records
<1>5. Ints(Recorded(cal), 1..n) /\ Ints(Recorded(new), 1..(n + 1)) /\ Ints(Recorded(new), 1..n)
  <2>1. \A i \in 1..n : Recorded(cal)[i] \in Int /\ Recorded(new)[i] \in Int
    BY <1>3, <1>4
  <2>2. Recorded(new)[n + 1] \in Int
    BY <1>3, <1>4
  <2>3. \A i \in 1..(n + 1) : i \in 1..n \/ i = n + 1
    OBVIOUS
  <2> QED
    BY <2>1, <2>2, <2>3 DEF Ints
<1>6. IsFiniteSet(1..n) /\ IsFiniteSet(1..(n + 1))
  BY FS_Interval
<1>7. (1..(n + 1)) \ {n + 1} = 1..n /\ n + 1 \in 1..(n + 1)
  OBVIOUS
<1>8. SumFunctionOnSet(Recorded(new), 1..(n + 1))
        = Recorded(new)[n + 1] + SumFunctionOnSet(Recorded(new), 1..n)
  BY <1>5, <1>6, <1>7, SumRemove
<1>9. SumFunctionOnSet(Recorded(new), 1..n) = SumFunctionOnSet(Recorded(cal), 1..n)
  BY <1>3, <1>5, <1>6, SumAgrees
<1>10. SumFunctionOnSet(Recorded(cal), 1..n) \in Int
  BY <1>5, <1>6, SumIsInt
<1> QED
  BY <1>2, <1>3, <1>4, <1>8, <1>9, <1>10 DEF RecordSum

\* What the calendar records is a number.
LEMMA RecordSumIsInt == ASSUME NEW cal \in Seq(Records) PROVE RecordSum(cal) \in Int
<1>1. \A i \in DOMAIN cal : cal[i].chronon_stamp_count \in Nat
  <2>1. \A i \in DOMAIN cal : cal[i] \in Records
    OBVIOUS
  <2> QED
    BY <2>1 DEF Records
<1>2. Ints(Recorded(cal), DOMAIN cal) /\ DOMAIN cal = 1..Len(cal) /\ Len(cal) \in Nat
  BY <1>1 DEF Recorded, Ints
<1> QED
  BY <1>2, FS_Interval, SumIsInt DEF RecordSum

\* The number of calls that hold a tick, when one begins to and when one ends.
LEMMA HoldingChanges ==
  ASSUME NEW H, IsFiniteSet(H), NEW p
  PROVE  /\ Cardinality(H) \in Nat
         /\ p \notin H => Cardinality(H \cup {p}) = Cardinality(H) + 1
         /\ p \in H => Cardinality(H \ {p}) = Cardinality(H) - 1
BY FS_CardinalityType, FS_AddElement, FS_RemoveElement

\* A new engine has counted nothing.
LEMMA StampsStart == Init => StampsInv
<1> SUFFICES ASSUME Init PROVE StampsInv
  OBVIOUS
<1>1. /\ current_tick = 0 /\ chronon_stamp_count = 0 /\ calendar = << >> /\ stamp_calls = 0
      /\ \A p \in Procs : pc[p] = "idle" /\ call[p].stamps = 0
  BY DEF Init, Idle
<1>2. NotYetDrained
  BY <1>1 DEF NotYetDrained
<1>3. Holding = {} /\ Cardinality(Holding) = 0
  <2>1. Holding = {}
    BY <1>1 DEF Holding
  <2> QED
    BY <2>1, FS_EmptySet
<1>4. RecordSum(calendar) = 0
  <2>1. DOMAIN calendar = {}
    BY <1>1
  <2> QED
    BY <2>1, SumEmpty DEF RecordSum
<1>5. HeldSum(call) = 0
  <2>1. \A p \in Procs : Held(call)[p] = 0
    BY <1>1 DEF Held
  <2> QED
    BY <2>1, ProcsFinite, SumOfZeros DEF HeldSum
<1>6. StampTotal = 0
  BY <1>1, <1>4, <1>5 DEF StampTotal, RecordSum, HeldSum
<1>7. Len(calendar) = 0
  BY <1>1
<1> QED
  BY <1>1, <1>2, <1>3, <1>6, <1>7 DEF StampsInv, Accounts

\* The total, in numbers.
LEMMA TotalIs ==
  ASSUME TypeOK
  PROVE  /\ StampTotal = RecordSum(calendar) + HeldSum(call) + chronon_stamp_count
         /\ RecordSum(calendar) \in Int /\ HeldSum(call) \in Int /\ chronon_stamp_count \in Nat
         /\ Len(calendar) \in Nat /\ Cardinality(Holding) \in Nat /\ current_tick \in Nat
         /\ stamp_calls \in Nat /\ call \in [Procs -> Calls] /\ pc \in [Procs -> PCs]
<1>1. HeldSum(call) \in Int
  BY HeldSumKept DEF TypeOK
<1> QED
  BY <1>1, RecordSumIsInt, HoldingFinite DEF TypeOK, StampTotal, RecordSum, HeldSum

\* A step that moves no stamps and holds or gives back no tick.
LEMMA QuietStep ==
  ASSUME TypeOK, TypeOK', StampsInv, NotYetDrained', Holding' = Holding,
         \A q \in Procs : call'[q].stamps = call[q].stamps,
         UNCHANGED <<current_tick, chronon_stamp_count, calendar, stamp_calls>>
  PROVE  StampsInv'
<1>1. PICK c, d, cal : c = call /\ d = call' /\ cal = calendar /\ cal = calendar'
  OBVIOUS
<1>2. c \in [Procs -> Calls] /\ d \in [Procs -> Calls]
  BY <1>1 DEF TypeOK
<1>3. HeldSum(d) = HeldSum(c)
  BY <1>1, <1>2, HeldSumKept
<1>4. StampTotal' = StampTotal
  BY <1>1, <1>3 DEF StampTotal, RecordSum, HeldSum
<1> QED
  BY <1>1, <1>4 DEF StampsInv, Accounts

\* Steps of a call that are neither the claim, the count, the drain nor the end.
LEMMA InnerKeepsStamps ==
  ASSUME TypeOK, TypeOK', StampsInv, NEW p \in Procs,
         \/ Begin(p) \/ GenerateKey(p) \/ ReadNewPub(p) \/ SignForetis(p) \/ SignGenesis(p)
         \/ ReadPrevPub(p) \/ SignForward(p) \/ SignBackward(p)
  PROVE  StampsInv'
<1>1. /\ UNCHANGED <<current_tick, chronon_stamp_count, calendar, stamp_calls>>
      /\ \A q \in Procs : call'[q].stamps = call[q].stamps
  <2>1. call \in [Procs -> Calls]
    BY DEF TypeOK
  <2>2. CASE Begin(p) \/ GenerateKey(p)
    BY <2>1, <2>2 DEF Begin, GenerateKey, daemon, history
  <2>3. CASE ReadNewPub(p) \/ SignForetis(p) \/ ReadPrevPub(p)
    BY <2>1, <2>3 DEF ReadNewPub, SignForetis, ReadPrevPub, Calls, daemon, history
  <2>4. CASE SignGenesis(p) \/ SignForward(p) \/ SignBackward(p)
    BY <2>1, <2>4 DEF SignGenesis, SignForward, SignBackward, Calls, daemon, history
  <2> QED
    BY <2>2, <2>3, <2>4
<1>2. pc \in [Procs -> PCs]
  BY DEF TypeOK
<1>3. /\ \A q \in Procs \ {p} : pc'[q] = pc[q]
      /\ pc[p] \in {"idle", "claim"} <=> pc'[p] \in {"idle", "claim"}
      /\ pc'[p] \in {"claim", "pub", "sign", "swap"} => pc[p] \in {"idle", "generate", "pub", "sign"}
      /\ pc'[p] \notin {"idle", "count", "generate"}
  <2>1. CASE Begin(p) \/ GenerateKey(p) \/ ReadNewPub(p) \/ SignForetis(p)
    BY <2>1, <1>2 DEF Begin, GenerateKey, ReadNewPub, SignForetis, Goto
  <2>2. CASE SignGenesis(p) \/ ReadPrevPub(p) \/ SignForward(p) \/ SignBackward(p)
    BY <2>2, <1>2 DEF SignGenesis, ReadPrevPub, SignForward, SignBackward, Goto
  <2> QED
    BY <2>1, <2>2
<1>4. Holding' = Holding
  <2>1. \A q \in Procs : pc'[q] \in {"idle", "claim"} <=> pc[q] \in {"idle", "claim"}
    BY <1>3
  <2> QED
    BY <2>1 DEF Holding
<1>5. NotYetDrained'
  <2>1. ASSUME NEW q \in Procs, pc'[q] \in {"idle", "claim", "count", "generate", "pub", "sign", "swap"}
        PROVE  call[q].stamps = 0
    BY <2>1, <1>3 DEF StampsInv, NotYetDrained
  <2> QED
    BY <2>1, <1>1 DEF NotYetDrained
<1> QED
  BY <1>1, <1>4, <1>5, QuietStep

\* A tick is handed out and held.
LEMMA ClaimKeepsStamps ==
  ASSUME TypeOK, TypeOK', StampsInv, NEW p \in Procs, ClaimTick(p)
  PROVE  StampsInv'
<1>1. /\ UNCHANGED <<chronon_stamp_count, calendar, stamp_calls>> /\ current_tick' = current_tick + 1
      /\ \A q \in Procs : call'[q].stamps = call[q].stamps
      /\ pc[p] = "claim" /\ pc'[p] \in {"count", "generate"} /\ \A q \in Procs \ {p} : pc'[q] = pc[q]
  BY DEF ClaimTick, Goto, TypeOK, Calls, daemon, history
<1>2. Holding' = Holding \cup {p} /\ p \notin Holding
  BY <1>1 DEF Holding
<1>3. NotYetDrained'
  BY <1>1 DEF StampsInv, NotYetDrained
<1>4. PICK n \in Nat : n = Cardinality(Holding) /\ Cardinality(Holding') = n + 1
  BY <1>2, HoldingFinite, HoldingChanges
<1>5. StampTotal' = StampTotal
  <2>1. PICK c, d, cal : c = call /\ d = call' /\ cal = calendar /\ cal = calendar'
    BY <1>1
  <2>2. c \in [Procs -> Calls] /\ d \in [Procs -> Calls]
    BY <2>1 DEF TypeOK
  <2>3. HeldSum(d) = HeldSum(c)
    BY <1>1, <2>1, <2>2, HeldSumKept
  <2> QED
    BY <1>1, <2>1, <2>3 DEF StampTotal, RecordSum, HeldSum
<1>6. PICK l \in Nat, t \in Nat : l = Len(calendar) /\ t = current_tick
  BY DEF TypeOK
<1>7. Len(calendar') = l /\ current_tick' = t + 1
  BY <1>1, <1>6
<1>8. /\ StampTotal <= stamp_calls /\ l + n <= t
      /\ l + n = t => StampTotal = stamp_calls
  BY <1>4, <1>6 DEF StampsInv, Accounts
<1>9. /\ StampTotal' <= stamp_calls' /\ l + (n + 1) <= t + 1
      /\ l + (n + 1) = t + 1 => StampTotal' = stamp_calls'
  BY <1>1, <1>5, <1>8
<1> QED
  BY <1>3, <1>4, <1>7, <1>9 DEF StampsInv, Accounts

\* A stamp is counted, and one is pending more.
LEMMA CountKeepsStamps ==
  ASSUME TypeOK, TypeOK', StampsInv, NEW p \in Procs, CountStamp(p)
  PROVE  StampsInv'
<1>1. /\ UNCHANGED <<calendar, call, current_tick>>
      /\ chronon_stamp_count' = chronon_stamp_count + 1 /\ stamp_calls' = stamp_calls + 1
      /\ pc[p] = "count" /\ pc'[p] = "generate" /\ \A q \in Procs \ {p} : pc'[q] = pc[q]
  BY DEF CountStamp, Goto, TypeOK, daemon
<1>2. Holding' = Holding
  BY <1>1 DEF Holding
<1>3. NotYetDrained'
  BY <1>1 DEF StampsInv, NotYetDrained
<1>4. PICK r, h \in Int, k, s \in Nat :
        r = RecordSum(calendar) /\ h = HeldSum(call) /\ k = chronon_stamp_count /\ s = stamp_calls
        /\ StampTotal = r + h + k
  BY TotalIs
<1>5. StampTotal' = r + h + (k + 1)
  <2>1. PICK c, cal : c = call /\ c = call' /\ cal = calendar /\ cal = calendar'
    BY <1>1
  <2> QED
    BY <1>1, <1>4, <2>1 DEF StampTotal, RecordSum, HeldSum
<1>6. /\ r + h + k <= s
      /\ Len(calendar) + Cardinality(Holding) = current_tick => r + h + k = s
  BY <1>4 DEF StampsInv, Accounts
<1>7. /\ StampTotal' <= stamp_calls'
      /\ Len(calendar) + Cardinality(Holding) = current_tick => StampTotal' = stamp_calls'
  BY <1>1, <1>4, <1>5, <1>6
<1>8. Len(calendar) + Cardinality(Holding) <= current_tick
  BY DEF StampsInv, Accounts
<1> QED
  BY <1>1, <1>2, <1>3, <1>7, <1>8 DEF StampsInv, Accounts

\* A tick takes what is pending.
LEMMA SwapKeepsStamps ==
  ASSUME TypeOK, TypeOK', StampsInv, NEW p \in Procs, SwapStampCount(p)
  PROVE  StampsInv'
<1>1. /\ UNCHANGED <<calendar, current_tick, stamp_calls>> /\ chronon_stamp_count' = 0
      /\ call'[p].stamps = chronon_stamp_count /\ \A q \in Procs : q # p => call'[q].stamps = call[q].stamps
      /\ pc[p] = "swap" /\ pc'[p] \in {"genesis", "prev"} /\ \A q \in Procs \ {p} : pc'[q] = pc[q]
  BY DEF SwapStampCount, Goto, TypeOK, Calls, daemon, history
<1>2. Holding' = Holding
  BY <1>1 DEF Holding
<1>3. NotYetDrained'
  BY <1>1 DEF StampsInv, NotYetDrained
<1>4. call[p].stamps = 0
  BY <1>1 DEF StampsInv, NotYetDrained
<1>5. PICK r, h \in Int, k \in Nat :
        r = RecordSum(calendar) /\ h = HeldSum(call) /\ k = chronon_stamp_count /\ StampTotal = r + h + k
  BY TotalIs
<1>6. StampTotal' = StampTotal
  <2>1. PICK c, d, cal : c = call /\ d = call' /\ cal = calendar /\ cal = calendar'
    BY <1>1
  <2>2. c \in [Procs -> Calls] /\ d \in [Procs -> Calls]
    BY <2>1 DEF TypeOK
  <2>3. \A q \in Procs : q # p => d[q].stamps = c[q].stamps
    BY <1>1, <2>1
  <2>4. HeldSum(d) = h - 0 + k
    BY <1>1, <1>4, <1>5, <2>1, <2>2, <2>3, HeldSumChanges
  <2>5. StampTotal' = r + (h - 0 + k) + 0
    BY <1>1, <1>5, <2>1, <2>4 DEF StampTotal, RecordSum, HeldSum
  <2> QED
    BY <1>5, <2>5
<1> QED
  BY <1>1, <1>2, <1>3, <1>6 DEF StampsInv, Accounts

\* A call that ends gives back its tick and what it holds.
LEMMA ReturnGivesBack ==
  ASSUME TypeOK, TypeOK', NEW p \in Holding, Return(p), StampsInv
  PROVE  /\ call[p].stamps \in Nat /\ HeldSum(call) \in Int
         /\ HeldSum(call') = HeldSum(call) - call[p].stamps
         /\ Cardinality(Holding) \in Nat /\ Cardinality(Holding') = Cardinality(Holding) - 1
         /\ NotYetDrained'
<1>1. /\ p \in Procs /\ pc'[p] = "idle" /\ call'[p].stamps = 0
      /\ \A q \in Procs : q # p => call'[q] = call[q] /\ pc'[q] = pc[q]
  BY DEF Return, TypeOK, Holding, Idle
<1>2. Holding' = Holding \ {p}
  BY <1>1 DEF Holding
<1>3. NotYetDrained'
  BY <1>1 DEF StampsInv, NotYetDrained
<1>4. Cardinality(Holding) \in Nat /\ Cardinality(Holding') = Cardinality(Holding) - 1
  BY <1>2, HoldingFinite, HoldingChanges
<1>5. PICK c, d : c = call /\ d = call'
  OBVIOUS
<1>6. c \in [Procs -> Calls] /\ d \in [Procs -> Calls] /\ c[p].stamps \in Nat
  BY <1>1, <1>5 DEF TypeOK, Calls
<1>7. HeldSum(c) \in Int /\ HeldSum(d) = HeldSum(c) - c[p].stamps + 0
  <2>1. \A q \in Procs : q # p => d[q].stamps = c[q].stamps
    BY <1>1, <1>5
  <2>2. d[p].stamps = 0
    BY <1>1, <1>5
  <2> QED
    BY <2>1, <2>2, <1>1, <1>6, HeldSumChanges
<1> QED
  BY <1>3, <1>4, <1>5, <1>6, <1>7

\* A call that fails, and one whose record the calendar refuses, loses its stamps and its tick.
LEMMA LossKeepsStamps ==
  ASSUME TypeOK, TypeOK', StampsInv, NEW p \in Holding, Return(p),
         UNCHANGED <<current_tick, chronon_stamp_count, calendar, stamp_calls>>
  PROVE  StampsInv'
<1>1. PICK r, h \in Int, k, x, n \in Nat :
        /\ r = RecordSum(calendar) /\ h = HeldSum(call) /\ k = chronon_stamp_count /\ x = call[p].stamps
        /\ n = Cardinality(Holding)
  BY TotalIs, ReturnGivesBack
<1>2. StampTotal = r + h + k
  BY <1>1, TotalIs
<1>3. PICK c, d, cal : c = call /\ d = call' /\ cal = calendar /\ cal = calendar'
  OBVIOUS
<1>4. HeldSum(d) = h - x /\ Cardinality(Holding') = n - 1 /\ NotYetDrained'
  BY <1>1, <1>3, ReturnGivesBack
<1>5. StampTotal' = r + (h - x) + k
  BY <1>1, <1>3, <1>4 DEF StampTotal, RecordSum, HeldSum
<1>6. PICK l, t, s \in Nat : l = Len(calendar) /\ t = current_tick /\ s = stamp_calls
  BY DEF TypeOK
<1>7. r + h + k <= s /\ l + n <= t
  BY <1>1, <1>2, <1>6 DEF StampsInv, Accounts
<1>8. r + (h - x) + k <= s /\ l + (n - 1) <= t /\ l + (n - 1) # t
  BY <1>7
<1> QED
  BY <1>4, <1>5, <1>6, <1>8 DEF StampsInv, Accounts

\* A call whose record is appended hands its stamps and its tick to the calendar.
LEMMA NotifyKeepsStamps ==
  ASSUME IInv, TypeOK', StampsInv, NEW p \in Procs, NotifyObserver(p)
  PROVE  StampsInv'
<1>0. TypeOK
  BY DEF IInv
<1>1. /\ p \in Holding /\ Return(p) /\ UNCHANGED <<current_tick, chronon_stamp_count, stamp_calls>>
      /\ calendar' = calendar \/ calendar' = Append(calendar, ChrononRecord(call[p]))
  BY DEF NotifyObserver, Holding
<1>2. CASE calendar' = calendar
  BY <1>0, <1>1, <1>2, LossKeepsStamps
<1>3. CASE calendar' = Append(calendar, ChrononRecord(call[p]))
  <2>1. PICK r, h \in Int, k, x, n \in Nat :
          /\ r = RecordSum(calendar) /\ h = HeldSum(call) /\ k = chronon_stamp_count /\ x = call[p].stamps
          /\ n = Cardinality(Holding)
    BY <1>0, <1>1, TotalIs, ReturnGivesBack
  <2>2. StampTotal = r + h + k
    BY <2>1, <1>0, TotalIs
  <2>3. PICK y : y = ChrononRecord(call[p])
    OBVIOUS
  <2>4. y \in Records /\ y.chronon_stamp_count = x
    <3>1. call[p] \in Calls /\ call[p].tick # 0
      BY <1>0, <1>1 DEF IInv, TypeOK, HeldTicks
    <3>2. y.chronon_stamp_count = call[p].stamps
      BY <2>3 DEF ChrononRecord
    <3> QED
      BY <3>1, <3>2, <2>1, <2>3, RecordType
  <2>5. PICK c, d, cal, new : c = call /\ d = call' /\ cal = calendar /\ new = calendar'
    OBVIOUS
  <2>6. HeldSum(d) = h - x /\ Cardinality(Holding') = n - 1 /\ NotYetDrained'
    BY <2>1, <2>5, <1>0, <1>1, ReturnGivesBack
  <2>7. cal \in Seq(Records) /\ new = Append(cal, y)
    BY <2>3, <2>5, <1>0, <1>3 DEF TypeOK
  <2>14. Len(new) = Len(cal) + 1
    BY <2>7
  <2>15. RecordSum(new) = RecordSum(cal) + y.chronon_stamp_count
    BY <2>4, <2>7, RecordSumGrows
  <2>8. RecordSum(new) = r + x /\ Len(new) = Len(cal) + 1
    BY <2>1, <2>4, <2>5, <2>14, <2>15
  <2>9. StampTotal' = (r + x) + (h - x) + k
    BY <1>1, <2>1, <2>5, <2>6, <2>8 DEF StampTotal, RecordSum, HeldSum
  <2>10. PICK l, t, s \in Nat : l = Len(calendar) /\ t = current_tick /\ s = stamp_calls
    BY <1>0 DEF TypeOK
  <2>11. r + h + k <= s /\ l + n <= t /\ (l + n = t => r + h + k = s)
    BY <2>1, <2>2, <2>10 DEF StampsInv, Accounts
  <2>12. /\ (r + x) + (h - x) + k <= s /\ (l + 1) + (n - 1) <= t
         /\ (l + 1) + (n - 1) = t => (r + x) + (h - x) + k = s
    BY <2>11
  <2>13. Len(calendar') = l + 1 /\ current_tick' = t /\ stamp_calls' = s
    BY <1>1, <2>5, <2>8, <2>10
  <2> QED
    BY <2>6, <2>9, <2>12, <2>13 DEF StampsInv, Accounts
<1> QED
  BY <1>1, <1>2, <1>3

\* Every step keeps the accounts.
LEMMA StampsStep == IInv /\ IInv' /\ StampsInv /\ [Next]_vars => StampsInv'
<1> SUFFICES ASSUME IInv, IInv', StampsInv, [Next]_vars PROVE StampsInv'
  OBVIOUS
<1>1. TypeOK /\ TypeOK'
  BY DEF IInv
<1>2. ASSUME NEW p \in Procs, Begin(p) \/ Step(p) PROVE StampsInv'
  <2>1. CASE MissingPrevious(p) \/ Fail(p)
    <3>1. p \in Holding /\ Return(p) /\ UNCHANGED <<current_tick, chronon_stamp_count, calendar, stamp_calls>>
      BY <2>1 DEF MissingPrevious, Fail, CanFail, Holding, history
    <3> QED
      BY <3>1, <1>1, LossKeepsStamps
  <2> QED
    BY <2>1, <1>1, <1>2, InnerKeepsStamps, ClaimKeepsStamps, CountKeepsStamps, SwapKeepsStamps,
       NotifyKeepsStamps DEF Step
<1>3. CASE \/ \E d \in BOOLEAN : set_dormant(d)
           \/ \E d \in Daemons : start_daemon(d)
           \/ stop_daemon
           \/ UNCHANGED vars
  <2>1. UNCHANGED <<pc, call, current_tick, chronon_stamp_count, calendar, stamp_calls>>
    BY <1>3 DEF set_dormant, start_daemon, stop_daemon, vars, daemon, history
  <2>2. Holding' = Holding /\ NotYetDrained'
    BY <2>1 DEF Holding, StampsInv, NotYetDrained
  <2> QED
    BY <1>1, <2>1, <2>2, QuietStep
<1> QED
  BY <1>2, <1>3 DEF Next

\* No stamp is counted twice, and none is lost but with a tick: however many
\* threads claim, count, drain, fail and record, what stamp() added to
\* chronon_stamp_count is in one record, one call or still pending.
THEOREM NoStampCountedTwice == Spec => []StampsCountedOnce
<1>1. IInv /\ StampsInv => StampsCountedOnce
  <2> SUFFICES ASSUME IInv, StampsInv PROVE StampsCountedOnce
    OBVIOUS
  <2>1. TypeOK
    BY DEF IInv
  <2>2. PICK l, n, t \in Nat : l = Len(calendar) /\ n = Cardinality(Holding) /\ t = current_tick
    BY <2>1, TotalIs
  <2>3. /\ StampTotal <= stamp_calls /\ l + n <= t
        /\ l + n = t => StampTotal = stamp_calls
    BY <2>2 DEF StampsInv, Accounts
  <2> QED
    BY <2>2, <2>3 DEF StampsCountedOnce
<1> QED
  BY <1>1, StampsStart, StampsStep, Invariant, PTL DEF Spec
=============================================================================
