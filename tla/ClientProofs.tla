----------------------------- MODULE ClientProofs -----------------------------
(***************************************************************************)
(* What a client may rely on: the verdicts of Service and the sessions of  *)
(* Session, for every number of calls, ticks and connections.              *)
(***************************************************************************)
EXTENDS TLAPS, Service, Session, SumTheorems, FiniteSetTheorems, SequenceTheorems

-----------------------------------------------------------------------------
(* Stamping and verifying                                                    *)

AllOwners == {"node", "client", "other", "loader", "none"}
Signers == {"node", "client", "other"}
Targets == {"node", "other"}
\* The calls an engine makes stamps for: only a node's are routed.
StampKinds(o) == IF o = "node" THEN {"stamp", "route"} ELSE {"stamp"}
Foretises == [tbid : AllOwners, number : Nat, content : Contents \cup {"none"}]
Signatures == [key : (AllOwners \cup {"absent"}) \X Nat, over : Foretises \cup {"nothing"}]
Stamps == [f : Foretises, sig : Signatures]
CalendarRecords == [number : Nat, key : Owners \X Nat]
Makers == [owner : Owners, call : Nat, pc : {"generate", "pub", "sign", "notify"},
           number : Nat, pub : Nat, sig : Nat, alone : BOOLEAN]
Answers ==
  {"none", "true", "false", "error", "no_answer", "stamped", "panic", "pending"}
    \cup Seq(CalendarRecords)
ClientCalls ==
  [kind : {"stamp", "route", "verify", "proof"}, f : Foretises, sig : Signatures,
   content : Contents, cross_node : BOOLEAN,
   state : {"sent", "abandoned", "making", "served", "done"}, answer : Answers, result : Answers]

EngineTypes ==
  /\ node_tbid \in {"node", "loader"} /\ at_client \in [saved : Nat, dormant : BOOLEAN]
  /\ foretias \in [level : {"standalone", "ptp", "p2p"}, peers : {<< >>, <<"node">>}, persist_path : BOOLEAN]
  /\ calendars \in [Owners -> Seq(CalendarRecords)]
  /\ current_tick \in [Owners -> Nat] /\ keypairs \in [Owners -> Nat] /\ making \subseteq Makers
  /\ issued \subseteq Stamps /\ alone \subseteq issued

\* The records of a calendar are in the order of their numbers.
Ascending(cal) == \A j, k \in DOMAIN cal : j < k => cal[j].number < cal[k].number
Has(cal, r) == \E j \in DOMAIN cal : cal[j] = r
\* Calendar cal has no record numbered n but r.
OnlyAt(cal, n, r) == \A x : Has(cal, x) /\ x.number = n => x = r
\* Calendar grown has every record of cal, or those up to number n; or none but r more.
Keeps(cal, grown) == \A x : Has(cal, x) => Has(grown, x)
KeepsUpTo(cal, grown, n) == \A x : Has(cal, x) /\ x.number <= n => Has(grown, x)
AddsOnly(cal, grown, r) == \A x : Has(grown, x) => Has(cal, x) \/ (x = r /\ latest(cal) < x.number)

\* The calendars that never grow again: the one a node loaded, and the client's own
\* once it was restored.
Frozen(o) == IF o = "client" THEN at_client.dormant ELSE node_tbid = "loader"
LoaderSleeps == node_tbid = "loader" => is_dormant

RecordsOK ==
  /\ \A o \in Owners : Ascending(calendars[o]) /\ latest(calendars[o]) <= current_tick[o]
  /\ at_client.saved <= Len(calendars["client"])

\* A stamp or tick under way.  One that was alone so far is newer than the calendar,
\* and the key it fetched is the one it is signed with.
MakerOK(m) ==
  /\ m.number # 0 /\ m.number <= current_tick[m.owner] /\ ~Frozen(m.owner)
  /\ m.call # Timer => /\ m.call \in DOMAIN client_calls
                       /\ client_calls[m.call].kind \in StampKinds(m.owner)
  /\ m.alone => /\ latest(calendars[m.owner]) < m.number
                /\ m.pc = "sign" => m.pub = keypairs[m.owner]
                /\ m.pc = "notify" /\ m.call # Timer => m.pub = m.sig
OnlyOne == \A m, n \in making : m.alone /\ n.owner = m.owner => n = m

\* A stamp is signed over what it says, and its calendar has reached it.
IssuedOK ==
  \A x \in issued :
    /\ x.sig.over = x.f /\ x.f.number # 0 /\ x.sig \notin {NoSig, Absent}
    /\ x.f.tbid \in Owners => Frozen(x.f.tbid) \/ x.f.number <= latest(calendars[x.f.tbid])

\* A stamp that was made alone is in its calendar if that reaches it.
RecordOf(x) == [number |-> x.f.number, key |-> x.sig.key]
AloneKept ==
  \A x \in alone :
    x.f.tbid \in Owners /\ x.f.number <= latest(calendars[x.f.tbid])
      => Has(calendars[x.f.tbid], RecordOf(x))

EngineInv ==
  /\ EngineTypes /\ LoaderSleeps /\ RecordsOK /\ (\A m \in making : MakerOK(m)) /\ OnlyOne
  /\ IssuedOK /\ AloneKept

\* What is checked came with the signature of a stamp, or with none.
SigKnown(c) == c.sig \in {NoSig, Absent} \/ \E x \in issued : c.sig = x.sig

\* A record that is not in a calendar and never will be.
Gone(o, r) == ~Has(calendars[o], r) /\ (r.number <= latest(calendars[o]) \/ Frozen(o))
\* No stamp with this signature says this, or its record will never be where the
\* client has its stamps checked.
Hopeless(c) ==
  \/ c.content # c.f.content \/ c.sig.over # c.f \/ c.sig \in {NoSig, Absent}
  \/ c.f.tbid # Asked \/ Gone(Asked, RecordOf(c))

Says(c, verdict) == c.result = verdict \/ (c.kind # "proof" /\ c.answer = verdict)
\* Only a client that has peers asks one, and the proof it is sent begins with a
\* record of the node.
CallOK(c) ==
  /\ c.kind = "route" => c.f.tbid \in Targets
  /\ Checks(c) =>
       /\ c.state # "done" => foretias.level # "standalone"
       /\ SigKnown(c)
       /\ Says(c, "true") => Intact(c)
       /\ Says(c, "false") => Hopeless(c)
  /\ c.kind = "proof" /\ c.state = "served" =>
       c.answer \in Seq(CalendarRecords) /\ (c.answer # << >> => Has(calendars["node"], c.answer[1]))

ServiceInv ==
  /\ EngineInv /\ client_calls \in Seq(ClientCalls)
  /\ \A i \in DOMAIN client_calls : CallOK(client_calls[i])

-----------------------------------------------------------------------------
(* Calendars *)

\* The newest record of a calendar has its greatest number.
LEMMA LatestIsGreatest ==
  ASSUME NEW cal \in Seq(CalendarRecords), Ascending(cal)
  PROVE  latest(cal) \in Nat /\ \A j \in DOMAIN cal : cal[j].number \in Nat /\ cal[j].number <= latest(cal)
<1>1. PICK n \in Nat : n = Len(cal) /\ DOMAIN cal = 1..n
  OBVIOUS
<1>2. \A j \in 1..n : cal[j] \in CalendarRecords /\ cal[j].number \in Nat
  <2>1. \A j \in 1..n : cal[j] \in CalendarRecords
    BY <1>1
  <2> QED
    BY <2>1 DEF CalendarRecords
<1>3. CASE n = 0
  BY <1>1, <1>3 DEF latest
<1>4. CASE n # 0
  <2>1. n \in 1..n /\ latest(cal) = cal[n].number
    BY <1>1, <1>4 DEF latest
  <2>2. \A j \in 1..n : j < n => cal[j].number < cal[n].number
    BY <1>1, <2>1 DEF Ascending
  <2>3. \A j \in 1..n : j = n \/ j < n
    OBVIOUS
  <2> QED
    BY <1>1, <1>2, <2>1, <2>2, <2>3
<1> QED
  BY <1>3, <1>4

\* A record is appended.
LEMMA AppendRecord ==
  ASSUME NEW cal \in Seq(CalendarRecords), Ascending(cal), NEW r \in CalendarRecords,
         latest(cal) < r.number, NEW grown, grown = Append(cal, r)
  PROVE  /\ grown \in Seq(CalendarRecords) /\ Ascending(grown) /\ latest(grown) = r.number
         /\ Keeps(cal, grown) /\ Has(grown, r) /\ AddsOnly(cal, grown, r)
         /\ Len(grown) = Len(cal) + 1
<1>1. PICK n \in Nat : n = Len(cal) /\ DOMAIN cal = 1..n
  OBVIOUS
<1>2. /\ grown \in Seq(CalendarRecords) /\ DOMAIN grown = 1..n + 1 /\ Len(grown) = n + 1
      /\ \A j \in 1..n : grown[j] = cal[j]
      /\ grown[n + 1] = r
  BY <1>1, AppendProperties
<1>3. Ascending(grown)
  <2> SUFFICES ASSUME NEW j \in 1..n + 1, NEW k \in 1..n + 1, j < k
               PROVE  grown[j].number < grown[k].number
    BY <1>2 DEF Ascending
  <2>1. j \in 1..n /\ grown[j] = cal[j]
    BY <1>2
  <2>2. CASE k = n + 1
    <3>1. cal[j].number \in Nat /\ cal[j].number <= latest(cal) /\ latest(cal) \in Nat
      BY <1>1, <2>1, LatestIsGreatest
    <3>2. r.number \in Nat
      BY DEF CalendarRecords
    <3> QED
      BY <1>2, <2>1, <2>2, <3>1, <3>2
  <2>3. CASE k \in 1..n
    BY <1>1, <1>2, <2>1, <2>3 DEF Ascending
  <2>4. k = n + 1 \/ k \in 1..n
    BY <1>1
  <2> QED
    BY <2>2, <2>3, <2>4
<1>4. latest(grown) = r.number
  <2>1. grown # << >>
    BY <1>2
  <2> QED
    BY <1>2, <2>1 DEF latest
<1>5. ASSUME NEW x PROVE Has(grown, x) <=> Has(cal, x) \/ x = r
  <2>1. Has(grown, x) => Has(cal, x) \/ x = r
    BY <1>1, <1>2 DEF Has
  <2>2. Has(cal, x) => Has(grown, x)
    BY <1>1, <1>2 DEF Has
  <2>3. Has(grown, r)
    BY <1>2 DEF Has
  <2> QED
    BY <2>1, <2>2, <2>3
<1> QED
  BY <1>1, <1>2, <1>3, <1>4, <1>5 DEF Keeps, AddsOnly

\* What was saved of a calendar.
LEMMA PrefixOfCalendar ==
  ASSUME NEW cal \in Seq(CalendarRecords), Ascending(cal), NEW s \in Nat, 0 < s, s <= Len(cal),
         NEW grown, grown = SubSeq(cal, 1, s)
  PROVE  /\ grown \in Seq(CalendarRecords) /\ Ascending(grown) /\ Len(grown) = s
         /\ latest(grown) <= latest(cal)
         /\ Keeps(grown, cal) /\ KeepsUpTo(cal, grown, latest(grown))
<1>1. PICK n \in Nat : n = Len(cal) /\ DOMAIN cal = 1..n
  OBVIOUS
<1>2. /\ grown \in Seq(CalendarRecords) /\ DOMAIN grown = 1..s /\ Len(grown) = s
      /\ \A j \in 1..s : grown[j] = cal[j]
  BY <1>1, SubSeqProperties
<1>3. Ascending(grown)
  BY <1>1, <1>2 DEF Ascending
<1>4. s \in 1..n /\ latest(grown) = cal[s].number
  <2>1. grown # << >>
    BY <1>2
  <2> QED
    BY <1>1, <1>2, <2>1 DEF latest
<1>5. latest(grown) <= latest(cal)
  BY <1>1, <1>4, LatestIsGreatest
<1>6. ASSUME NEW x, Has(grown, x) PROVE Has(cal, x)
  BY <1>1, <1>2, <1>6 DEF Has
<1>7. ASSUME NEW x, Has(cal, x), x.number <= latest(grown) PROVE Has(grown, x)
  <2>1. PICK j \in 1..n : cal[j] = x
    BY <1>1, <1>7 DEF Has
  <2>2. cal[j].number \in Nat /\ cal[s].number \in Nat
    BY <1>1, <1>4, LatestIsGreatest
  <2>3. s < j => cal[s].number < cal[j].number
    BY <1>1, <1>4 DEF Ascending
  <2>4. j \in 1..s
    BY <1>4, <1>7, <2>1, <2>2, <2>3
  <2> QED
    BY <1>2, <2>1, <2>4 DEF Has
<1> QED
  BY <1>2, <1>3, <1>5, <1>6, <1>7 DEF Keeps, KeepsUpTo

\* The place of the first record from number n on.
LEMMA FirstPlace ==
  ASSUME NEW cal \in Seq(CalendarRecords), NEW n \in Nat, NEW j, j = PlaceFrom(n, cal)
  PROVE  /\ j \in 1..(Len(cal) + 1) /\ (j <= Len(cal) => cal[j].number >= n)
         /\ \A k \in 1..(j - 1) : cal[k].number < n
<1>1. PICK l \in Nat : l = Len(cal) /\ DOMAIN cal = 1..l
  OBVIOUS
<1>2. PICK T : T = {k \in 1..(l + 1) : k <= l => cal[k].number >= n}
  OBVIOUS
<1>3. PICK i \in T : \A k \in T : i <= k
  <2>1. l + 1 \in T /\ T \subseteq Nat
    BY <1>2
  <2> QED
    BY <2>1, LeastNatural
<1>4. ASSUME NEW k \in 1..(i - 1) PROVE cal[k].number < n
  <2>1. k \in 1..l /\ k \notin T /\ k \in 1..(l + 1)
    BY <1>2, <1>3
  <2>2. cal[k] \in CalendarRecords
    BY <1>1, <2>1
  <2>3. cal[k].number \in Nat
    BY <2>2 DEF CalendarRecords
  <2> QED
    BY <1>2, <2>1, <2>3
<1>5. i \in 1..(Len(cal) + 1) /\ (i <= Len(cal) => cal[i].number >= n)
  BY <1>1, <1>2, <1>3
<1> QED
  BY <1>4, <1>5 DEF PlaceFrom

\* The first record from number n on.
LEMMA FirstRecord ==
  ASSUME NEW cal \in Seq(CalendarRecords), Ascending(cal), NEW n \in Nat, NEW r, r = get_first(n, cal)
  PROVE  /\ r # NotFound => /\ r \in CalendarRecords /\ n <= latest(cal)
                            /\ OnlyAt(cal, n, r)
         /\ n <= latest(cal) /\ n # 0 => r # NotFound
<1>1. PICK l \in Nat : l = Len(cal) /\ DOMAIN cal = 1..l
  OBVIOUS
<1>2. PICK j : j = PlaceFrom(n, cal)
  OBVIOUS
<1>3. /\ j \in 1..(l + 1) /\ (j <= l => cal[j].number >= n)
      /\ \A k \in 1..(j - 1) : cal[k].number < n
  BY <1>1, <1>2, FirstPlace
<1>4. r = IF j > l THEN NotFound ELSE cal[j]
  BY <1>1, <1>2 DEF get_first
<1>5. ASSUME NEW k \in 1..l
      PROVE  cal[k] \in CalendarRecords /\ cal[k].number \in Nat /\ cal[k].number <= latest(cal)
             /\ latest(cal) \in Nat
  <2>1. cal[k] \in CalendarRecords
    BY <1>1
  <2> QED
    BY <1>1, <2>1, LatestIsGreatest
<1>6. ASSUME r # NotFound
      PROVE  r \in CalendarRecords /\ n <= latest(cal) /\ OnlyAt(cal, n, r)
  <2>1. j \in 1..l /\ r = cal[j] /\ n <= cal[j].number
    BY <1>3, <1>4, <1>6
  <2>2. ASSUME NEW x, Has(cal, x), x.number = n PROVE x = r
    <3>1. PICK k \in 1..l : cal[k] = x
      BY <1>1, <2>2 DEF Has
    <3>2. ~(k < j)
      BY <1>3, <1>5, <2>2, <3>1
    <3>3. j < k => cal[j].number < cal[k].number
      BY <1>1, <2>1 DEF Ascending
    <3>4. j = k
      BY <1>5, <2>1, <2>2, <3>1, <3>2, <3>3
    <3> QED
      BY <2>1, <3>1, <3>4
  <2> QED
    BY <1>5, <2>1, <2>2 DEF OnlyAt
<1>7. ASSUME n <= latest(cal), n # 0 PROVE r # NotFound
  <2>1. l \in 1..l /\ latest(cal) = cal[l].number
    BY <1>1, <1>7 DEF latest
  <2>2. j \in 1..l
    <3> SUFFICES ASSUME j = l + 1 PROVE FALSE
      BY <1>3
    <3> QED
      BY <1>3, <1>5, <1>7, <2>1
  <2>3. r = cal[j] /\ r.number >= n /\ r.number \in Nat
    BY <1>3, <1>4, <1>5, <2>2
  <2> QED
    BY <1>7, <2>3 DEF NotFound
<1> QED
  BY <1>6, <1>7

\* What get finds begins with a record of the calendar.
LEMMA GetFinds ==
  ASSUME NEW cal \in Seq(CalendarRecords), NEW n \in Nat, NEW count \in Nat, NEW a,
         a = get(n, count, cal)
  PROVE  a \in Seq(CalendarRecords) /\ (a # << >> => Has(cal, a[1]))
<1>1. PICK l \in Nat : l = Len(cal) /\ DOMAIN cal = 1..l
  OBVIOUS
<1>2. PICK j \in 1..(l + 1) : j = PlaceFrom(n, cal)
  BY <1>1, FirstPlace
<1>3. PICK last \in Int : last = (IF j + count - 1 < l THEN j + count - 1 ELSE l) /\ last <= l
  BY <1>1
<1>4. a = SubSeq(cal, j, last)
  BY <1>1, <1>2, <1>3 DEF get
<1>5. CASE last < j
  <2>1. a = << >>
    BY <1>1, <1>2, <1>3, <1>4, <1>5, SubSeqProperties
  <2> QED
    BY <2>1
<1>6. CASE j <= last
  <2>1. j \in 1..l /\ last \in 1..l
    BY <1>2, <1>3, <1>6
  <2>2. a \in Seq(CalendarRecords) /\ a[1] = cal[j]
    BY <1>1, <1>4, <1>6, <2>1
  <2> QED
    BY <1>1, <2>1, <2>2 DEF Has
<1> QED
  BY <1>2, <1>3, <1>5, <1>6

-----------------------------------------------------------------------------
(* Calls *)

\* What is gone stays gone, and the node's records stay.
CalendarsStay ==
  /\ \A o \in Owners : \A r : r.number \in Nat /\ Gone(o, r) => Gone(o, r)'
  /\ \A r : Has(calendars["node"], r) => Has(calendars["node"], r)'

\* A call stays right as long as stamps are only added and no record is.
LEMMA CallStays ==
  ASSUME NEW c \in ClientCalls, CallOK(c), issued \subseteq issued', foretias' = foretias, CalendarsStay
  PROVE  CallOK(c)'
<1>1. SigKnown(c) => SigKnown(c)'
  BY DEF SigKnown
<1>2. Intact(c) => Intact(c)'
  BY DEF Intact
<1>3. Hopeless(c) => Hopeless(c)'
  <2>1. Asked \in Owners /\ Asked' = Asked
    BY DEF Asked, Owners
  <2>2. Gone(Asked, RecordOf(c)) => Gone(Asked, RecordOf(c))'
    <3>1. PICK o \in Owners : o = Asked
      BY <2>1
    <3>2. Gone(o, RecordOf(c)) => Gone(o, RecordOf(c))'
      <4>1. PICK r : r = RecordOf(c)
        OBVIOUS
      <4>2. r.number \in Nat
        BY <4>1 DEF RecordOf, ClientCalls, Foretises
      <4>3. Gone(o, r) => Gone(o, r)'
        BY <4>2 DEF CalendarsStay
      <4> QED
        BY <4>1, <4>3
    <3>3. Gone(Asked, RecordOf(c))' <=> Gone(o, RecordOf(c))'
      BY <2>1, <3>1 DEF Gone, Has, Frozen
    <3> QED
      BY <3>1, <3>2, <3>3
  <2> QED
    BY <2>1, <2>2 DEF Hopeless
<1>4. Has(calendars["node"], c.answer[1]) => Has(calendars["node"], c.answer[1])'
  BY DEF CalendarsStay
<1> QED
  BY <1>1, <1>2, <1>3, <1>4 DEF CallOK, Checks, Says

\* A step leaves the calls as they are, or right ones of the same kinds.
CallsGrow ==
  /\ client_calls' \in Seq(ClientCalls) /\ DOMAIN client_calls \subseteq DOMAIN client_calls'
  /\ \A i \in DOMAIN client_calls : client_calls'[i].kind = client_calls[i].kind
  /\ \A i \in DOMAIN client_calls' : CallOK(client_calls[i])'

LEMMA CallAt ==
  ASSUME ServiceInv, NEW i \in DOMAIN client_calls, NEW c, c = client_calls[i]
  PROVE  c \in ClientCalls /\ CallOK(c)
<1>1. client_calls \in Seq(ClientCalls) /\ CallOK(client_calls[i])
  BY DEF ServiceInv
<1> QED
  BY <1>1

\* A call that is not touched stays right.
LEMMA UntouchedCall ==
  ASSUME ServiceInv, issued \subseteq issued', foretias' = foretias, CalendarsStay,
         NEW i \in DOMAIN client_calls, client_calls'[i] = client_calls[i]
  PROVE  CallOK(client_calls[i])'
<1>1. PICK c : c = client_calls[i]
  OBVIOUS
<1>2. CallOK(c)'
  BY <1>1, CallAt, CallStays
<1> QED
  BY <1>1, <1>2

LEMMA CallsSame ==
  ASSUME ServiceInv, issued \subseteq issued', foretias' = foretias, CalendarsStay,
         client_calls' = client_calls
  PROVE  CallsGrow
<1>1. client_calls \in Seq(ClientCalls)
  BY DEF ServiceInv
<1>2. \A i \in DOMAIN client_calls : CallOK(client_calls[i])'
  BY UntouchedCall
<1> QED
  BY <1>1, <1>2 DEF CallsGrow

LEMMA CallMade ==
  ASSUME ServiceInv, issued \subseteq issued', foretias' = foretias, CalendarsStay,
         NEW c \in ClientCalls, client_calls' = Append(client_calls, c), CallOK(c)'
  PROVE  /\ CallsGrow /\ Len(client_calls) + 1 \in DOMAIN client_calls'
         /\ client_calls'[Len(client_calls) + 1] = c
<1>1. PICK n \in Nat : n = Len(client_calls) /\ DOMAIN client_calls = 1..n
  BY DEF ServiceInv
<1>2. client_calls \in Seq(ClientCalls)
  BY DEF ServiceInv
<1>3. /\ client_calls' \in Seq(ClientCalls) /\ DOMAIN client_calls' = 1..n + 1
      /\ \A i \in 1..n : client_calls'[i] = client_calls[i]
      /\ client_calls'[n + 1] = c
  BY <1>1, <1>2, AppendProperties
<1>4. ASSUME NEW i \in 1..n + 1 PROVE CallOK(client_calls[i])'
  <2>1. CASE i \in 1..n
    BY <1>1, <1>3, <2>1, UntouchedCall
  <2>2. CASE i = n + 1
    BY <1>3, <2>2
  <2> QED
    BY <1>1, <2>1, <2>2
<1> QED
  BY <1>1, <1>3, <1>4 DEF CallsGrow

LEMMA CallChanged ==
  ASSUME ServiceInv, issued \subseteq issued', foretias' = foretias, CalendarsStay,
         NEW j \in DOMAIN client_calls, NEW c \in ClientCalls, c.kind = client_calls[j].kind,
         client_calls' = [client_calls EXCEPT ![j] = c], CallOK(c)'
  PROVE  CallsGrow
<1>1. PICK n \in Nat : n = Len(client_calls) /\ DOMAIN client_calls = 1..n
  BY DEF ServiceInv
<1>2. client_calls \in Seq(ClientCalls)
  BY DEF ServiceInv
<1>3. /\ client_calls' \in Seq(ClientCalls) /\ DOMAIN client_calls' = 1..n
      /\ \A i \in 1..n : i # j => client_calls'[i] = client_calls[i]
      /\ client_calls'[j] = c
  BY <1>1, <1>2, ExceptSeq
<1>4. ASSUME NEW i \in 1..n PROVE CallOK(client_calls[i])'
  <2>1. CASE i # j
    BY <1>1, <1>3, <2>1, UntouchedCall
  <2>2. CASE i = j
    BY <1>3, <2>2
  <2> QED
    BY <2>1, <2>2
<1> QED
  BY <1>1, <1>3, <1>4 DEF CallsGrow

LEMMA Assembled ==
  ASSUME EngineInv', CallsGrow PROVE ServiceInv'
BY DEF ServiceInv, CallsGrow

-----------------------------------------------------------------------------
(* The engines *)

LEMMA CalendarTypes ==
  ASSUME EngineInv, NEW o \in Owners
  PROVE  /\ calendars[o] \in Seq(CalendarRecords) /\ Ascending(calendars[o])
         /\ latest(calendars[o]) \in Nat /\ latest(calendars[o]) <= current_tick[o]
         /\ current_tick[o] \in Nat /\ keypairs[o] \in Nat
<1>1. /\ calendars[o] \in Seq(CalendarRecords) /\ current_tick[o] \in Nat /\ keypairs[o] \in Nat
      /\ Ascending(calendars[o]) /\ latest(calendars[o]) <= current_tick[o]
  BY DEF EngineInv, EngineTypes, RecordsOK
<1> QED
  BY <1>1, LatestIsGreatest

LEMMA StampTypes ==
  ASSUME EngineInv, NEW x \in issued
  PROVE  x \in Stamps /\ x.f \in Foretises /\ x.sig \in Signatures /\ x.f.number \in Nat
BY DEF EngineInv, EngineTypes, Stamps, Foretises

LEMMA CalendarsUnchanged ==
  ASSUME UNCHANGED <<calendars, node_tbid, at_client>> PROVE CalendarsStay
BY DEF CalendarsStay, Gone, Has, Frozen

\* A step that starts nothing, and leaves the calendars and what was issued.
LEMMA EngineRest ==
  ASSUME ServiceInv, CallsGrow, making' \subseteq making, is_dormant => is_dormant',
         UNCHANGED <<node_tbid, foretias, at_client, calendars, current_tick, keypairs, issued, alone>>
  PROVE  ServiceInv'
<1> USE DEF ServiceInv
<1>1. EngineTypes'
  BY DEF EngineInv, EngineTypes
<1>2. LoaderSleeps' /\ RecordsOK'
  BY DEF EngineInv, LoaderSleeps, RecordsOK
<1>3. ASSUME NEW m \in making' PROVE MakerOK(m)'
  <2>1. MakerOK(m) /\ m \in making
    BY DEF EngineInv
  <2> QED
    BY <2>1 DEF MakerOK, CallsGrow, Frozen
<1>4. OnlyOne'
  BY DEF EngineInv, OnlyOne
<1>5. IssuedOK' /\ AloneKept'
  BY DEF EngineInv, IssuedOK, AloneKept, Frozen, Has
<1> QED
  BY <1>1, <1>2, <1>3, <1>4, <1>5, Assembled DEF EngineInv

\* A stamp or tick begins.
LEMMA ClaimStep ==
  ASSUME ServiceInv, CallsGrow, NEW o \in Owners, NEW call \in Nat, ClaimTick(o, call), ~Frozen(o),
         call # Timer => call \in DOMAIN client_calls' /\ client_calls'[call].kind \in StampKinds(o),
         UNCHANGED <<node_tbid, is_dormant, foretias, at_client, issued, alone>>
  PROVE  ServiceInv'
<1>1. PICK t \in Nat : t = current_tick[o] /\ latest(calendars[o]) \in Nat /\ latest(calendars[o]) <= t
  BY CalendarTypes DEF ServiceInv
<1>2. PICK grown : grown = [owner |-> o, call |-> call, pc |-> "generate", number |-> t + 1,
                        pub |-> 0, sig |-> 0, alone |-> \A m \in making : m.owner # o]
  OBVIOUS
<1>3. /\ current_tick' = [current_tick EXCEPT ![o] = t + 1]
      /\ making' = {[m EXCEPT !.alone = m.alone /\ m.owner # o] : m \in making} \cup {grown}
      /\ UNCHANGED <<calendars, keypairs>>
  BY <1>1, <1>2 DEF ClaimTick
<1>4. /\ grown \in Makers /\ grown.owner = o /\ grown.call = call /\ grown.pc = "generate" /\ grown.number = t + 1
      /\ grown.alone = (\A m \in making : m.owner # o)
  BY <1>2 DEF Makers
<1>5. EngineTypes /\ LoaderSleeps /\ RecordsOK /\ (\A m \in making : MakerOK(m)) /\ OnlyOne
      /\ IssuedOK /\ AloneKept
  BY DEF ServiceInv, EngineInv
<1>6. ASSUME NEW n \in making', n # grown
      PROVE  \E m \in making : /\ n \in Makers /\ n.owner = m.owner /\ n.call = m.call /\ n.pc = m.pc
                               /\ n.number = m.number /\ n.pub = m.pub /\ n.sig = m.sig
                               /\ n.alone = (m.alone /\ m.owner # o)
                               /\ n = [m EXCEPT !.alone = m.alone /\ m.owner # o]
  <2>1. PICK m \in making : n = [m EXCEPT !.alone = m.alone /\ m.owner # o]
    BY <1>3, <1>6
  <2>2. m \in Makers
    BY <1>5 DEF EngineTypes
  <2> QED
    BY <2>1, <2>2 DEF Makers
<1>7. EngineTypes'
  <2>1. making' \subseteq Makers
    BY <1>4, <1>6
  <2>2. current_tick' \in [Owners -> Nat]
    BY <1>1, <1>3, <1>5 DEF EngineTypes
  <2> QED
    BY <1>3, <1>5, <2>1, <2>2 DEF EngineTypes
<1>8. ASSUME NEW p \in Owners
      PROVE  /\ current_tick[p] <= current_tick'[p] /\ current_tick[p] \in Nat /\ current_tick'[p] \in Nat
             /\ p = o => current_tick'[p] = t + 1
  BY <1>1, <1>3, <1>5 DEF EngineTypes
<1>9. LoaderSleeps' /\ RecordsOK'
  <2>1. ASSUME NEW p \in Owners PROVE latest(calendars[p]) <= current_tick'[p]
    <3>1. latest(calendars[p]) \in Nat /\ latest(calendars[p]) <= current_tick[p]
      BY CalendarTypes DEF ServiceInv
    <3> QED
      BY <1>8, <3>1
  <2> QED
    BY <1>3, <1>5, <2>1 DEF LoaderSleeps, RecordsOK
<1>10. ASSUME NEW n \in making' PROVE MakerOK(n)'
  <2>1. CASE n = grown
    BY <1>1, <1>3, <1>4, <1>8, <2>1 DEF MakerOK, Frozen
  <2>2. CASE n # grown
    <3>1. PICK m \in making : /\ n.owner = m.owner /\ n.call = m.call /\ n.pc = m.pc
                              /\ n.number = m.number /\ n.pub = m.pub /\ n.sig = m.sig
                              /\ n.alone = (m.alone /\ m.owner # o)
      BY <1>6, <2>2
    <3>2. m \in Makers /\ MakerOK(m)
      BY <1>5 DEF EngineTypes
    <3>3. m.number \in Nat /\ m.owner \in Owners
      BY <3>2 DEF Makers
    <3>4. m.number <= current_tick'[m.owner]
      BY <1>8, <3>2, <3>3 DEF MakerOK
    <3>5. m.call # Timer => m.call \in DOMAIN client_calls' /\ client_calls'[m.call].kind \in StampKinds(m.owner)
      BY <3>2 DEF MakerOK, CallsGrow
    <3>6. (~Frozen(m.owner))'
      BY <3>2 DEF MakerOK, Frozen
    <3> QED
      BY <1>3, <3>1, <3>2, <3>4, <3>5, <3>6 DEF MakerOK
  <2> QED
    BY <2>1, <2>2
<1>11. OnlyOne'
  <2> SUFFICES ASSUME NEW m \in making', NEW n \in making', m.alone, n.owner = m.owner PROVE n = m
    BY DEF OnlyOne
  <2>1. CASE m = grown
    <3>1. n = grown
      <4> SUFFICES ASSUME n # grown PROVE FALSE
        OBVIOUS
      <4>1. PICK k \in making : n.owner = k.owner
        BY <1>6
      <4> QED
        BY <1>4, <2>1, <4>1
    <3> QED
      BY <2>1, <3>1
  <2>2. CASE m # grown
    <3>1. PICK k \in making : m.owner = k.owner /\ m.alone = (k.alone /\ k.owner # o)
                              /\ m = [k EXCEPT !.alone = k.alone /\ k.owner # o]
      BY <1>6, <2>2
    <3>2. k.alone /\ k.owner # o
      BY <3>1
    <3>3. n # grown
      BY <1>4, <3>1, <3>2
    <3>4. PICK l \in making : n.owner = l.owner /\ n = [l EXCEPT !.alone = l.alone /\ l.owner # o]
      BY <1>6, <3>3
    <3>5. l = k
      BY <1>5, <3>1, <3>2, <3>4 DEF OnlyOne
    <3> QED
      BY <3>1, <3>4, <3>5
  <2> QED
    BY <2>1, <2>2
<1>12. IssuedOK' /\ AloneKept'
  BY <1>3, <1>5 DEF IssuedOK, AloneKept, Frozen
<1> QED
  BY <1>7, <1>9, <1>10, <1>11, <1>12, Assembled DEF EngineInv

\* A stamp or tick goes a step further, perhaps with a new key of its engine.
LEMMA MakerMoves ==
  ASSUME ServiceInv, NEW m \in making, NEW n \in Makers, Steps(m, n),
         n.owner = m.owner, n.call = m.call, n.number = m.number, n.alone = m.alone,
         keypairs' \in [Owners -> Nat],
         \A p \in Owners : p # m.owner => keypairs'[p] = keypairs[p],
         n.alone => /\ n.pc = "sign" => n.pub = keypairs'[n.owner]
                    /\ n.pc = "notify" /\ n.call # Timer => n.pub = n.sig,
         UNCHANGED <<MakingVars, at_client, client_calls, issued, alone>>
  PROVE  ServiceInv'
<1>1. /\ making' = (making \ {m}) \cup {n}
      /\ UNCHANGED <<node_tbid, is_dormant, p2p_on, foretias, calendars, current_tick>>
      /\ UNCHANGED <<at_client, client_calls, issued, alone>>
  BY DEF Steps, MakingVars
<1>2. EngineTypes /\ LoaderSleeps /\ RecordsOK /\ (\A k \in making : MakerOK(k)) /\ OnlyOne
      /\ IssuedOK /\ AloneKept
  BY DEF ServiceInv, EngineInv
<1>3. EngineTypes'
  BY <1>1, <1>2 DEF EngineTypes
<1>4. LoaderSleeps' /\ RecordsOK' /\ IssuedOK' /\ AloneKept'
  BY <1>1, <1>2 DEF LoaderSleeps, RecordsOK, IssuedOK, AloneKept, Frozen
<1>5. ASSUME NEW k \in making' PROVE MakerOK(k)'
  <2>1. CASE k = n
    <3>1. MakerOK(m)
      BY <1>2
    <3> QED
      BY <1>1, <2>1, <3>1 DEF MakerOK, Frozen
  <2>2. CASE k # n
    <3>1. k \in making /\ k # m /\ MakerOK(k) /\ k \in Makers
      BY <1>1, <1>2, <2>2 DEF EngineTypes
    <3>2. k.alone => k.owner # m.owner
      BY <1>2, <3>1 DEF OnlyOne
    <3>3. k.alone => keypairs'[k.owner] = keypairs[k.owner]
      BY <3>1, <3>2 DEF Makers
    <3> QED
      BY <1>1, <3>1, <3>3 DEF MakerOK, Frozen
  <2> QED
    BY <2>1, <2>2
<1>6. OnlyOne'
  <2> SUFFICES ASSUME NEW k \in making', NEW l \in making', k.alone, l.owner = k.owner PROVE l = k
    BY DEF OnlyOne
  <2>1. CASE k = n
    <3>1. \A b \in making : b.owner = m.owner => b = m
      BY <1>2, <2>1 DEF OnlyOne
    <3> QED
      BY <1>1, <2>1, <3>1
  <2>2. CASE k # n
    <3>1. k \in making /\ k # m /\ k.owner # m.owner
      BY <1>1, <1>2, <2>2 DEF OnlyOne
    <3>2. l \in making
      BY <1>1, <3>1
    <3> QED
      BY <1>2, <3>1, <3>2 DEF OnlyOne
  <2> QED
    BY <2>1, <2>2
<1>7. CallsGrow
  BY <1>1, CallsSame, CalendarsUnchanged
<1> QED
  BY <1>3, <1>4, <1>5, <1>6, <1>7, Assembled DEF EngineInv

LEMMA GenerateStep ==
  ASSUME ServiceInv, NEW m \in making, generate_and_store_keypair(m) PROVE ServiceInv'
<1>1. PICK n : n = [m EXCEPT !.pc = "pub"]
  OBVIOUS
<1>2. m \in Makers /\ keypairs \in [Owners -> Nat]
  BY DEF ServiceInv, EngineInv, EngineTypes
<1>3. /\ n \in Makers /\ n.owner = m.owner /\ n.call = m.call /\ n.number = m.number
      /\ n.alone = m.alone /\ n.pc = "pub"
  BY <1>1, <1>2 DEF Makers
<1>4. /\ Steps(m, n) /\ keypairs' = [keypairs EXCEPT ![m.owner] = keypairs[m.owner] + 1]
      /\ UNCHANGED <<MakingVars, at_client, client_calls, issued, alone>>
  BY <1>1 DEF generate_and_store_keypair
<1>5. keypairs' \in [Owners -> Nat] /\ \A p \in Owners : p # m.owner => keypairs'[p] = keypairs[p]
  <2>1. PICK k \in Nat : k = keypairs[m.owner] + 1
    BY <1>2 DEF Makers
  <2> QED
    BY <1>2, <1>4, <2>1
<1> QED
  BY <1>3, <1>4, <1>5, MakerMoves

LEMMA PubStep ==
  ASSUME ServiceInv, NEW m \in making, keypair_pub(m) PROVE ServiceInv'
<1>1. PICK k, pc : k = keypairs[m.owner] /\ pc = IF m.call = Timer THEN "notify" ELSE "sign"
  OBVIOUS
<1>2. PICK n : n = [m EXCEPT !.pc = pc, !.pub = k]
  OBVIOUS
<1>3. m \in Makers /\ keypairs \in [Owners -> Nat]
  BY DEF ServiceInv, EngineInv, EngineTypes
<1>4. k \in Nat /\ pc \in {"generate", "pub", "sign", "notify"}
  BY <1>1, <1>3 DEF Makers
<1>5. /\ n \in Makers /\ n.owner = m.owner /\ n.call = m.call /\ n.number = m.number
      /\ n.alone = m.alone /\ n.pc = pc /\ n.pub = k
  BY <1>2, <1>3, <1>4 DEF Makers
<1>6. /\ Steps(m, n) /\ keypairs' = keypairs
      /\ UNCHANGED <<MakingVars, at_client, client_calls, issued, alone>>
  BY <1>1, <1>2 DEF keypair_pub
<1> QED
  BY <1>1, <1>3, <1>5, <1>6, MakerMoves

LEMMA SignStep ==
  ASSUME ServiceInv, NEW m \in making, sign_with_keypair(m) PROVE ServiceInv'
<1>1. PICK k : k = keypairs[m.owner]
  OBVIOUS
<1>2. PICK n : n = [m EXCEPT !.pc = "notify", !.sig = k]
  OBVIOUS
<1>3. m \in Makers /\ keypairs \in [Owners -> Nat] /\ MakerOK(m)
  BY DEF ServiceInv, EngineInv, EngineTypes
<1>4. k \in Nat
  BY <1>1, <1>3 DEF Makers
<1>5. /\ n \in Makers /\ n.owner = m.owner /\ n.call = m.call /\ n.number = m.number
      /\ n.alone = m.alone /\ n.pc = "notify" /\ n.pub = m.pub /\ n.sig = k
  BY <1>2, <1>3, <1>4 DEF Makers
<1>6. /\ Steps(m, n) /\ keypairs' = keypairs /\ m.pc = "sign"
      /\ UNCHANGED <<MakingVars, at_client, client_calls, issued, alone>>
  BY <1>1, <1>2 DEF sign_with_keypair
<1> QED
  BY <1>1, <1>3, <1>5, <1>6, MakerMoves DEF MakerOK

\* A stamp as it is made.
LEMMA StampMade ==
  ASSUME NEW owner \in Signers, NEW n \in Nat \ {0}, NEW content \in Contents, NEW key \in Nat, NEW s,
         s = Stamp(owner, n, content, key)
  PROVE  /\ s \in Stamps /\ s.f \in Foretises /\ s.sig \in Signatures
         /\ s.f.tbid = owner /\ s.f.number = n /\ s.f.content = content
         /\ s.sig.key = <<owner, key>> /\ s.sig.over = s.f /\ s.sig \notin {NoSig, Absent}
         /\ s = [f |-> s.f, sig |-> s.sig]
<1>1. PICK g : g = ForetisRecord(owner, n, content)
  OBVIOUS
<1>2. g \in Foretises /\ g.tbid = owner /\ g.number = n /\ g.content = content
  BY <1>1 DEF ForetisRecord, Foretises, AllOwners, Signers
<1>3. PICK z : z = [key |-> <<owner, key>>, over |-> g]
  OBVIOUS
<1>4. z \in Signatures /\ z.key = <<owner, key>> /\ z.over = g
  BY <1>2, <1>3 DEF Signatures, AllOwners, Signers
<1>5. s = [f |-> g, sig |-> z]
  BY <1>1, <1>3 DEF Stamp
<1>6. z \notin {NoSig, Absent}
  <2>1. NoSig.key = <<"none", 0>> /\ Absent.key = <<"absent", 0>>
    BY DEF NoSig, Absent
  <2> QED
    BY <1>4, <2>1 DEF Signers
<1> QED
  BY <1>2, <1>4, <1>5, <1>6 DEF Stamps

\* The calendar after the record of a stamp or tick m was added or refused.
LEMMA RecordAdded ==
  ASSUME ServiceInv, NEW m \in making, NEW r, r = CalendarRecord(m.owner, m.number, m.pub), NEW after,
         after = IF m.number > latest(calendars[m.owner]) THEN Append(calendars[m.owner], r)
                 ELSE calendars[m.owner]
  PROVE  /\ after \in Seq(CalendarRecords) /\ Ascending(after) /\ Len(calendars[m.owner]) <= Len(after)
         /\ latest(after) \in Nat /\ latest(calendars[m.owner]) <= latest(after)
         /\ m.number <= latest(after) /\ latest(after) <= current_tick[m.owner]
         /\ Keeps(calendars[m.owner], after) /\ AddsOnly(calendars[m.owner], after, r)
         /\ m.alone => Has(after, r) /\ latest(calendars[m.owner]) < m.number
<1>1. m \in Makers /\ MakerOK(m) /\ m.owner \in Owners /\ m.number \in Nat
  <2>1. m \in Makers /\ MakerOK(m)
    BY DEF ServiceInv, EngineInv, EngineTypes
  <2> QED
    BY <2>1 DEF Makers
<1>2. r \in CalendarRecords /\ r.number = m.number
  BY <1>1 DEF CalendarRecord, CalendarRecords, Makers
<1>3. PICK cal : cal = calendars[m.owner]
  OBVIOUS
<1>4. /\ cal \in Seq(CalendarRecords) /\ Ascending(cal) /\ latest(cal) \in Nat
      /\ latest(cal) <= current_tick[m.owner] /\ current_tick[m.owner] \in Nat
  BY <1>1, <1>3, CalendarTypes DEF ServiceInv
<1>5. m.number <= current_tick[m.owner] /\ (m.alone => latest(cal) < m.number)
  BY <1>1, <1>3 DEF MakerOK
<1>6. CASE m.number > latest(cal)
  <2>1. latest(cal) < r.number /\ after = Append(cal, r)
    BY <1>1, <1>2, <1>3, <1>4, <1>6
  <2>2. /\ after \in Seq(CalendarRecords) /\ Ascending(after) /\ latest(after) = r.number
        /\ Keeps(cal, after) /\ Has(after, r) /\ AddsOnly(cal, after, r)
        /\ Len(after) = Len(cal) + 1
    BY <1>2, <1>4, <2>1, AppendRecord
  <2>3. Len(cal) \in Nat
    BY <1>4
  <2> QED
    BY <1>1, <1>2, <1>3, <1>4, <1>5, <2>1, <2>2, <2>3
<1>7. CASE ~(m.number > latest(cal))
  <2>1. after = cal /\ Len(cal) \in Nat
    BY <1>3, <1>4, <1>7
  <2>2. Keeps(cal, after) /\ AddsOnly(cal, after, r)
    BY <2>1 DEF Keeps, AddsOnly
  <2> QED
    BY <1>1, <1>3, <1>4, <1>5, <1>7, <2>1, <2>2
<1> QED
  BY <1>6, <1>7

\* A record is added to a calendar, or refused.
LEMMA AddingStays ==
  ASSUME ServiceInv, NEW m \in making, NEW r, r = CalendarRecord(m.owner, m.number, m.pub), NEW after,
         after = IF m.number > latest(calendars[m.owner]) THEN Append(calendars[m.owner], r)
                 ELSE calendars[m.owner],
         calendars' = [calendars EXCEPT ![m.owner] = after],
         node_tbid' = node_tbid, at_client'.dormant = at_client.dormant
  PROVE  CalendarsStay
<1>1. m.owner \in Owners /\ ~Frozen(m.owner) /\ calendars \in [Owners -> Seq(CalendarRecords)]
  BY DEF ServiceInv, EngineInv, EngineTypes, MakerOK, Makers
<1>2. PICK cal : cal = calendars[m.owner]
  OBVIOUS
<1>3. /\ latest(after) \in Nat /\ latest(cal) <= latest(after)
      /\ Keeps(cal, after) /\ AddsOnly(cal, after, r)
  BY <1>2, RecordAdded
<1>4. latest(cal) \in Nat
  BY <1>1, <1>2, CalendarTypes DEF ServiceInv
<1>5. /\ calendars'[m.owner] = after
      /\ \A p \in Owners : p # m.owner => calendars'[p] = calendars[p]
      /\ \A p \in Owners : Frozen(p)' = Frozen(p)
  BY <1>1 DEF Frozen
<1>6. ASSUME NEW p \in Owners, NEW x, x.number \in Nat, Gone(p, x) PROVE Gone(p, x)'
  <2>1. CASE p # m.owner
    BY <1>5, <1>6, <2>1 DEF Gone
  <2>2. CASE p = m.owner
    <3>1. ~Has(cal, x) /\ x.number <= latest(cal)
      BY <1>1, <1>2, <1>6, <2>2 DEF Gone
    <3>2. ~Has(after, x) /\ x.number <= latest(after)
      BY <1>3, <1>4, <1>6, <3>1 DEF AddsOnly
    <3> QED
      BY <1>5, <2>2, <3>2 DEF Gone
  <2> QED
    BY <2>1, <2>2
<1>7. ASSUME NEW x, Has(calendars["node"], x) PROVE Has(calendars["node"], x)'
  BY <1>2, <1>3, <1>5, <1>7 DEF Owners, Keeps
<1> QED
  BY <1>6, <1>7 DEF CalendarsStay

\* A stamp or tick ends, with a stamp s that is issued or without one.
LEMMA MakerEnds ==
  ASSUME ServiceInv, CallsGrow, NEW m \in making, m.pc = "notify", making' = making \ {m},
         NEW r, r = CalendarRecord(m.owner, m.number, m.pub), NEW after,
         after = IF m.number > latest(calendars[m.owner]) THEN Append(calendars[m.owner], r)
                 ELSE calendars[m.owner],
         calendars' = [calendars EXCEPT ![m.owner] = after],
         NEW s, NEW grown, NEW newAlone, grown \in {{}, {s}}, newAlone \in {{}, grown},
         grown # {} => /\ m.call # Timer /\ s \in Stamps /\ s.f.tbid = m.owner /\ s.f.number = m.number
                     /\ s.sig.key = <<m.owner, m.sig>> /\ s.sig.over = s.f /\ s.sig \notin {NoSig, Absent},
         newAlone # {} => m.alone,
         issued' = issued \cup grown, alone' = alone \cup newAlone,
         at_client' \in [saved : Nat, dormant : BOOLEAN], at_client'.dormant = at_client.dormant,
         at_client'.saved <= Len(calendars'["client"]),
         UNCHANGED <<node_tbid, is_dormant, foretias, current_tick, keypairs>>
  PROVE  ServiceInv'
<1>1. EngineTypes /\ LoaderSleeps /\ RecordsOK /\ (\A k \in making : MakerOK(k)) /\ OnlyOne
      /\ IssuedOK /\ AloneKept
  BY DEF ServiceInv, EngineInv
<1>2. m \in Makers /\ MakerOK(m) /\ m.owner \in Owners /\ m.number \in Nat
  <2>1. m \in Makers /\ MakerOK(m)
    BY <1>1 DEF EngineTypes
  <2> QED
    BY <2>1 DEF Makers
<1>3. PICK cal : cal = calendars[m.owner]
  OBVIOUS
<1>4. /\ after \in Seq(CalendarRecords) /\ Ascending(after)
      /\ latest(after) \in Nat /\ latest(cal) <= latest(after)
      /\ m.number <= latest(after) /\ latest(after) <= current_tick[m.owner]
      /\ Keeps(cal, after)
      /\ m.alone => Has(after, r) /\ latest(cal) < m.number
  BY <1>3, RecordAdded
<1>5. /\ calendars'[m.owner] = after
      /\ \A p \in Owners : p # m.owner => calendars'[p] = calendars[p]
      /\ \A p \in Owners : Frozen(p)' = Frozen(p)
      /\ \A p \in Owners : calendars'[p] \in Seq(CalendarRecords)
      /\ calendars' \in [Owners -> Seq(CalendarRecords)]
  BY <1>1, <1>2, <1>4 DEF Frozen, EngineTypes
<1>6. EngineTypes'
  <2>1. issued' \subseteq Stamps /\ alone' \subseteq issued' /\ making' \subseteq Makers
    BY <1>1 DEF EngineTypes
  <2> QED
    BY <1>1, <1>5, <2>1 DEF EngineTypes
<1>7. LoaderSleeps' /\ RecordsOK'
  <2>1. ASSUME NEW p \in Owners PROVE Ascending(calendars'[p]) /\ latest(calendars'[p]) <= current_tick[p]
    BY <1>1, <1>4, <1>5 DEF RecordsOK
  <2> QED
    BY <1>1, <2>1 DEF LoaderSleeps, RecordsOK
<1>8. ASSUME NEW k \in making' PROVE MakerOK(k)'
  <2>1. k \in making /\ k # m /\ MakerOK(k) /\ k \in Makers /\ k.owner \in Owners
    BY <1>1 DEF EngineTypes, Makers
  <2>2. k.alone => k.owner # m.owner
    BY <1>1, <2>1 DEF OnlyOne
  <2>3. k.alone => calendars'[k.owner] = calendars[k.owner]
    BY <1>5, <2>1, <2>2
  <2>4. k.call # Timer => k.call \in DOMAIN client_calls' /\ client_calls'[k.call].kind \in StampKinds(k.owner)
    BY <2>1 DEF MakerOK, CallsGrow
  <2> QED
    BY <1>5, <2>1, <2>3, <2>4 DEF MakerOK
<1>9. OnlyOne'
  BY <1>1 DEF OnlyOne
<1>10. ASSUME NEW p \in Owners
       PROVE  latest(calendars[p]) \in Nat /\ latest(calendars'[p]) \in Nat
              /\ latest(calendars[p]) <= latest(calendars'[p])
  <2>1. latest(calendars[p]) \in Nat
    BY CalendarTypes DEF ServiceInv
  <2> QED
    BY <1>3, <1>4, <1>5, <2>1
<1>11. IssuedOK'
  <2> SUFFICES ASSUME NEW x \in issued'
               PROVE  /\ x.sig.over = x.f /\ x.f.number # 0 /\ x.sig \notin {NoSig, Absent}
                      /\ x.f.tbid \in Owners =>
                           Frozen(x.f.tbid)' \/ x.f.number <= latest(calendars'[x.f.tbid])
    BY DEF IssuedOK
  <2>1. CASE x \in issued
    <3>1. /\ x.sig.over = x.f /\ x.f.number # 0 /\ x.sig \notin {NoSig, Absent} /\ x.f.number \in Nat
          /\ x.f.tbid \in Owners => Frozen(x.f.tbid) \/ x.f.number <= latest(calendars[x.f.tbid])
      BY <1>1, <2>1, StampTypes DEF IssuedOK, ServiceInv
    <3> QED
      BY <1>5, <1>10, <3>1
  <2>2. CASE x \notin issued
    <3>1. x = s /\ grown # {}
      BY <2>2
    <3>2. x.f.number # 0
      BY <1>2, <3>1 DEF MakerOK
    <3> QED
      BY <1>2, <1>4, <1>5, <3>1, <3>2
  <2> QED
    BY <2>1, <2>2
<1>12. AloneKept'
  <2> SUFFICES ASSUME NEW x \in alone', x.f.tbid \in Owners, x.f.number <= latest(calendars'[x.f.tbid])
               PROVE  Has(calendars'[x.f.tbid], RecordOf(x))
    BY DEF AloneKept
  <2>1. CASE x \in alone
    <3>1. x \in issued /\ x.f.number \in Nat
      BY <1>1, <2>1, StampTypes DEF EngineTypes, ServiceInv
    <3>2. CASE x.f.tbid = m.owner
      <4>1. x.f.number <= latest(calendars[m.owner])
        BY <1>1, <1>2, <3>1, <3>2 DEF IssuedOK, MakerOK
      <4>2. Has(cal, RecordOf(x))
        BY <1>1, <1>3, <2>1, <3>2, <4>1 DEF AloneKept
      <4> QED
        BY <1>4, <1>5, <3>2, <4>2 DEF Keeps
    <3>3. CASE x.f.tbid # m.owner
      BY <1>1, <1>5, <2>1, <3>3 DEF AloneKept
    <3> QED
      BY <3>2, <3>3
  <2>2. CASE x \notin alone
    <3>1. x = s /\ grown # {} /\ m.alone
      BY <2>2
    <3>2. m.pub = m.sig
      BY <1>2, <3>1 DEF MakerOK
    <3>3. RecordOf(x) = r
      BY <3>1, <3>2 DEF RecordOf, CalendarRecord
    <3> QED
      BY <1>4, <1>5, <3>1, <3>3
  <2> QED
    BY <2>1, <2>2
<1> QED
  BY <1>6, <1>7, <1>8, <1>9, <1>11, <1>12, Assembled DEF EngineInv

\* The call a stamp is under way for, and the stamp.
LEMMA MakerStamp ==
  ASSUME ServiceInv, NEW m \in making, m.call # Timer, NEW c, c = client_calls[m.call],
         NEW s, s = Stamp(m.owner, m.number, c.content, m.sig)
  PROVE  /\ m.call \in DOMAIN client_calls /\ c \in ClientCalls /\ c.kind \in StampKinds(m.owner)
         /\ s \in Stamps /\ s.f \in Foretises /\ s.sig \in Signatures
         /\ s.f.tbid = m.owner /\ m.owner \in Signers /\ s.f.number = m.number
         /\ s.sig.key = <<m.owner, m.sig>> /\ s.sig.over = s.f /\ s.sig \notin {NoSig, Absent}
<1>1. m \in Makers /\ MakerOK(m)
  BY DEF ServiceInv, EngineInv, EngineTypes
<1>2. m.call \in DOMAIN client_calls /\ c.kind \in StampKinds(m.owner) /\ m.number # 0
  BY <1>1 DEF MakerOK
<1>3. c \in ClientCalls
  BY <1>2, CallAt
<1>4. m.owner \in Signers /\ m.number \in Nat \ {0} /\ m.sig \in Nat /\ c.content \in Contents
  BY <1>1, <1>2, <1>3 DEF Makers, Owners, Signers, ClientCalls
<1>5. /\ s \in Stamps /\ s.f \in Foretises /\ s.sig \in Signatures
      /\ s.f.tbid = m.owner /\ s.f.number = m.number
      /\ s.sig.key = <<m.owner, m.sig>> /\ s.sig.over = s.f /\ s.sig \notin {NoSig, Absent}
  BY <1>4, StampMade
<1> QED
  BY <1>2, <1>3, <1>4, <1>5

\* The stamp or tick goes to the calendar, and the stamp to its caller.
LEMMA NotifyStep ==
  ASSUME ServiceInv, NEW m \in making, notify_observer(m) PROVE ServiceInv'
<1>1. PICK r, after :
        /\ r = CalendarRecord(m.owner, m.number, m.pub)
        /\ after = IF m.number > latest(calendars[m.owner]) THEN Append(calendars[m.owner], r)
                   ELSE calendars[m.owner]
  OBVIOUS
<1>2. PICK c : c = client_calls[m.call]
  OBVIOUS
<1>3. PICK s : s = Stamp(m.owner, m.number, c.content, m.sig)
  OBVIOUS
<1>4. /\ m.pc = "notify" /\ making' = making \ {m}
      /\ calendars' = [calendars EXCEPT ![m.owner] = after]
      /\ UNCHANGED <<node_tbid, is_dormant, foretias, current_tick, keypairs>>
  BY <1>1 DEF notify_observer, ServerVars
<1>5. \/ m.call = Timer /\ UNCHANGED <<at_client, client_calls, issued, alone>>
      \/ /\ m.call # Timer /\ alone' = alone \cup (IF m.alone THEN {s} ELSE {})
         /\ \/ m.owner = "node" /\ AnswerStamp(m.call, s) /\ UNCHANGED at_client
            \/ /\ m.owner # "node"
               /\ client_calls' = [client_calls EXCEPT ![m.call] =
                                     Finished([c EXCEPT !.f = s.f, !.sig = s.sig], "stamped")]
               /\ issued' = issued \cup {s} /\ at_client' \in save_calendar(Len(after))
  BY <1>1, <1>2, <1>3 DEF notify_observer
<1>6. m.owner \in Owners /\ m \in Makers /\ MakerOK(m)
      /\ calendars \in [Owners -> Seq(CalendarRecords)]
      /\ at_client \in [saved : Nat, dormant : BOOLEAN] /\ at_client.saved <= Len(calendars["client"])
  BY DEF ServiceInv, EngineInv, EngineTypes, RecordsOK, Makers
<1>7. after \in Seq(CalendarRecords) /\ Len(calendars[m.owner]) <= Len(after)
  BY <1>1, RecordAdded
<1>8. at_client.saved <= Len(calendars'["client"])
  <2>1. Len(calendars["client"]) \in Nat /\ Len(after) \in Nat /\ "client" \in Owners
    BY <1>6, <1>7 DEF Owners
  <2>2. CASE m.owner = "client"
    <3>1. calendars'["client"] = after
      BY <1>4, <1>6, <2>2
    <3> QED
      BY <1>6, <1>7, <2>1, <2>2, <3>1
  <2>3. CASE m.owner # "client"
    <3>1. calendars'["client"] = calendars["client"]
      BY <1>4, <1>6, <2>1, <2>3
    <3> QED
      BY <1>6, <3>1
  <2> QED
    BY <2>2, <2>3
<1>9. CASE m.call = Timer /\ UNCHANGED <<at_client, client_calls, issued, alone>>
  <2>1. CalendarsStay
    BY <1>1, <1>4, <1>9, AddingStays
  <2>2. CallsGrow
    BY <1>4, <1>9, <2>1, CallsSame
  <2>3. PICK grown, newAlone : grown = {} /\ newAlone = {}
    OBVIOUS
  <2>4. /\ grown \in {{}, {s}} /\ newAlone \in {{}, grown} /\ issued' = issued \cup grown
        /\ alone' = alone \cup newAlone
    BY <1>9, <2>3
  <2>5. /\ at_client' \in [saved : Nat, dormant : BOOLEAN] /\ at_client'.dormant = at_client.dormant
        /\ at_client'.saved <= Len(calendars'["client"])
    BY <1>6, <1>8, <1>9
  <2> QED
    BY <1>1, <1>4, <2>2, <2>3, <2>4, <2>5, MakerEnds
<1>10. CASE m.call # Timer
  <2>1. /\ m.call \in DOMAIN client_calls /\ c \in ClientCalls /\ c.kind \in StampKinds(m.owner)
        /\ s \in Stamps /\ s.f \in Foretises /\ s.sig \in Signatures
        /\ s.f.tbid = m.owner /\ m.owner \in Signers /\ s.f.number = m.number
        /\ s.sig.key = <<m.owner, m.sig>> /\ s.sig.over = s.f /\ s.sig \notin {NoSig, Absent}
    BY <1>2, <1>3, <1>10, MakerStamp
  <2>2. c.kind \in {"stamp", "route"} /\ (c.kind = "route" => s.f.tbid \in Targets)
    BY <2>1 DEF StampKinds, Targets
  <2>3. \E d \in ClientCalls : /\ client_calls' = [client_calls EXCEPT ![m.call] = d]
                               /\ d.kind = c.kind /\ CallOK(d)'
    <3>1. PICK d, e :
            /\ d = [c EXCEPT !.state = "served", !.answer = "stamped", !.f = s.f, !.sig = s.sig]
            /\ e = Finished([c EXCEPT !.f = s.f, !.sig = s.sig], "stamped")
      OBVIOUS
    <3>2. /\ d \in ClientCalls /\ d.kind = c.kind /\ d.f = s.f
          /\ e \in ClientCalls /\ e.kind = c.kind /\ e.f = s.f
      <4>1. "stamped" \in Answers
        BY DEF Answers
      <4> QED
        BY <2>1, <3>1, <4>1 DEF Finished, ClientCalls
    <3>3. CallOK(d)' /\ CallOK(e)'
      BY <2>1, <2>2, <3>2 DEF CallOK, Checks
    <3>4. client_calls' = [client_calls EXCEPT ![m.call] = IF m.owner = "node" THEN d ELSE e]
      BY <1>2, <1>5, <1>10, <3>1 DEF AnswerStamp
    <3> QED
      BY <3>2, <3>3, <3>4
  <2>4. PICK d \in ClientCalls : /\ client_calls' = [client_calls EXCEPT ![m.call] = d]
                                 /\ d.kind = c.kind /\ CallOK(d)'
    BY <2>3
  <2>5. issued' = issued \cup {s}
    BY <1>5, <1>10 DEF AnswerStamp
  <2>6. /\ at_client' \in [saved : Nat, dormant : BOOLEAN] /\ at_client'.dormant = at_client.dormant
        /\ at_client'.saved <= Len(calendars'["client"])
    <3>1. CASE at_client' = at_client
      BY <1>6, <1>8, <3>1
    <3>2. CASE m.owner # "node" /\ at_client' \in save_calendar(Len(after))
      <4>1. Len(after) \in Nat /\ calendars'["client"] = after
        BY <1>4, <1>6, <1>7, <3>2 DEF Owners
      <4>2. PICK saved \in Nat : at_client' = [at_client EXCEPT !.saved = saved]
                                 /\ (saved <= Len(after) \/ saved = at_client.saved)
        BY <1>6, <3>2, <4>1 DEF save_calendar
      <4> QED
        BY <1>6, <1>8, <4>1, <4>2
    <3> QED
      BY <1>5, <1>10, <3>1, <3>2
  <2>7. CalendarsStay
    BY <1>1, <1>4, <2>6, AddingStays
  <2>8. CallsGrow
    BY <1>2, <1>4, <2>1, <2>4, <2>5, <2>7, CallChanged
  <2>9. PICK grown, newAlone : grown = {s} /\ newAlone = IF m.alone THEN {s} ELSE {}
    OBVIOUS
  <2>10. /\ grown \in {{}, {s}} /\ newAlone \in {{}, grown} /\ issued' = issued \cup grown
         /\ alone' = alone \cup newAlone /\ (newAlone # {} => m.alone)
    BY <1>5, <1>10, <2>5, <2>9
  <2> QED
    BY <1>1, <1>4, <1>10, <2>1, <2>6, <2>8, <2>10, MakerEnds
<1> QED
  BY <1>5, <1>9, <1>10

LEMMA FinishedOK ==
  ASSUME NEW c \in ClientCalls, NEW result \in Answers, NEW d, d = Finished(c, result)
  PROVE  /\ d \in ClientCalls /\ d.kind = c.kind /\ d.f = c.f /\ d.sig = c.sig
         /\ d.content = c.content /\ d.answer = c.answer /\ d.state = "done" /\ d.result = result
BY DEF Finished, ClientCalls

\* A step of a stamp fails, and its caller learns so.
LEMMA MakingFailsStep ==
  ASSUME ServiceInv, NEW m \in making, MakingFails(m) PROVE ServiceInv'
<1>1. /\ making' = making \ {m}
      /\ UNCHANGED <<node_tbid, is_dormant, foretias, calendars, current_tick>>
      /\ UNCHANGED <<keypairs, at_client, issued, alone>>
  BY DEF MakingFails, MakingVars
<1>2. CalendarsStay
  BY <1>1, CalendarsUnchanged
<1>3. CASE m.call = Timer
  <2>1. client_calls' = client_calls
    BY <1>3 DEF MakingFails
  <2>2. CallsGrow
    BY <1>1, <1>2, <2>1, CallsSame
  <2> QED
    BY <1>1, <2>2, EngineRest
<1>4. CASE m.call # Timer
  <2>1. PICK c : c = client_calls[m.call]
    OBVIOUS
  <2>2. m.call \in DOMAIN client_calls /\ c.kind \in {"stamp", "route"} /\ c \in ClientCalls /\ CallOK(c)
    <3>1. m.call \in DOMAIN client_calls /\ c.kind \in {"stamp", "route"}
      BY <1>4, <2>1 DEF ServiceInv, EngineInv, MakerOK, StampKinds
    <3> QED
      BY <2>1, <3>1, CallAt
  <2>3. PICK d : /\ client_calls' = [client_calls EXCEPT ![m.call] = d]
                 /\ d = IF m.owner = "client" THEN Finished(c, "error")
                        ELSE [c EXCEPT !.state = "served", !.answer = "error"]
    BY <1>4, <2>1 DEF MakingFails
  <2>4. d \in ClientCalls /\ d.kind = c.kind /\ d.f = c.f
    <3>1. "error" \in Answers
      BY DEF Answers
    <3> QED
      BY <2>2, <2>3, <3>1 DEF Finished, ClientCalls
  <2>5. CallOK(d)'
    BY <2>2, <2>4 DEF CallOK, Checks
  <2>6. CallsGrow
    BY <1>1, <1>2, <2>1, <2>2, <2>3, <2>4, <2>5, CallChanged
  <2> QED
    BY <1>1, <2>6, EngineRest
<1> QED
  BY <1>3, <1>4

\* A call that ends with an error stays right.
LEMMA ErrorOK ==
  ASSUME NEW c \in ClientCalls, CallOK(c), NEW d, d = Finished(c, "error")
  PROVE  d \in ClientCalls /\ d.kind = c.kind /\ CallOK(d)
<1>1. "error" \in Answers
  BY DEF Answers
<1>2. /\ d \in ClientCalls /\ d.kind = c.kind /\ d.f = c.f /\ d.sig = c.sig
      /\ d.content = c.content /\ d.answer = c.answer /\ d.state = "done" /\ d.result = "error"
  BY <1>1, FinishedOK
<1>3. (SigKnown(d) <=> SigKnown(c)) /\ (Intact(d) <=> Intact(c)) /\ (Hopeless(d) <=> Hopeless(c))
      /\ (Checks(d) <=> Checks(c))
  BY <1>2 DEF SigKnown, Intact, Hopeless, Checks, RecordOf
<1>4. \A v \in {"true", "false"} : Says(d, v) => Says(c, v)
  BY <1>2 DEF Says
<1> QED
  BY <1>2, <1>3, <1>4 DEF CallOK

\* The client is restored from what it saved: stamps that were not saved are gone, and
\* the calendar does not grow again.
LEMMA FromPersistStep ==
  ASSUME ServiceInv, from_persist PROVE ServiceInv'
<1>1. /\ at_client.saved > 0 /\ at_client' = [at_client EXCEPT !.dormant = TRUE]
      /\ calendars' = [calendars EXCEPT !["client"] = SubSeq(calendars["client"], 1, at_client.saved)]
      /\ making' = {m \in making : m.owner # "client"}
      /\ client_calls' = [i \in DOMAIN client_calls |->
           IF client_calls[i].state = "making" THEN Finished(client_calls[i], "error") ELSE client_calls[i]]
      /\ UNCHANGED <<node_tbid, is_dormant, foretias, current_tick, keypairs, issued, alone>>
  BY DEF from_persist, ServerVars
<1>2. EngineTypes /\ LoaderSleeps /\ RecordsOK /\ (\A k \in making : MakerOK(k)) /\ OnlyOne
      /\ IssuedOK /\ AloneKept
  BY DEF ServiceInv, EngineInv
<1>3. PICK cal, n, grown :
        cal = calendars["client"] /\ n = at_client.saved /\ grown = SubSeq(cal, 1, n)
  OBVIOUS
<1>4. /\ cal \in Seq(CalendarRecords) /\ Ascending(cal) /\ latest(cal) \in Nat
      /\ latest(cal) <= current_tick["client"] /\ current_tick["client"] \in Nat
  BY <1>3, CalendarTypes DEF ServiceInv, Owners
<1>5. n \in Nat /\ 0 < n /\ n <= Len(cal)
  BY <1>1, <1>2, <1>3 DEF RecordsOK, EngineTypes
<1>6. /\ grown \in Seq(CalendarRecords) /\ Ascending(grown) /\ Len(grown) = n
      /\ latest(grown) <= latest(cal) /\ Keeps(grown, cal) /\ KeepsUpTo(cal, grown, latest(grown))
  BY <1>3, <1>4, <1>5, PrefixOfCalendar
<1>7. latest(grown) \in Nat
  BY <1>6, LatestIsGreatest
<1>8. /\ calendars' \in [Owners -> Seq(CalendarRecords)] /\ calendars'["client"] = grown
      /\ calendars'["node"] = calendars["node"]
      /\ at_client' \in [saved : Nat, dormant : BOOLEAN] /\ at_client'.saved = n /\ at_client'.dormant
      /\ Frozen("client")' /\ Frozen("node")' = Frozen("node")
  BY <1>1, <1>2, <1>3, <1>6 DEF EngineTypes, Owners, Frozen
<1>9. CalendarsStay
  <2>1. ASSUME NEW p \in Owners, NEW x, x.number \in Nat, Gone(p, x) PROVE Gone(p, x)'
    <3>1. CASE p = "client"
      BY <1>3, <1>6, <1>8, <2>1, <3>1 DEF Gone, Keeps
    <3>2. CASE p = "node"
      BY <1>8, <2>1, <3>2 DEF Gone
    <3> QED
      BY <3>1, <3>2 DEF Owners
  <2> QED
    BY <1>8, <2>1 DEF CalendarsStay
<1>10. CallsGrow
  <2>1. PICK l \in Nat : l = Len(client_calls) /\ DOMAIN client_calls = 1..l
    BY DEF ServiceInv
  <2>2. ASSUME NEW i \in 1..l
        PROVE  /\ client_calls'[i] \in ClientCalls /\ client_calls'[i].kind = client_calls[i].kind
               /\ CallOK(client_calls[i])'
    <3>1. PICK c : c = client_calls[i]
      OBVIOUS
    <3>2. c \in ClientCalls /\ CallOK(c)
      BY <2>1, <3>1, CallAt
    <3>3. PICK d : d = Finished(c, "error")
      OBVIOUS
    <3>4. d \in ClientCalls /\ d.kind = c.kind /\ CallOK(d)
      BY <3>2, <3>3, ErrorOK
    <3>5. PICK e \in {c, d} : client_calls'[i] = e
      BY <1>1, <2>1, <3>1, <3>3
    <3>6. e \in ClientCalls /\ e.kind = c.kind /\ CallOK(e)
      BY <3>2, <3>4, <3>5
    <3>7. CallOK(e)'
      BY <1>1, <1>9, <3>6, CallStays
    <3> QED
      BY <3>1, <3>5, <3>6, <3>7
  <2>3. DOMAIN client_calls' = 1..l /\ client_calls' \in [1..l -> ClientCalls]
    BY <1>1, <2>1, <2>2
  <2>4. client_calls' \in Seq(ClientCalls)
    BY <2>3
  <2> QED
    BY <2>1, <2>2, <2>3, <2>4 DEF CallsGrow
<1>11. EngineTypes'
  <2>1. making' \subseteq Makers
    BY <1>1, <1>2 DEF EngineTypes
  <2> QED
    BY <1>1, <1>2, <1>8, <2>1 DEF EngineTypes
<1>12. LoaderSleeps' /\ RecordsOK'
  <2>1. latest(grown) <= current_tick["client"]
    BY <1>4, <1>6, <1>7
  <2>2. n <= Len(grown)
    BY <1>6
  <2> QED
    BY <1>1, <1>2, <1>6, <1>8, <2>1, <2>2 DEF LoaderSleeps, RecordsOK, Owners
<1>13. ASSUME NEW k \in making' PROVE MakerOK(k)'
  <2>1. k \in making /\ k.owner = "node" /\ MakerOK(k)
    BY <1>1, <1>2 DEF EngineTypes, Makers, Owners
  <2> QED
    BY <1>1, <1>8, <1>10, <2>1 DEF MakerOK, CallsGrow
<1>14. OnlyOne'
  BY <1>1, <1>2 DEF OnlyOne
<1>15. IssuedOK'
  BY <1>1, <1>2, <1>8 DEF IssuedOK, Owners
<1>16. AloneKept'
  <2> SUFFICES ASSUME NEW x \in alone, x.f.tbid \in Owners, x.f.number <= latest(calendars'[x.f.tbid])
               PROVE  Has(calendars'[x.f.tbid], RecordOf(x))
    BY <1>1 DEF AloneKept
  <2>1. CASE x.f.tbid = "client"
    <3>1. x.f.number \in Nat
      BY <1>2, StampTypes DEF EngineTypes, ServiceInv
    <3>2. x.f.number <= latest(cal)
      BY <1>4, <1>6, <1>7, <1>8, <2>1, <3>1
    <3>3. Has(cal, RecordOf(x))
      BY <1>2, <1>3, <2>1, <3>2 DEF AloneKept
    <3>4. RecordOf(x).number <= latest(grown)
      BY <1>8, <2>1 DEF RecordOf
    <3> QED
      BY <1>6, <1>8, <2>1, <3>3, <3>4 DEF KeepsUpTo
  <2>2. CASE x.f.tbid = "node"
    BY <1>2, <1>8, <2>2 DEF AloneKept
  <2> QED
    BY <2>1, <2>2 DEF Owners
<1> QED
  BY <1>10, <1>11, <1>12, <1>13, <1>14, <1>15, <1>16, Assembled DEF EngineInv

-----------------------------------------------------------------------------
(* Verdicts *)

LEMMA TickVerifyType ==
  ASSUME NEW f, NEW sig, NEW content, NEW record
  PROVE  tick_verify(f, sig, content, record) \in {"true", "false", "error", "panic"}
BY DEF tick_verify

LEMMA SigTypes ==
  /\ NoSig \in Signatures /\ Absent \in Signatures
  /\ NoSig.key = <<"none", 0>> /\ Absent.key = <<"absent", 0>> /\ NoSig # Absent
BY DEF NoSig, Absent, Signatures, AllOwners

\* A stamp that tick_verify calls valid was issued.
LEMMA VerdictTrue ==
  ASSUME ServiceInv, NEW c, SigKnown(c), NEW record, record \in CalendarRecords \/ record = NotFound,
         tick_verify(c.f, c.sig, c.content, record) = "true"
  PROVE  Intact(c)
<1>1. /\ c.f.content = c.content /\ c.sig # NoSig /\ c.sig.key = record.key /\ record # NotFound
      /\ c.sig.over = c.f
  BY DEF tick_verify
<1>2. c.sig # Absent
  <2>1. record.key \in Owners \X Nat
    BY <1>1 DEF CalendarRecords
  <2>2. record.key # <<"absent", 0>>
    BY <2>1 DEF Owners
  <2> QED
    BY <1>1, <2>2, SigTypes
<1>3. PICK x \in issued : c.sig = x.sig
  BY <1>1, <1>2 DEF SigKnown
<1>4. x.sig.over = x.f /\ x \in Stamps
  BY StampTypes DEF ServiceInv, EngineInv, IssuedOK
<1>5. c.f = x.f
  BY <1>1, <1>3, <1>4
<1>6. [f |-> c.f, sig |-> c.sig] = x
  BY <1>3, <1>4, <1>5 DEF Stamps
<1> QED
  BY <1>1, <1>6 DEF Intact

\* What tick_verify calls invalid against the calendar's first record from its number
\* on is hopeless.
LEMMA VerdictFalse ==
  ASSUME ServiceInv, NEW c \in ClientCalls, NEW record,
         record = get_first(c.f.number, calendars[Asked]),
         tick_verify(c.f, c.sig, c.content, record) = "false"
  PROVE  Hopeless(c)
<1>1. PICK cal : cal = calendars[Asked] /\ Asked \in Owners
  BY DEF Asked, Owners
<1>2. cal \in Seq(CalendarRecords) /\ Ascending(cal) /\ c.f.number \in Nat
  BY <1>1, CalendarTypes DEF ServiceInv, ClientCalls, Foretises
<1>3. \/ c.f.content # c.content
      \/ record # NotFound /\ (c.sig.key # record.key \/ c.sig.over # c.f)
  BY DEF tick_verify
<1>4. CASE c.f.content # c.content \/ c.sig.over # c.f
  BY <1>4 DEF Hopeless
<1>5. CASE record # NotFound /\ c.sig.key # record.key
  <2>1. PICK x : x = RecordOf(c)
    OBVIOUS
  <2>2. x.number = c.f.number /\ x.key = c.sig.key
    BY <2>1 DEF RecordOf
  <2>3. PICK n \in Nat : n = c.f.number
    BY <1>2
  <2>4. n <= latest(cal) /\ OnlyAt(cal, n, record)
    BY <1>1, <1>2, <1>5, <2>3, FirstRecord
  <2>5. ~Has(cal, x)
    BY <1>5, <2>2, <2>3, <2>4 DEF OnlyAt
  <2> QED
    BY <1>1, <2>1, <2>2, <2>3, <2>4, <2>5 DEF Hopeless, Gone
<1> QED
  BY <1>3, <1>4, <1>5

-----------------------------------------------------------------------------
(* The client's calls *)

\* What a user has checked is typed and bears a known signature.
LEMMA VariantsKnown ==
  ASSUME ServiceInv, NEW x \in issued, NEW s \in Variants(x)
  PROVE  /\ s.f \in Foretises /\ s.sig \in Signatures
         /\ s.sig \in {NoSig, Absent} \/ s.sig = x.sig
<1>1. x \in Stamps /\ x.f.number # 0
  BY StampTypes DEF ServiceInv, EngineInv, IssuedOK
<1>2. x.f \in Foretises /\ x.sig \in Signatures
  BY <1>1 DEF Stamps
<1>3. x.f.number \in Nat /\ x.f.number - 1 \in Nat /\ x.f.number + 1 \in Nat
  BY <1>1, <1>2 DEF Foretises
<1>4. CASE s = x
  BY <1>2, <1>4
<1>5. CASE s = [x EXCEPT !.sig = NoSig] \/ s = [x EXCEPT !.sig = Absent]
  BY <1>1, <1>2, <1>5, SigTypes DEF Stamps
<1>6. ASSUME NEW n \in {x.f.number - 1, x.f.number + 1}, s = [x EXCEPT !.f.number = n]
      PROVE  s.f \in Foretises /\ s.sig = x.sig
  <2>1. PICK g : g = [x.f EXCEPT !.number = n]
    OBVIOUS
  <2>2. g \in Foretises
    BY <1>2, <1>3, <1>6, <2>1 DEF Foretises
  <2>3. s = [x EXCEPT !.f = g]
    BY <1>1, <1>6, <2>1 DEF Stamps
  <2> QED
    BY <1>1, <2>2, <2>3 DEF Stamps
<1>7. ASSUME s = [x EXCEPT !.f.tbid = "other"] PROVE s.f \in Foretises /\ s.sig = x.sig
  <2>1. PICK g : g = [x.f EXCEPT !.tbid = "other"]
    OBVIOUS
  <2>2. g \in Foretises
    BY <1>2, <1>7, <2>1 DEF Foretises, AllOwners
  <2>3. s = [x EXCEPT !.f = g]
    BY <1>1, <1>7, <2>1 DEF Stamps
  <2> QED
    BY <1>1, <2>2, <2>3 DEF Stamps
<1> QED
  BY <1>2, <1>4, <1>5, <1>6, <1>7 DEF Variants

\* A call as it is made.
LEMMA NewClientCallOK ==
  ASSUME NEW kind \in {"stamp", "route", "verify", "proof"}, NEW f \in Foretises,
         NEW sig \in Signatures, NEW content \in Contents, NEW cross \in BOOLEAN, NEW c,
         c = NewClientCall(kind, f, sig, content, cross)
  PROVE  /\ c \in ClientCalls /\ c.kind = kind /\ c.f = f /\ c.sig = sig /\ c.content = content
         /\ c.state = "sent" /\ c.answer = "none" /\ c.result = "pending"
<1>1. "none" \in Answers /\ "pending" \in Answers
  BY DEF Answers
<1> QED
  BY <1>1 DEF NewClientCall, ClientCalls

\* The client asks its first peer, or has none.
LEMMA AskStep ==
  ASSUME ServiceInv, NEW kind \in {"stamp", "route", "verify", "proof"}, NEW f \in Foretises,
         NEW sig \in Signatures, NEW content \in Contents, NEW cross \in BOOLEAN,
         kind \in {"verify", "proof"} => sig \in {NoSig, Absent} \/ \E x \in issued : sig = x.sig,
         kind = "route" => f.tbid \in Targets,
         Ask(kind, f, sig, content, cross)
  PROVE  ServiceInv'
<1>1. PICK c, d : c = NewClientCall(kind, f, sig, content, cross) /\ d = Finished(c, "error")
  OBVIOUS
<1>2. foretias.level # "standalone" /\ UNCHANGED <<ServerVars, foretias, at_client, engineVars, issued, alone>>
  BY DEF Ask
<1>3. client_calls' = Append(client_calls, c) \/ client_calls' = Append(client_calls, d)
  BY <1>1 DEF Ask, NewCall
<1>4. /\ c \in ClientCalls /\ c.kind = kind /\ c.f = f /\ c.sig = sig /\ c.state = "sent"
      /\ c.answer = "none" /\ c.result = "pending"
  BY <1>1, NewClientCallOK
<1>5. CallOK(c)
  <2>1. Checks(c) => SigKnown(c)
    BY <1>4 DEF Checks, SigKnown
  <2> QED
    BY <1>2, <1>4, <2>1 DEF CallOK, Checks, Says
<1>6. d \in ClientCalls /\ CallOK(d)
  BY <1>1, <1>4, <1>5, ErrorOK
<1>7. PICK e \in ClientCalls : client_calls' = Append(client_calls, e) /\ CallOK(e)
  BY <1>3, <1>4, <1>5, <1>6
<1>8. /\ UNCHANGED <<node_tbid, is_dormant, foretias, at_client, calendars, current_tick, keypairs>>
      /\ UNCHANGED <<making, issued, alone>>
  BY <1>2 DEF ServerVars, engineVars
<1>9. CalendarsStay
  BY <1>8, CalendarsUnchanged
<1>10. CallOK(e)'
  BY <1>7, <1>8, <1>9, CallStays
<1>11. CallsGrow
  BY <1>7, <1>8, <1>9, <1>10, CallMade
<1> QED
  BY <1>8, <1>11, EngineRest

\* The client stamps on its own calendar, or is dormant and refuses.
LEMMA StampStandaloneStep ==
  ASSUME ServiceInv, NEW content \in Contents, stamp_standalone(content) PROVE ServiceInv'
<1>1. PICK c, d, e :
        /\ c = NewClientCall("stamp", NoForetis, NoSig, content, FALSE)
        /\ d = Finished(c, "error") /\ e = [c EXCEPT !.state = "making"]
  OBVIOUS
<1>2. UNCHANGED <<node_tbid, is_dormant, foretias, at_client, issued, alone>>
  BY DEF stamp_standalone, ServerVars
<1>3. \/ at_client.dormant /\ client_calls' = Append(client_calls, d) /\ UNCHANGED engineVars
      \/ /\ ~at_client.dormant /\ client_calls' = Append(client_calls, e)
         /\ ClaimTick("client", Len(client_calls) + 1)
  BY <1>1 DEF stamp_standalone, NewCall
<1>4. c \in ClientCalls /\ c.kind = "stamp"
  <2>1. NoForetis \in Foretises /\ NoSig \in Signatures
    BY SigTypes DEF NoForetis, Foretises, AllOwners
  <2>2. "none" \in Answers /\ "pending" \in Answers
    BY DEF Answers
  <2> QED
    BY <1>1, <2>1, <2>2 DEF NewClientCall, ClientCalls
<1>5. CASE at_client.dormant /\ client_calls' = Append(client_calls, d) /\ UNCHANGED engineVars
  <2>1. CallOK(c)
    BY <1>4 DEF CallOK, Checks
  <2>2. d \in ClientCalls /\ CallOK(d)
    BY <1>1, <1>4, <2>1, ErrorOK
  <2>3. UNCHANGED <<calendars, current_tick, keypairs, making>>
    BY <1>5 DEF engineVars
  <2>4. CalendarsStay
    BY <1>2, <2>3, CalendarsUnchanged
  <2>5. CallOK(d)'
    BY <1>2, <2>2, <2>4, CallStays
  <2>6. CallsGrow
    BY <1>2, <1>5, <2>2, <2>4, <2>5, CallMade
  <2> QED
    BY <1>2, <2>3, <2>6, EngineRest
<1>6. CASE /\ ~at_client.dormant /\ client_calls' = Append(client_calls, e)
           /\ ClaimTick("client", Len(client_calls) + 1)
  <2>1. e \in ClientCalls /\ e.kind = "stamp"
    BY <1>1, <1>4 DEF ClientCalls
  <2>2. CallOK(e)'
    BY <2>1 DEF CallOK, Checks
  <2>3. calendars' = calendars
    BY <1>6 DEF ClaimTick
  <2>4. CalendarsStay
    BY <1>2, <2>3, CalendarsUnchanged
  <2>5. /\ CallsGrow /\ Len(client_calls) + 1 \in DOMAIN client_calls'
        /\ client_calls'[Len(client_calls) + 1] = e
    BY <1>2, <1>6, <2>1, <2>2, <2>4, CallMade
  <2>6. PICK i \in Nat : i = Len(client_calls) + 1
    BY DEF ServiceInv
  <2>7. PICK o \in Owners : o = "client" /\ ~Frozen(o)
    BY <1>6 DEF Owners, Frozen
  <2>8. ClaimTick(o, i) /\ i \in DOMAIN client_calls' /\ client_calls'[i].kind \in StampKinds(o)
    BY <1>6, <2>1, <2>5, <2>6, <2>7 DEF StampKinds
  <2> QED
    BY <1>2, <2>5, <2>7, <2>8, ClaimStep
<1> QED
  BY <1>3, <1>5, <1>6

\* A stamp is checked against the client's own calendar.
LEMMA VerifyStandaloneStep ==
  ASSUME ServiceInv, NEW kind \in {"verify", "proof"}, NEW f \in Foretises, NEW sig \in Signatures,
         NEW content \in Contents, sig \in {NoSig, Absent} \/ \E x \in issued : sig = x.sig,
         verify_standalone(kind, f, sig, content)
  PROVE  ServiceInv'
<1>1. PICK c, r, record :
        /\ c = NewClientCall(kind, f, sig, content, FALSE)
        /\ record = get_first(f.number, calendars["client"])
        /\ r = tick_verify(f, sig, content, record)
  OBVIOUS
<1>2. /\ foretias.level = "standalone"
      /\ UNCHANGED <<ServerVars, foretias, at_client, engineVars, issued, alone>>
      /\ client_calls' = Append(client_calls, Finished(c, r))
  BY <1>1 DEF verify_standalone, NewCall
<1>3. /\ c \in ClientCalls /\ c.kind = kind /\ c.f = f /\ c.sig = sig /\ c.content = content
      /\ c.answer = "none"
  <2>1. "none" \in Answers /\ "pending" \in Answers
    BY DEF Answers
  <2> QED
    BY <1>1, <2>1 DEF NewClientCall, ClientCalls
<1>4. r \in {"true", "false", "error", "panic"} /\ r \in Answers
  <2>1. r \in {"true", "false", "error", "panic"}
    BY <1>1, TickVerifyType
  <2>2. "true" \in Answers /\ "false" \in Answers /\ "error" \in Answers /\ "panic" \in Answers
    BY DEF Answers
  <2> QED
    BY <2>1, <2>2
<1>5. PICK d : d = Finished(c, r)
  OBVIOUS
<1>6. /\ d \in ClientCalls /\ d.kind = kind /\ d.f = f /\ d.sig = sig /\ d.content = content
      /\ d.answer = "none" /\ d.state = "done" /\ d.result = r
  BY <1>3, <1>4, <1>5, FinishedOK
<1>7. Asked = "client"
  BY <1>2 DEF Asked
<1>8. record = get_first(d.f.number, calendars[Asked]) /\ r = tick_verify(d.f, d.sig, d.content, record)
  BY <1>1, <1>6, <1>7
<1>9. SigKnown(d)
  BY <1>6 DEF SigKnown
<1>10. r = "true" => Intact(d)
  <2>1. record \in CalendarRecords \/ record = NotFound
    <3>1. PICK cal \in Seq(CalendarRecords) : cal = calendars["client"] /\ Ascending(cal)
      BY CalendarTypes DEF ServiceInv, Owners
    <3>2. PICK n \in Nat : n = f.number
      BY DEF Foretises
    <3> QED
      BY <1>1, <3>1, <3>2, FirstRecord
  <2> QED
    BY <1>8, <1>9, <2>1, VerdictTrue
<1>11. r = "false" => Hopeless(d)
  BY <1>6, <1>8, VerdictFalse
<1>12. CallOK(d)
  BY <1>4, <1>6, <1>9, <1>10, <1>11 DEF CallOK, Checks, Says
<1>13. /\ UNCHANGED <<node_tbid, is_dormant, foretias, at_client, calendars, current_tick, keypairs>>
       /\ UNCHANGED <<making, issued, alone>>
  BY <1>2 DEF ServerVars, engineVars
<1>14. CalendarsStay
  BY <1>13, CalendarsUnchanged
<1>15. CallOK(d)'
  BY <1>6, <1>12, <1>13, <1>14, CallStays
<1>16. CallsGrow
  BY <1>2, <1>5, <1>6, <1>13, <1>14, <1>15, CallMade
<1> QED
  BY <1>13, <1>16, EngineRest

\* The user's calls about a stamp s that was made of x.
LEMMA UserVerifyStep ==
  ASSUME ServiceInv, NEW content \in Contents, NEW x \in issued, NEW s \in Variants(x),
         \/ s.sig # Absent /\ \E kind \in {"verify", "proof"} : verify_standalone(kind, s.f, s.sig, content)
         \/ reader_verify(s.f, content) \/ cmd_verify_with_proof(s, content)
         \/ RpcVerify(s.f, s.sig, content)
         \/ \E sig \in {Absent} \cup {y.sig : y \in issued} : cmd_verify(s, sig, content)
  PROVE  ServiceInv'
<1>1. s.f \in Foretises /\ s.sig \in Signatures /\ (s.sig \in {NoSig, Absent} \/ s.sig = x.sig)
  BY VariantsKnown
<1>2. NoSig \in Signatures /\ Absent \in Signatures
  BY SigTypes
<1>3. PICK g : g = SigHex(s)
  OBVIOUS
<1>4. g \in Signatures /\ (g \in {NoSig, Absent} \/ \E y \in issued : g = y.sig)
  BY <1>1, <1>2, <1>3 DEF SigHex
<1>5. ASSUME NEW kind \in {"verify", "proof"}, verify_standalone(kind, s.f, s.sig, content)
      PROVE  ServiceInv'
  BY <1>1, <1>5, VerifyStandaloneStep
<1>6. CASE reader_verify(s.f, content)
  <2>1. Ask("verify", s.f, Absent, content, FALSE)
    BY <1>6, Zenon DEF reader_verify
  <2> QED
    BY <1>1, <1>2, <2>1, AskStep, Zenon
<1>7. CASE cmd_verify_with_proof(s, content)
  <2>1. Ask("proof", s.f, g, content, FALSE)
    BY <1>3, <1>7, Zenon DEF cmd_verify_with_proof, calendar_slice_remote
  <2> QED
    BY <1>1, <1>4, <2>1, AskStep, Zenon
<1>8. CASE RpcVerify(s.f, s.sig, content)
  <2>1. Ask("verify", s.f, s.sig, content, TRUE)
    BY <1>8, Zenon DEF RpcVerify
  <2> QED
    BY <1>1, <2>1, AskStep, Zenon
<1>9. ASSUME NEW sig \in {Absent} \cup {y.sig : y \in issued}, cmd_verify(s, sig, content)
      PROVE  ServiceInv'
  <2>1. PICK h : h = IF sig # Absent THEN sig ELSE g
    OBVIOUS
  <2>2. Ask("verify", s.f, h, content, FALSE)
    BY <1>3, <1>9, <2>1, Zenon DEF cmd_verify, verify_remote
  <2>3. h \in Signatures /\ (h \in {NoSig, Absent} \/ \E y \in issued : h = y.sig)
    <3>1. CASE sig # Absent
      <4>1. PICK y \in issued : sig = y.sig
        BY <1>9, <3>1
      <4>2. y.sig \in Signatures
        BY StampTypes DEF ServiceInv
      <4> QED
        BY <2>1, <3>1, <4>1, <4>2
    <3> QED
      BY <1>4, <2>1, <3>1
  <2> QED
    BY <1>1, <2>2, <2>3, AskStep, Zenon
<1> QED
  BY <1>5, <1>6, <1>7, <1>8, <1>9

\* The user's calls that ask for a stamp.
LEMMA UserStampStep ==
  ASSUME ServiceInv, NEW content \in Contents,
         cmd_stamp(content) \/ \E target \in {"node", "other"} : RpcRouteStamp(target, content)
  PROVE  ServiceInv'
<1>1. NoForetis \in Foretises /\ NoSig \in Signatures
  BY SigTypes DEF NoForetis, Foretises, AllOwners
<1>2. CASE cmd_stamp(content)
  <2>1. Ask("stamp", NoForetis, NoSig, content, FALSE)
    BY <1>2, Zenon DEF cmd_stamp, stamp_remote
  <2> QED
    BY <1>1, <2>1, AskStep, Zenon
<1>3. ASSUME NEW target \in {"node", "other"}, RpcRouteStamp(target, content)
      PROVE  ServiceInv'
  <2>1. PICK g : g = [NoForetis EXCEPT !.tbid = target]
    OBVIOUS
  <2>2. g \in Foretises /\ g.tbid \in Targets
    BY <1>1, <2>1 DEF Foretises, AllOwners, Targets
  <2>3. Ask("route", g, NoSig, content, FALSE)
    BY <1>3, <2>1, Zenon DEF RpcRouteStamp
  <2> QED
    BY <1>1, <2>2, <2>3, AskStep, Zenon
<1> QED
  BY <1>2, <1>3

-----------------------------------------------------------------------------
(* The node serves the calls *)

\* The node answers a call without a stamp.
LEMMA AnswerStep ==
  ASSUME ServiceInv, NEW i \in DOMAIN client_calls, NEW a \in Answers, Answer(i, a),
         NEW c, c = client_calls[i], c.state # "done",
         c.kind = "verify" => (a = "true" => Intact(c)) /\ (a = "false" => Hopeless(c)),
         c.kind = "proof" => a \in Seq(CalendarRecords) /\ (a # << >> => Has(calendars["node"], a[1])),
         UNCHANGED <<ServerVars, foretias, at_client, engineVars>>
  PROVE  ServiceInv'
<1>1. c \in ClientCalls /\ CallOK(c)
  BY CallAt
<1>2. PICK d : d = [c EXCEPT !.state = "served", !.answer = a]
  OBVIOUS
<1>3. /\ d \in ClientCalls /\ d.kind = c.kind /\ d.f = c.f /\ d.sig = c.sig /\ d.content = c.content
      /\ d.answer = a /\ d.state = "served" /\ d.result = c.result
  BY <1>1, <1>2 DEF ClientCalls
<1>4. client_calls' = [client_calls EXCEPT ![i] = d] /\ issued' = issued /\ alone' = alone
  BY <1>2 DEF Answer
<1>5. CallOK(d)
  <2>1. (SigKnown(d) <=> SigKnown(c)) /\ (Intact(d) <=> Intact(c)) /\ (Hopeless(d) <=> Hopeless(c))
    BY <1>3 DEF SigKnown, Intact, Hopeless, RecordOf
  <2>2. Checks(d) <=> Checks(c)
    BY <1>3 DEF Checks
  <2>3. Checks(c) => SigKnown(c) /\ foretias.level # "standalone"
    BY <1>1 DEF CallOK
  <2>4. Checks(c) /\ Says(d, "true") => Intact(c)
    BY <1>1, <1>3 DEF CallOK, Checks, Says
  <2>5. Checks(c) /\ Says(d, "false") => Hopeless(c)
    BY <1>1, <1>3 DEF CallOK, Checks, Says
  <2>6. c.kind = "route" => d.f.tbid \in Targets
    BY <1>1, <1>3 DEF CallOK
  <2> QED
    BY <1>3, <2>1, <2>2, <2>3, <2>4, <2>5, <2>6 DEF CallOK
<1>6. /\ UNCHANGED <<node_tbid, is_dormant, foretias, at_client, calendars, current_tick, keypairs>>
      /\ UNCHANGED <<making, issued, alone>>
  BY <1>4 DEF ServerVars, engineVars
<1>7. CalendarsStay
  BY <1>6, CalendarsUnchanged
<1>8. CallOK(d)'
  BY <1>3, <1>5, <1>6, <1>7, CallStays
<1>9. CallsGrow
  BY <1>3, <1>4, <1>6, <1>7, <1>8, CallChanged
<1> QED
  BY <1>6, <1>9, EngineRest

\* The node begins a stamp, or is dormant and refuses.
LEMMA HandleStampStep ==
  ASSUME ServiceInv, NEW i \in DOMAIN client_calls, handle_stamp(i) PROVE ServiceInv'
<1>1. PICK c : c = client_calls[i]
  OBVIOUS
<1>2. c.kind \in {"stamp", "route"} /\ c.state # "done" /\ UNCHANGED <<ServerVars, foretias, at_client>>
  BY <1>1 DEF handle_stamp, ToServe
<1>3. CASE Answer(i, "error") /\ UNCHANGED engineVars
  <2>1. "error" \in Answers
    BY DEF Answers
  <2>2. UNCHANGED <<ServerVars, foretias, at_client, engineVars>>
    BY <1>2, <1>3
  <2> QED
    BY <1>1, <1>2, <1>3, <2>1, <2>2, AnswerStep
<1>4. CASE /\ ~is_dormant /\ ClaimTick("node", i)
           /\ client_calls' = [client_calls EXCEPT ![i].state = "making"]
           /\ UNCHANGED <<issued, alone>>
  <2>1. PICK d : d = [c EXCEPT !.state = "making"]
    OBVIOUS
  <2>2. c \in ClientCalls /\ CallOK(c) /\ client_calls' = [client_calls EXCEPT ![i] = d]
    BY <1>1, <1>4, <2>1, CallAt
  <2>3. d \in ClientCalls /\ d.kind = c.kind /\ d.f = c.f
    BY <2>1, <2>2 DEF ClientCalls
  <2>4. CallOK(d)'
    BY <1>2, <2>2, <2>3 DEF CallOK, Checks
  <2>5. UNCHANGED <<node_tbid, is_dormant, foretias, at_client, calendars, issued, alone>>
    BY <1>2, <1>4 DEF ServerVars, ClaimTick
  <2>6. CalendarsStay
    BY <2>5, CalendarsUnchanged
  <2>7. CallsGrow
    BY <1>1, <2>2, <2>3, <2>4, <2>5, <2>6, CallChanged
  <2>8. PICK n \in Nat : n = i /\ i \in DOMAIN client_calls' /\ client_calls'[i].kind = c.kind
    BY <1>1, <2>7 DEF ServiceInv, CallsGrow
  <2>9. PICK o \in Owners : o = "node" /\ ~Frozen(o)
    <3>1. ~Frozen("node")
      BY <1>4 DEF ServiceInv, EngineInv, LoaderSleeps, Frozen
    <3> QED
      BY <3>1 DEF Owners
  <2>10. ClaimTick(o, n) /\ n \in DOMAIN client_calls' /\ client_calls'[n].kind \in StampKinds(o)
    BY <1>2, <1>4, <2>8, <2>9 DEF StampKinds
  <2> QED
    BY <2>5, <2>7, <2>9, <2>10, ClaimStep
<1> QED
  BY <1>3, <1>4 DEF handle_stamp

\* A stamp of another time being.
LEMMA HandleRouteStampStep ==
  ASSUME ServiceInv, NEW i \in DOMAIN client_calls, handle_route_stamp(i) PROVE ServiceInv'
<1>1. PICK c : c = client_calls[i]
  OBVIOUS
<1>2. c.kind = "route" /\ c.state # "done" /\ c.f.tbid # node_tbid
      /\ UNCHANGED <<ServerVars, foretias, at_client, engineVars>>
  BY <1>1 DEF handle_route_stamp, ToServe
<1>3. CASE Answer(i, "error")
  <2>1. "error" \in Answers
    BY DEF Answers
  <2> QED
    BY <1>1, <1>2, <1>3, <2>1, AnswerStep
<1>4. CASE UNCHANGED alone /\ AnswerStamp(i, Stamp(client_calls[i].f.tbid, 1, client_calls[i].content, 1))
  <2>1. c \in ClientCalls /\ CallOK(c)
    BY <1>1, CallAt
  <2>2. PICK s : s = Stamp(c.f.tbid, 1, c.content, 1)
    OBVIOUS
  <2>3. PICK owner \in Signers, one \in Nat \ {0}, content \in Contents :
          owner = c.f.tbid /\ one = 1 /\ content = c.content /\ owner \in Targets
    <3>1. c.f.tbid \in Targets /\ c.content \in Contents
      BY <1>2, <2>1 DEF CallOK, ClientCalls
    <3> QED
      BY <3>1 DEF Targets, Signers
  <2>4. /\ s \in Stamps /\ s.f \in Foretises /\ s.sig \in Signatures /\ s.f.tbid = owner /\ s.f.number = 1
        /\ s.sig.over = s.f /\ s.sig \notin {NoSig, Absent}
    BY <2>2, <2>3, StampMade
  <2>5. PICK d : d = [c EXCEPT !.state = "served", !.answer = "stamped", !.f = s.f, !.sig = s.sig]
    OBVIOUS
  <2>6. d \in ClientCalls /\ d.kind = "route" /\ d.f = s.f
    <3>1. "stamped" \in Answers
      BY DEF Answers
    <3> QED
      BY <1>2, <2>1, <2>4, <2>5, <3>1 DEF ClientCalls
  <2>7. CallOK(d)'
    BY <2>3, <2>4, <2>6 DEF CallOK, Checks
  <2>8. client_calls' = [client_calls EXCEPT ![i] = d] /\ issued' = issued \cup {s}
    BY <1>1, <1>4, <2>2, <2>5 DEF AnswerStamp
  <2>9. /\ UNCHANGED <<node_tbid, is_dormant, foretias, at_client, calendars, current_tick, keypairs>>
        /\ UNCHANGED <<making, alone>>
    BY <1>2, <1>4 DEF ServerVars, engineVars
  <2>10. CalendarsStay
    BY <2>9, CalendarsUnchanged
  <2>11. CallsGrow
    BY <1>1, <1>2, <2>6, <2>7, <2>8, <2>9, <2>10, CallChanged
  <2>12. EngineTypes /\ LoaderSleeps /\ RecordsOK /\ (\A m \in making : MakerOK(m)) /\ OnlyOne
         /\ IssuedOK /\ AloneKept
    BY DEF ServiceInv, EngineInv
  <2>13. EngineTypes'
    BY <2>4, <2>8, <2>9, <2>12 DEF EngineTypes
  <2>14. LoaderSleeps' /\ RecordsOK' /\ OnlyOne' /\ AloneKept'
    BY <2>9, <2>12 DEF LoaderSleeps, RecordsOK, OnlyOne, AloneKept
  <2>15. ASSUME NEW m \in making' PROVE MakerOK(m)'
    <3>1. MakerOK(m)
      BY <2>9, <2>12
    <3> QED
      BY <2>9, <2>11, <3>1 DEF MakerOK, CallsGrow, Frozen
  <2>16. IssuedOK'
    <3>1. s.f.tbid \in Owners => Frozen(s.f.tbid)
      BY <1>2, <2>3, <2>4, <2>12 DEF Targets, Owners, EngineTypes, Frozen
    <3>2. \A o \in Owners : Frozen(o)' = Frozen(o)
      BY <2>9 DEF Frozen
    <3> QED
      BY <2>4, <2>8, <2>9, <2>12, <3>1, <3>2 DEF IssuedOK
  <2> QED
    BY <2>11, <2>13, <2>14, <2>15, <2>16, Assembled DEF EngineInv
<1> QED
  BY <1>3, <1>4 DEF handle_route_stamp

\* The node's verdict: what it calls valid was issued, what it calls invalid is hopeless.
LEMMA ServeVerifyStep ==
  ASSUME ServiceInv, NEW i \in DOMAIN client_calls, ServeVerify(i) PROVE ServiceInv'
<1>1. PICK c : c = client_calls[i]
  OBVIOUS
<1>2. /\ c.kind = "verify" /\ c.state # "done"
      /\ UNCHANGED <<ServerVars, foretias, at_client, engineVars>>
      /\ c \in ClientCalls /\ SigKnown(c) /\ foretias.level # "standalone"
  <2>1. c.kind = "verify" /\ c.state # "done" /\ UNCHANGED <<ServerVars, foretias, at_client, engineVars>>
    BY <1>1 DEF ServeVerify, ToServe
  <2>2. c \in ClientCalls /\ CallOK(c)
    BY <1>1, CallAt
  <2> QED
    BY <2>1, <2>2 DEF CallOK, Checks
<1>3. PICK a \in handle_verify(c) : Answer(i, a)
  BY <1>1 DEF ServeVerify
<1>4. PICK n \in Nat : n = c.f.number
  BY <1>2 DEF ClientCalls, Foretises
<1>5. PICK cal \in Seq(CalendarRecords) : cal = calendars["node"] /\ Ascending(cal) /\ latest(cal) \in Nat
  BY CalendarTypes DEF ServiceInv, Owners
<1>6. PICK p, record : p = parse_verify_params(c) /\ record = get_first(n, cal)
  OBVIOUS
<1>7. /\ p.f = c.f /\ p.content = c.content /\ p.sig = (IF c.sig = Absent THEN NoSig ELSE c.sig)
  BY <1>2, <1>6 DEF parse_verify_params, ClientCalls
<1>8. PICK local : local = tick_verify(c.f, p.sig, c.content, record) /\ local = try_local_verify(p)
  BY <1>4, <1>5, <1>6, <1>7 DEF try_local_verify
<1>9. /\ a \in {"no_answer", "true", "false", "error"}
      /\ a = "true" => local = "true"
      /\ a = "false" => local \notin {"true", "panic"}
  BY <1>3, <1>6, <1>8 DEF handle_verify, cross_node_verify
<1>10. /\ record # NotFound => /\ record \in CalendarRecords
                               /\ OnlyAt(cal, n, record)
       /\ n <= latest(cal) /\ n # 0 => record # NotFound
       /\ record # NotFound => n <= latest(cal)
  BY <1>5, <1>6, FirstRecord
<1>11. Asked = "node" /\ Asked \in Owners
  BY <1>2 DEF Asked, Owners
<1>12. a = "true" => Intact(c)
  <2> SUFFICES ASSUME a = "true" PROVE Intact(c)
    OBVIOUS
  <2>1. p.sig # NoSig /\ (record \in CalendarRecords \/ record = NotFound)
    BY <1>8, <1>9, <1>10 DEF tick_verify
  <2>2. tick_verify(c.f, c.sig, c.content, record) = "true"
    BY <1>7, <1>8, <1>9, <2>1
  <2> QED
    BY <1>2, <2>1, <2>2, VerdictTrue
<1>13. a = "false" => Hopeless(c)
  <2> SUFFICES ASSUME a = "false", c.content = c.f.content, c.sig.over = c.f, c.sig \notin {NoSig, Absent},
                      c.f.tbid = Asked, ~Gone(Asked, RecordOf(c))
               PROVE  FALSE
    BY DEF Hopeless
  <2>1. p.sig = c.sig /\ p.sig # NoSig
    BY <1>7
  <2>2. PICK x \in issued : c.sig = x.sig
    BY <1>2 DEF SigKnown
  <2>3. c.f = x.f /\ n # 0 /\ (Frozen("node") \/ n <= latest(cal))
    BY <1>4, <1>5, <1>11, <2>2 DEF ServiceInv, EngineInv, IssuedOK
  <2>4. PICK r : r = RecordOf(c) /\ r.number = n /\ r.key = c.sig.key
    <3>1. PICK r : r = RecordOf(c)
      OBVIOUS
    <3> QED
      BY <1>4, <3>1 DEF RecordOf
  <2>5. Has(cal, r)
    BY <1>5, <1>11, <2>3, <2>4 DEF Gone
  <2>6. n <= latest(cal)
    BY <1>5, <2>4, <2>5, LatestIsGreatest DEF Has
  <2>7. record # NotFound /\ r = record
    BY <1>10, <2>3, <2>4, <2>5, <2>6 DEF OnlyAt
  <2>8. local = "true"
    BY <1>8, <2>1, <2>4, <2>7 DEF tick_verify
  <2> QED
    BY <1>9, <2>8
<1>14. a \in Answers
  <2>1. "no_answer" \in Answers /\ "true" \in Answers /\ "false" \in Answers /\ "error" \in Answers
    BY DEF Answers
  <2> QED
    BY <1>9, <2>1
<1> QED
  BY <1>1, <1>2, <1>3, <1>12, <1>13, <1>14, AnswerStep

LEMMA ServeSliceStep ==
  ASSUME ServiceInv, NEW i \in DOMAIN client_calls, ServeSlice(i) PROVE ServiceInv'
<1>1. PICK c : c = client_calls[i]
  OBVIOUS
<1>2. /\ c.kind = "proof" /\ c.state # "done"
      /\ UNCHANGED <<ServerVars, foretias, at_client, engineVars>> /\ c \in ClientCalls
  <2>1. c.kind = "proof" /\ c.state # "done" /\ UNCHANGED <<ServerVars, foretias, at_client, engineVars>>
    BY <1>1 DEF ServeSlice, ToServe
  <2> QED
    BY <1>1, <2>1, CallAt
<1>3. PICK n \in Nat : n = c.f.number
  BY <1>2 DEF ClientCalls, Foretises
<1>4. PICK a : a = get(n, 2, calendars["node"]) /\ Answer(i, a)
  BY <1>1, <1>3 DEF ServeSlice, handle_get_calendar_slice
<1>5. a \in Seq(CalendarRecords) /\ (a # << >> => Has(calendars["node"], a[1]))
  <2>1. PICK cal \in Seq(CalendarRecords), two \in Nat : cal = calendars["node"] /\ two = 2
    BY CalendarTypes DEF ServiceInv, Owners
  <2> QED
    BY <1>4, <2>1, GetFinds
<1>6. a \in Answers
  BY <1>5 DEF Answers
<1> QED
  BY <1>1, <1>2, <1>4, <1>5, <1>6, AnswerStep

\* The answer reaches the client, which checks a proof itself.
LEMMA AnswerReturnsStep ==
  ASSUME ServiceInv, NEW i \in DOMAIN client_calls, AnswerReturns(i) PROVE ServiceInv'
<1>1. PICK c : c = client_calls[i]
  OBVIOUS
<1>2. PICK r : r = IF c.kind = "proof" THEN verify_with_proof(c)
                   ELSE IF c.answer = "no_answer" THEN "error" ELSE c.answer
  OBVIOUS
<1>3. PICK d : d = Finished(c, r)
  OBVIOUS
<1>4. /\ client_calls' = [client_calls EXCEPT ![i] = d] /\ c.state = "served"
      /\ UNCHANGED <<ServerVars, foretias, at_client, engineVars, issued, alone>>
  BY <1>1, <1>2, <1>3 DEF AnswerReturns
<1>5. c \in ClientCalls /\ CallOK(c)
  BY <1>1, CallAt
<1>6. ASSUME c.kind = "proof"
      PROVE  /\ r \in {"true", "false", "error", "panic"}
             /\ (r = "true" => Intact(c)) /\ (r = "false" => Hopeless(c))
  <2>1. /\ SigKnown(c) /\ foretias.level # "standalone" /\ c.answer \in Seq(CalendarRecords)
        /\ c.answer # << >> => Has(calendars["node"], c.answer[1])
    BY <1>4, <1>5, <1>6 DEF CallOK, Checks
  <2>2. PICK first, record : first = c.answer[1] /\ record = IF first.number = c.f.number THEN first ELSE NotFound
    OBVIOUS
  <2>3. r = "error" \/ (c.answer # << >> /\ r = tick_verify(c.f, c.sig, c.content, record))
    BY <1>2, <1>6, <2>2 DEF verify_with_proof
  <2>4. r \in {"true", "false", "error", "panic"}
    BY <2>3, TickVerifyType
  <2>5. c.answer # << >> => first \in CalendarRecords
    BY <2>1, <2>2
  <2>6. r = "true" => Intact(c)
    BY <2>1, <2>2, <2>3, <2>5, VerdictTrue
  <2>7. r = "false" => Hopeless(c)
    <3> SUFFICES ASSUME r = "false" PROVE Hopeless(c)
      OBVIOUS
    <3>1. \/ c.f.content # c.content \/ c.sig.over # c.f
          \/ record # NotFound /\ c.sig.key # record.key
      BY <2>3 DEF tick_verify
    <3>2. CASE c.f.content # c.content \/ c.sig.over # c.f
      BY <3>2 DEF Hopeless
    <3>3. CASE record # NotFound /\ c.sig.key # record.key
      <4>1. record = first /\ first.number = c.f.number /\ c.answer # << >>
        BY <2>2, <2>3, <3>3
      <4>2. PICK cal \in Seq(CalendarRecords) : cal = calendars["node"] /\ Ascending(cal)
        BY CalendarTypes DEF ServiceInv, Owners
      <4>3. PICK l \in Nat : l = Len(cal) /\ DOMAIN cal = 1..l
        OBVIOUS
      <4>4. PICK j \in 1..l : cal[j] = first
        BY <2>1, <2>2, <4>1, <4>2, <4>3 DEF Has
      <4>5. cal[j].number \in Nat /\ cal[j].number <= latest(cal)
        BY <4>2, <4>3, <4>4, LatestIsGreatest
      <4>6. PICK x : x = RecordOf(c) /\ x.number = c.f.number /\ x.key = c.sig.key
        <5>1. PICK x : x = RecordOf(c)
          OBVIOUS
        <5> QED
          BY <5>1 DEF RecordOf
      <4>7. ~Has(cal, x)
        <5> SUFFICES ASSUME NEW k \in 1..l, cal[k] = x PROVE FALSE
          BY <4>3 DEF Has
        <5>1. cal[k].number = cal[j].number
          BY <4>1, <4>4, <4>6
        <5>2. k < j \/ j < k \/ k = j
          OBVIOUS
        <5>3. k = j
          BY <4>2, <4>3, <4>5, <5>1, <5>2 DEF Ascending
        <5> QED
          BY <3>3, <4>1, <4>4, <4>6, <5>3
      <4>8. Asked = "node"
        BY <2>1 DEF Asked
      <4> QED
        BY <4>1, <4>2, <4>4, <4>5, <4>6, <4>7, <4>8 DEF Hopeless, Gone
    <3> QED
      BY <3>1, <3>2, <3>3
  <2> QED
    BY <2>4, <2>6, <2>7
<1>7. r \in Answers
  <2>1. CASE c.kind = "proof"
    <3>1. "true" \in Answers /\ "false" \in Answers /\ "error" \in Answers /\ "panic" \in Answers
      BY DEF Answers
    <3> QED
      BY <1>6, <2>1, <3>1
  <2>2. CASE c.kind # "proof"
    <3>1. c.answer \in Answers /\ "error" \in Answers
      BY <1>5 DEF ClientCalls, Answers
    <3> QED
      BY <1>2, <2>2, <3>1
  <2> QED
    BY <2>1, <2>2
<1>8. /\ d \in ClientCalls /\ d.kind = c.kind /\ d.f = c.f /\ d.sig = c.sig
      /\ d.content = c.content /\ d.answer = c.answer /\ d.state = "done" /\ d.result = r
  BY <1>3, <1>5, <1>7, FinishedOK
<1>9. CallOK(d)
  <2>1. (SigKnown(d) <=> SigKnown(c)) /\ (Intact(d) <=> Intact(c)) /\ (Hopeless(d) <=> Hopeless(c))
        /\ (Checks(d) <=> Checks(c))
    BY <1>8 DEF SigKnown, Intact, Hopeless, Checks, RecordOf
  <2>2. CASE c.kind = "proof"
    <3>1. Checks(c) /\ (Says(d, "true") <=> r = "true") /\ (Says(d, "false") <=> r = "false")
      BY <1>8, <2>2 DEF Checks, Says
    <3>2. SigKnown(c)
      BY <1>5, <3>1 DEF CallOK
    <3> QED
      BY <1>6, <1>8, <2>1, <2>2, <3>1, <3>2 DEF CallOK
  <2>3. CASE c.kind # "proof"
    <3>1. \A v \in {"true", "false"} : Says(d, v) => Says(c, v)
      BY <1>2, <1>8, <2>3 DEF Says
    <3> QED
      BY <1>5, <1>8, <2>1, <2>3, <3>1 DEF CallOK
  <2> QED
    BY <2>2, <2>3
<1>10. /\ UNCHANGED <<node_tbid, is_dormant, foretias, at_client, calendars, current_tick, keypairs>>
       /\ UNCHANGED <<making, issued, alone>>
  BY <1>4 DEF ServerVars, engineVars
<1>11. CalendarsStay
  BY <1>10, CalendarsUnchanged
<1>12. CallOK(d)'
  BY <1>8, <1>9, <1>10, <1>11, CallStays
<1>13. CallsGrow
  BY <1>1, <1>4, <1>8, <1>10, <1>11, <1>12, CallChanged
<1> QED
  BY <1>10, <1>13, EngineRest

\* A wait that times out: the client takes it for an error.
LEMMA WaitTimesOutStep ==
  ASSUME ServiceInv, NEW i \in DOMAIN client_calls, WaitTimesOut(i) PROVE ServiceInv'
<1>1. PICK c : c = client_calls[i]
  OBVIOUS
<1>2. PICK state : state = IF c.state = "sent" THEN "abandoned" ELSE c.state
  OBVIOUS
<1>3. PICK d : d = [c EXCEPT !.result = "error", !.state = state]
  OBVIOUS
<1>4. /\ c.result = "pending" /\ foretias.level # "standalone"
      /\ UNCHANGED <<ServerVars, foretias, at_client, engineVars, issued, alone>>
  BY <1>1 DEF WaitTimesOut
<1>5. c \in ClientCalls /\ CallOK(c)
  BY <1>1, CallAt
<1>6. /\ d \in ClientCalls /\ d.kind = c.kind /\ d.f = c.f /\ d.sig = c.sig /\ d.content = c.content
      /\ d.answer = c.answer /\ d.result = "error" /\ (d.state = "served" => c.state = "served")
  <2>1. "error" \in Answers
    BY DEF Answers
  <2>2. state \in {"sent", "abandoned", "making", "served", "done"} /\ (state = "served" => c.state = "served")
    BY <1>2, <1>5 DEF ClientCalls
  <2> QED
    BY <1>3, <1>5, <2>1, <2>2 DEF ClientCalls
<1>7. client_calls' = [client_calls EXCEPT ![i] = d]
  <2>1. client_calls \in Seq(ClientCalls)
    BY DEF ServiceInv
  <2>2. client_calls' = [client_calls EXCEPT ![i].result = "error",
          ![i].state = IF @ = "sent" THEN "abandoned" ELSE @]
    BY DEF WaitTimesOut
  <2> QED
    BY <1>1, <1>2, <1>3, <1>5, <2>1, <2>2 DEF ClientCalls
<1>8. CallOK(d)
  <2>1. (SigKnown(d) <=> SigKnown(c)) /\ (Intact(d) <=> Intact(c)) /\ (Hopeless(d) <=> Hopeless(c))
        /\ (Checks(d) <=> Checks(c))
    BY <1>6 DEF SigKnown, Intact, Hopeless, Checks, RecordOf
  <2>2. \A v \in {"true", "false"} : Says(d, v) => Says(c, v)
    BY <1>6 DEF Says
  <2> QED
    BY <1>4, <1>5, <1>6, <2>1, <2>2 DEF CallOK
<1>9. /\ UNCHANGED <<node_tbid, is_dormant, foretias, at_client, calendars, current_tick, keypairs>>
      /\ UNCHANGED <<making, issued, alone>>
  BY <1>4 DEF ServerVars, engineVars
<1>10. CalendarsStay
  BY <1>9, CalendarsUnchanged
<1>11. CallOK(d)'
  BY <1>6, <1>8, <1>9, <1>10, CallStays
<1>12. CallsGrow
  BY <1>1, <1>6, <1>7, <1>9, <1>10, <1>11, CallChanged
<1> QED
  BY <1>9, <1>12, EngineRest

\* The node's clock ticks, the node goes dormant, or nothing changes.
LEMMA ServiceRestStep ==
  ASSUME ServiceInv, daemon_tick \/ NodeDormant \/ UNCHANGED serviceVars PROVE ServiceInv'
<1>1. CASE daemon_tick
  <2>1. /\ ~is_dormant /\ ClaimTick("node", Timer)
        /\ UNCHANGED <<node_tbid, is_dormant, foretias, at_client, client_calls, issued, alone>>
        /\ calendars' = calendars
    BY <1>1 DEF daemon_tick, ServerVars, ClaimTick
  <2>2. CallsGrow
    <3>1. CalendarsStay
      BY <2>1, CalendarsUnchanged
    <3> QED
      BY <2>1, <3>1, CallsSame
  <2>3. PICK o \in Owners, n \in Nat : o = "node" /\ n = Timer /\ ~Frozen(o)
    <3>1. ~Frozen("node")
      BY <2>1 DEF ServiceInv, EngineInv, LoaderSleeps, Frozen
    <3> QED
      BY <3>1 DEF Owners, Timer
  <2> QED
    BY <2>1, <2>2, <2>3, ClaimStep
<1>2. CASE NodeDormant \/ UNCHANGED serviceVars
  <2>1. /\ UNCHANGED <<node_tbid, foretias, at_client, client_calls, calendars, current_tick, keypairs>>
        /\ UNCHANGED <<making, issued, alone>> /\ (is_dormant => is_dormant')
    BY <1>2 DEF NodeDormant, serviceVars, engineVars
  <2>2. CallsGrow
    <3>1. CalendarsStay
      BY <2>1, CalendarsUnchanged
    <3> QED
      BY <2>1, <3>1, CallsSame
  <2> QED
    BY <2>1, <2>2, EngineRest
<1> QED
  BY <1>1, <1>2

\* The records of a server's calendar as it starts.
LEMMA StartCalendar ==
  ASSUME NEW n \in Nat, NEW cal, cal = [k \in 1..n |-> CalendarRecord("node", k, k)]
  PROVE  /\ cal \in Seq(CalendarRecords) /\ Ascending(cal) /\ Len(cal) = n /\ latest(cal) = n
         /\ \A k \in 1..n : Has(cal, CalendarRecord("node", k, k))
<1>1. ASSUME NEW k \in 1..n
      PROVE  /\ cal[k] = CalendarRecord("node", k, k) /\ cal[k] \in CalendarRecords
             /\ cal[k].number = k
  BY DEF CalendarRecord, CalendarRecords, Owners
<1>2. cal \in [1..n -> CalendarRecords]
  BY <1>1
<1>3. cal \in Seq(CalendarRecords) /\ DOMAIN cal = 1..n /\ Len(cal) = n
  BY <1>2
<1>4. Ascending(cal)
  BY <1>1, <1>3 DEF Ascending
<1>5. latest(cal) = n
  <2>1. CASE n = 0
    BY <1>3, <2>1 DEF latest
  <2>2. CASE n # 0
    BY <1>1, <1>3, <2>2 DEF latest
  <2> QED
    BY <2>1, <2>2
<1>6. ASSUME NEW k \in 1..n PROVE Has(cal, CalendarRecord("node", k, k))
  BY <1>1, <1>3 DEF Has
<1> QED
  BY <1>3, <1>4, <1>5, <1>6

LEMMA ServiceInvInit == ServiceInit => ServiceInv
<1> SUFFICES ASSUME ServiceInit PROVE ServiceInv
  OBVIOUS
<1>1. PICK sv : StartsAs(sv) /\ sv.records \in Nat /\ sv.tbid \in {"node", "loader"}
                /\ (sv.tbid = "loader" => sv.dormant)
  <2>1. PICK d \in BOOLEAN, p \in BOOLEAN : \E sv \in create_server(d, p) : StartsAs(sv)
    BY Zenon DEF ServiceInit
  <2>2. PICK sv \in create_server(d, p) : StartsAs(sv)
    BY <2>1, Zenon
  <2>3. sv = new_with_config \/ \E k \in 0..MaxRecords : sv = from_calendar(k)
    BY <2>2, Zenon DEF create_server
  <2>4. sv.records \in Nat /\ sv.tbid \in {"node", "loader"}
    BY <2>3, ServiceAssumption DEF new_with_config, from_calendar
  <2>5. sv.tbid = "loader" => sv.dormant
    BY <2>3 DEF new_with_config, from_calendar
  <2> QED
    BY <2>2, <2>4, <2>5, Zenon
<1>2. PICK n \in Nat : n = sv.records
  BY <1>1
<1>3. PICK cal : cal = [k \in 1..n |-> CalendarRecord("node", k, k)]
  OBVIOUS
<1>4. /\ cal \in Seq(CalendarRecords) /\ Ascending(cal) /\ Len(cal) = n /\ latest(cal) = n
      /\ \A k \in 1..n : Has(cal, CalendarRecord("node", k, k))
  BY <1>3, StartCalendar
<1>5. /\ node_tbid \in {"node", "loader"} /\ LoaderSleeps
      /\ making = {} /\ alone = issued /\ keypairs = current_tick
      /\ calendars = [o \in Owners |-> IF o = "client" THEN << >> ELSE cal]
      /\ current_tick = [o \in Owners |-> Len(calendars[o])]
  BY <1>1, <1>2, <1>3 DEF StartsAs, LoaderSleeps
<1>6. PICK stamped \in [1..n -> Contents] : issued = {Stamp("node", k, stamped[k], k) : k \in 1..n}
  BY <1>1, <1>2 DEF StartsAs
<1>7. PICK none : none = << >>
  OBVIOUS
<1>8. /\ none \in Seq(CalendarRecords) /\ Len(none) = 0 /\ latest(none) = 0 /\ Ascending(none)
  BY <1>7 DEF latest, Ascending
<1>9. /\ calendars["client"] = none /\ calendars["node"] = cal
      /\ calendars \in [Owners -> Seq(CalendarRecords)]
      /\ current_tick \in [Owners -> Nat] /\ current_tick["client"] = 0 /\ current_tick["node"] = n
  BY <1>4, <1>5, <1>7, <1>8 DEF Owners
<1>10. ASSUME NEW x \in issued
       PROVE  /\ x \in Stamps /\ x.sig.over = x.f /\ x.f.number # 0 /\ x.sig \notin {NoSig, Absent}
              /\ x.f.tbid = "node" /\ x.f.number <= n /\ Has(cal, RecordOf(x))
  <2>1. PICK k \in 1..n : x = Stamp("node", k, stamped[k], k)
    BY <1>6
  <2>2. PICK owner \in Signers, one \in Nat \ {0}, content \in Contents :
          owner = "node" /\ one = k /\ content = stamped[k]
    BY <1>6, <2>1 DEF Signers
  <2>3. /\ x \in Stamps /\ x.f.tbid = owner /\ x.f.number = one
        /\ x.sig.key = <<owner, one>> /\ x.sig.over = x.f /\ x.sig \notin {NoSig, Absent}
    BY <2>1, <2>2, StampMade
  <2>4. RecordOf(x) = CalendarRecord("node", k, k)
    BY <2>2, <2>3 DEF RecordOf, CalendarRecord
  <2> QED
    BY <1>4, <2>1, <2>2, <2>3, <2>4
<1>11. foretias \in [level : {"standalone", "ptp", "p2p"}, peers : {<< >>, <<"node">>}, persist_path : BOOLEAN]
  <2>1. ASSUME NEW cfg \in ForetiasConfig, foretias = with_config(cfg) PROVE <1>11!:
    BY <2>1 DEF ForetiasConfig, with_config, new, connect, join
  <2>2. ASSUME NEW known \in {<< >>, <<"node">>}, foretias = join(known) PROVE <1>11!:
    BY <2>2 DEF join
  <2> QED
    BY <2>1, <2>2 DEF ServiceInit
<1>12. /\ at_client \in [saved : Nat, dormant : BOOLEAN] /\ at_client.saved = 0
       /\ client_calls = << >> /\ client_calls \in Seq(ClientCalls) /\ DOMAIN client_calls = {}
  BY DEF ServiceInit, create_standalone_state
<1>13. EngineTypes
  <2>1. issued \subseteq Stamps /\ alone \subseteq issued /\ making \subseteq Makers
    BY <1>5, <1>10
  <2> QED
    BY <1>5, <1>9, <1>11, <1>12, <2>1 DEF EngineTypes
<1>14. RecordsOK
  BY <1>4, <1>7, <1>8, <1>9, <1>12 DEF RecordsOK, Owners
<1>15. OnlyOne /\ \A m \in making : MakerOK(m)
  BY <1>5 DEF OnlyOne
<1>16. IssuedOK /\ AloneKept
  BY <1>4, <1>5, <1>9, <1>10 DEF IssuedOK, AloneKept
<1> QED
  BY <1>5, <1>12, <1>13, <1>14, <1>15, <1>16 DEF ServiceInv, EngineInv

LEMMA ServiceInvNext == ServiceInv /\ [ServiceNext]_serviceVars => ServiceInv'
<1> SUFFICES ASSUME ServiceInv, [ServiceNext]_serviceVars PROVE ServiceInv'
  OBVIOUS
<1>1. ASSUME NEW content \in Contents, stamp_standalone(content) PROVE ServiceInv'
  BY <1>1, StampStandaloneStep
<1>2. ASSUME NEW content \in Contents,
             cmd_stamp(content) \/ \E target \in {"node", "other"} : RpcRouteStamp(target, content)
      PROVE  ServiceInv'
  BY <1>2, UserStampStep
<1>3. ASSUME NEW content \in Contents, NEW s \in UNION {Variants(x) : x \in issued},
             \/ s.sig # Absent /\ \E kind \in {"verify", "proof"} : verify_standalone(kind, s.f, s.sig, content)
             \/ reader_verify(s.f, content) \/ cmd_verify_with_proof(s, content)
             \/ RpcVerify(s.f, s.sig, content)
             \/ \E sig \in {Absent} \cup {x.sig : x \in issued} : cmd_verify(s, sig, content)
      PROVE  ServiceInv'
  <2>1. PICK x \in issued : s \in Variants(x)
    BY <1>3, Zenon
  <2> QED
    BY <1>3, <2>1, UserVerifyStep, Zenon
<1>4. ASSUME NEW i \in DOMAIN client_calls,
             \/ handle_stamp(i) \/ handle_route_stamp(i) \/ ServeVerify(i) \/ ServeSlice(i)
             \/ AnswerReturns(i) \/ WaitTimesOut(i)
      PROVE  ServiceInv'
  BY <1>4, HandleStampStep, HandleRouteStampStep, ServeVerifyStep, ServeSliceStep,
     AnswerReturnsStep, WaitTimesOutStep, Zenon
<1>5. ASSUME NEW m \in making,
             \/ generate_and_store_keypair(m) \/ keypair_pub(m) \/ sign_with_keypair(m)
             \/ notify_observer(m) \/ MakingFails(m)
      PROVE  ServiceInv'
  BY <1>5, GenerateStep, PubStep, SignStep, NotifyStep, MakingFailsStep, Zenon
<1>6. CASE from_persist
  BY <1>6, FromPersistStep
<1>7. CASE daemon_tick \/ NodeDormant \/ UNCHANGED serviceVars
  BY <1>7, ServiceRestStep
<1> QED
  BY <1>1, <1>2, <1>3, <1>4, <1>5, <1>6, <1>7, Zenon DEF ServiceNext

\* What is called invalid is not an unchanged stamp whose record is where it was
\* looked for.
LEMMA ServiceInvSuffices == ServiceInv => VerdictGenuine
<1> SUFFICES ASSUME ServiceInv, NEW i \in DOMAIN client_calls PROVE
      LET c == client_calls[i] IN
      Checks(c) =>
        /\ c.result = "true" => Intact(c)
        /\ Intact(c) /\ (Kept(c) \/ MadeAlone(c)) /\ c.result \in Verdicts => c.result = "true"
  BY DEF VerdictGenuine
<1>1. PICK c : c = client_calls[i]
  OBVIOUS
<1>2. c \in ClientCalls /\ CallOK(c)
  BY <1>1, CallAt
<1>3. Checks(c) /\ c.result = "true" => Intact(c)
  BY <1>2 DEF CallOK, Says
<1>4. ASSUME Checks(c), Intact(c), Kept(c) \/ MadeAlone(c), c.result = "false" PROVE FALSE
  <2>1. Hopeless(c)
    BY <1>2, <1>4 DEF CallOK, Says
  <2>2. PICK x : x = [f |-> c.f, sig |-> c.sig]
    OBVIOUS
  <2>3. /\ x \in issued /\ x.f = c.f /\ x.sig = c.sig /\ c.content = c.f.content
    BY <1>4, <2>2 DEF Intact
  <2>4. c.sig.over = c.f /\ c.sig \notin {NoSig, Absent}
    BY <2>3 DEF ServiceInv, EngineInv, IssuedOK
  <2>5. c.f.tbid = Asked /\ Has(calendars[Asked], RecordOf(c))
    <3>1. CASE Kept(c)
      BY <3>1 DEF Kept, Has, RecordOf
    <3>2. CASE MadeAlone(c)
      <4>1. x \in alone /\ x.f.tbid = Asked /\ Asked \in Owners /\ x.f.number <= latest(calendars[Asked])
        BY <2>2, <2>3, <3>2 DEF MadeAlone, Asked, Owners
      <4>2. Has(calendars[Asked], RecordOf(x))
        BY <4>1 DEF ServiceInv, EngineInv, AloneKept
      <4>3. RecordOf(x) = RecordOf(c)
        BY <2>3 DEF RecordOf
      <4> QED
        BY <2>3, <4>1, <4>2, <4>3
    <3> QED
      BY <1>4, <3>1, <3>2
  <2> QED
    BY <2>1, <2>3, <2>4, <2>5 DEF Hopeless, Gone
<1> QED
  BY <1>1, <1>3, <1>4 DEF Verdicts

\* For every number of calls, ticks and records, and however the stamps and ticks of
\* the two engines overlap: a call that says a stamp is valid was given one that was
\* issued, unchanged, for that content; and an unchanged stamp that was made alone, or
\* whose record the calendar kept under its key, is never called invalid.  What verify,
\* verify_with_proof and stamp of the client library tell their caller.
THEOREM VerdictsGenuine == ServiceSpec => []VerdictGenuine
<1>1. ServiceInit => ServiceInv
  BY ServiceInvInit
<1>2. ServiceInv /\ [ServiceNext]_serviceVars => ServiceInv'
  BY ServiceInvNext
<1>3. ServiceInv => VerdictGenuine
  BY ServiceInvSuffices
<1> QED
  BY <1>1, <1>2, <1>3, PTL DEF ServiceSpec

-----------------------------------------------------------------------------
(* Requests over a session                                                   *)

\* The keys of the two ends of a connection.
Ec(c) == <<"ephemeral", c, "client">>
Es(d) == <<"ephemeral", d, "server">>
Sc(c) == <<"static", c>>
Ss == <<"static", "server">>
Ephemerals == {Junk, <<"none">>} \cup {Ec(c) : c \in Conns} \cup {Es(c) : c \in Conns}

\* The four messages: d's hello to whoever sent e, c's static key and its request
\* to d, and d's answer.  CkHello and CkFull are the chaining keys after the second
\* and the third message, HashHello and HashFull the handshake hashes.
HelloMsg(e, d) ==
  [k |-> <<"key", << {Es(d), e} >> >>, n |-> 0, ad |-> << <<"protocol">>, e, Es(d) >>, pt |-> Ss]
CkHello(e, d) == << {Es(d), e}, {Ss, e} >>
HashHello(e, d) == << <<"protocol">>, e, Es(d), HelloMsg(e, d) >>
FinishMsg(c, d) ==
  [k |-> <<"key", CkHello(Ec(c), d)>>, n |-> 0, ad |-> HashHello(Ec(c), d), pt |-> Sc(c)]
CkFull(c, d) == << {Es(d), Ec(c)}, {Ss, Ec(c)}, {Sc(c), Es(d)} >>
HashFull(c, d) == << <<"protocol">>, Ec(c), Es(d), HelloMsg(Ec(c), d), FinishMsg(c, d) >>
RequestMsg(c, d) == [k |-> <<"first", CkFull(c, d)>>, n |-> 1, ad |-> << >>, pt |-> <<"request", c>>]
ReplyMsg(c, d, r) == [k |-> <<"second", CkFull(c, d)>>, n |-> 1, ad |-> << >>, pt |-> <<r, c>>]

\* What an end of a connection holds at each step of the handshake.
SessionFields ==
  {"step", "static", "eph", "h", "ck", "re", "rs", "send_key", "recv_key", "send_nonce",
   "recv_nonce", "open"}
ClientAt1(c, s) ==
  /\ s.step = 1 /\ s.h = << <<"protocol">>, Ec(c) >> /\ s.ck = << >>
  /\ s.send_nonce = 0 /\ s.recv_nonce = 0
ClientAt3(c, s, d) ==
  /\ s.step = 3 /\ s.re = Es(d) /\ s.rs = Ss /\ s.h = HashFull(c, d)
  /\ s.send_key = <<"first", CkFull(c, d)>> /\ s.recv_key = <<"second", CkFull(c, d)>>
  /\ s.send_nonce = 2 /\ s.recv_nonce = 1
ClientEnd(c, s) ==
  /\ DOMAIN s = SessionFields /\ s.static = Sc(c) /\ s.eph = Ec(c)
  /\ s.step = 0 \/ ClientAt1(c, s) \/ \E d \in Conns : ClientAt3(c, s, d)
ServerAt0(s) ==
  s.step = 0 /\ s.h = << <<"protocol">> >> /\ s.ck = << >> /\ s.send_nonce = 0 /\ s.recv_nonce = 0
ServerAt2(d, s) ==
  /\ s.step = 2 /\ s.h = HashHello(s.re, d) /\ s.ck = CkHello(s.re, d)
  /\ s.send_key = <<"key", CkHello(s.re, d)>> /\ s.send_nonce = 1 /\ s.recv_nonce = 0
ServerAt3(d, s, c) ==
  /\ s.step = 3 /\ s.re = Ec(c) /\ s.rs = Sc(c) /\ s.h = HashFull(c, d)
  /\ s.recv_key = <<"first", CkFull(c, d)>> /\ s.send_key = <<"second", CkFull(c, d)>>
  /\ s.recv_nonce \in {1, 2} /\ s.send_nonce = s.recv_nonce
ServerEnd(d, s) ==
  /\ DOMAIN s = SessionFields /\ s.static = Ss /\ s.eph = Es(d)
  /\ ServerAt0(s) \/ ServerAt2(d, s) \/ \E c \in Conns : ServerAt3(d, s, c)

\* What an end has done, once and for all: d has answered the hello of e, c has
\* finished its handshake with d, d has served a request of c.
Greeted(d, e) == server[d].step \in {2, 3} /\ server[d].re = e
Joined(c, d) == client[c].step = 3 /\ client[c].re = Es(d)
Served(c, d) == server[d].step = 3 /\ server[d].re = Ec(c) /\ server[d].recv_nonce = 2

\* Whatever is altered or copied, only these are ever on the wire.
UpMsgs ==
  {NoCipher, JunkCipher}
    \cup UNION {{FinishMsg(p[1], p[2]), RequestMsg(p[1], p[2])} : p \in {p \in Conns \X Conns : Joined(p[1], p[2])}}
DownMsgs ==
  {JunkCipher}
    \cup {HelloMsg(server[d].re, d) : d \in {d \in Conns : server[d].step \in {2, 3}}}
    \cup {ReplyMsg(p[1], p[2], process_request(asked[p[1]])) :
            p \in {p \in Conns \X Conns : Served(p[1], p[2])}}
Up == [e : Ephemerals, c : UpMsgs]
Down == [e : Ephemerals, c : DownMsgs]

SessionTypes ==
  /\ DOMAIN client = Conns /\ DOMAIN server = Conns /\ DOMAIN outcome = Conns /\ DOMAIN asked = Conns
  /\ \A c \in Conns : ClientEnd(c, client[c]) /\ ServerEnd(c, server[c])
  /\ toServer \in [Conns -> Seq(Up)] /\ toClient \in [Conns -> Seq(Down)]
  /\ run_requests \in Seq(Conns)

\* The ends of a connection nobody made are idle.
IdleEnds == \A c \in Conns : outcome[c] = "none" => client[c].step = 0 /\ server[c].step = 0 /\ ~server[c].open

\* A finished handshake was answered, and only a finished one is taken for finished.
Handshakes ==
  /\ \A c, d \in Conns : Joined(c, d) => Greeted(d, Ec(c))
  /\ \A c, d \in Conns : server[d].step = 3 /\ server[d].re = Ec(c) => Joined(c, d)

\* A request runs once, when the end that its client talks to has served it.
RunsOnce ==
  /\ \A i, j \in DOMAIN run_requests : run_requests[i] = run_requests[j] => i = j
  /\ \A c \in Conns : (\E i \in DOMAIN run_requests : run_requests[i] = c)
                        <=> Executes(asked[c]) /\ \E d \in Conns : Served(c, d)
OutcomesTrue ==
  \A c \in Conns :
    outcome[c] \in {"result", "rpc error"} =>
      /\ \E d \in Conns : Served(c, d)
      /\ outcome[c] = "result" <=> asked[c] = "stamp"

SessionInv == SessionTypes /\ IdleEnds /\ Handshakes /\ RunsOnce /\ OutcomesTrue

\* Tuples grow by one.
LEMMA Append0 == ASSUME NEW a PROVE Append(<< >>, a) = <<a>>
OBVIOUS

LEMMA Append1 == ASSUME NEW a, NEW b PROVE Append(<<a>>, b) = <<a, b>>
<1>1. PICK S, s, t, u : S = {a, b} /\ s = <<a>> /\ t = <<a, b>> /\ u = Append(s, b)
  OBVIOUS
<1>2. s \in Seq(S) /\ t \in Seq(S) /\ Len(s) = 1 /\ Len(t) = 2
  BY <1>1
<1>3. u \in Seq(S) /\ Len(u) = 2 /\ u[2] = b /\ u[1] = s[1]
  BY <1>1, <1>2
<1>4. \A i \in 1..2 : u[i] = t[i]
  BY <1>1, <1>3
<1> QED
  BY <1>1, <1>2, <1>3, <1>4, SeqEqual

LEMMA Append2 == ASSUME NEW a, NEW b, NEW c PROVE Append(<<a, b>>, c) = <<a, b, c>>
<1>1. PICK S, s, t, u : S = {a, b, c} /\ s = <<a, b>> /\ t = <<a, b, c>> /\ u = Append(s, c)
  OBVIOUS
<1>2. s \in Seq(S) /\ t \in Seq(S) /\ Len(s) = 2 /\ Len(t) = 3
  BY <1>1
<1>3. u \in Seq(S) /\ Len(u) = 3 /\ u[3] = c /\ \A i \in 1..2 : u[i] = s[i]
  BY <1>1, <1>2
<1>4. \A i \in 1..3 : u[i] = t[i]
  BY <1>1, <1>3
<1> QED
  BY <1>1, <1>2, <1>3, <1>4, SeqEqual

LEMMA Append3 == ASSUME NEW a, NEW b, NEW c, NEW d PROVE Append(<<a, b, c>>, d) = <<a, b, c, d>>
<1>1. PICK S, s, t, u : S = {a, b, c, d} /\ s = <<a, b, c>> /\ t = <<a, b, c, d>> /\ u = Append(s, d)
  OBVIOUS
<1>2. s \in Seq(S) /\ t \in Seq(S) /\ Len(s) = 3 /\ Len(t) = 4
  BY <1>1
<1>3. u \in Seq(S) /\ Len(u) = 4 /\ u[4] = d /\ \A i \in 1..3 : u[i] = s[i]
  BY <1>1, <1>2
<1>4. \A i \in 1..4 : u[i] = t[i]
  BY <1>1, <1>3
<1> QED
  BY <1>1, <1>2, <1>3, <1>4, SeqEqual

LEMMA Append4 ==
  ASSUME NEW a, NEW b, NEW c, NEW d, NEW e PROVE Append(<<a, b, c, d>>, e) = <<a, b, c, d, e>>
<1>1. PICK S, s, t, u :
        S = {a, b, c, d, e} /\ s = <<a, b, c, d>> /\ t = <<a, b, c, d, e>> /\ u = Append(s, e)
  OBVIOUS
<1>2. s \in Seq(S) /\ t \in Seq(S) /\ Len(s) = 4 /\ Len(t) = 5
  BY <1>1
<1>3. u \in Seq(S) /\ Len(u) = 5 /\ u[5] = e /\ \A i \in 1..4 : u[i] = s[i]
  BY <1>1, <1>2
<1>4. \A i \in 1..5 : u[i] = t[i]
  BY <1>1, <1>3
<1> QED
  BY <1>1, <1>2, <1>3, <1>4, SeqEqual

\* Different ends have different keys, and a chaining key tells whose it is.
LEMMA OwnEphemerals ==
  ASSUME NEW c, NEW d
  PROVE  Ec(c) # Es(d) /\ (Ec(c) = Ec(d) => c = d) /\ (Es(c) = Es(d) => c = d)
BY DEF Ec, Es

LEMMA CkFullTells == ASSUME NEW c, NEW d, NEW a, NEW b, CkFull(c, d) = CkFull(a, b) PROVE c = a
<1>1. {Es(d), Ec(c)} = {Es(b), Ec(a)}
  BY DEF CkFull
<1>2. Ec(c) \in {Es(b), Ec(a)}
  BY <1>1, Zenon
<1> QED
  BY <1>2, OwnEphemerals

\* The fields of the four messages; their keys are of different kinds.
LEMMA HelloFields ==
  ASSUME NEW e, NEW d, NEW m, m = HelloMsg(e, d)
  PROVE  m.k = <<"key", << {Es(d), e} >> >> /\ m.k[1] = "key" /\ m.n = 0 /\ m.ad = << <<"protocol">>, e, Es(d) >> /\ m.pt = Ss
BY DEF HelloMsg

LEMMA FinishFields ==
  ASSUME NEW c, NEW d, NEW m, m = FinishMsg(c, d)
  PROVE  m.k = <<"key", CkHello(Ec(c), d)>> /\ m.k[1] = "key" /\ m.n = 0 /\ m.ad = HashHello(Ec(c), d) /\ m.pt = Sc(c)
BY DEF FinishMsg

LEMMA RequestFields ==
  ASSUME NEW c, NEW d, NEW m, m = RequestMsg(c, d)
  PROVE  m.k = <<"first", CkFull(c, d)>> /\ m.k[1] = "first" /\ m.k[2] = CkFull(c, d) /\ m.n = 1 /\ m.pt = <<"request", c>>
BY DEF RequestMsg

LEMMA ReplyFields ==
  ASSUME NEW c, NEW d, NEW r, NEW m, m = ReplyMsg(c, d, r)
  PROVE  m.k = <<"second", CkFull(c, d)>> /\ m.k[1] = "second" /\ m.k[2] = CkFull(c, d) /\ m.n = 1 /\ m.pt = <<r, c>>
BY DEF ReplyMsg

LEMMA NoMsgKeys ==
  ASSUME NEW x
  PROVE  /\ \A m \in {NoCipher, JunkCipher} : m.k # <<"key", x>> /\ m.k # <<"first", x>> /\ m.k # <<"second", x>>
<1>1. NoCipher.k = <<"none">> /\ JunkCipher.k = <<"junk">>
  BY DEF NoCipher, JunkCipher, Junk
<1>2. <<"none">> # <<"key", x>> /\ <<"none">> # <<"first", x>> /\ <<"none">> # <<"second", x>>
  OBVIOUS
<1>3. <<"junk">> # <<"key", x>> /\ <<"junk">> # <<"first", x>> /\ <<"junk">> # <<"second", x>>
  OBVIOUS
<1> QED
  BY <1>1, <1>2, <1>3

\* What a client takes for the answer to its hello is one.
LEMMA HelloKnown ==
  ASSUME NEW c, NEW e, NEW m \in DownMsgs, m.k = <<"key", << {Ec(c), e} >> >>,
         m.ad = << <<"protocol">>, Ec(c), e >>
  PROVE  \E d \in Conns : e = Es(d) /\ Greeted(d, Ec(c)) /\ m = HelloMsg(Ec(c), d)
<1>1. m # JunkCipher
  BY NoMsgKeys
<1>2. ~ \E p \in {p \in Conns \X Conns : Served(p[1], p[2])} :
          m = ReplyMsg(p[1], p[2], process_request(asked[p[1]]))
  <2>1. m.k[1] = "key"
    OBVIOUS
  <2> QED
    BY <2>1, ReplyFields
<1>3. PICK d \in Conns : server[d].step \in {2, 3} /\ m = HelloMsg(server[d].re, d)
  BY <1>1, <1>2 DEF DownMsgs
<1>4. << <<"protocol">>, server[d].re, Es(d) >> = << <<"protocol">>, Ec(c), e >>
  BY <1>3, HelloFields
<1>5. server[d].re = Ec(c) /\ e = Es(d)
  BY <1>4
<1> QED
  BY <1>3, <1>5 DEF Greeted

\* What a server takes for the end of its handshake was sent to it by the client
\* whose hello it answered.
LEMMA FinishKnown ==
  ASSUME NEW d, NEW e, NEW m \in UpMsgs, m.k = <<"key", CkHello(e, d)>>, m.ad = HashHello(e, d)
  PROVE  \E c \in Conns : e = Ec(c) /\ Joined(c, d) /\ m = FinishMsg(c, d)
<1>1. m \notin {NoCipher, JunkCipher}
  BY NoMsgKeys
<1>2. PICK p \in Conns \X Conns : Joined(p[1], p[2]) /\ m \in {FinishMsg(p[1], p[2]), RequestMsg(p[1], p[2])}
  BY <1>1 DEF UpMsgs
<1>3. PICK c \in Conns, b \in Conns : p = <<c, b>>
  BY <1>2
<1>4. Joined(c, b) /\ m \in {FinishMsg(c, b), RequestMsg(c, b)}
  BY <1>2, <1>3
<1>5. m # RequestMsg(c, b)
  <2>1. m.k[1] = "key"
    OBVIOUS
  <2> QED
    BY <2>1, RequestFields
<1>6. HashHello(Ec(c), b) = HashHello(e, d)
  BY <1>4, <1>5, FinishFields
<1>7. Ec(c) = e /\ Es(b) = Es(d)
  BY <1>6 DEF HashHello
<1> QED
  BY <1>4, <1>5, <1>7, OwnEphemerals

\* What a server serves for c, c has sent.
LEMMA RequestKnown ==
  ASSUME NEW c, NEW d, NEW m \in UpMsgs, m.k = <<"first", CkFull(c, d)>>
  PROVE  m.pt = <<"request", c>> /\ m.n = 1
<1>1. m \notin {NoCipher, JunkCipher}
  BY NoMsgKeys
<1>2. PICK p \in Conns \X Conns : Joined(p[1], p[2]) /\ m \in {FinishMsg(p[1], p[2]), RequestMsg(p[1], p[2])}
  BY <1>1 DEF UpMsgs
<1>3. PICK a \in Conns, b \in Conns : p = <<a, b>>
  BY <1>2
<1>4. m \in {FinishMsg(a, b), RequestMsg(a, b)}
  BY <1>2, <1>3
<1>5. m.k[1] = "first" /\ m.k[2] = CkFull(c, d)
  OBVIOUS
<1>6. m = RequestMsg(a, b)
  BY <1>4, <1>5, FinishFields
<1>7. CkFull(a, b) = CkFull(c, d)
  BY <1>5, <1>6, RequestFields
<1>8. a = c
  BY <1>7, CkFullTells
<1> QED
  BY <1>6, <1>8, RequestFields

\* What c takes for an answer is the answer to its own request.
LEMMA ReplyKnown ==
  ASSUME NEW c, NEW d, NEW m \in DownMsgs, m.k = <<"second", CkFull(c, d)>>
  PROVE  m.pt = <<process_request(asked[c]), c>> /\ \E b \in Conns : Served(c, b)
<1>1. m # JunkCipher
  BY NoMsgKeys
<1>0. m.k[1] = "second" /\ m.k[2] = CkFull(c, d)
  OBVIOUS
<1>2. ~ \E b \in Conns : m = HelloMsg(server[b].re, b)
  BY <1>0, HelloFields
<1>3. PICK p \in Conns \X Conns : Served(p[1], p[2]) /\ m = ReplyMsg(p[1], p[2], process_request(asked[p[1]]))
  BY <1>1, <1>2 DEF DownMsgs
<1>4. PICK a \in Conns, b \in Conns : p = <<a, b>>
  BY <1>3
<1>5. Served(a, b) /\ m = ReplyMsg(a, b, process_request(asked[a]))
  BY <1>3, <1>4
<1>6. CkFull(a, b) = CkFull(c, d)
  BY <1>0, <1>5, ReplyFields
<1>7. a = c
  BY <1>6, CkFullTells
<1> QED
  BY <1>5, <1>7, ReplyFields

\* Closing an end changes nothing else of it.
LEMMA ClosedEnd ==
  ASSUME NEW s, DOMAIN s = SessionFields, NEW t, t = ConnClosed(s)
  PROVE  /\ DOMAIN t = SessionFields /\ ~t.open /\ t.step = s.step /\ t.static = s.static /\ t.eph = s.eph
         /\ t.h = s.h /\ t.ck = s.ck /\ t.re = s.re /\ t.rs = s.rs /\ t.send_key = s.send_key
         /\ t.recv_key = s.recv_key /\ t.send_nonce = s.send_nonce /\ t.recv_nonce = s.recv_nonce
BY DEF ConnClosed, SessionFields

LEMMA ClosedClientEnd ==
  ASSUME NEW c, NEW s, ClientEnd(c, s), NEW t, t = ConnClosed(s) PROVE ClientEnd(c, t)
<1>1. DOMAIN s = SessionFields
  BY DEF ClientEnd
<1> QED
  BY <1>1, ClosedEnd DEF ClientEnd, ClientAt1, ClientAt3

LEMMA ClosedServerEnd ==
  ASSUME NEW d, NEW s, ServerEnd(d, s), NEW t, t = ConnClosed(s) PROVE ServerEnd(d, t)
<1>1. DOMAIN s = SessionFields
  BY DEF ServerEnd
<1> QED
  BY <1>1, ClosedEnd DEF ServerEnd, ServerAt0, ServerAt2, ServerAt3

\* What the ends have done is never undone.
Progress ==
  /\ asked' = asked
  /\ \A c, d \in Conns : (Joined(c, d) => Joined(c, d)') /\ (Served(c, d) => Served(c, d)')
  /\ \A d \in Conns : server[d].step \in {2, 3} => server'[d].step \in {2, 3} /\ server'[d].re = server[d].re

\* So the messages that may be on the wire only become more.
LEMMA MessagesGrow == ASSUME Progress PROVE Up \subseteq Up' /\ Down \subseteq Down'
<1>1. ASSUME NEW m \in UpMsgs PROVE m \in UpMsgs'
  <2>1. CASE m \in {NoCipher, JunkCipher}
    BY <2>1 DEF UpMsgs
  <2>2. CASE m \notin {NoCipher, JunkCipher}
    <3>1. PICK p \in Conns \X Conns : Joined(p[1], p[2]) /\ m \in {FinishMsg(p[1], p[2]), RequestMsg(p[1], p[2])}
      BY <2>2 DEF UpMsgs
    <3>2. PICK a \in Conns, b \in Conns : p = <<a, b>>
      BY <3>1
    <3>3. Joined(a, b)' /\ m \in {FinishMsg(a, b), RequestMsg(a, b)}
      BY <3>1, <3>2 DEF Progress
    <3>4. Joined(p[1], p[2])'
      BY <3>2, <3>3
    <3> QED
      BY <3>1, <3>4 DEF UpMsgs
  <2> QED
    BY <2>1, <2>2
<1>2. ASSUME NEW m \in DownMsgs PROVE m \in DownMsgs'
  <2>1. CASE m = JunkCipher
    BY <2>1 DEF DownMsgs
  <2>2. ASSUME NEW d \in Conns, server[d].step \in {2, 3}, m = HelloMsg(server[d].re, d) PROVE m \in DownMsgs'
    <3>1. server'[d].step \in {2, 3} /\ m = HelloMsg(server'[d].re, d)
      BY <2>2 DEF Progress
    <3> QED
      BY <3>1 DEF DownMsgs
  <2>3. ASSUME NEW p \in Conns \X Conns, Served(p[1], p[2]), m = ReplyMsg(p[1], p[2], process_request(asked[p[1]]))
        PROVE  m \in DownMsgs'
    <3>1. PICK a \in Conns, b \in Conns : p = <<a, b>>
      OBVIOUS
    <3>2. Served(a, b)'
      BY <2>3, <3>1 DEF Progress
    <3>3. Served(p[1], p[2])' /\ m = ReplyMsg(p[1], p[2], process_request(asked'[p[1]]))
      BY <2>3, <3>1, <3>2 DEF Progress
    <3> QED
      BY <3>3 DEF DownMsgs
  <2> QED
    BY <2>1, <2>2, <2>3 DEF DownMsgs
<1> QED
  BY <1>1, <1>2 DEF Up, Down

\* The frames of one connection change.
LEMMA WayChanges ==
  ASSUME NEW U, NEW V, U \subseteq V, NEW way \in [Conns -> Seq(U)], NEW c \in Conns, NEW q \in Seq(V)
  PROVE  [way EXCEPT ![c] = q] \in [Conns -> Seq(V)] /\ way \in [Conns -> Seq(V)]
<1>1. ASSUME NEW d \in Conns PROVE way[d] \in Seq(V)
  <2>1. way[d] \in Seq(U)
    OBVIOUS
  <2> QED
    BY <2>1, SeqMonotonic
<1> QED
  BY <1>1

\* A step in which the ends only close, and frames are read, lost, altered or copied.
LEMMA QuietStep ==
  ASSUME SessionInv, asked' = asked, run_requests' = run_requests,
         DOMAIN client' = Conns, DOMAIN server' = Conns, DOMAIN outcome' = Conns,
         \A x \in Conns : client'[x] = client[x] \/ client'[x] = ConnClosed(client[x]),
         \A x \in Conns : server'[x] = server[x] \/ server'[x] = ConnClosed(server[x]),
         toServer' \in [Conns -> Seq(Up)], toClient' \in [Conns -> Seq(Down)],
         \A x \in Conns :
           \/ outcome'[x] = outcome[x]
           \/ /\ outcome'[x] # "none"
              /\ outcome'[x] \in {"result", "rpc error"} => \E d \in Conns : Served(x, d)
              /\ outcome'[x] = "result" => asked[x] = "stamp"
              /\ outcome'[x] = "rpc error" => asked[x] # "stamp"
  PROVE  SessionInv'
<1>1. ASSUME NEW x \in Conns
      PROVE  /\ ClientEnd(x, client'[x]) /\ client'[x].step = client[x].step /\ client'[x].re = client[x].re
             /\ ServerEnd(x, server'[x]) /\ server'[x].step = server[x].step /\ server'[x].re = server[x].re
             /\ server'[x].recv_nonce = server[x].recv_nonce
             /\ ~server[x].open => ~server'[x].open
  <2>1. ClientEnd(x, client[x]) /\ ServerEnd(x, server[x])
    BY DEF SessionInv, SessionTypes
  <2>2. DOMAIN client[x] = SessionFields /\ DOMAIN server[x] = SessionFields
    BY <2>1 DEF ClientEnd, ServerEnd
  <2>3. ClientEnd(x, client'[x]) /\ client'[x].step = client[x].step /\ client'[x].re = client[x].re
    <3>1. CASE client'[x] = client[x]
      BY <2>1, <3>1
    <3>2. CASE client'[x] = ConnClosed(client[x])
      <4>1. ClientEnd(x, client'[x])
        BY <2>1, <3>2, ClosedClientEnd
      <4> QED
        BY <2>2, <3>2, <4>1 DEF ConnClosed, SessionFields
    <3> QED
      BY <3>1, <3>2
  <2>4. /\ ServerEnd(x, server'[x]) /\ server'[x].step = server[x].step /\ server'[x].re = server[x].re
        /\ server'[x].recv_nonce = server[x].recv_nonce /\ (~server[x].open => ~server'[x].open)
    <3>1. CASE server'[x] = server[x]
      BY <2>1, <3>1
    <3>2. CASE server'[x] = ConnClosed(server[x])
      <4>1. ServerEnd(x, server'[x])
        BY <2>1, <3>2, ClosedServerEnd
      <4> QED
        BY <2>2, <3>2, <4>1 DEF ConnClosed, SessionFields
    <3> QED
      BY <3>1, <3>2
  <2> QED
    BY <2>3, <2>4
<1>2. \A c, d \in Conns : (Joined(c, d)' <=> Joined(c, d)) /\ (Served(c, d)' <=> Served(c, d))
  BY <1>1 DEF Joined, Served
<1>3. \A d \in Conns : \A e : Greeted(d, e)' <=> Greeted(d, e)
  BY <1>1 DEF Greeted
<1>4. Up \subseteq Up' /\ Down \subseteq Down'
  <2>1. Progress
    BY <1>1, <1>2 DEF Progress
  <2> QED
    BY <2>1, MessagesGrow
<1>5. SessionTypes'
  <2>1. toServer' \in [Conns -> Seq(Up')]
    <3>1. \A x \in Conns : toServer'[x] \in Seq(Up')
      BY <1>4, SeqMonotonic
    <3> QED
      BY <3>1
  <2>2. toClient' \in [Conns -> Seq(Down')]
    <3>1. \A x \in Conns : toClient'[x] \in Seq(Down')
      BY <1>4, SeqMonotonic
    <3> QED
      BY <3>1
  <2>3. DOMAIN asked' = Conns /\ run_requests' \in Seq(Conns)
    BY DEF SessionInv, SessionTypes
  <2> QED
    BY <1>1, <2>1, <2>2, <2>3 DEF SessionTypes
<1>6. IdleEnds'
  BY <1>1 DEF SessionInv, IdleEnds
<1>7. Handshakes'
  <2>1. \A c, d \in Conns : Joined(c, d)' => Greeted(d, Ec(c))'
    BY <1>2, <1>3 DEF SessionInv, Handshakes
  <2>2. \A c, d \in Conns : server'[d].step = 3 /\ server'[d].re = Ec(c) => Joined(c, d)'
    <3>1. \A d \in Conns : server'[d].step = server[d].step /\ server'[d].re = server[d].re
      BY <1>1
    <3> QED
      BY <1>2, <3>1 DEF SessionInv, Handshakes
  <2> QED
    BY <2>1, <2>2 DEF Handshakes
<1>8. RunsOnce'
  BY <1>2 DEF SessionInv, RunsOnce
<1>9. OutcomesTrue'
  <2>1. ASSUME NEW c \in Conns, outcome'[c] \in {"result", "rpc error"} PROVE \E d \in Conns : Served(c, d)
    BY <2>1 DEF SessionInv, OutcomesTrue
  <2>2. ASSUME NEW c \in Conns, outcome'[c] \in {"result", "rpc error"}
        PROVE  outcome'[c] = "result" <=> asked[c] = "stamp"
    BY <2>2 DEF SessionInv, OutcomesTrue
  <2> QED
    BY <1>2, <2>1, <2>2 DEF OutcomesTrue
<1> QED
  BY <1>5, <1>6, <1>7, <1>8, <1>9 DEF SessionInv

LEMMA FrameRead ==
  ASSUME NEW U, NEW way \in [Conns -> Seq(U)], NEW c \in Conns, way[c] # << >>
  PROVE  [way EXCEPT ![c] = Tail(@)] \in [Conns -> Seq(U)] /\ Head(way[c]) \in U
<1>1. way[c] \in Seq(U) /\ Tail(way[c]) \in Seq(U) /\ Head(way[c]) \in U
  OBVIOUS
<1> QED
  BY <1>1

LEMMA Returned ==
  ASSUME SessionInv, NEW c \in Conns, NEW r, Returns(c, r)
  PROVE  /\ DOMAIN client' = Conns /\ DOMAIN outcome' = Conns
         /\ \A x \in Conns : client'[x] = client[x] \/ client'[x] = ConnClosed(client[x])
         /\ \A x \in Conns : outcome'[x] = outcome[x] \/ (x = c /\ outcome'[x] = r)
<1>1. DOMAIN client = Conns /\ DOMAIN outcome = Conns
  BY DEF SessionInv, SessionTypes
<1>2. client' = [client EXCEPT ![c] = ConnClosed(client[c])] /\ outcome' = [outcome EXCEPT ![c] = r]
  BY DEF Returns
<1> QED
  BY <1>1, <1>2

\* The client gives up, or learns nothing from an answer it cannot use.
LEMMA GivesUpStep ==
  ASSUME SessionInv, NEW c \in Conns, NEW r \in {"noise error", "decode error", "timeout", "connection lost"},
         Returns(c, r), toClient' \in [Conns -> Seq(Down)], UNCHANGED <<server, toServer, asked, run_requests>>
  PROVE  SessionInv'
<1>1. /\ DOMAIN client' = Conns /\ DOMAIN outcome' = Conns
      /\ \A x \in Conns : client'[x] = client[x] \/ client'[x] = ConnClosed(client[x])
      /\ \A x \in Conns : outcome'[x] = outcome[x] \/ outcome'[x] = r
  BY Returned
<1>2. DOMAIN server' = Conns /\ toServer' \in [Conns -> Seq(Up)] /\ \A x \in Conns : server'[x] = server[x]
  BY DEF SessionInv, SessionTypes
<1>3. r # "none" /\ r # "result" /\ r # "rpc error"
  OBVIOUS
<1> QED
  BY <1>1, <1>2, <1>3, QuietStep

LEMMA ClientReceiveStep == ASSUME SessionInv, NEW c \in Conns, ClientReceive(c) PROVE SessionInv'
<1>1. PICK f : f = Head(toClient[c])
  OBVIOUS
<1>2. toClient' \in [Conns -> Seq(Down)] /\ f \in Down
  BY <1>1, FrameRead DEF ClientReceive, SessionInv, SessionTypes
<1>3. UNCHANGED <<server, toServer, asked, run_requests>> /\ client[c].step = 3
  BY DEF ClientReceive
<1>4. CASE ~Opens(client[c], f) /\ Returns(c, "decode error")
  BY <1>2, <1>3, <1>4, GivesUpStep
<1>5. ASSUME Opens(client[c], f), NEW r, r = IF f.c.pt[1] = "result" THEN "result" ELSE "rpc error", Returns(c, r)
      PROVE  SessionInv'
  <2>1. PICK d \in Conns : ClientAt3(c, client[c], d)
    <3>1. ClientEnd(c, client[c])
      BY DEF SessionInv, SessionTypes
    <3> QED
      BY <1>3, <3>1 DEF ClientEnd, ClientAt1
  <2>2. f.c \in DownMsgs /\ f.c.k = <<"second", CkFull(c, d)>>
    BY <1>2, <1>5, <2>1 DEF Opens, ae_dec, ClientAt3, Down
  <2>3. f.c.pt = <<process_request(asked[c]), c>> /\ \E b \in Conns : Served(c, b)
    BY <2>2, ReplyKnown
  <2>4. f.c.pt[1] = process_request(asked[c])
    BY <2>3
  <2>5. /\ r # "none" /\ \E b \in Conns : Served(c, b)
        /\ (r = "result" => asked[c] = "stamp") /\ (r = "rpc error" => asked[c] # "stamp")
    <3>1. PICK p : p = f.c.pt[1]
      OBVIOUS
    <3>2. p = IF asked[c] = "stamp" THEN "result" ELSE "error"
      BY <2>4, <3>1 DEF process_request
    <3>3. r = IF p = "result" THEN "result" ELSE "rpc error"
      BY <1>5, <3>1
    <3>4. \E b \in Conns : Served(c, b)
      BY <2>3
    <3> QED
      BY <3>2, <3>3, <3>4
  <2>6. /\ DOMAIN client' = Conns /\ DOMAIN outcome' = Conns
        /\ \A x \in Conns : client'[x] = client[x] \/ client'[x] = ConnClosed(client[x])
        /\ \A x \in Conns : outcome'[x] = outcome[x] \/ (x = c /\ outcome'[x] = r)
    BY <1>5, Returned
  <2>7. DOMAIN server' = Conns /\ toServer' \in [Conns -> Seq(Up)] /\ \A x \in Conns : server'[x] = server[x]
    BY <1>3 DEF SessionInv, SessionTypes
  <2> QED
    BY <1>2, <1>3, <2>5, <2>6, <2>7, QuietStep
<1>6. \E r : r = (IF ~Opens(client[c], f) THEN "decode error"
                  ELSE IF f.c.pt[1] = "result" THEN "result" ELSE "rpc error") /\ Returns(c, r)
  BY <1>1 DEF ClientReceive
<1> QED
  BY <1>4, <1>5, <1>6

LEMMA ClientEndsStep ==
  ASSUME SessionInv, NEW c \in Conns, ClientTimeout(c) \/ ClientConnectionLost(c) PROVE SessionInv'
<1>1. UNCHANGED <<server, toServer, toClient, asked, run_requests>>
  BY DEF ClientTimeout, ClientConnectionLost
<1>2. toClient' \in [Conns -> Seq(Down)]
  BY <1>1 DEF SessionInv, SessionTypes
<1>3. Returns(c, "timeout") \/ Returns(c, "connection lost")
  BY DEF ClientTimeout, ClientConnectionLost
<1> QED
  BY <1>1, <1>2, <1>3, GivesUpStep

\* The server closes its end, whatever it has read.
LEMMA ServerClosesStep ==
  ASSUME SessionInv, NEW c \in Conns, server' = [server EXCEPT ![c] = ConnClosed(server[c])],
         toServer' \in [Conns -> Seq(Up)], UNCHANGED <<client, toClient, asked, outcome, run_requests>>
  PROVE  SessionInv'
<1>1. /\ DOMAIN server = Conns /\ DOMAIN client' = Conns /\ DOMAIN outcome' = Conns
      /\ toClient' \in [Conns -> Seq(Down)] /\ client' = client /\ outcome' = outcome
  BY DEF SessionInv, SessionTypes
<1>2. DOMAIN server' = Conns /\ \A x \in Conns : server'[x] = server[x] \/ server'[x] = ConnClosed(server[x])
  BY <1>1
<1> QED
  BY <1>1, <1>2, QuietStep

LEMMA ServerConnectionLostStep == ASSUME SessionInv, NEW c \in Conns, ServerConnectionLost(c) PROVE SessionInv'
<1>1. /\ server' = [server EXCEPT ![c] = ConnClosed(server[c])]
      /\ UNCHANGED <<client, toServer, toClient, asked, outcome, run_requests>>
  BY DEF ServerConnectionLost
<1>2. toServer' \in [Conns -> Seq(Up)]
  BY <1>1 DEF SessionInv, SessionTypes
<1> QED
  BY <1>1, <1>2, ServerClosesStep

\* An altered or copied frame is one of those that may be on that way.
LEMMA AlteredFrame ==
  ASSUME NEW M, JunkCipher \in M, NEW U, U = [e : Ephemerals, c : M], NEW way \in [Conns -> Seq(U)],
         NEW c \in Conns, way[c] # << >>, NEW f \in Alterations(Head(way[c]), way)
  PROVE  [way EXCEPT ![c][1] = f] \in [Conns -> Seq(U)]
<1>1. PICK q : q = way[c]
  OBVIOUS
<1>2. q \in Seq(U) /\ Head(q) \in U /\ 1 \in 1..Len(q)
  <2>1. q \in Seq(U) /\ q # << >>
    BY <1>1
  <2>2. Len(q) \in Nat \ {0}
    BY <2>1, EmptySeq
  <2>3. Head(q) \in U
    BY <1>1, FrameRead
  <2>4. PICK n \in Nat \ {0} : n = Len(q)
    BY <2>2
  <2>5. 1 \in 1..n
    OBVIOUS
  <2> QED
    BY <2>1, <2>3, <2>4, <2>5, Zenon
<1>3. PICK g \in U : g = Head(q)
  BY <1>2
<1>4. f \in U
  <2>1. CASE f = [g EXCEPT !.e = Junk]
    BY <1>3, <2>1 DEF Ephemerals
  <2>2. CASE f = [g EXCEPT !.c = JunkCipher]
    BY <1>3, <2>2
  <2>3. ASSUME NEW d \in Conns, way[d] # << >>, f = Head(way[d]) PROVE f \in U
    BY <2>3, FrameRead
  <2> QED
    BY <1>1, <1>3, <2>1, <2>2, <2>3 DEF Alterations
<1>5. [q EXCEPT ![1] = f] \in Seq(U)
  BY <1>2, <1>4, ExceptSeq
<1> QED
  BY <1>1, <1>5

LEMMA AlterStep == ASSUME SessionInv, NEW c \in Conns, Alter(c) PROVE SessionInv'
<1>1. /\ DOMAIN server' = Conns /\ DOMAIN client' = Conns /\ DOMAIN outcome' = Conns
      /\ UNCHANGED <<client, server, asked, outcome, run_requests>>
      /\ toServer \in [Conns -> Seq(Up)] /\ toClient \in [Conns -> Seq(Down)]
  BY DEF Alter, SessionInv, SessionTypes
<1>2. toServer' \in [Conns -> Seq(Up)] /\ toClient' \in [Conns -> Seq(Down)]
  <2>1. ASSUME toServer[c] # << >>, toClient' = toClient, NEW f \in Alterations(Head(toServer[c]), toServer),
               toServer' = [toServer EXCEPT ![c][1] = f]
        PROVE  <1>2!:
    <3>1. JunkCipher \in UpMsgs /\ Up = [e : Ephemerals, c : UpMsgs]
      BY DEF UpMsgs, Up
    <3> QED
      BY <1>1, <2>1, <3>1, AlteredFrame
  <2>2. ASSUME toClient[c] # << >>, toServer' = toServer, NEW f \in Alterations(Head(toClient[c]), toClient),
               toClient' = [toClient EXCEPT ![c][1] = f]
        PROVE  <1>2!:
    <3>1. JunkCipher \in DownMsgs /\ Down = [e : Ephemerals, c : DownMsgs]
      BY DEF DownMsgs, Down
    <3> QED
      BY <1>1, <2>2, <3>1, AlteredFrame
  <2> QED
    BY <2>1, <2>2 DEF Alter
<1> QED
  BY <1>1, <1>2, QuietStep

LEMMA CutStep == ASSUME SessionInv, NEW c \in Conns, Cut(c) PROVE SessionInv'
<1>1. /\ DOMAIN server = Conns /\ DOMAIN client = Conns /\ DOMAIN outcome = Conns
      /\ toServer \in [Conns -> Seq(Up)] /\ toClient \in [Conns -> Seq(Down)]
  BY DEF SessionInv, SessionTypes
<1>2. toServer' \in [Conns -> Seq(Up)] /\ toClient' \in [Conns -> Seq(Down)] /\ UNCHANGED <<asked, run_requests>>
  <2>1. /\ toServer' = [toServer EXCEPT ![c] = << >>] /\ toClient' = [toClient EXCEPT ![c] = << >>]
        /\ UNCHANGED <<asked, run_requests>>
    BY DEF Cut
  <2>2. << >> \in Seq(Up) /\ << >> \in Seq(Down)
    BY EmptySeq
  <2> QED
    BY <1>1, <2>1, <2>2
<1>3. DOMAIN server' = Conns /\ \A x \in Conns : server'[x] = server[x] \/ server'[x] = ConnClosed(server[x])
  <2>1. server' = [server EXCEPT ![c] = ConnClosed(server[c])]
    BY DEF Cut
  <2> QED
    BY <1>1, <2>1
<1>4. /\ DOMAIN client' = Conns /\ DOMAIN outcome' = Conns
      /\ \A x \in Conns : client'[x] = client[x] \/ client'[x] = ConnClosed(client[x])
      /\ \A x \in Conns : outcome'[x] = outcome[x] \/ outcome'[x] = "connection lost"
  <2>1. CASE Returns(c, "connection lost")
    BY <2>1, Returned
  <2>2. CASE UNCHANGED <<client, outcome>>
    BY <1>1, <2>2
  <2> QED
    BY <2>1, <2>2 DEF Cut
<1> QED
  BY <1>2, <1>3, <1>4, QuietStep

\* The ends after each message of the handshake.
LEMMA StartedEnds ==
  ASSUME NEW c, NEW s, s = InitiatorHello(NewSession(c, "client")), NEW t, t = NewSession(c, "server")
  PROVE  ClientEnd(c, s) /\ s.step = 1 /\ ServerEnd(c, t) /\ t.step = 0
<1>1. PICK z : z = NewSession(c, "client")
  OBVIOUS
<1>2. /\ DOMAIN z = SessionFields /\ z.static = Sc(c) /\ z.eph = Ec(c) /\ z.ck = << >> /\ z.send_nonce = 0
      /\ z.recv_nonce = 0 /\ z.h = << <<"protocol">> >>
  BY <1>1 DEF NewSession, SessionFields, StaticOf, Sc, Ec
<1>3. Append(z.h, Ec(c)) = << <<"protocol">>, Ec(c) >>
  BY <1>2, Append1
<1>4. /\ DOMAIN s = SessionFields /\ s.static = Sc(c) /\ s.eph = Ec(c) /\ s.ck = << >> /\ s.send_nonce = 0
      /\ s.recv_nonce = 0 /\ s.h = << <<"protocol">>, Ec(c) >> /\ s.step = 1
  BY <1>1, <1>2, <1>3 DEF InitiatorHello, mix_hash, SessionFields
<1>5. /\ DOMAIN t = SessionFields /\ t.static = Ss /\ t.eph = Es(c) /\ ServerAt0(t)
  BY DEF NewSession, SessionFields, StaticOf, Ss, Es, ServerAt0
<1> QED
  BY <1>4, <1>5 DEF ClientEnd, ClientAt1, ServerEnd, ServerAt0

LEMMA JoinedEnd ==
  ASSUME NEW c, NEW d \in Conns, NEW s, ClientEnd(c, s), ClientAt1(c, s), NEW f, f.e = Es(d),
         f.c = HelloMsg(Ec(c), d), NEW r, r = InitiatorRead(s, f), NEW z, z = InitiatorFinish(r), NEW t, t = Sent(z)
  PROVE  /\ ClientEnd(c, t) /\ ClientAt3(c, t, d) /\ InitiatorStatic(r) = FinishMsg(c, d)
         /\ Sealed(z, <<"request", c>>) = Frame(<<"none">>, RequestMsg(c, d))
<1>1. /\ DOMAIN s = SessionFields /\ s.static = Sc(c) /\ s.eph = Ec(c) /\ s.ck = << >> /\ s.send_nonce = 0
      /\ s.recv_nonce = 0 /\ s.h = << <<"protocol">>, Ec(c) >>
  BY DEF ClientEnd, ClientAt1
<1>2. f.c.pt = Ss
  BY HelloFields
<1>3. mix_key(mix_key(s.ck, DH(s.eph, f.e)), DH(s.eph, f.c.pt)) = CkHello(Ec(c), d)
  <2>1. {Ec(c), Es(d)} = {Es(d), Ec(c)} /\ {Ec(c), Ss} = {Ss, Ec(c)}
    OBVIOUS
  <2>2. Append(Append(<< >>, {Es(d), Ec(c)}), {Ss, Ec(c)}) = << {Es(d), Ec(c)}, {Ss, Ec(c)} >>
    BY Append0, Append1
  <2> QED
    BY <1>1, <1>2, <2>1, <2>2 DEF mix_key, DH, CkHello
<1>4. mix_hash(mix_hash(s.h, f.e), f.c) = HashHello(Ec(c), d)
  <2>1. Append(s.h, f.e) = << <<"protocol">>, Ec(c), Es(d) >>
    BY <1>1, Append2
  <2>2. Append(Append(s.h, f.e), f.c) = << <<"protocol">>, Ec(c), Es(d), f.c >>
    BY <2>1, Append3
  <2> QED
    BY <2>2 DEF mix_hash, HashHello
<1>5. /\ DOMAIN r = SessionFields /\ r.static = Sc(c) /\ r.eph = Ec(c) /\ r.ck = CkHello(Ec(c), d)
      /\ r.send_nonce = 0 /\ r.recv_nonce = 1 /\ r.h = HashHello(Ec(c), d) /\ r.re = Es(d) /\ r.rs = Ss
      /\ r.send_key = <<"key", CkHello(Ec(c), d)>>
  <2>1. PICK ck : ck = mix_key(mix_key(s.ck, DH(s.eph, f.e)), DH(s.eph, f.c.pt))
    OBVIOUS
  <2>2. r = [s EXCEPT !.re = f.e, !.rs = f.c.pt, !.ck = ck, !.send_key = Key(ck),
                      !.h = mix_hash(mix_hash(s.h, f.e), f.c), !.recv_nonce = s.recv_nonce + 1, !.step = 2]
    BY <2>1 DEF InitiatorRead
  <2>3. Key(ck) = <<"key", CkHello(Ec(c), d)>>
    BY <1>3, <2>1 DEF Key
  <2> QED
    BY <1>1, <1>2, <1>3, <1>4, <2>1, <2>2, <2>3 DEF SessionFields
<1>6. InitiatorStatic(r) = FinishMsg(c, d)
  BY <1>5 DEF InitiatorStatic, ae_enc, FinishMsg
<1>7. mix_key(r.ck, DH(r.static, r.re)) = CkFull(c, d)
  BY <1>5, Append2 DEF mix_key, DH, CkFull, CkHello
<1>8. mix_hash(r.h, InitiatorStatic(r)) = HashFull(c, d)
  BY <1>5, <1>6, Append4 DEF mix_hash, HashFull, HashHello
<1>9. /\ DOMAIN z = SessionFields /\ z.static = Sc(c) /\ z.eph = Ec(c) /\ z.send_nonce = 1 /\ z.recv_nonce = 1
      /\ z.h = HashFull(c, d) /\ z.re = Es(d) /\ z.rs = Ss /\ z.step = 3
      /\ z.send_key = <<"first", CkFull(c, d)>> /\ z.recv_key = <<"second", CkFull(c, d)>>
  <2>1. PICK ck : ck = mix_key(r.ck, DH(r.static, r.re))
    OBVIOUS
  <2>2. z = [r EXCEPT !.h = mix_hash(r.h, InitiatorStatic(r)), !.ck = ck, !.send_nonce = r.send_nonce + 1,
                      !.send_key = SplitFirst(ck), !.recv_key = SplitSecond(ck), !.step = 3]
    BY <2>1 DEF InitiatorFinish
  <2>3. SplitFirst(ck) = <<"first", CkFull(c, d)>> /\ SplitSecond(ck) = <<"second", CkFull(c, d)>>
    BY <1>7, <2>1 DEF SplitFirst, SplitSecond
  <2> QED
    BY <1>5, <1>8, <2>2, <2>3 DEF SessionFields
<1>10. Sealed(z, <<"request", c>>) = Frame(<<"none">>, RequestMsg(c, d))
  BY <1>9 DEF Sealed, ae_enc, RequestMsg
<1>11. /\ DOMAIN t = SessionFields /\ t.static = Sc(c) /\ t.eph = Ec(c) /\ t.send_nonce = 2 /\ t.recv_nonce = 1
       /\ t.h = HashFull(c, d) /\ t.re = Es(d) /\ t.rs = Ss /\ t.step = 3
       /\ t.send_key = <<"first", CkFull(c, d)>> /\ t.recv_key = <<"second", CkFull(c, d)>>
  BY <1>9 DEF Sent, SessionFields
<1> QED
  BY <1>6, <1>10, <1>11 DEF ClientEnd, ClientAt3

LEMMA GreetedEnd ==
  ASSUME NEW d, NEW s, ServerEnd(d, s), ServerAt0(s), NEW f, NEW r, r = ResponderRead(s, f), NEW t, t = ResponderSent(r)
  PROVE  /\ ServerEnd(d, t) /\ t.step = 2 /\ t.re = f.e
         /\ ResponderHello(r) = Frame(Es(d), HelloMsg(f.e, d))
<1>1. /\ DOMAIN s = SessionFields /\ s.static = Ss /\ s.eph = Es(d) /\ s.ck = << >> /\ s.send_nonce = 0
      /\ s.recv_nonce = 0 /\ s.h = << <<"protocol">> >>
  BY DEF ServerEnd, ServerAt0
<1>2. /\ DOMAIN r = SessionFields /\ r.static = Ss /\ r.eph = Es(d) /\ r.ck = << >> /\ r.send_nonce = 0
      /\ r.recv_nonce = 0 /\ r.h = << <<"protocol">>, f.e >> /\ r.re = f.e
  <2>1. mix_hash(s.h, f.e) = << <<"protocol">>, f.e >>
    BY <1>1, Append1 DEF mix_hash
  <2> QED
    BY <1>1, <2>1 DEF ResponderRead, SessionFields
<1>3. mix_hash(r.h, r.eph) = << <<"protocol">>, f.e, Es(d) >> /\ mix_key(r.ck, DH(r.eph, r.re)) = << {Es(d), f.e} >>
  BY <1>2, Append0, Append2 DEF mix_hash, mix_key, DH
<1>4. ResponderHello(r) = Frame(Es(d), HelloMsg(f.e, d))
  BY <1>2, <1>3 DEF ResponderHello, ae_enc, Key, HelloMsg
<1>5. ResponderHello(r).c = HelloMsg(f.e, d)
  BY <1>4 DEF Frame
<1>6. PICK ck : ck = mix_key(mix_key(r.ck, DH(r.eph, r.re)), DH(r.static, r.re))
  OBVIOUS
<1>7. ck = CkHello(f.e, d)
  BY <1>2, <1>3, <1>6, Append1 DEF mix_key, DH, CkHello
<1>8. mix_hash(mix_hash(r.h, r.eph), ResponderHello(r).c) = HashHello(f.e, d)
  BY <1>3, <1>5, Append3 DEF mix_hash, HashHello
<1>9. t = [r EXCEPT !.h = mix_hash(mix_hash(r.h, r.eph), ResponderHello(r).c), !.ck = ck,
                    !.send_key = Key(ck), !.send_nonce = r.send_nonce + 1, !.step = 2]
  BY <1>6 DEF ResponderSent
<1>10. Key(ck) = <<"key", CkHello(f.e, d)>>
  BY <1>7 DEF Key
<1>11. /\ DOMAIN t = SessionFields /\ t.static = Ss /\ t.eph = Es(d) /\ t.ck = CkHello(f.e, d) /\ t.send_nonce = 1
       /\ t.recv_nonce = 0 /\ t.h = HashHello(f.e, d) /\ t.re = f.e /\ t.step = 2
       /\ t.send_key = <<"key", CkHello(f.e, d)>>
  BY <1>2, <1>7, <1>8, <1>9, <1>10 DEF SessionFields
<1> QED
  BY <1>4, <1>11 DEF ServerEnd, ServerAt2

LEMMA AcceptedEnd ==
  ASSUME NEW d, NEW c \in Conns, NEW s, ServerEnd(d, s), ServerAt2(d, s), s.re = Ec(c), NEW f, f.c = FinishMsg(c, d),
         NEW t, t = ResponderFinish(s, f)
  PROVE  ServerEnd(d, t) /\ t.step = 3 /\ t.re = Ec(c) /\ t.recv_nonce = 1
<1>1. /\ DOMAIN s = SessionFields /\ s.static = Ss /\ s.eph = Es(d) /\ s.ck = CkHello(Ec(c), d) /\ s.send_nonce = 1
      /\ s.recv_nonce = 0 /\ s.h = HashHello(Ec(c), d)
  BY DEF ServerEnd, ServerAt2
<1>2. f.c.pt = Sc(c)
  BY FinishFields
<1>3. PICK ck : ck = mix_key(s.ck, DH(s.eph, f.c.pt))
  OBVIOUS
<1>4. ck = CkFull(c, d)
  <2>1. {Es(d), Sc(c)} = {Sc(c), Es(d)}
    OBVIOUS
  <2> QED
    BY <1>1, <1>2, <1>3, <2>1, Append2 DEF mix_key, DH, CkFull, CkHello
<1>5. mix_hash(s.h, f.c) = HashFull(c, d)
  BY <1>1, Append4 DEF mix_hash, HashFull, HashHello
<1>6. t = [s EXCEPT !.rs = f.c.pt, !.h = mix_hash(s.h, f.c), !.ck = ck, !.recv_nonce = s.recv_nonce + 1,
                    !.send_key = SplitSecond(ck), !.recv_key = SplitFirst(ck), !.step = 3]
  BY <1>3 DEF ResponderFinish
<1>7. SplitFirst(ck) = <<"first", CkFull(c, d)>> /\ SplitSecond(ck) = <<"second", CkFull(c, d)>>
  BY <1>4 DEF SplitFirst, SplitSecond
<1>8. /\ DOMAIN t = SessionFields /\ t.static = Ss /\ t.eph = Es(d) /\ t.send_nonce = 1 /\ t.recv_nonce = 1
      /\ t.h = HashFull(c, d) /\ t.re = Ec(c) /\ t.rs = Sc(c) /\ t.step = 3
      /\ t.recv_key = <<"first", CkFull(c, d)>> /\ t.send_key = <<"second", CkFull(c, d)>>
  BY <1>1, <1>2, <1>5, <1>6, <1>7 DEF SessionFields
<1> QED
  BY <1>8 DEF ServerEnd, ServerAt3

LEMMA ServedEnd ==
  ASSUME NEW d, NEW c \in Conns, NEW s, ServerEnd(d, s), ServerAt3(d, s, c), s.recv_nonce = 1,
         NEW z, z = Received(s), NEW t, t = Sent(z), NEW r
  PROVE  /\ ServerEnd(d, t) /\ t.step = 3 /\ t.re = Ec(c) /\ t.recv_nonce = 2
         /\ Sealed(z, <<r, c>>) = Frame(<<"none">>, ReplyMsg(c, d, r))
<1>1. /\ DOMAIN s = SessionFields /\ s.static = Ss /\ s.eph = Es(d) /\ s.send_nonce = 1 /\ s.step = 3
      /\ s.h = HashFull(c, d) /\ s.re = Ec(c) /\ s.rs = Sc(c)
      /\ s.recv_key = <<"first", CkFull(c, d)>> /\ s.send_key = <<"second", CkFull(c, d)>>
  BY DEF ServerEnd, ServerAt3
<1>2. /\ DOMAIN z = SessionFields /\ z.static = Ss /\ z.eph = Es(d) /\ z.send_nonce = 1 /\ z.step = 3
      /\ z.h = HashFull(c, d) /\ z.re = Ec(c) /\ z.rs = Sc(c) /\ z.recv_nonce = 2
      /\ z.recv_key = <<"first", CkFull(c, d)>> /\ z.send_key = <<"second", CkFull(c, d)>>
  BY <1>1 DEF Received, SessionFields
<1>3. /\ DOMAIN t = SessionFields /\ t.static = Ss /\ t.eph = Es(d) /\ t.send_nonce = 2 /\ t.step = 3
      /\ t.h = HashFull(c, d) /\ t.re = Ec(c) /\ t.rs = Sc(c) /\ t.recv_nonce = 2
      /\ t.recv_key = <<"first", CkFull(c, d)>> /\ t.send_key = <<"second", CkFull(c, d)>>
  BY <1>2 DEF Sent, SessionFields
<1>4. Sealed(z, <<r, c>>) = Frame(<<"none">>, ReplyMsg(c, d, r))
  BY <1>2 DEF Sealed, ae_enc, ReplyMsg
<1> QED
  BY <1>3, <1>4 DEF ServerEnd, ServerAt3

\* The parts of the invariant in a step that changes what the ends have done.
LEMMA ProgressStep ==
  ASSUME SessionInv, Progress, SessionTypes', Handshakes', run_requests' = run_requests,
         \A c, d \in Conns : Served(c, d)' <=> Served(c, d),
         \A x \in Conns : \/ outcome'[x] = outcome[x] /\ (outcome[x] # "none" \/ (client'[x] = client[x] /\ server'[x] = server[x]))
                          \/ outcome'[x] = "waiting"
  PROVE  SessionInv'
<1>1. asked' = asked
  BY DEF Progress
<1>2. IdleEnds'
  BY DEF SessionInv, IdleEnds
<1>3. RunsOnce'
  BY <1>1 DEF SessionInv, RunsOnce
<1>4. OutcomesTrue'
  <2>1. ASSUME NEW c \in Conns, outcome'[c] \in {"result", "rpc error"} PROVE outcome[c] = outcome'[c]
    BY <2>1
  <2> QED
    BY <1>1, <2>1 DEF SessionInv, OutcomesTrue
<1> QED
  BY <1>2, <1>3, <1>4 DEF SessionInv

\* The frames of one way stay, and those of the other grow by f.
LEMMA WayGrows ==
  ASSUME NEW U, NEW V, U \subseteq V, NEW way \in [Conns -> Seq(U)], NEW c \in Conns, NEW f \in V
  PROVE  [way EXCEPT ![c] = Append(@, f)] \in [Conns -> Seq(V)]
<1>1. way \in [Conns -> Seq(V)]
  <2>1. << >> \in Seq(V)
    BY EmptySeq
  <2> QED
    BY <2>1, WayChanges
<1>2. Append(way[c], f) \in Seq(V)
  <2>1. way[c] \in Seq(V)
    BY <1>1
  <2> QED
    BY <2>1
<1> QED
  BY <1>1, <1>2

LEMMA ConnectStep == ASSUME SessionInv, NEW c \in Conns, Connect(c) PROVE SessionInv'
<1>1. PICK s, t : s = InitiatorHello(NewSession(c, "client")) /\ t = NewSession(c, "server")
  OBVIOUS
<1>2. ClientEnd(c, s) /\ s.step = 1 /\ ServerEnd(c, t) /\ t.step = 0
  BY <1>1, StartedEnds
<1>3. /\ outcome[c] = "none" /\ outcome' = [outcome EXCEPT ![c] = "waiting"] /\ client' = [client EXCEPT ![c] = s]
      /\ server' = [server EXCEPT ![c] = t] /\ UNCHANGED <<toClient, asked, run_requests>>
      /\ toServer' = [toServer EXCEPT ![c] = Append(toServer[c], Frame(client[c].eph, NoCipher))]
  BY <1>1 DEF Connect
<1>4. /\ DOMAIN client = Conns /\ DOMAIN server = Conns /\ DOMAIN outcome = Conns /\ DOMAIN asked = Conns
      /\ toServer \in [Conns -> Seq(Up)] /\ toClient \in [Conns -> Seq(Down)] /\ run_requests \in Seq(Conns)
      /\ \A x \in Conns : ClientEnd(x, client[x]) /\ ServerEnd(x, server[x])
  BY DEF SessionInv, SessionTypes
<1>5. client[c].step = 0 /\ server[c].step = 0 /\ client[c].eph = Ec(c)
  BY <1>3, <1>4 DEF SessionInv, IdleEnds, ClientEnd
<1>6. /\ client'[c] = s /\ server'[c] = t
      /\ \A x \in Conns : x # c => client'[x] = client[x] /\ server'[x] = server[x]
  BY <1>3, <1>4
<1>7. \A a, b \in Conns : (Joined(a, b)' <=> Joined(a, b)) /\ (Served(a, b)' <=> Served(a, b))
  <2>1. ASSUME NEW a \in Conns, NEW b \in Conns PROVE Joined(a, b)' <=> Joined(a, b)
    BY <1>2, <1>5, <1>6 DEF Joined
  <2>2. ASSUME NEW a \in Conns, NEW b \in Conns PROVE Served(a, b)' <=> Served(a, b)
    BY <1>2, <1>5, <1>6 DEF Served
  <2> QED
    BY <2>1, <2>2
<1>8. \A d \in Conns : /\ server[d].step \in {2, 3} => server'[d] = server[d]
                       /\ server'[d].step \in {2, 3} => server'[d] = server[d]
  BY <1>2, <1>5, <1>6
<1>9. Progress
  BY <1>3, <1>7, <1>8 DEF Progress
<1>10. SessionTypes'
  <2>1. Up \subseteq Up' /\ Down \subseteq Down'
    BY <1>9, MessagesGrow
  <2>2. Frame(client[c].eph, NoCipher) \in Up'
    BY <1>5 DEF Frame, Up, UpMsgs, Ephemerals
  <2>3. toServer' \in [Conns -> Seq(Up')]
    BY <1>3, <1>4, <2>1, <2>2, WayGrows
  <2>4. toClient' \in [Conns -> Seq(Down')]
    BY <1>3, <1>4, <2>1, EmptySeq, WayChanges
  <2>5. \A x \in Conns : ClientEnd(x, client'[x]) /\ ServerEnd(x, server'[x])
    BY <1>2, <1>4, <1>6
  <2>6. /\ DOMAIN client' = Conns /\ DOMAIN server' = Conns /\ DOMAIN outcome' = Conns /\ DOMAIN asked' = Conns
        /\ run_requests' \in Seq(Conns)
    BY <1>3, <1>4
  <2> QED
    BY <2>3, <2>4, <2>5, <2>6 DEF SessionTypes
<1>11. Handshakes'
  <2>1. ASSUME NEW a \in Conns, NEW b \in Conns, Joined(a, b)' PROVE Greeted(b, Ec(a))'
    <3>1. Greeted(b, Ec(a))
      BY <1>7, <2>1 DEF SessionInv, Handshakes
    <3> QED
      BY <1>8, <3>1 DEF Greeted
  <2>2. ASSUME NEW a \in Conns, NEW b \in Conns, server'[b].step = 3, server'[b].re = Ec(a) PROVE Joined(a, b)'
    <3>1. server[b].step = 3 /\ server[b].re = Ec(a)
      BY <1>8, <2>2
    <3> QED
      BY <1>7, <3>1 DEF SessionInv, Handshakes
  <2> QED
    BY <2>1, <2>2 DEF Handshakes
<1>12. \A x \in Conns : \/ outcome'[x] = outcome[x] /\ (outcome[x] # "none" \/ (client'[x] = client[x] /\ server'[x] = server[x]))
                        \/ outcome'[x] = "waiting"
  BY <1>3, <1>4, <1>6
<1> QED
  BY <1>3, <1>7, <1>9, <1>10, <1>11, <1>12, ProgressStep

LEMMA ClientHandshakeStep == ASSUME SessionInv, NEW c \in Conns, ClientHandshake(c) PROVE SessionInv'
<1>1. PICK s, f, r, z, t : /\ s = client[c] /\ f = Head(toClient[c]) /\ r = InitiatorRead(s, f)
                           /\ z = InitiatorFinish(r) /\ t = Sent(z)
  OBVIOUS
<1>2. /\ DOMAIN client = Conns /\ DOMAIN server = Conns /\ DOMAIN outcome = Conns /\ DOMAIN asked = Conns
      /\ toServer \in [Conns -> Seq(Up)] /\ toClient \in [Conns -> Seq(Down)] /\ run_requests \in Seq(Conns)
      /\ \A x \in Conns : ClientEnd(x, client[x]) /\ ServerEnd(x, server[x])
  BY DEF SessionInv, SessionTypes
<1>3. client[c].step = 1 /\ UNCHANGED <<server, asked, run_requests>>
  BY DEF ClientHandshake
<1>4. toClient' \in [Conns -> Seq(Down)] /\ f \in Down
  BY <1>1, <1>2, FrameRead DEF ClientHandshake
<1>5. CASE Returns(c, "noise error") /\ UNCHANGED toServer
  BY <1>3, <1>4, <1>5, GivesUpStep
<1>6. ASSUME InitiatorAccepts(s, f), client' = [client EXCEPT ![c] = t], outcome' = outcome,
             toServer' = [toServer EXCEPT ![c] = toServer[c] \o <<Frame(<<"none">>, InitiatorStatic(r)), Sealed(z, <<"request", c>>)>>]
      PROVE  SessionInv'
  <2>1. ClientEnd(c, s) /\ ClientAt1(c, s)
    <3>1. ClientEnd(c, s)
      BY <1>1, <1>2
    <3> QED
      BY <1>1, <1>3, <3>1 DEF ClientEnd, ClientAt3
  <2>2. f.c \in DownMsgs
    BY <1>4 DEF Down
  <2>3. f.c.k = <<"key", << {Ec(c), f.e} >> >> /\ f.c.ad = << <<"protocol">>, Ec(c), f.e >>
    <3>1. s.eph = Ec(c) /\ s.ck = << >> /\ s.h = << <<"protocol">>, Ec(c) >>
      BY <2>1 DEF ClientEnd, ClientAt1
    <3>2. mix_hash(s.h, f.e) = << <<"protocol">>, Ec(c), f.e >>
      BY <3>1, Append2 DEF mix_hash
    <3>3. Key(mix_key(s.ck, DH(s.eph, f.e))) = <<"key", << {Ec(c), f.e} >> >>
      BY <3>1, Append0 DEF Key, mix_key, DH
    <3> QED
      BY <1>6, <3>2, <3>3 DEF InitiatorAccepts, ae_dec
  <2>4. PICK d \in Conns : f.e = Es(d) /\ Greeted(d, Ec(c)) /\ f.c = HelloMsg(Ec(c), d)
    BY <2>2, <2>3, HelloKnown
  <2>5. /\ ClientEnd(c, t) /\ ClientAt3(c, t, d) /\ InitiatorStatic(r) = FinishMsg(c, d)
        /\ Sealed(z, <<"request", c>>) = Frame(<<"none">>, RequestMsg(c, d))
    BY <1>1, <2>1, <2>4, JoinedEnd
  <2>6. t.step = 3 /\ t.re = Es(d) /\ s.step = 1
    BY <1>1, <1>3, <2>5 DEF ClientAt3
  <2>7. client'[c] = t /\ (\A x \in Conns : x # c => client'[x] = client[x]) /\ server' = server
    BY <1>2, <1>3, <1>6
  <2>8. Joined(c, d)' /\ \A a, b \in Conns : (Joined(a, b) => Joined(a, b)') /\ (Joined(a, b)' => Joined(a, b) \/ (a = c /\ b = d))
    <3>1. ~ \E b \in Conns : Joined(c, b)
      BY <1>3 DEF Joined
    <3>2. \A b \in Conns : Joined(c, b)' <=> b = d
      BY <2>6, <2>7, OwnEphemerals DEF Joined
    <3>3. \A a, b \in Conns : a # c => (Joined(a, b)' <=> Joined(a, b))
      BY <2>7 DEF Joined
    <3> QED
      BY <3>1, <3>2, <3>3
  <2>9. \A a, b \in Conns : Served(a, b)' <=> Served(a, b)
    BY <2>7 DEF Served
  <2>10. Progress
    BY <1>3, <2>7, <2>8, <2>9 DEF Progress
  <2>11. SessionTypes'
    <3>1. Up \subseteq Up' /\ Down \subseteq Down'
      BY <2>10, MessagesGrow
    <3>2. FinishMsg(c, d) \in UpMsgs' /\ RequestMsg(c, d) \in UpMsgs'
      <4>1. PICK p \in Conns \X Conns : p = <<c, d>>
        OBVIOUS
      <4>2. Joined(p[1], p[2])' /\ FinishMsg(p[1], p[2]) = FinishMsg(c, d) /\ RequestMsg(p[1], p[2]) = RequestMsg(c, d)
        BY <2>8, <4>1
      <4> QED
        BY <4>1, <4>2 DEF UpMsgs
    <3>3. PICK g, h : g = Frame(<<"none">>, FinishMsg(c, d)) /\ h = Frame(<<"none">>, RequestMsg(c, d))
      OBVIOUS
    <3>4. g \in Up' /\ h \in Up'
      BY <3>2, <3>3 DEF Frame, Up, Ephemerals
    <3>5. toServer' = [toServer EXCEPT ![c] = toServer[c] \o <<g, h>>]
      BY <1>6, <2>5, <3>3
    <3>6. toServer[c] \o <<g, h>> \in Seq(Up')
      <4>1. PICK V, q : V = Up' /\ q = toServer[c] /\ q \in Seq(Up)
        BY <1>2
      <4>2. q \in Seq(V) /\ g \in V /\ h \in V
        BY <3>1, <3>4, <4>1, SeqMonotonic
      <4>3. q \o <<g, h>> \in Seq(V)
        BY <4>2
      <4> QED
        BY <4>1, <4>3
    <3>7. toServer' \in [Conns -> Seq(Up')]
      BY <1>2, <3>1, <3>5, <3>6, WayChanges
    <3>8. toClient' \in [Conns -> Seq(Down')]
      BY <1>4, <3>1, EmptySeq, WayChanges
    <3>9. \A x \in Conns : ClientEnd(x, client'[x]) /\ ServerEnd(x, server'[x])
      BY <1>2, <2>5, <2>7
    <3>10. /\ DOMAIN client' = Conns /\ DOMAIN server' = Conns /\ DOMAIN outcome' = Conns /\ DOMAIN asked' = Conns
           /\ run_requests' \in Seq(Conns)
      BY <1>2, <1>3, <1>6
    <3> QED
      BY <3>7, <3>8, <3>9, <3>10 DEF SessionTypes
  <2>12. Handshakes'
    <3>1. ASSUME NEW a \in Conns, NEW b \in Conns, Joined(a, b)' PROVE Greeted(b, Ec(a))'
      <4>1. Greeted(b, Ec(a))
        BY <2>4, <2>8, <3>1 DEF SessionInv, Handshakes
      <4> QED
        BY <2>7, <4>1 DEF Greeted
    <3>2. ASSUME NEW a \in Conns, NEW b \in Conns, server'[b].step = 3, server'[b].re = Ec(a) PROVE Joined(a, b)'
      BY <2>7, <2>8, <3>2 DEF SessionInv, Handshakes
    <3> QED
      BY <3>1, <3>2 DEF Handshakes
  <2>13. \A x \in Conns : outcome'[x] = outcome[x] /\ (outcome[x] # "none" \/ (client'[x] = client[x] /\ server'[x] = server[x]))
    <3>1. outcome[c] # "none"
      BY <1>3 DEF SessionInv, IdleEnds
    <3> QED
      BY <1>6, <2>7, <3>1
  <2> QED
    BY <1>3, <2>9, <2>10, <2>11, <2>12, <2>13, ProgressStep
<1> QED
  BY <1>1, <1>5, <1>6 DEF ClientHandshake

LEMMA ServerHelloStep == ASSUME SessionInv, NEW d \in Conns, ServerHello(d) PROVE SessionInv'
<1>1. PICK s, f, r, t : /\ s = server[d] /\ f = Head(toServer[d]) /\ r = ResponderRead(s, f) /\ t = ResponderSent(r)
  OBVIOUS
<1>2. /\ DOMAIN client = Conns /\ DOMAIN server = Conns /\ DOMAIN outcome = Conns /\ DOMAIN asked = Conns
      /\ toServer \in [Conns -> Seq(Up)] /\ toClient \in [Conns -> Seq(Down)] /\ run_requests \in Seq(Conns)
      /\ \A x \in Conns : ClientEnd(x, client[x]) /\ ServerEnd(x, server[x])
  BY DEF SessionInv, SessionTypes
<1>3. /\ server[d].open /\ server[d].step = 0 /\ UNCHANGED <<client, asked, outcome, run_requests>>
      /\ server' = [server EXCEPT ![d] = t] /\ toClient' = [toClient EXCEPT ![d] = Append(toClient[d], ResponderHello(r))]
  BY <1>1 DEF ServerHello
<1>4. toServer' \in [Conns -> Seq(Up)]
  BY <1>2, FrameRead DEF ServerHello
<1>5. ServerEnd(d, s) /\ ServerAt0(s)
  <2>1. ServerEnd(d, s)
    BY <1>1, <1>2
  <2> QED
    BY <1>1, <1>3, <2>1 DEF ServerEnd, ServerAt2, ServerAt3
<1>6. ServerEnd(d, t) /\ t.step = 2 /\ t.re = f.e /\ ResponderHello(r) = Frame(Es(d), HelloMsg(f.e, d))
  BY <1>1, <1>5, GreetedEnd
<1>7. server'[d] = t /\ (\A x \in Conns : x # d => server'[x] = server[x]) /\ client' = client
  BY <1>2, <1>3
<1>8. \A a, b \in Conns : (Joined(a, b)' <=> Joined(a, b)) /\ (Served(a, b)' <=> Served(a, b))
  <2>1. \A a, b \in Conns : Joined(a, b)' <=> Joined(a, b)
    BY <1>7 DEF Joined
  <2>2. \A a, b \in Conns : Served(a, b)' <=> Served(a, b)
    BY <1>3, <1>6, <1>7 DEF Served
  <2> QED
    BY <2>1, <2>2
<1>9. Progress
  BY <1>3, <1>7, <1>8 DEF Progress
<1>10. SessionTypes'
  <2>1. Up \subseteq Up' /\ Down \subseteq Down'
    BY <1>9, MessagesGrow
  <2>2. HelloMsg(f.e, d) \in DownMsgs'
    <3>1. server'[d].step \in {2, 3} /\ server'[d].re = f.e
      BY <1>6, <1>7
    <3> QED
      BY <3>1 DEF DownMsgs
  <2>3. Frame(Es(d), HelloMsg(f.e, d)) \in Down'
    BY <2>2 DEF Frame, Down, Ephemerals
  <2>4. toClient' \in [Conns -> Seq(Down')]
    BY <1>2, <1>3, <1>6, <2>1, <2>3, WayGrows
  <2>5. toServer' \in [Conns -> Seq(Up')]
    BY <1>4, <2>1, EmptySeq, WayChanges
  <2>6. \A x \in Conns : ClientEnd(x, client'[x]) /\ ServerEnd(x, server'[x])
    BY <1>2, <1>6, <1>7
  <2>7. /\ DOMAIN client' = Conns /\ DOMAIN server' = Conns /\ DOMAIN outcome' = Conns /\ DOMAIN asked' = Conns
        /\ run_requests' \in Seq(Conns)
    BY <1>2, <1>3
  <2> QED
    BY <2>4, <2>5, <2>6, <2>7 DEF SessionTypes
<1>11. Handshakes'
  <2>1. ASSUME NEW a \in Conns, NEW b \in Conns, Joined(a, b)' PROVE Greeted(b, Ec(a))'
    <3>1. Greeted(b, Ec(a))
      BY <1>8, <2>1 DEF SessionInv, Handshakes
    <3> QED
      BY <1>3, <1>7, <3>1 DEF Greeted
  <2>2. ASSUME NEW a \in Conns, NEW b \in Conns, server'[b].step = 3, server'[b].re = Ec(a) PROVE Joined(a, b)'
    <3>1. server[b].step = 3 /\ server[b].re = Ec(a)
      BY <1>6, <1>7, <2>2
    <3> QED
      BY <1>8, <3>1 DEF SessionInv, Handshakes
  <2> QED
    BY <2>1, <2>2 DEF Handshakes
<1>12. \A x \in Conns : outcome'[x] = outcome[x] /\ (outcome[x] # "none" \/ (client'[x] = client[x] /\ server'[x] = server[x]))
  <2>1. outcome[d] # "none"
    BY <1>3 DEF SessionInv, IdleEnds
  <2> QED
    BY <1>3, <1>7, <2>1
<1> QED
  BY <1>3, <1>8, <1>9, <1>10, <1>11, <1>12, ProgressStep

LEMMA ServerHandshakeStep == ASSUME SessionInv, NEW d \in Conns, ServerHandshake(d) PROVE SessionInv'
<1>1. PICK s, f, t : s = server[d] /\ f = Head(toServer[d]) /\ t = ResponderFinish(s, f)
  OBVIOUS
<1>2. /\ DOMAIN client = Conns /\ DOMAIN server = Conns /\ DOMAIN outcome = Conns /\ DOMAIN asked = Conns
      /\ toServer \in [Conns -> Seq(Up)] /\ toClient \in [Conns -> Seq(Down)] /\ run_requests \in Seq(Conns)
      /\ \A x \in Conns : ClientEnd(x, client[x]) /\ ServerEnd(x, server[x])
  BY DEF SessionInv, SessionTypes
<1>3. server[d].step = 2 /\ UNCHANGED <<client, toClient, asked, outcome, run_requests>>
  BY DEF ServerHandshake
<1>4. toServer' \in [Conns -> Seq(Up)] /\ f \in Up
  BY <1>1, <1>2, FrameRead DEF ServerHandshake
<1>5. CASE server' = [server EXCEPT ![d] = ConnClosed(server[d])]
  BY <1>3, <1>4, <1>5, ServerClosesStep
<1>6. ASSUME ResponderAccepts(s, f), server' = [server EXCEPT ![d] = t] PROVE SessionInv'
  <2>1. ServerEnd(d, s) /\ ServerAt2(d, s)
    <3>1. ServerEnd(d, s)
      BY <1>1, <1>2
    <3> QED
      BY <1>1, <1>3, <3>1 DEF ServerEnd, ServerAt0, ServerAt3
  <2>2. f.c \in UpMsgs
    BY <1>4 DEF Up
  <2>3. f.c.k = <<"key", CkHello(s.re, d)>> /\ f.c.ad = HashHello(s.re, d)
    BY <1>6, <2>1 DEF ResponderAccepts, ae_dec, ServerAt2
  <2>4. PICK c \in Conns : s.re = Ec(c) /\ Joined(c, d) /\ f.c = FinishMsg(c, d)
    BY <2>2, <2>3, FinishKnown
  <2>5. ServerEnd(d, t) /\ t.step = 3 /\ t.re = Ec(c) /\ t.recv_nonce = 1
    BY <1>1, <2>1, <2>4, AcceptedEnd
  <2>6. server'[d] = t /\ (\A x \in Conns : x # d => server'[x] = server[x]) /\ client' = client
    BY <1>2, <1>3, <1>6
  <2>7. \A a, b \in Conns : (Joined(a, b)' <=> Joined(a, b)) /\ (Served(a, b)' <=> Served(a, b))
    <3>1. \A a, b \in Conns : Joined(a, b)' <=> Joined(a, b)
      BY <2>6 DEF Joined
    <3>2. \A a, b \in Conns : Served(a, b)' <=> Served(a, b)
      BY <1>3, <2>5, <2>6 DEF Served
    <3> QED
      BY <3>1, <3>2
  <2>8. \A b \in Conns : server[b].step \in {2, 3} => server'[b].step \in {2, 3} /\ server'[b].re = server[b].re
    BY <1>1, <2>4, <2>5, <2>6
  <2>9. Progress
    BY <1>3, <2>7, <2>8 DEF Progress
  <2>10. SessionTypes'
    <3>1. Up \subseteq Up' /\ Down \subseteq Down'
      BY <2>9, MessagesGrow
    <3>2. toServer' \in [Conns -> Seq(Up')] /\ toClient' \in [Conns -> Seq(Down')]
      <4>1. toServer' \in [Conns -> Seq(Up')]
        BY <1>4, <3>1, EmptySeq, WayChanges
      <4>2. toClient' \in [Conns -> Seq(Down')]
        BY <1>2, <1>3, <3>1, EmptySeq, WayChanges
      <4> QED
        BY <4>1, <4>2
    <3>3. \A x \in Conns : ClientEnd(x, client'[x]) /\ ServerEnd(x, server'[x])
      BY <1>2, <2>5, <2>6
    <3>4. /\ DOMAIN client' = Conns /\ DOMAIN server' = Conns /\ DOMAIN outcome' = Conns /\ DOMAIN asked' = Conns
          /\ run_requests' \in Seq(Conns)
      BY <1>2, <1>3, <1>6
    <3> QED
      BY <3>2, <3>3, <3>4 DEF SessionTypes
  <2>11. Handshakes'
    <3>1. ASSUME NEW a \in Conns, NEW b \in Conns, Joined(a, b)' PROVE Greeted(b, Ec(a))'
      <4>1. Greeted(b, Ec(a))
        BY <2>7, <3>1 DEF SessionInv, Handshakes
      <4> QED
        BY <2>8, <4>1 DEF Greeted
    <3>2. ASSUME NEW a \in Conns, NEW b \in Conns, server'[b].step = 3, server'[b].re = Ec(a) PROVE Joined(a, b)'
      <4>1. CASE b = d
        <5>1. a = c
          BY <2>5, <2>6, <3>2, <4>1, OwnEphemerals
        <5> QED
          BY <2>4, <2>7, <4>1, <5>1
      <4>2. CASE b # d
        BY <2>6, <2>7, <3>2, <4>2 DEF SessionInv, Handshakes
      <4> QED
        BY <4>1, <4>2
    <3> QED
      BY <3>1, <3>2 DEF Handshakes
  <2>12. \A x \in Conns : outcome'[x] = outcome[x] /\ (outcome[x] # "none" \/ (client'[x] = client[x] /\ server'[x] = server[x]))
    <3>1. outcome[d] # "none"
      BY <1>3 DEF SessionInv, IdleEnds
    <3> QED
      BY <1>3, <2>6, <3>1
  <2> QED
    BY <1>3, <2>7, <2>9, <2>10, <2>11, <2>12, ProgressStep
<1> QED
  BY <1>1, <1>5, <1>6 DEF ServerHandshake

LEMMA ServeStep == ASSUME SessionInv, NEW d \in Conns, Serve(d) PROVE SessionInv'
<1>1. PICK s, f, z, t : s = server[d] /\ f = Head(toServer[d]) /\ z = Received(s) /\ t = Sent(z)
  OBVIOUS
<1>2. /\ DOMAIN client = Conns /\ DOMAIN server = Conns /\ DOMAIN outcome = Conns /\ DOMAIN asked = Conns
      /\ toServer \in [Conns -> Seq(Up)] /\ toClient \in [Conns -> Seq(Down)] /\ run_requests \in Seq(Conns)
      /\ \A x \in Conns : ClientEnd(x, client[x]) /\ ServerEnd(x, server[x])
  BY DEF SessionInv, SessionTypes
<1>3. server[d].step = 3 /\ UNCHANGED <<client, asked, outcome>>
  BY DEF Serve, Complete
<1>4. toServer' \in [Conns -> Seq(Up)] /\ f \in Up
  BY <1>1, <1>2, FrameRead DEF Serve
<1>5. CASE server' = [server EXCEPT ![d] = ConnClosed(server[d])] /\ UNCHANGED <<toClient, run_requests>>
  BY <1>3, <1>4, <1>5, ServerClosesStep
<1>6. ASSUME Opens(s, f), server' = [server EXCEPT ![d] = t], NEW of, of = f.c.pt[2],
             toClient' = [toClient EXCEPT ![d] = Append(toClient[d], Sealed(z, <<process_request(asked[of]), of>>))],
             run_requests' = IF Executes(asked[of]) THEN Append(run_requests, of) ELSE run_requests
      PROVE  SessionInv'
  <2>1. PICK c \in Conns : ServerEnd(d, s) /\ ServerAt3(d, s, c)
    <3>1. ServerEnd(d, s)
      BY <1>1, <1>2
    <3> QED
      BY <1>1, <1>3, <3>1 DEF ServerEnd, ServerAt0, ServerAt2
  <2>2. f.c \in UpMsgs /\ f.c.k = <<"first", CkFull(c, d)>> /\ f.c.n = s.recv_nonce
    BY <1>4, <1>6, <2>1 DEF Up, Opens, ae_dec, ServerAt3
  <2>3. f.c.pt = <<"request", c>> /\ s.recv_nonce = 1
    BY <2>2, RequestKnown
  <2>4. of = c
    BY <1>6, <2>3
  <2>5. PICK r : r = process_request(asked[c])
    OBVIOUS
  <2>6. ServerEnd(d, t) /\ t.step = 3 /\ t.re = Ec(c) /\ t.recv_nonce = 2 /\ Sealed(z, <<r, c>>) = Frame(<<"none">>, ReplyMsg(c, d, r))
    BY <1>1, <2>1, <2>3, ServedEnd
  <2>7. server'[d] = t /\ (\A x \in Conns : x # d => server'[x] = server[x]) /\ client' = client /\ server[d].re = Ec(c)
    BY <1>1, <1>2, <1>3, <1>6, <2>1 DEF ServerAt3
  <2>8. Joined(c, d) /\ \A b \in Conns : ~Served(c, b)
    <3>1. Joined(c, d)
      BY <1>3, <2>7 DEF SessionInv, Handshakes
    <3>2. ASSUME NEW b \in Conns, Served(c, b) PROVE FALSE
      <4>1. Joined(c, b)
        BY <3>2 DEF SessionInv, Handshakes, Served
      <4>2. b = d
        BY <3>1, <4>1, OwnEphemerals DEF Joined
      <4> QED
        BY <1>1, <2>3, <3>2, <4>2 DEF Served
    <3> QED
      BY <3>1, <3>2
  <2>9. /\ \A a, b \in Conns : Joined(a, b)' <=> Joined(a, b)
        /\ \A a, b \in Conns : Served(a, b)' <=> Served(a, b) \/ (a = c /\ b = d)
    <3>1. \A a, b \in Conns : Joined(a, b)' <=> Joined(a, b)
      BY <2>7 DEF Joined
    <3>2. \A a, b \in Conns : b # d => (Served(a, b)' <=> Served(a, b))
      BY <2>7 DEF Served
    <3>3. \A a \in Conns : Served(a, d)' <=> a = c
      BY <2>6, <2>7, OwnEphemerals DEF Served
    <3>4. \A a \in Conns : Served(a, d) => a = c
      BY <2>7, OwnEphemerals DEF Served
    <3> QED
      BY <3>1, <3>2, <3>3, <3>4
  <2>10. \A b \in Conns : server'[b].step = server[b].step /\ server'[b].re = server[b].re
    BY <1>3, <2>6, <2>7
  <2>11. Progress
    BY <1>3, <2>9, <2>10 DEF Progress
  <2>12. SessionTypes'
    <3>1. Up \subseteq Up' /\ Down \subseteq Down'
      BY <2>11, MessagesGrow
    <3>2. ReplyMsg(c, d, r) \in DownMsgs'
      <4>1. PICK p \in Conns \X Conns : p = <<c, d>>
        OBVIOUS
      <4>2. Served(p[1], p[2])' /\ ReplyMsg(c, d, r) = ReplyMsg(p[1], p[2], process_request(asked'[p[1]]))
        BY <1>3, <2>5, <2>9, <4>1
      <4> QED
        BY <4>1, <4>2 DEF DownMsgs
    <3>3. Frame(<<"none">>, ReplyMsg(c, d, r)) \in Down'
      BY <3>2 DEF Frame, Down, Ephemerals
    <3>4. toClient' = [toClient EXCEPT ![d] = Append(toClient[d], Frame(<<"none">>, ReplyMsg(c, d, r)))]
      BY <1>6, <2>4, <2>5, <2>6
    <3>5. toClient' \in [Conns -> Seq(Down')]
      BY <1>2, <3>1, <3>3, <3>4, WayGrows
    <3>6. toServer' \in [Conns -> Seq(Up')]
      BY <1>4, <3>1, EmptySeq, WayChanges
    <3>7. \A x \in Conns : ClientEnd(x, client'[x]) /\ ServerEnd(x, server'[x])
      BY <1>2, <2>6, <2>7
    <3>8. /\ DOMAIN client' = Conns /\ DOMAIN server' = Conns /\ DOMAIN outcome' = Conns /\ DOMAIN asked' = Conns
          /\ run_requests' \in Seq(Conns)
      BY <1>2, <1>3, <1>6, <2>4
    <3> QED
      BY <3>5, <3>6, <3>7, <3>8 DEF SessionTypes
  <2>13. IdleEnds'
    <3>1. outcome[d] # "none"
      BY <1>3 DEF SessionInv, IdleEnds
    <3> QED
      BY <1>3, <2>7, <3>1 DEF SessionInv, IdleEnds
  <2>14. Handshakes'
    <3>1. ASSUME NEW a \in Conns, NEW b \in Conns, Joined(a, b)' PROVE Greeted(b, Ec(a))'
      <4>1. Greeted(b, Ec(a))
        BY <2>9, <3>1 DEF SessionInv, Handshakes
      <4> QED
        BY <2>10, <4>1 DEF Greeted
    <3>2. ASSUME NEW a \in Conns, NEW b \in Conns, server'[b].step = 3, server'[b].re = Ec(a) PROVE Joined(a, b)'
      BY <2>9, <2>10, <3>2 DEF SessionInv, Handshakes
    <3> QED
      BY <3>1, <3>2 DEF Handshakes
  <2>15. RunsOnce'
    <3>1. PICK n \in Nat : n = Len(run_requests) /\ DOMAIN run_requests = 1..n
      BY <1>2
    <3>2. \A i \in 1..n : run_requests[i] # c
      BY <2>8, <3>1 DEF SessionInv, RunsOnce
    <3>3. \A i, j \in 1..n : run_requests[i] = run_requests[j] => i = j
      BY <3>1 DEF SessionInv, RunsOnce
    <3>4. \A a \in Conns : (\E i \in 1..n : run_requests[i] = a) <=> Executes(asked[a]) /\ \E b \in Conns : Served(a, b)
      BY <3>1 DEF SessionInv, RunsOnce
    <3>5. CASE Executes(asked[c])
      <4>1. /\ DOMAIN run_requests' = 1..(n + 1) /\ run_requests'[n + 1] = c
            /\ \A i \in 1..n : run_requests'[i] = run_requests[i]
        BY <1>2, <1>6, <2>4, <3>1, <3>5
      <4>2. \A i, j \in 1..(n + 1) : run_requests'[i] = run_requests'[j] => i = j
        BY <3>2, <3>3, <4>1
      <4>3. ASSUME NEW a \in Conns
            PROVE  (\E i \in 1..(n + 1) : run_requests'[i] = a) <=> Executes(asked[a]) /\ \E b \in Conns : Served(a, b)'
        <5>1. CASE a = c
          <6>1. n + 1 \in 1..(n + 1)
            OBVIOUS
          <6> QED
            BY <2>9, <3>5, <4>1, <5>1, <6>1
        <5>2. CASE a # c
          <6>1. (\E i \in 1..(n + 1) : run_requests'[i] = a) <=> (\E i \in 1..n : run_requests[i] = a)
            BY <4>1, <5>2
          <6>2. \A b \in Conns : Served(a, b)' <=> Served(a, b)
            BY <2>9, <5>2
          <6> QED
            BY <3>4, <6>1, <6>2
        <5> QED
          BY <5>1, <5>2
      <4> QED
        BY <1>3, <4>1, <4>2, <4>3 DEF RunsOnce
    <3>6. CASE ~Executes(asked[c])
      <4>1. run_requests' = run_requests
        BY <1>6, <2>4, <3>6
      <4>2. ASSUME NEW a \in Conns
            PROVE  (\E i \in 1..n : run_requests[i] = a) <=> Executes(asked[a]) /\ \E b \in Conns : Served(a, b)'
        <5>1. CASE a = c
          BY <3>2, <3>6, <5>1
        <5>2. CASE a # c
          <6>1. \A b \in Conns : Served(a, b)' <=> Served(a, b)
            BY <2>9, <5>2
          <6> QED
            BY <3>4, <6>1
        <5> QED
          BY <5>1, <5>2
      <4> QED
        BY <1>3, <3>1, <3>3, <4>1, <4>2 DEF RunsOnce
    <3> QED
      BY <3>5, <3>6
  <2>16. OutcomesTrue'
    BY <1>3, <2>9 DEF SessionInv, OutcomesTrue
  <2> QED
    BY <2>12, <2>13, <2>14, <2>15, <2>16 DEF SessionInv
<1> QED
  BY <1>1, <1>5, <1>6 DEF Serve

LEMMA SessionInvInit == SessionInit => SessionInv
<1> SUFFICES ASSUME SessionInit PROVE SessionInv
  OBVIOUS
<1>1. ASSUME NEW x \in Conns
      PROVE  /\ ClientEnd(x, client[x]) /\ client[x].step = 0
             /\ ServerEnd(x, server[x]) /\ server[x].step = 0 /\ ~server[x].open
  <2>1. PICK s, t : s = NewSession(x, "client") /\ t = NewSession(x, "server")
    OBVIOUS
  <2>2. client[x] = ConnClosed(s) /\ server[x] = ConnClosed(t)
    BY <2>1 DEF SessionInit
  <2>3. DOMAIN s = SessionFields /\ s.static = Sc(x) /\ s.eph = Ec(x) /\ s.step = 0
    BY <2>1 DEF NewSession, SessionFields, StaticOf, Sc, Ec
  <2>4. DOMAIN t = SessionFields /\ t.static = Ss /\ t.eph = Es(x) /\ ServerAt0(t) /\ t.step = 0
    BY <2>1 DEF NewSession, SessionFields, StaticOf, Ss, Es, ServerAt0
  <2>5. ClientEnd(x, s) /\ ServerEnd(x, t)
    BY <2>3, <2>4 DEF ClientEnd, ServerEnd
  <2>6. ClientEnd(x, client[x]) /\ ServerEnd(x, server[x])
    BY <2>2, <2>5, ClosedClientEnd, ClosedServerEnd
  <2>7. client[x].step = 0 /\ server[x].step = 0 /\ ~server[x].open
    BY <2>2, <2>3, <2>4 DEF ConnClosed, SessionFields
  <2> QED
    BY <2>6, <2>7
<1>2. /\ DOMAIN client = Conns /\ DOMAIN server = Conns /\ DOMAIN outcome = Conns /\ DOMAIN asked = Conns
      /\ run_requests = << >> /\ \A c \in Conns : outcome[c] = "none"
  BY DEF SessionInit
<1>3. toServer \in [Conns -> Seq(Up)] /\ toClient \in [Conns -> Seq(Down)] /\ run_requests \in Seq(Conns)
  <2>1. toServer = [c \in Conns |-> << >>] /\ toClient = [c \in Conns |-> << >>]
    BY DEF SessionInit
  <2>2. << >> \in Seq(Up) /\ << >> \in Seq(Down) /\ << >> \in Seq(Conns)
    BY EmptySeq
  <2> QED
    BY <1>2, <2>1, <2>2
<1>4. SessionTypes /\ IdleEnds
  BY <1>1, <1>2, <1>3 DEF SessionTypes, IdleEnds
<1>5. \A c, d \in Conns : ~Joined(c, d) /\ ~Served(c, d) /\ server[d].step # 3
  BY <1>1 DEF Joined, Served
<1>6. Handshakes /\ RunsOnce /\ OutcomesTrue
  <2>1. Handshakes
    BY <1>5 DEF Handshakes
  <2>2. DOMAIN run_requests = {}
    BY <1>2
  <2>3. RunsOnce
    BY <1>5, <2>2 DEF RunsOnce
  <2>4. OutcomesTrue
    BY <1>2 DEF OutcomesTrue
  <2> QED
    BY <2>1, <2>3, <2>4
<1> QED
  BY <1>4, <1>6 DEF SessionInv

LEMMA SessionInvNext == SessionInv /\ [SessionNext]_sessionVars => SessionInv'
<1> SUFFICES ASSUME SessionInv, [SessionNext]_sessionVars PROVE SessionInv'
  OBVIOUS
<1>1. CASE UNCHANGED sessionVars
  <2>1. /\ DOMAIN client' = Conns /\ DOMAIN server' = Conns /\ DOMAIN outcome' = Conns
        /\ client' = client /\ server' = server /\ outcome' = outcome /\ asked' = asked
        /\ toServer' \in [Conns -> Seq(Up)] /\ toClient' \in [Conns -> Seq(Down)] /\ run_requests' = run_requests
    BY <1>1 DEF sessionVars, SessionInv, SessionTypes
  <2> QED
    BY <2>1, QuietStep
<1>2. ASSUME NEW c \in Conns,
             \/ Connect(c) \/ ClientHandshake(c) \/ ClientReceive(c) \/ ClientTimeout(c)
             \/ ClientConnectionLost(c) \/ ServerHello(c) \/ ServerHandshake(c) \/ Serve(c)
             \/ ServerConnectionLost(c) \/ Alter(c) \/ Cut(c)
      PROVE  SessionInv'
  BY <1>2, ConnectStep, ClientHandshakeStep, ClientReceiveStep, ClientEndsStep, ServerHelloStep,
     ServerHandshakeStep, ServeStep, ServerConnectionLostStep, AlterStep, CutStep
<1> QED
  BY <1>1, <1>2 DEF SessionNext

LEMMA SessionInvSuffices == SessionInv => SessionAgrees
<1> SUFFICES ASSUME SessionInv PROVE SessionAgrees
  OBVIOUS
<1>1. \A x \in Conns : ClientEnd(x, client[x]) /\ ServerEnd(x, server[x])
  BY DEF SessionInv, SessionTypes
<1>2. \A e, d \in Conns : TalksTo(e, d) <=> Joined(e, d)
  BY <1>1 DEF TalksTo, Joined, Complete, ServerEnd
<1>3. ASSUME NEW d \in Conns, Complete(server[d])
      PROVE  \E c \in Conns : TalksTo(c, d) /\ Agree(client[c], server[d]) /\ \A e \in Conns : TalksTo(e, d) => e = c
  <2>1. PICK c \in Conns : ServerAt3(d, server[d], c)
    BY <1>1, <1>3 DEF Complete, ServerEnd, ServerAt0, ServerAt2
  <2>2. Joined(c, d)
    BY <2>1 DEF SessionInv, Handshakes, ServerAt3
  <2>3. ClientAt3(c, client[c], d)
    <3>1. PICK b \in Conns : ClientAt3(c, client[c], b)
      BY <1>1, <2>2 DEF Joined, ClientEnd, ClientAt1
    <3>2. b = d
      BY <2>2, <3>1, OwnEphemerals DEF Joined, ClientAt3
    <3> QED
      BY <3>1, <3>2
  <2>4. client[c].static = Sc(c) /\ server[d].static = Ss
    BY <1>1 DEF ClientEnd, ServerEnd
  <2>5. <<"first", CkFull(c, d)>> # <<"second", CkFull(c, d)>>
    OBVIOUS
  <2>6. Agree(client[c], server[d])
    BY <2>1, <2>3, <2>4, <2>5 DEF Agree, ClientAt3, ServerAt3
  <2>7. ASSUME NEW e \in Conns, TalksTo(e, d) PROVE e = c
    <3>1. Greeted(d, Ec(e))
      BY <1>2, <2>7 DEF SessionInv, Handshakes
    <3> QED
      BY <2>1, <3>1, OwnEphemerals DEF Greeted, ServerAt3
  <2> QED
    BY <1>2, <2>2, <2>6, <2>7
<1>4. ASSUME NEW c \in Conns
      PROVE  /\ Times(c) <= (IF Executes(asked[c]) THEN 1 ELSE 0)
             /\ outcome[c] \in {"result", "rpc error"} =>
                  /\ Times(c) = (IF Executes(asked[c]) THEN 1 ELSE 0)
                  /\ outcome[c] = "result" <=> process_request(asked[c]) = "result"
  <2>1. PICK S : S = {i \in DOMAIN run_requests : run_requests[i] = c}
    OBVIOUS
  <2>2. Times(c) = Cardinality(S)
    BY <2>1 DEF Times
  <2>3. outcome[c] \in {"result", "rpc error"} =>
          (outcome[c] = "result" <=> process_request(asked[c]) = "result")
    <3>1. outcome[c] \in {"result", "rpc error"} => (outcome[c] = "result" <=> asked[c] = "stamp")
      BY DEF SessionInv, OutcomesTrue
    <3>2. process_request(asked[c]) = "result" <=> asked[c] = "stamp"
      BY DEF process_request
    <3> QED
      BY <3>1, <3>2
  <2>4. CASE \E i \in DOMAIN run_requests : run_requests[i] = c
    <3>1. PICK i \in DOMAIN run_requests : run_requests[i] = c
      BY <2>4
    <3>2. S = {i}
      BY <2>1, <3>1 DEF SessionInv, RunsOnce
    <3>3. Times(c) = 1
      BY <2>2, <3>2, FS_Singleton
    <3>4. Executes(asked[c])
      BY <2>4 DEF SessionInv, RunsOnce
    <3>5. PICK most : most = (IF Executes(asked[c]) THEN 1 ELSE 0)
      OBVIOUS
    <3>6. most = 1
      BY <3>4, <3>5, Zenon
    <3>7. Times(c) = most /\ Times(c) <= most
      BY <3>3, <3>6
    <3> QED
      BY <2>3, <3>5, <3>7
  <2>5. CASE ~ \E i \in DOMAIN run_requests : run_requests[i] = c
    <3>1. S = {}
      BY <2>1, <2>5
    <3>2. Times(c) = 0
      BY <2>2, <3>1, FS_EmptySet
    <3>3. ~(Executes(asked[c]) /\ \E d \in Conns : Served(c, d))
      BY <2>5 DEF SessionInv, RunsOnce
    <3>4. outcome[c] \in {"result", "rpc error"} => ~Executes(asked[c])
      BY <3>3 DEF SessionInv, OutcomesTrue
    <3>5. ~Executes(asked[c]) => (IF Executes(asked[c]) THEN 1 ELSE 0) = 0
      BY Zenon
    <3>6. PICK most : most = (IF Executes(asked[c]) THEN 1 ELSE 0) /\ most \in Nat
      OBVIOUS
    <3>7. 0 <= most
      BY <3>6
    <3> QED
      BY <2>3, <3>2, <3>4, <3>5, <3>6, <3>7
  <2> QED
    BY <2>4, <2>5
<1> QED
  BY <1>3, <1>4 DEF SessionAgrees

\* For any number of connections, and whatever is cut, altered, copied from one
\* connection to another or timed out: a server's end that completed the Noise XX
\* handshake of noise_xx.c has one client's end as its peer and agrees with it on
\* keys, static keys and the handshake hash, and a request of noise_json_rpc runs at
\* most once, and its outcome says how it ended.
THEOREM SessionsAgree == SessionSpec => []SessionAgrees
<1>1. SessionInit => SessionInv
  BY SessionInvInit
<1>2. SessionInv /\ [SessionNext]_sessionVars => SessionInv'
  BY SessionInvNext
<1>3. SessionInv => SessionAgrees
  BY SessionInvSuffices
<1> QED
  BY <1>1, <1>2, <1>3, PTL DEF SessionSpec
===============================================================================
