----------------------------- MODULE PeerProofs -----------------------------
(***************************************************************************)
(* Theorems about what a node has to do with its peers: the line to one    *)
(* peer, its back-off and routes (LineRoutes), its command queue           *)
(* (LineQueue) and the gates of what the peer answers (LineGates), for any *)
(* candidates, cap, priorities, number of commands, records and stamps;    *)
(* and active mirroring (Mirror) for any number of workers, peers,         *)
(* records, other senders, timeouts and restarts.                          *)
(***************************************************************************)
EXTENDS TLAPS, LineRoutes, LineQueue, LineGates, Mirror, FiniteSetTheorems

-----------------------------------------------------------------------------
(* Routes and back-off *)

\* The back-off set by any failure ends within the cap of that failure,
\* also when it is doubled from a delay that wrapped.
BackoffBounded ==
  /\ now \in Nat /\ last_failure \in Nat /\ backoff_until \in Nat
  /\ failures \in [Routes -> Nat]
  /\ backoff_until # None => backoff_until <= last_failure + BackoffCap

\* What next_backoff returns is a delay of at most the cap.
LEMMA NextBackoffCapped ==
  ASSUME BackoffBounded
  PROVE  next_backoff \in Nat /\ next_backoff <= BackoffCap
BY RouteAssumption DEF BackoffBounded, next_backoff, current_backoff, Wrapped, None

\* choose_route_with_host answers Unavailable only if no candidate can be
\* reached, whatever the statistics of the routes say.
LEMMA RouteFound ==
  ASSUME NEW swarm \in BOOLEAN
  PROVE  choose_route_with_host(swarm) = "Unavailable" <=> ~(swarm /\ HasPeerId) /\ ~HasJsonRpc
<1>1. CASE swarm /\ HasPeerId /\ failures["Libp2pDirect"] < Unhealthy
  BY <1>1 DEF choose_route_with_host
<1>2. CASE ~(swarm /\ HasPeerId /\ failures["Libp2pDirect"] < Unhealthy)
  BY <1>2 DEF choose_route_with_host
<1> QED
  BY <1>1, <1>2

LEMMA BackoffStep ==
  ASSUME BackoffBounded, [RouteNext]_routeVars
  PROVE  BackoffBounded'
<1>1. ASSUME NEW r \in Routes, record_route_failure(r)
      PROVE  BackoffBounded'
  BY <1>1, NextBackoffCapped, RouteAssumption DEF record_route_failure, BackoffBounded, None
<1>2. ASSUME NEW r \in Routes, record_route_success(r)
      PROVE  BackoffBounded'
  BY <1>2 DEF record_route_success, BackoffBounded, None
<1>3. CASE Clock
  BY <1>3 DEF Clock, BackoffBounded
<1>4. CASE \/ mark_binding_verified \/ mark_binding_rejected \/ request_tbid_binding_proof
           \/ (\E c \in Candidates : refresh_dht_binding(c))
           \/ (\E swarm \in BOOLEAN : set_active_route(swarm))
           \/ UNCHANGED routeVars
  BY <1>4 DEF mark_binding_verified, mark_binding_rejected, request_tbid_binding_proof,
     refresh_dht_binding, set_active_route, routeVars, BackoffBounded
<1> QED
  BY <1>1, <1>2, <1>3, <1>4 DEF RouteNext

\* A line is never locked out by its own back-off, nor without a route while
\* a candidate can be reached.
THEOREM LineNeverStranded == RouteSpec => []NeverStranded
<1>1. RouteInit => BackoffBounded
  BY DEF RouteInit, BackoffBounded, None
<1>2. BackoffBounded /\ [RouteNext]_routeVars => BackoffBounded'
  BY BackoffStep
<1>3. BackoffBounded => NeverStranded
  BY RouteFound DEF BackoffBounded, NeverStranded, is_in_backoff
<1> QED
  BY <1>1, <1>2, <1>3, PTL DEF RouteSpec

-----------------------------------------------------------------------------
(* The command queue *)

QueuedCommand == [id : Nat, priority : Nat, sequence : Nat, shutdown : BOOLEAN]

\* The order the theorem is about: by priority, then by the order of sending.
Precedes(c, d) == c.priority > d.priority \/ (c.priority = d.priority /\ c.id < d.id)

QueueTypeOK ==
  /\ channel \in Seq(QueuedCommand) /\ open \in BOOLEAN /\ heap \subseteq QueuedCommand
  /\ sequence \in Nat /\ worker_pc \in {"recv", "execute", "stopped"}
  /\ running \in QueuedCommand /\ served \in Seq(QueuedCommand)
  /\ reply \in [Ids -> {"none", "pending", "answered", "dropped", "unasked"}]

\* Numbers are given to commands in turn.
IdsInTurn == \E n \in Nat : Sent = 1..n

\* The channel keeps the order of sending, and the heap holds older commands.
ChannelOrdered ==
  /\ \A i \in 1..Len(channel) : channel[i].id \in Sent
  /\ \A i, j \in 1..Len(channel) : i < j => channel[i].id < channel[j].id
  /\ \A c \in heap, i \in 1..Len(channel) : c.id < channel[i].id

\* Sequence numbers of the heap are in the order of sending.
HeapNumbered ==
  /\ \A c \in heap : c.id \in Sent /\ c.sequence < sequence
  /\ \A c, d \in heap : c = d \/ (c.sequence < d.sequence /\ c.id < d.id)
                              \/ (d.sequence < c.sequence /\ d.id < c.id)

\* Nothing is executed before the last sender is gone, and then nothing comes
\* in: the heap only shrinks, from its greatest command on.
ServedFromTheTop ==
  /\ served # << >> \/ worker_pc = "execute" => ~open /\ channel = << >>
  /\ worker_pc = "execute" =>
       /\ running.id \in Sent
       /\ \A d \in heap : Precedes(running, d)
       /\ \A i \in 1..Len(served) : Precedes(served[i], running)
  /\ \A i \in 1..Len(served), d \in heap : Precedes(served[i], d)
  /\ \A i, j \in 1..Len(served) : i < j => Precedes(served[i], served[j])

QueueInv == QueueTypeOK /\ IdsInTurn /\ ChannelOrdered /\ HeapNumbered /\ ServedFromTheTop

LEMMA CountOfIds == ASSUME NEW n \in Nat PROVE Cardinality(1..n) = n /\ IsFiniteSet(1..n)
<1>1. IsFiniteSet(1..n) /\ Cardinality(1..n) = IF 1 > n THEN 0 ELSE n - 1 + 1
  BY FS_Interval
<1> QED
  BY <1>1

\* What Tail does to the channel.
LEMMA TailOfCommands ==
  ASSUME NEW s \in Seq(QueuedCommand), s # << >>
  PROVE  /\ Tail(s) \in Seq(QueuedCommand) /\ Len(Tail(s)) = Len(s) - 1 /\ Len(s) >= 1
         /\ \A i \in 1..Len(Tail(s)) : Tail(s)[i] = s[i + 1]
         /\ Head(s) = s[1] /\ Head(s) \in QueuedCommand
OBVIOUS

\* What Append does to the channel and to the list of what was served.
LEMMA AppendOfCommand ==
  ASSUME NEW s \in Seq(QueuedCommand), NEW c \in QueuedCommand
  PROVE  /\ Append(s, c) \in Seq(QueuedCommand) /\ Len(Append(s, c)) = Len(s) + 1
         /\ \A i \in 1..Len(s) : Append(s, c)[i] = s[i]
         /\ Append(s, c)[Len(s) + 1] = c
OBVIOUS

LEMMA SendKeeps ==
  ASSUME QueueInv, NEW p \in Priorities, NEW stop \in BOOLEAN, Send(p, stop)
  PROVE  QueueInv'
<1> DEFINE i == Cardinality(Sent) + 1
           c == [id |-> i, priority |-> p, sequence |-> 0, shutdown |-> stop]
<1>1. PICK n \in Nat : Sent = 1..n
  BY DEF QueueInv, IdsInTurn
<1>2. i = n + 1 /\ n < MaxCommands
  BY <1>1, CountOfIds DEF Send
<1>3. i \in Ids /\ c \in QueuedCommand
  BY <1>2, QueueAssumption DEF Ids, QueuedCommand
<1>4. /\ reply' = [reply EXCEPT ![i] = reply'[i]]
      /\ reply'[i] \in {"pending", "dropped", "unasked"}
  BY <1>3 DEF Send, QueueInv, QueueTypeOK
<1>5. Sent' = 1..(n + 1)
  <2>1. \A k \in Ids : reply'[k] # "none" <=> (reply[k] # "none" \/ k = i)
    BY <1>3, <1>4 DEF QueueInv, QueueTypeOK
  <2>2. Sent' = Sent \cup {i}
    BY <2>1, <1>3 DEF Sent
  <2> QED
    BY <2>2, <1>1, <1>2
<1>6. UNCHANGED <<open, heap, sequence, worker_pc, running, served>>
  BY DEF Send
<1>7. channel' = channel \/ (channel' = Append(channel, c) /\ worker_pc # "stopped")
  BY DEF Send
<1>8. open
  BY DEF Send
<1>9. QueueTypeOK'
  <2>1. channel' \in Seq(QueuedCommand)
    BY <1>7, <1>3, AppendOfCommand DEF QueueInv, QueueTypeOK
  <2> QED
    BY <2>1, <1>4, <1>6 DEF QueueInv, QueueTypeOK
<1>10. IdsInTurn'
  BY <1>5 DEF IdsInTurn
<1>11. ChannelOrdered'
  <2>1. CASE channel' = channel
    BY <2>1, <1>1, <1>5, <1>6 DEF QueueInv, ChannelOrdered
  <2>2. CASE channel' = Append(channel, c)
    <3>1. /\ Len(channel') = Len(channel) + 1 /\ channel'[Len(channel) + 1] = c
          /\ \A k \in 1..Len(channel) : channel'[k] = channel[k]
      BY <2>2, <1>3, AppendOfCommand DEF QueueInv, QueueTypeOK
    <3>2. \A k \in 1..Len(channel) : channel[k].id \in 1..n /\ channel[k].id < i
      BY <1>1, <1>2 DEF QueueInv, ChannelOrdered
    <3>3. \A d \in heap : d.id < i
      BY <1>1, <1>2 DEF QueueInv, HeapNumbered
    <3>4. c.id = i
      OBVIOUS
    <3>5. Len(channel) \in Nat
      BY DEF QueueInv, QueueTypeOK
    <3> HIDE DEF i, c
    <3>6. \A k \in 1..Len(channel') : channel'[k].id \in Sent'
      BY <3>1, <3>2, <3>4, <3>5, <1>2, <1>5
    <3>7. \A k, l \in 1..Len(channel') : k < l => channel'[k].id < channel'[l].id
      BY <3>1, <3>2, <3>4, <3>5, <1>2 DEF QueueInv, ChannelOrdered
    <3>8. \A d \in heap', k \in 1..Len(channel') : d.id < channel'[k].id
      BY <3>1, <3>3, <3>4, <3>5, <1>6 DEF QueueInv, ChannelOrdered
    <3> QED
      BY <3>6, <3>7, <3>8 DEF ChannelOrdered
  <2> QED
    BY <2>1, <2>2, <1>7
<1>12. HeapNumbered'
  BY <1>1, <1>5, <1>6 DEF QueueInv, HeapNumbered
<1>13. ServedFromTheTop'
  <2>1. served = << >> /\ worker_pc # "execute"
    BY <1>8 DEF QueueInv, ServedFromTheTop
  <2> QED
    BY <2>1, <1>6 DEF ServedFromTheTop
<1> QED
  BY <1>9, <1>10, <1>11, <1>12, <1>13 DEF QueueInv

LEMMA ReceiveKeeps ==
  ASSUME QueueInv, Receive
  PROVE  QueueInv'
<1> DEFINE c == [Head(channel) EXCEPT !.sequence = sequence]
<1>1. /\ channel' \in Seq(QueuedCommand) /\ Len(channel') = Len(channel) - 1 /\ Len(channel) >= 1
      /\ \A i \in 1..Len(channel') : channel'[i] = channel[i + 1]
      /\ Head(channel) = channel[1] /\ Head(channel) \in QueuedCommand
  BY TailOfCommands DEF QueueInv, QueueTypeOK, Receive
<1>2. c \in QueuedCommand /\ c.id = channel[1].id /\ c.sequence = sequence
  BY <1>1 DEF QueueInv, QueueTypeOK, QueuedCommand
<1>3. /\ heap' = heap \cup {c} /\ sequence' = sequence + 1
      /\ UNCHANGED <<open, worker_pc, running, reply, served>>
      /\ worker_pc = "recv" /\ channel # << >>
  BY DEF Receive
<1>4. Sent' = Sent
  BY <1>3 DEF Sent
<1>5. Len(channel) \in Nat /\ sequence \in Nat
  BY DEF QueueInv, QueueTypeOK
<1> HIDE DEF c
<1>6. QueueTypeOK'
  BY <1>1, <1>2, <1>3 DEF QueueInv, QueueTypeOK
<1>7. IdsInTurn'
  BY <1>4 DEF QueueInv, IdsInTurn
<1>8. ChannelOrdered'
  <2>1. \A i \in 1..Len(channel') : i + 1 \in 1..Len(channel) /\ 1 < i + 1
    BY <1>1, <1>5
  <2>2. \A i \in 1..Len(channel') : c.id < channel'[i].id
    BY <2>1, <1>1, <1>2, <1>5 DEF QueueInv, ChannelOrdered
  <2>3. \A d \in heap, i \in 1..Len(channel') : d.id < channel'[i].id
    BY <2>1, <1>1 DEF QueueInv, ChannelOrdered
  <2>4. \A i, j \in 1..Len(channel') : i < j => channel'[i].id < channel'[j].id
    BY <2>1, <1>1, <1>5 DEF QueueInv, ChannelOrdered
  <2>5. \A i \in 1..Len(channel') : channel'[i].id \in Sent'
    BY <2>1, <1>1, <1>4 DEF QueueInv, ChannelOrdered
  <2> QED
    BY <2>2, <2>3, <2>4, <2>5, <1>3 DEF ChannelOrdered
<1>9. HeapNumbered'
  <2>1. \A d \in heap : d.id < c.id /\ d.sequence < c.sequence
    BY <1>1, <1>2, <1>5 DEF QueueInv, ChannelOrdered, HeapNumbered
  <2>2. \A d \in heap' : d.id \in Sent' /\ d.sequence < sequence'
    <3>1. c.id \in Sent
      BY <1>1, <1>2, <1>5 DEF QueueInv, ChannelOrdered
    <3>2. \A d \in heap : d.sequence \in Nat
      BY DEF QueueInv, QueueTypeOK, QueuedCommand
    <3> QED
      BY <3>1, <3>2, <1>2, <1>3, <1>4, <1>5 DEF QueueInv, HeapNumbered
  <2> QED
    BY <2>1, <2>2, <1>3 DEF QueueInv, HeapNumbered
<1>10. ServedFromTheTop'
  <2>1. served = << >>
    BY <1>3 DEF QueueInv, ServedFromTheTop
  <2> QED
    BY <2>1, <1>3 DEF ServedFromTheTop
<1> QED
  BY <1>6, <1>7, <1>8, <1>9, <1>10 DEF QueueInv

LEMMA ReceiveShutdownKeeps ==
  ASSUME QueueInv, ReceiveShutdown
  PROVE  QueueInv'
<1>1. /\ worker_pc' = "stopped" /\ heap' = {} /\ channel' = << >> /\ running' = NoCommand
      /\ reply' = [i \in Ids |-> IF reply[i] = "pending" THEN "dropped" ELSE reply[i]]
      /\ sequence' = sequence + Len(channel) /\ UNCHANGED <<open, served>>
      /\ channel # << >> /\ worker_pc = "recv"
  BY DEF ReceiveShutdown, StopWorker
<1>2. served = << >>
  BY <1>1 DEF QueueInv, ServedFromTheTop
<1>3. Sent' = Sent
  BY <1>1 DEF Sent, QueueInv, QueueTypeOK
<1>4. NoCommand \in QueuedCommand
  BY DEF NoCommand, QueuedCommand
<1>5. QueueTypeOK'
  BY <1>1, <1>4 DEF QueueInv, QueueTypeOK
<1>6. IdsInTurn'
  BY <1>3 DEF QueueInv, IdsInTurn
<1> QED
  BY <1>1, <1>2, <1>5, <1>6 DEF QueueInv, ChannelOrdered, HeapNumbered, ServedFromTheTop

\* The heap's order is the order of the theorem: sequence numbers follow ids.
LEMMA PopKeeps ==
  ASSUME QueueInv, NEW c \in heap, Pop(c)
  PROVE  QueueInv'
<1>1. /\ worker_pc = "recv" /\ channel = << >> /\ ~open /\ c \in QueuedCommand
      /\ heap' = heap \ {c} /\ running' = c /\ worker_pc' = "execute"
      /\ UNCHANGED <<channel, open, sequence, reply, served>>
  BY DEF Pop, QueueInv, QueueTypeOK
<1>2. Sent' = Sent
  BY <1>1 DEF Sent
<1>3. \A d \in heap' : Precedes(c, d)
  <2> SUFFICES ASSUME NEW d \in heap \ {c} PROVE Precedes(c, d)
    BY <1>1
  <2>1. QueuedBefore(c, d)
    BY DEF Pop
  <2>2. (c.sequence < d.sequence /\ c.id < d.id) \/ (d.sequence < c.sequence /\ d.id < c.id)
    BY DEF QueueInv, HeapNumbered
  <2>3. c.sequence \in Nat /\ d.sequence \in Nat
    BY DEF QueueInv, QueueTypeOK, QueuedCommand
  <2> QED
    BY <2>1, <2>2, <2>3 DEF QueuedBefore, Precedes
<1>4. QueueTypeOK'
  BY <1>1 DEF QueueInv, QueueTypeOK
<1>5. IdsInTurn' /\ ChannelOrdered' /\ HeapNumbered'
  BY <1>1, <1>2 DEF QueueInv, IdsInTurn, ChannelOrdered, HeapNumbered
<1>6. ServedFromTheTop'
  <2>1. c.id \in Sent'
    BY <1>2 DEF QueueInv, HeapNumbered
  <2> QED
    BY <2>1, <1>1, <1>3 DEF QueueInv, ServedFromTheTop
<1> QED
  BY <1>4, <1>5, <1>6 DEF QueueInv

LEMMA ExecuteKeeps ==
  ASSUME QueueInv, Execute
  PROVE  QueueInv'
<1>1. /\ worker_pc = "execute" /\ worker_pc' = "recv"
      /\ reply' = [reply EXCEPT ![running.id] = "answered"]
      /\ served' = Append(served, running) /\ running' = NoCommand
      /\ UNCHANGED <<channel, open, heap, sequence>>
  BY DEF Execute
<1>2. Sent' = Sent
  BY <1>1 DEF QueueInv, QueueTypeOK, ServedFromTheTop, Sent
<1>3. NoCommand \in QueuedCommand
  BY DEF NoCommand, QueuedCommand
<1>4. /\ served' \in Seq(QueuedCommand) /\ Len(served') = Len(served) + 1
      /\ \A i \in 1..Len(served) : served'[i] = served[i]
      /\ served'[Len(served) + 1] = running
  BY <1>1, AppendOfCommand DEF QueueInv, QueueTypeOK
<1>5. QueueTypeOK'
  BY <1>1, <1>3, <1>4 DEF QueueInv, QueueTypeOK
<1>6. IdsInTurn' /\ ChannelOrdered' /\ HeapNumbered'
  BY <1>1, <1>2 DEF QueueInv, IdsInTurn, ChannelOrdered, HeapNumbered
<1>7. ServedFromTheTop'
  <2>1. Len(served) \in Nat
    BY DEF QueueInv, QueueTypeOK
  <2>2. \A i \in 1..Len(served'), d \in heap' : Precedes(served'[i], d)
    BY <2>1, <1>1, <1>4 DEF QueueInv, ServedFromTheTop
  <2>3. \A i, j \in 1..Len(served') : i < j => Precedes(served'[i], served'[j])
    BY <2>1, <1>1, <1>4 DEF QueueInv, ServedFromTheTop
  <2> QED
    BY <2>2, <2>3, <1>1 DEF QueueInv, ServedFromTheTop
<1> QED
  BY <1>5, <1>6, <1>7 DEF QueueInv

LEMMA QueueStep ==
  ASSUME QueueInv, [QueueNext]_queueVars
  PROVE  QueueInv'
<1>1. CASE SendersGone
  <2>1. Sent' = Sent
    BY <1>1 DEF SendersGone, Sent
  <2> QED
    BY <1>1, <2>1 DEF SendersGone, QueueInv, QueueTypeOK, IdsInTurn, ChannelOrdered, HeapNumbered,
       ServedFromTheTop
<1>2. CASE UNCHANGED queueVars
  <2>1. Sent' = Sent
    BY <1>2 DEF queueVars, Sent
  <2> QED
    BY <1>2, <2>1 DEF queueVars, QueueInv, QueueTypeOK, IdsInTurn, ChannelOrdered, HeapNumbered,
       ServedFromTheTop
<1> QED
  BY <1>1, <1>2, SendKeeps, ReceiveKeeps, ReceiveShutdownKeeps, PopKeeps, ExecuteKeeps
  DEF QueueNext

\* However many callers send in whatever order, commands are executed by
\* priority and, within one, in the order they were sent.
THEOREM QueueServesInOrder == QueueSpec => []ServedInOrder
<1>1. QueueInit => QueueInv
  <2> SUFFICES ASSUME QueueInit PROVE QueueInv
    OBVIOUS
  <2>1. Sent = 1..0
    BY DEF QueueInit, Sent
  <2>2. QueueTypeOK
    BY DEF QueueInit, QueueTypeOK, QueuedCommand, NoCommand
  <2> QED
    BY <2>1, <2>2 DEF QueueInit, QueueInv, IdsInTurn, ChannelOrdered, HeapNumbered, ServedFromTheTop
<1>2. QueueInv /\ [QueueNext]_queueVars => QueueInv'
  BY QueueStep
<1>3. QueueInv => ServedInOrder
  <2> SUFFICES ASSUME QueueInv PROVE ServedInOrder
    OBVIOUS
  <2>1. DOMAIN served = 1..Len(served)
    BY DEF QueueInv, QueueTypeOK
  <2> QED
    BY <2>1 DEF QueueInv, ServedFromTheTop, ServedInOrder, Precedes
<1> QED
  BY <1>1, <1>2, <1>3, PTL DEF QueueSpec

-----------------------------------------------------------------------------
(* The gates *)

LEMMA SlicesAreSequences == ASSUME NEW rs \in Slices PROVE rs \in Seq(Records)
BY GateAssumption DEF Slices

\* What gate_chronon_records lets through is a chain from the genesis: each
\* record is checked against the one before it.
LEMMA GateChains ==
  ASSUME NEW rs \in Seq(Records), gate_chronon_records(rs)
  PROVE  Chained(rs)
<1>1. DOMAIN rs = 1..Len(rs) /\ Len(rs) \in Nat
  OBVIOUS
<1>2. \A i \in DOMAIN rs : rs[i].tbid = Target /\ rs[i].key # NoKey
  BY DEF gate_chronon_records
<1>3. rs # << >> => rs[1].number = 1
  <2> SUFFICES ASSUME rs # << >> PROVE rs[1].number = 1
    OBVIOUS
  <2>1. 1 \in DOMAIN rs /\ SubSeq(rs, 1, 1 - 1) = << >>
    OBVIOUS
  <2>2. verify_chronon(SubSeq(rs, 1, 1 - 1), rs[1])
    BY <2>1 DEF gate_chronon_records
  <2> QED
    BY <2>1, <2>2 DEF verify_chronon
<1>4. ASSUME NEW i \in 2..Len(rs)
      PROVE  rs[i].link = <<rs[i - 1].number, rs[i - 1].key>>
  <2> DEFINE before == SubSeq(rs, 1, i - 1)
  <2>1. i \in DOMAIN rs /\ Len(before) = i - 1 /\ before # << >> /\ before[i - 1] = rs[i - 1]
    BY <1>1
  <2>2. verify_chronon(before, rs[i])
    BY <2>1 DEF gate_chronon_records
  <2> HIDE DEF before
  <2> QED
    BY <2>1, <2>2 DEF verify_chronon, pair_verifies
<1> QED
  BY <1>2, <1>3, <1>4 DEF Chained

\* The first record of a chain is a chain.
LEMMA HeadChained ==
  ASSUME NEW rs \in Seq(Records), rs # << >>, Chained(rs)
  PROVE  Chained(<<Head(rs)>>)
<1>1. Head(rs) = rs[1] /\ 1 \in DOMAIN rs
  OBVIOUS
<1>2. Len(<<Head(rs)>>) = 1 /\ <<Head(rs)>>[1] = Head(rs) /\ DOMAIN <<Head(rs)>> = {1}
  OBVIOUS
<1> QED
  BY <1>1, <1>2 DEF Chained

LEMMA RefusedIsAuthentic == ASSUME accepted' = Refused PROVE AcceptedIsAuthentic'
BY DEF Refused, AcceptedIsAuthentic

LEMMA SliceIsAuthentic ==
  ASSUME NEW rs, Chained(rs), accepted' = [kind |-> "slice", records |-> rs]
  PROVE  AcceptedIsAuthentic'
<1>1. accepted'.kind = "slice" /\ accepted'.records = rs
  OBVIOUS
<1> QED
  BY <1>1 DEF AcceptedIsAuthentic, Chained

\* A stamp's gate compares it with the record, the content and the target.
LEMMA StampIsAuthentic ==
  ASSUME NEW rs \in Slices, GateStamp(rs)
  PROVE  AcceptedIsAuthentic'
<1>1. CASE gate_chronon_records(rs) /\ rs # << >> /\ gate_foretis(rq.raw, Head(rs), rq.content)
  <2>1. accepted' = [kind |-> "stamp", foretis |-> rq.raw, content |-> rq.content,
                     record |-> Head(rs)]
    BY <1>1 DEF GateStamp, Finish
  <2>2. /\ accepted'.kind = "stamp" /\ accepted'.foretis = rq.raw
        /\ accepted'.content = rq.content /\ accepted'.record = Head(rs)
    BY <2>1
  <2>3. Chained(<<Head(rs)>>)
    BY <1>1, SlicesAreSequences, GateChains, HeadChained
  <2>4. /\ rq.raw.number = Head(rs).number /\ rq.raw.content = rq.content
        /\ rq.raw.signer = Head(rs).key /\ rq.raw.tbid = Target
    BY <1>1 DEF gate_foretis, verify_foretis, verify_with
  <2> QED
    BY <2>2, <2>3, <2>4 DEF AcceptedIsAuthentic, Chained
<1>2. CASE ~(gate_chronon_records(rs) /\ rs # << >> /\ gate_foretis(rq.raw, Head(rs), rq.content))
  BY <1>2, RefusedIsAuthentic DEF GateStamp, Finish
<1> QED
  BY <1>1, <1>2

\* Both signatures, the nonce and the channel leave one possible answer.
LEMMA BindingIsAuthentic ==
  ASSUME NEW p \in Proofs \cup {handle_channel_bind_challenge(t) : t \in {Target, Stranger}},
         BindAnswered(p)
  PROVE  AcceptedIsAuthentic'
<1>1. CASE verify_full(p)
  <2>1. accepted' = [kind |-> "bound", proof |-> p]
    BY <1>1 DEF BindAnswered, Finish
  <2>2. accepted'.kind = "bound" /\ accepted'.proof = p
    BY <2>1
  <2>3. p # Malformed /\ p.tbid = Target /\ p.nonce /\ p.channel /\ p.fast = Target /\ p.slow = Target
    BY <1>1 DEF verify_full, check_binding_fields
  <2>4. p \in [tbid : {Target, Stranger}, nonce : BOOLEAN, channel : BOOLEAN,
               fast : {Target, Stranger}, slow : {Target, Stranger}]
    <3>1. CASE p \in Proofs
      BY <3>1, <2>3, GateAssumption, Zenon
    <3>2. ASSUME NEW t \in {Target, Stranger}, p = handle_channel_bind_challenge(t)
          PROVE  p \in [tbid : {Target, Stranger}, nonce : BOOLEAN, channel : BOOLEAN,
                        fast : {Target, Stranger}, slow : {Target, Stranger}]
      BY <3>2 DEF handle_channel_bind_challenge
    <3> QED
      BY <3>1, <3>2, Zenon
  <2>5. p = handle_channel_bind_challenge(Target)
    BY <2>3, <2>4 DEF handle_channel_bind_challenge
  <2>6. verify_fast_only(p)
    BY <2>3 DEF verify_fast_only, check_binding_fields, verify_with, from_id_string
  <2> QED
    BY <2>2, <2>5, <2>6 DEF AcceptedIsAuthentic, verify_fast_only, check_binding_fields,
       verify_with, handle_channel_bind_challenge
<1>2. CASE ~verify_full(p)
  BY <1>2, RefusedIsAuthentic DEF BindAnswered, Finish
<1> QED
  BY <1>1, <1>2

LEMMA GateStep ==
  ASSUME AcceptedIsAuthentic, [GateNext]_gateVars
  PROVE  AcceptedIsAuthentic'
<1>1. CASE \/ get_calendar_slice \/ get_chronon \/ channel_bind \/ (\E c \in Contents : stamp(c))
           \/ CallFails
  <2>1. accepted' = Refused
    BY <1>1 DEF get_calendar_slice, get_chronon, channel_bind, stamp, CallFails, Finish
  <2> QED
    BY <2>1, RefusedIsAuthentic
<1>2. CASE UNCHANGED accepted
  BY <1>2 DEF AcceptedIsAuthentic, Chained, verify_fast_only, check_binding_fields, verify_with
<1>3. CASE resolve_peer \/ ResolveRecord \/ (\E f \in Foretises : execute_stamp(f))
  <2>1. accepted' = Refused \/ UNCHANGED accepted
    BY <1>3 DEF resolve_peer, ResolveRecord, execute_stamp, Finish
  <2> QED
    BY <2>1, <1>2, RefusedIsAuthentic
<1>4. ASSUME NEW rs \in Slices, execute_calendar_slice(rs) \/ execute_tick(rs)
      PROVE  AcceptedIsAuthentic'
  <2>1. rs \in Seq(Records)
    BY SlicesAreSequences
  <2>2. \/ accepted' = Refused
        \/ gate_chronon_records(rs) /\ accepted' = [kind |-> "slice", records |-> rs]
        \/ gate_chronon_records(rs) /\ rs # << >>
           /\ accepted' = [kind |-> "slice", records |-> <<Head(rs)>>]
    BY <1>4 DEF execute_calendar_slice, execute_tick, Finish
  <2> QED
    BY <2>1, <2>2, RefusedIsAuthentic, GateChains, HeadChained, SliceIsAuthentic
<1>5. CASE UNCHANGED gateVars
  BY <1>2, <1>5 DEF gateVars
<1> QED
  BY <1>1, <1>3, <1>4, <1>5, StampIsAuthentic, BindingIsAuthentic DEF GateNext

\* Whatever peers answer to the calls of a request, a line returns only
\* records chained to the target's genesis, stamps over the content that was
\* sent, signed with a returned record's key, and the target's own binding.
THEOREM LineReturnsAuthentic == GateSpec => []AcceptedIsAuthentic
<1>1. GateInit => AcceptedIsAuthentic
  BY DEF GateInit, AcceptedIsAuthentic, Refused
<1>2. AcceptedIsAuthentic /\ [GateNext]_gateVars => AcceptedIsAuthentic'
  BY GateStep
<1> QED
  BY <1>1, <1>2, PTL DEF GateSpec

-----------------------------------------------------------------------------
(* Active mirroring                                                          *)

Pcs == {"idle", "find", "known", "announce", "accepted", "enrolled", "dump", "send", "chunk",
        "complete", "probe", "expire", "forget", "refill"}
Jobs == [mirror : Peers \cup {NoPeer}, candidates : SUBSET Peers, next : Nat, total : Nat, intact : BOOLEAN]
Tasks == [kind : Kinds, mirror : Peers \cup {NoPeer}]
RequestType ==
  [owner : Workers \cup {NoWorker}, mirror : Peers, first : Nat, last : Nat, verified : BOOLEAN]

Dumping == {"enrolled", "dump", "send", "chunk", "complete"}
WithPeer == Dumping \cup {"accepted", "probe", "expire", "forget", "refill"}

\* How much of the calendar a peer holds.
Held(p) == Cardinality(store[p])

\* A task for a peer: it is asked to expire only after enough failures in a row,
\* and a dump goes only to a peer that enrolled.
TaskOK(t) ==
  /\ t.kind # "FindNewMirror" => t.mirror \in Peers
  /\ t.kind = "ExpireMirror" => streak[t.mirror] >= MaxHealthFailures
  /\ t.kind = "InitiateDump" => owed[t.mirror] # Never
QueueOK == \A i \in DOMAIN queue : TaskOK(queue[i])

\* A worker at `s` with locals `j`: a dump under way covers what its mirror is
\* owed, and what it has got acknowledged is there unless the peer restarted.
WorkerOK(s, j) ==
  /\ s \in WithPeer => j.mirror \in Peers
  /\ s = "expire" => streak[j.mirror] >= MaxHealthFailures
  /\ s \in Dumping => owed[j.mirror] # Never
  /\ s \in {"send", "chunk", "complete"} => /\ 1 <= j.next /\ j.next <= j.total /\ j.total <= ticks
                                            /\ owed[j.mirror] <= j.total
  /\ s \in {"send", "chunk"} /\ j.intact => j.next <= Held(j.mirror) + 1
  /\ s = "complete" /\ j.intact => j.total <= Held(j.mirror)
  /\ faults = 0 => j.intact
WorkersOK == \A w \in Workers : WorkerOK(pc[w], job[w])

CountersOK ==
  /\ ticks <= MaxTicks
  /\ \A p \in Peers : /\ health_failures[p] <= run[p] /\ run[p] <= streak[p]
                      /\ owed[p] = Never \/ owed[p] <= ticks
                      /\ p \in mirrors => owed[p] # Never

\* A record that passed its check still fits when it is inserted; a worker has
\* one request at a time.
RequestOK(r) ==
  /\ 1 <= r.first /\ r.first <= r.last /\ r.last <= ticks
  /\ r.verified => r.first <= Held(r.mirror) + 1
  /\ ~r.verified => r.first = r.last
  /\ r.owner \in Workers => /\ pc[r.owner] = "chunk" /\ job[r.owner].mirror = r.mirror
                            /\ job[r.owner].next = r.first /\ r.first = r.last
  /\ faults = 0 /\ clients = 0 => r.owner \in Workers
RequestsOK ==
  /\ \A r \in requests : RequestOK(r)
  /\ \A r, q \in requests : r.owner = q.owner /\ r.owner \in Workers => r = q

StoreOK ==
  \A p \in Peers : /\ Held(p) \in Nat /\ store[p] = 1..Held(p)
                   /\ Held(p) <= ticks /\ promised[p] <= Held(p)

MirrorInv == TypeOK /\ QueueOK /\ WorkersOK /\ CountersOK /\ RequestsOK /\ StoreOK

\* The workers that found too few mirrors and have not enrolled one since.
Searching == {w \in Workers : pc[w] \in {"known", "announce", "accepted"}}
SearchOK == Cardinality(mirrors) + Cardinality(Searching) <= TargetMirrors + Cardinality(Workers) - 1

\* Without faults and other senders: while a peer lacks records it is owed, the
\* dump that sends the next one is under way; it cannot be refused.
Leads(p) ==
  \E w \in Workers : /\ pc[w] \in {"send", "chunk"} /\ job[w].mirror = p
                     /\ job[w].next = Held(p) + 1
Served(p) ==
  \/ owed[p] = Never /\ Held(p) = 0
  \/ owed[p] # Never /\ owed[p] <= Held(p)
  \/ Held(p) = 0 /\ DumpPending(p)
  \/ Leads(p)
OwedOK == faults = 0 /\ clients = 0 => \A p \in Peers : Served(p)

-----------------------------------------------------------------------------
(* What a peer holds *)

LEMMA PrefixCounts ==
  ASSUME NEW n \in Nat
  PROVE  IsFiniteSet(1..n) /\ Cardinality(1..n) = n
BY FS_Interval, SMT

\* The newest record of a gap-free store is its last.
LEMMA LatestIsHeld ==
  ASSUME StoreOK, NEW p \in Peers
  PROVE  Latest(p) = Held(p)
<1>1. Held(p) \in Nat /\ store[p] = 1..Held(p)
  BY DEF StoreOK
<1> DEFINE h == Held(p)
<1>2. h \in store[p] \cup {0} /\ \A m \in store[p] : m <= h
  BY <1>1
<1>3. \A n \in store[p] \cup {0} : (\A m \in store[p] : m <= n) => n = h
  BY <1>1
<1> HIDE DEF h
<1>4. Latest(p) = h
  BY <1>2, <1>3 DEF Latest
<1> QED
  BY <1>4 DEF h

LEMMA NeverIsLater == ASSUME TypeOK, CountersOK PROVE Never \in Nat /\ ticks < Never
BY BoundAssumption DEF Never, TypeOK, CountersOK

-----------------------------------------------------------------------------
(* Steps of a worker *)

\* The task channel: a task is taken off its head or put at its end.
QueueGoes ==
  \/ queue' = queue
  \/ queue # << >> /\ queue' = Tail(queue)
  \/ \E t \in Tasks : TaskOK(t)' /\ queue' = Append(queue, t)

LEMMA QueueKeeps ==
  ASSUME queue \in Seq(Tasks), QueueOK, QueueGoes,
         \A p \in Peers : streak[p] \in Nat /\ streak'[p] \in Nat /\ streak'[p] >= streak[p] /\ (owed[p] # Never => owed'[p] = owed[p])
  PROVE  queue' \in Seq(Tasks) /\ QueueOK'
<1>1. MaxHealthFailures \in Nat
  BY TargetAssumption
<1>2. \A i \in DOMAIN queue : queue[i] \in Tasks /\ TaskOK(queue[i])
  BY DEF QueueOK
<1>3. ASSUME NEW t \in Tasks, TaskOK(t) PROVE TaskOK(t)'
  BY <1>1, <1>3 DEF TaskOK, Never, Tasks, Kinds
<1>4. CASE queue' = queue
  <2> SUFFICES ASSUME NEW i \in DOMAIN queue' PROVE TaskOK(queue[i])'
    BY <1>4 DEF QueueOK
  <2>1. PICK t \in Tasks : t = queue[i] /\ TaskOK(t)
    BY <1>2, <1>4
  <2> QED
    BY <1>3, <1>4, <2>1 DEF TaskOK
<1>5. CASE queue # << >> /\ queue' = Tail(queue)
  <2>1. queue' \in Seq(Tasks) /\ \A i \in DOMAIN queue' : i + 1 \in DOMAIN queue /\ queue'[i] = queue[i + 1]
    BY <1>5
  <2> SUFFICES ASSUME NEW i \in DOMAIN queue' PROVE TaskOK(queue[i])'
    BY <2>1 DEF QueueOK
  <2>2. PICK t \in Tasks : t = queue'[i] /\ TaskOK(t)
    BY <1>2, <2>1
  <2> QED
    BY <1>3, <2>2 DEF TaskOK
<1>6. ASSUME NEW u \in Tasks, TaskOK(u)', queue' = Append(queue, u) PROVE queue' \in Seq(Tasks) /\ QueueOK'
  <2>1. queue' \in Seq(Tasks) /\ \A i \in DOMAIN queue' : queue'[i] = u \/ (i \in DOMAIN queue /\ queue'[i] = queue[i])
    BY <1>6
  <2> SUFFICES ASSUME NEW i \in DOMAIN queue' PROVE TaskOK(queue[i])'
    BY <2>1 DEF QueueOK
  <2>2. PICK t \in Tasks : t = queue'[i] /\ (t = u \/ TaskOK(t))
    BY <1>2, <2>1
  <2> QED
    BY <1>3, <1>6, <2>2 DEF TaskOK
<1> QED
  BY <1>4, <1>5, <1>6 DEF QueueGoes

LEMMA TypeParts ==
  ASSUME TypeOK
  PROVE  /\ queue \in Seq(Tasks) /\ mirrors \subseteq Peers /\ health_failures \in [Peers -> Nat] /\ ticks \in Nat
         /\ pc \in [Workers -> Pcs] /\ job \in [Workers -> Jobs] /\ requests \subseteq RequestType
         /\ store \in [Peers -> SUBSET Nat] /\ posted \in Nat /\ clients \in Nat /\ faults \in Nat
         /\ promised \in [Peers -> Nat] /\ owed \in [Peers -> Nat] /\ streak \in [Peers -> Nat] /\ run \in [Peers -> Nat]
BY DEF TypeOK, Tasks, Pcs, Jobs, RequestType

\* Longer streaks, a first enrolment, a longer calendar and fuller stores leave
\* a worker's state as good as it was.
LEMMA WorkerStays ==
  ASSUME NEW s \in Pcs, NEW j \in Jobs, WorkerOK(s, j),
         ticks \in Nat, ticks' \in Nat, ticks <= ticks', faults \in Nat, faults' \in Nat, faults' = 0 => faults = 0,
         \A p \in Peers : /\ streak[p] \in Nat /\ streak'[p] \in Nat /\ streak'[p] >= streak[p]
                          /\ owed[p] # Never => owed'[p] = owed[p]
                          /\ Held(p) \in Nat /\ Held(p)' \in Nat
                          /\ s \in {"send", "chunk", "complete"} /\ j.mirror = p /\ j.intact => Held(p) <= Held(p)'
  PROVE  WorkerOK(s, j)'
<1>1. MaxHealthFailures \in Nat
  BY TargetAssumption
<1>2. j.next \in Nat /\ j.total \in Nat
  BY DEF Jobs
<1>3. CASE s \notin WithPeer
  BY <1>3 DEF WorkerOK, WithPeer, Dumping
<1>4. CASE s \in WithPeer
  <2>1. PICK p \in Peers : p = j.mirror
    BY <1>4 DEF WorkerOK
  <2>2. s = "expire" => streak'[p] >= MaxHealthFailures
    BY <1>1, <2>1 DEF WorkerOK
  <2>3. s \in Dumping => owed'[p] = owed[p] /\ owed'[p] # Never
    BY <2>1 DEF WorkerOK
  <2>4. s \in {"send", "chunk", "complete"} =>
          1 <= j.next /\ j.next <= j.total /\ j.total <= ticks' /\ owed'[p] <= j.total
    BY <1>2, <2>1, <2>3 DEF WorkerOK, Dumping
  <2>5. s \in {"send", "chunk"} /\ j.intact => j.next <= Held(p)' + 1
    BY <1>2, <2>1 DEF WorkerOK
  <2>6. s = "complete" /\ j.intact => j.total <= Held(p)'
    BY <1>2, <2>1 DEF WorkerOK
  <2>7. faults' = 0 => j.intact
    BY DEF WorkerOK
  <2> QED
    BY <2>1, <2>2, <2>3, <2>4, <2>5, <2>6, <2>7 DEF WorkerOK, Never, Held
<1> QED
  BY <1>3, <1>4

\* A step of one worker that has no request out, before or after.
LEMMA WorkerKeeps ==
  ASSUME MirrorInv, NEW w \in Workers, NEW s \in Pcs, NEW j \in Jobs,
         pc[w] # "chunk", s # "chunk",
         pc' = [pc EXCEPT ![w] = s], job' = [job EXCEPT ![w] = j],
         UNCHANGED <<ticks, requests, store, clients, posted>>, faults' \in Nat, faults' = 0 => faults = 0,
         mirrors' \subseteq Peers, health_failures' \in [Peers -> Nat], run' \in [Peers -> Nat],
         streak' \in [Peers -> Nat], owed' \in [Peers -> Nat], promised' \in [Peers -> Nat],
         CountersOK', \A p \in Peers : promised'[p] <= Held(p),
         \A p \in Peers : streak'[p] >= streak[p] /\ (owed[p] # Never => owed'[p] = owed[p]),
         QueueGoes, WorkerOK(s, j)'
  PROVE  MirrorInv'
<1> USE DEF MirrorInv
<1>1. /\ queue \in Seq(Tasks) /\ pc \in [Workers -> Pcs] /\ job \in [Workers -> Jobs] /\ streak \in [Peers -> Nat]
      /\ requests \subseteq RequestType /\ faults \in Nat /\ MaxHealthFailures \in Nat
  BY TypeParts, TargetAssumption
<1>2. queue' \in Seq(Tasks) /\ QueueOK'
  BY <1>1, QueueKeeps
<1>3. /\ pc' \in [Workers -> Pcs] /\ job' \in [Workers -> Jobs] /\ pc'[w] = s /\ job'[w] = j
      /\ \A v \in Workers : v # w => pc'[v] = pc[v] /\ job'[v] = job[v]
  BY <1>1
<1>4. TypeOK'
  BY <1>2, <1>3 DEF TypeOK, Tasks, Pcs, Jobs
<1>5. ASSUME NEW v \in Workers, v # w PROVE WorkerOK(pc[v], job[v])'
  <2>1. PICK s0 \in Pcs, j0 \in Jobs : s0 = pc[v] /\ j0 = job[v]
    BY <1>1
  <2>2. WorkerOK(s0, j0)
    BY <2>1 DEF WorkersOK
  <2>3. pc'[v] = s0 /\ job'[v] = j0
    BY <1>3, <1>5, <2>1
  <2>4. ticks \in Nat /\ \A p \in Peers : Held(p) \in Nat /\ Held(p)' = Held(p)
    BY TypeParts DEF StoreOK, Held
  <2>5. WorkerOK(s0, j0)'
    BY <1>1, <2>2, <2>4, WorkerStays
  <2> QED
    BY <2>3, <2>5
<1>6. WorkersOK'
  BY <1>3, <1>5 DEF WorkersOK
<1>7. ASSUME NEW r \in requests PROVE RequestOK(r)' /\ (r.owner \in Workers => r.owner # w)
  <2>1. RequestOK(r)
    BY DEF RequestsOK
  <2>2. r.owner \in Workers => r.owner # w
    BY <2>1 DEF RequestOK
  <2> QED
    BY <1>3, <2>1, <2>2 DEF RequestOK, Held
<1>8. RequestsOK'
  BY <1>7 DEF RequestsOK
<1>9. StoreOK'
  BY DEF StoreOK, Held
<1> QED
  BY <1>2, <1>4, <1>6, <1>8, <1>9

LEMMA NoJobIsJob == NoJob \in Jobs /\ NoJob.intact = TRUE
BY DEF NoJob, Jobs

\* A step of one worker that leaves the counters alone and enrols nobody.
LEMMA QuietWorkerKeeps ==
  ASSUME MirrorInv, NEW w \in Workers, NEW s \in Pcs, NEW j \in Jobs,
         pc[w] # "chunk", s # "chunk",
         pc' = [pc EXCEPT ![w] = s], job' = [job EXCEPT ![w] = j],
         UNCHANGED <<health_failures, ticks, peer, posted, clients, history>>,
         mirrors' \subseteq mirrors, faults' \in Nat, faults' = 0 => faults = 0,
         QueueGoes, WorkerOK(s, j)'
  PROVE  MirrorInv'
<1>1. UNCHANGED <<requests, store, promised, owed, streak, run>>
  BY DEF peer, history
<1>2. /\ mirrors \subseteq Peers /\ health_failures \in [Peers -> Nat] /\ run \in [Peers -> Nat]
      /\ streak \in [Peers -> Nat] /\ owed \in [Peers -> Nat] /\ promised \in [Peers -> Nat]
  BY TypeParts DEF MirrorInv
<1>3. CountersOK'
  BY <1>1 DEF MirrorInv, CountersOK, Never
<1>4. \A p \in Peers : streak'[p] >= streak[p] /\ promised'[p] <= Held(p)
  BY <1>1, <1>2 DEF MirrorInv, StoreOK
<1> QED
  BY <1>1, <1>2, <1>3, <1>4, WorkerKeeps

\* A worker that is neither dumping nor at a peer's task needs nothing more.
LEMMA FreeWorker ==
  ASSUME NEW s \in {"idle", "find", "known", "announce"}, NEW j \in Jobs, faults = 0 => j.intact
  PROVE  WorkerOK(s, j)
BY DEF WorkerOK, WithPeer, Dumping

LEMMA HandleTaskStart ==
  ASSUME NEW k \in Kinds
  PROVE  /\ handle_task[k] \in {"find", "dump", "idle", "probe", "expire"}
         /\ handle_task[k] = "find" <=> k = "FindNewMirror"
         /\ handle_task[k] = "dump" <=> k = "InitiateDump"
         /\ handle_task[k] = "expire" <=> k = "ExpireMirror"
BY DEF Kinds, handle_task

LEMMA TakeTaskKeeps ==
  ASSUME MirrorInv, NEW w \in Workers, TakeTask(w)
  PROVE  MirrorInv'
<1>1. queue # << >> /\ queue \in Seq(Tasks) /\ faults \in Nat /\ pc \in [Workers -> Pcs]
  BY TypeParts DEF MirrorInv, TakeTask
<1>2. PICK t \in Tasks : t = Head(queue) /\ TaskOK(t)
  <2>1. 1 \in DOMAIN queue /\ Head(queue) = queue[1] /\ Head(queue) \in Tasks
    BY <1>1
  <2> QED
    BY <2>1 DEF MirrorInv, QueueOK
<1>3. t.kind \in Kinds /\ t.mirror \in Peers \cup {NoPeer}
  BY DEF Tasks
<1> DEFINE s == handle_task[t.kind]
           j == [NoJob EXCEPT !.mirror = IF s = "idle" THEN NoPeer ELSE t.mirror]
<1>4. s \in {"find", "dump", "idle", "probe", "expire"}
  BY <1>3, HandleTaskStart
<1>5. /\ pc[w] = "idle" /\ pc' = [pc EXCEPT ![w] = s] /\ pc'[w] = s /\ queue' = Tail(queue)
      /\ UNCHANGED <<mirrors, health_failures, ticks, peer, bounds, history>>
  BY <1>1, <1>2 DEF TakeTask, Goto
<1>6. job' = [job EXCEPT ![w] = j]
  BY <1>2, <1>5 DEF TakeTask
<1>7. j \in Jobs /\ j.intact = TRUE /\ j.mirror = IF s = "idle" THEN NoPeer ELSE t.mirror
  BY <1>3 DEF NoJob, Jobs
<1>8. WorkerOK(s, j)
  <2>1. s # "idle" /\ s # "find" => t.mirror \in Peers
    BY <1>2, <1>3, HandleTaskStart DEF TaskOK
  <2>2. s = "expire" => streak[t.mirror] >= MaxHealthFailures
    BY <1>2, <1>3, HandleTaskStart DEF TaskOK
  <2>3. s = "dump" => owed[t.mirror] # Never
    BY <1>2, <1>3, HandleTaskStart DEF TaskOK
  <2> HIDE DEF s, j
  <2> QED
    BY <1>4, <1>7, <2>1, <2>2, <2>3 DEF WorkerOK, WithPeer, Dumping
<1> HIDE DEF s, j
<1>9. WorkerOK(s, j)'
  BY <1>4, <1>5, <1>8 DEF WorkerOK, Never, bounds, history, s, j
<1>10. QueueGoes /\ s \in Pcs /\ s # "chunk"
  BY <1>1, <1>4, <1>5 DEF QueueGoes, Pcs
<1>11. UNCHANGED <<posted, clients, faults>>
  BY <1>5 DEF bounds
<1> QED
  BY <1>1, <1>5, <1>6, <1>7, <1>9, <1>10, <1>11, QuietWorkerKeeps

\* A worker's locals: one field is changed.
LEMMA JobOf ==
  ASSUME MirrorInv, NEW w \in Workers
  PROVE  /\ pc[w] \in Pcs /\ job[w] \in Jobs /\ WorkerOK(pc[w], job[w]) /\ faults \in Nat
         /\ job = [job EXCEPT ![w] = job[w]]
         /\ [job[w] EXCEPT !.mirror = NoPeer] \in Jobs /\ [job[w] EXCEPT !.mirror = NoPeer].intact = job[w].intact
<1>1. pc \in [Workers -> Pcs] /\ job \in [Workers -> Jobs] /\ faults \in Nat
  BY TypeParts DEF MirrorInv
<1>2. job[w] \in Jobs
  BY <1>1
<1> QED
  BY <1>1, <1>2 DEF MirrorInv, WorkersOK, Jobs

\* FindNewMirror up to the enrolment, and the end of a task.
LEMMA SearchKeeps ==
  ASSUME MirrorInv, NEW w \in Workers,
         \/ CheckTarget(w) \/ CandidatesExhausted(w)
         \/ \E known \in SUBSET Peers : SnapshotCandidates(w, known)
         \/ \E p \in Peers : AnnounceDeclined(w, p)
  PROVE  MirrorInv'
<1>1. /\ pc[w] \in Pcs /\ job[w] \in Jobs /\ WorkerOK(pc[w], job[w]) /\ faults \in Nat
      /\ job = [job EXCEPT ![w] = job[w]] /\ pc \in [Workers -> Pcs] /\ mirrors \subseteq Peers
  BY JobOf, TypeParts DEF MirrorInv
<1>2. UNCHANGED <<queue, mirrors, health_failures, ticks, peer, posted, clients, faults, history>>
  BY DEF CheckTarget, CandidatesExhausted, SnapshotCandidates, AnnounceDeclined, source, bounds
<1>3. /\ pc[w] \in {"find", "known", "announce"}
      /\ \E s \in {"idle", "known", "announce"}, j \in Jobs :
           pc' = [pc EXCEPT ![w] = s] /\ job' = [job EXCEPT ![w] = j] /\ (faults = 0 => j.intact)
  <2>1. CASE CheckTarget(w)
    BY <1>1, <2>1 DEF CheckTarget, Goto, WorkerOK
  <2>2. CASE CandidatesExhausted(w)
    BY <2>2, NoJobIsJob DEF CandidatesExhausted, Done
  <2>3. ASSUME NEW known \in SUBSET Peers, SnapshotCandidates(w, known)
        PROVE  /\ pc[w] = "known" /\ pc' = [pc EXCEPT ![w] = "announce"]
               /\ \E j \in Jobs : job' = [job EXCEPT ![w] = j] /\ (faults = 0 => j.intact)
    <3> DEFINE j == [job[w] EXCEPT !.candidates = known \ mirrors]
    <3>1. j \in Jobs /\ j.intact = job[w].intact
      BY <1>1 DEF Jobs
    <3>2. job' = [job EXCEPT ![w] = j] /\ pc[w] = "known" /\ pc' = [pc EXCEPT ![w] = "announce"]
      BY <2>3 DEF SnapshotCandidates, Goto
    <3> HIDE DEF j
    <3> QED
      BY <1>1, <3>1, <3>2 DEF WorkerOK
  <2>4. ASSUME NEW p \in Peers, AnnounceDeclined(w, p)
        PROVE  /\ pc[w] = "announce" /\ pc' = [pc EXCEPT ![w] = "announce"]
               /\ \E j \in Jobs : job' = [job EXCEPT ![w] = j] /\ (faults = 0 => j.intact)
    <3> DEFINE j == [job[w] EXCEPT !.candidates = job[w].candidates \ {p}]
    <3>1. j \in Jobs /\ j.intact = job[w].intact
      BY <1>1 DEF Jobs
    <3>2. job' = [job EXCEPT ![w] = j] /\ pc[w] = "announce" /\ pc' = [pc EXCEPT ![w] = "announce"]
      BY <1>1, <2>4 DEF AnnounceDeclined
    <3> HIDE DEF j
    <3> QED
      BY <1>1, <3>1, <3>2 DEF WorkerOK
  <2> QED
    BY <2>1, <2>2, <2>3, <2>4
<1>4. PICK s \in {"idle", "known", "announce"}, j \in Jobs :
        pc' = [pc EXCEPT ![w] = s] /\ job' = [job EXCEPT ![w] = j] /\ (faults = 0 => j.intact)
  BY <1>3
<1>5. s \in Pcs /\ s # "chunk" /\ pc[w] # "chunk" /\ WorkerOK(s, j)
  BY <1>3, <1>4, FreeWorker DEF Pcs
<1>6. WorkerOK(s, j)' /\ QueueGoes /\ mirrors' \subseteq mirrors
  BY <1>2, <1>4 DEF WorkerOK, WithPeer, Dumping, QueueGoes
<1> QED
  BY <1>1, <1>2, <1>4, <1>5, <1>6, QuietWorkerKeeps

\* The peer said yes, and is enrolled.
LEMMA AcceptedKeeps ==
  ASSUME MirrorInv, NEW w \in Workers, NEW p \in Peers, AnnounceAccepted(w, p)
  PROVE  MirrorInv'
<1>1. /\ pc[w] \in Pcs /\ job[w] \in Jobs /\ WorkerOK(pc[w], job[w]) /\ faults \in Nat
  BY JobOf
<1>2. UNCHANGED <<queue, mirrors, health_failures, ticks, peer, posted, clients, faults, history>>
  BY DEF AnnounceAccepted, source, bounds
<1> DEFINE j == [job[w] EXCEPT !.candidates = job[w].candidates \ {p}, !.mirror = p]
<1>3. j \in Jobs /\ j.intact = job[w].intact /\ j.mirror = p
  BY <1>1 DEF Jobs
<1>4. job' = [job EXCEPT ![w] = j] /\ pc[w] = "announce" /\ pc' = [pc EXCEPT ![w] = "accepted"]
  BY <1>1 DEF AnnounceAccepted, Goto
<1>5. PICK j0 \in Jobs : j0 = j
  BY <1>3
<1> HIDE DEF j
<1>6. "accepted" \in Pcs /\ WorkerOK("accepted", j0)'
  BY <1>1, <1>2, <1>3, <1>5 DEF WorkerOK, WithPeer, Dumping, Pcs
<1>7. QueueGoes
  BY <1>2 DEF QueueGoes
<1> QED
  BY <1>1, <1>2, <1>4, <1>5, <1>6, <1>7, QuietWorkerKeeps

LEMMA EnrolKeeps ==
  ASSUME MirrorInv, NEW w \in Workers, Enrol(w)
  PROVE  MirrorInv'
<1>1. /\ pc[w] = "accepted" /\ job[w] \in Jobs /\ WorkerOK(pc[w], job[w]) /\ faults \in Nat
      /\ job = [job EXCEPT ![w] = job[w]]
  BY JobOf DEF Enrol, Goto
<1>2. PICK p \in Peers, j \in Jobs : p = j.mirror /\ j = job[w]
  BY <1>1 DEF WorkerOK, WithPeer
<1>3. /\ pc' = [pc EXCEPT ![w] = "enrolled"] /\ mirrors' = mirrors \cup {p} /\ job' = [job EXCEPT ![w] = j]
      /\ owed' = [owed EXCEPT ![p] = IF owed[p] = Never THEN ticks ELSE owed[p]]
      /\ UNCHANGED <<queue, health_failures, ticks, requests, store, clients, posted, faults, promised, streak, run>>
  BY <1>1, <1>2 DEF Enrol, Goto, peer, bounds
<1>4. /\ mirrors \subseteq Peers /\ health_failures \in [Peers -> Nat] /\ run \in [Peers -> Nat]
      /\ streak \in [Peers -> Nat] /\ owed \in [Peers -> Nat] /\ promised \in [Peers -> Nat] /\ ticks \in Nat
  BY TypeParts DEF MirrorInv
<1>5. Never \in Nat /\ ticks < Never
  BY NeverIsLater DEF MirrorInv
<1>6. /\ owed' \in [Peers -> Nat] /\ owed'[p] # Never /\ (owed[p] # Never => owed'[p] = owed[p])
      /\ (owed'[p] = ticks \/ owed'[p] = owed[p])
      /\ \A q \in Peers : q # p => owed'[q] = owed[q]
  BY <1>3, <1>4, <1>5
<1>7. CountersOK'
  BY <1>3, <1>4, <1>5, <1>6 DEF MirrorInv, CountersOK, Never
<1>8. WorkerOK("enrolled", j)'
  BY <1>1, <1>2, <1>3, <1>6 DEF WorkerOK, WithPeer, Dumping, Never
<1>9. QueueGoes /\ "enrolled" \in Pcs /\ mirrors' \subseteq Peers
  BY <1>3, <1>4 DEF QueueGoes, Pcs
<1>10. \A q \in Peers : promised'[q] <= Held(q) /\ streak'[q] >= streak[q] /\ (owed[q] # Never => owed'[q] = owed[q])
  BY <1>3, <1>4, <1>6 DEF MirrorInv, StoreOK
<1> QED
  BY <1>1, <1>3, <1>4, <1>6, <1>7, <1>8, <1>9, <1>10, WorkerKeeps

\* The dump is queued for a peer that has enrolled.
LEMMA EnqueueDumpKeeps ==
  ASSUME MirrorInv, NEW w \in Workers, EnqueueDump(w)
  PROVE  MirrorInv'
<1>1. /\ pc[w] = "enrolled" /\ job[w] \in Jobs /\ WorkerOK(pc[w], job[w]) /\ faults \in Nat /\ pc \in [Workers -> Pcs]
  BY JobOf, TypeParts DEF EnqueueDump, Goto, MirrorInv
<1>2. PICK p \in Peers : p = job[w].mirror /\ owed[p] # Never
  BY <1>1 DEF WorkerOK, WithPeer, Dumping
<1>3. UNCHANGED <<mirrors, health_failures, ticks, peer, posted, clients, faults, history>>
  BY DEF EnqueueDump, bounds
<1>4. PICK s \in {"idle", "announce"} : pc' = [pc EXCEPT ![w] = s] /\ pc'[w] = s
  BY <1>1 DEF EnqueueDump, Goto
<1>5. PICK j \in Jobs : job' = [job EXCEPT ![w] = j] /\ (faults = 0 => j.intact)
  <2>1. CASE s = "idle"
    BY <1>4, <2>1, NoJobIsJob DEF EnqueueDump
  <2>2. CASE s = "announce"
    <3>1. job' = [job EXCEPT ![w] = [job[w] EXCEPT !.mirror = NoPeer]]
      BY <1>4, <2>2 DEF EnqueueDump
    <3> QED
      BY <1>1, <3>1, JobOf DEF WorkerOK
  <2> QED
    BY <2>1, <2>2
<1>6. QueueGoes
  <2>1. Task("InitiateDump", p) \in Tasks /\ Task("InitiateDump", p).kind = "InitiateDump" /\ Task("InitiateDump", p).mirror = p
    BY DEF Task, Tasks, Kinds
  <2>2. PICK t \in Tasks : t = Task("InitiateDump", p)
    BY <2>1
  <2>3. queue' = Append(queue, t)
    BY <1>2, <2>2 DEF EnqueueDump
  <2>4. TaskOK(t)'
    BY <1>2, <1>3, <2>1, <2>2 DEF TaskOK, Never, history
  <2> QED
    BY <2>3, <2>4 DEF QueueGoes
<1>7. s \in Pcs /\ WorkerOK(s, j)'
  BY <1>3, <1>5 DEF WorkerOK, WithPeer, Dumping, Pcs
<1> QED
  BY <1>1, <1>3, <1>4, <1>5, <1>6, <1>7, QuietWorkerKeeps

\* The dump copies the calendar: it covers at least what the mirror is owed.
LEMMA SnapshotCalendarKeeps ==
  ASSUME MirrorInv, NEW w \in Workers, SnapshotCalendar(w)
  PROVE  MirrorInv'
<1>1. /\ pc[w] = "dump" /\ job[w] \in Jobs /\ WorkerOK(pc[w], job[w]) /\ faults \in Nat /\ ticks \in Nat
  BY JobOf, TypeParts DEF SnapshotCalendar, MirrorInv
<1>2. UNCHANGED <<queue, mirrors, health_failures, ticks, peer, posted, clients, faults, history>>
  BY DEF SnapshotCalendar, source, bounds
<1>3. QueueGoes /\ mirrors' \subseteq mirrors /\ "idle" \in Pcs /\ "send" \in Pcs
  BY <1>2 DEF QueueGoes, Pcs
<1>4. CASE ticks = 0
  <2>1. pc' = [pc EXCEPT ![w] = "idle"] /\ job' = [job EXCEPT ![w] = NoJob]
    BY <1>4 DEF SnapshotCalendar, Done
  <2>2. WorkerOK("idle", NoJob)'
    BY NoJobIsJob DEF WorkerOK, WithPeer, Dumping
  <2> QED
    BY <1>1, <1>2, <1>3, <2>1, <2>2, NoJobIsJob, QuietWorkerKeeps
<1>5. CASE ticks # 0
  <2> DEFINE j == [job[w] EXCEPT !.total = ticks, !.next = 1]
  <2>1. pc' = [pc EXCEPT ![w] = "send"] /\ job' = [job EXCEPT ![w] = j]
    BY <1>5 DEF SnapshotCalendar
  <2>2. j \in Jobs /\ j.intact = job[w].intact /\ j.mirror = job[w].mirror /\ j.total = ticks /\ j.next = 1
    BY <1>1 DEF Jobs
  <2> HIDE DEF j
  <2>3. PICK j0 \in Jobs, p \in Peers : j0 = j /\ p = j0.mirror /\ owed[p] # Never
    BY <1>1, <2>2 DEF WorkerOK, WithPeer, Dumping
  <2>4. owed[p] <= ticks /\ Held(p) \in Nat /\ Held(p)' = Held(p)
    BY <1>2, <2>3 DEF MirrorInv, CountersOK, StoreOK, Held, peer
  <2>5. j0.intact = job[w].intact /\ j0.total = ticks /\ j0.next = 1 /\ (faults = 0 => j0.intact)
    BY <1>1, <2>2, <2>3 DEF WorkerOK
  <2>6. ticks' = ticks /\ owed' = owed /\ faults' = faults
    BY <1>2 DEF history
  <2>7. WorkerOK("send", j0)'
    BY <1>1, <1>5, <2>3, <2>4, <2>5, <2>6 DEF WorkerOK, WithPeer, Dumping, Never, Held
  <2> QED
    BY <1>1, <1>2, <1>3, <2>1, <2>3, <2>7, QuietWorkerKeeps
<1> QED
  BY <1>4, <1>5

\* A task ends without anything but, perhaps, a new task and a lost answer.
LEMMA TaskEndsKeeps ==
  ASSUME MirrorInv, NEW w \in Workers, pc[w] # "chunk", Done(w), QueueGoes,
         UNCHANGED <<health_failures, ticks, peer, posted, clients, history>>,
         mirrors' \subseteq mirrors, faults' \in Nat, faults' = 0 => faults = 0
  PROVE  MirrorInv'
<1>1. pc' = [pc EXCEPT ![w] = "idle"] /\ job' = [job EXCEPT ![w] = NoJob] /\ "idle" \in Pcs
  BY DEF Done, Pcs
<1>2. WorkerOK("idle", NoJob)'
  BY NoJobIsJob DEF WorkerOK, WithPeer, Dumping
<1> QED
  BY <1>1, <1>2, NoJobIsJob, QuietWorkerKeeps

LEMMA RefillKeeps ==
  ASSUME MirrorInv, NEW w \in Workers, Refill(w) \/ CompleteTimesOut(w)
  PROVE  MirrorInv'
<1>1. faults \in Nat
  BY TypeParts DEF MirrorInv
<1>2. CASE Refill(w)
  <2>1. Task("FindNewMirror", NoPeer) \in Tasks /\ Task("FindNewMirror", NoPeer).kind = "FindNewMirror"
    BY DEF Task, Tasks, Kinds
  <2>2. TaskOK(Task("FindNewMirror", NoPeer))'
    BY <2>1 DEF TaskOK
  <2>3. QueueGoes
    BY <1>2, <2>1, <2>2 DEF Refill, QueueGoes
  <2> QED
    BY <1>1, <1>2, <2>3, TaskEndsKeeps DEF Refill, bounds
<1>3. CASE CompleteTimesOut(w)
  <2>1. QueueGoes /\ faults' \in Nat /\ faults' # 0 /\ mirrors' \subseteq mirrors
    BY <1>1, <1>3 DEF CompleteTimesOut, QueueGoes, source
  <2> QED
    BY <1>3, <2>1, TaskEndsKeeps DEF CompleteTimesOut, source
<1> QED
  BY <1>2, <1>3

\* The end marker is answered: what is reported complete is there.
LEMMA DumpCompletesKeeps ==
  ASSUME MirrorInv, NEW w \in Workers, DumpCompletes(w)
  PROVE  MirrorInv'
<1>1. /\ pc[w] = "complete" /\ job[w] \in Jobs /\ WorkerOK(pc[w], job[w])
      /\ mirrors \subseteq Peers /\ health_failures \in [Peers -> Nat] /\ run \in [Peers -> Nat]
      /\ streak \in [Peers -> Nat] /\ owed \in [Peers -> Nat] /\ promised \in [Peers -> Nat] /\ faults \in Nat
  BY JobOf, TypeParts DEF DumpCompletes, MirrorInv
<1>2. PICK p \in Peers, n \in Nat : p = job[w].mirror /\ n = job[w].total /\ (job[w].intact => n <= Held(p))
  BY <1>1 DEF WorkerOK, WithPeer, Dumping, Jobs
<1>3. /\ pc' = [pc EXCEPT ![w] = "idle"] /\ job' = [job EXCEPT ![w] = NoJob]
      /\ queue' = Append(queue, Task("StartStream", p))
      /\ promised' = IF job[w].intact THEN [promised EXCEPT ![p] = Larger(promised[p], n)] ELSE promised
      /\ UNCHANGED <<mirrors, health_failures, ticks, requests, store, clients, posted, faults, owed, streak, run>>
  BY <1>2 DEF DumpCompletes, Done, peer, bounds
<1>4. QueueGoes
  <2>1. Task("StartStream", p) \in Tasks /\ Task("StartStream", p).kind = "StartStream" /\ Task("StartStream", p).mirror = p
    BY DEF Task, Tasks, Kinds
  <2>2. TaskOK(Task("StartStream", p))'
    BY <2>1 DEF TaskOK
  <2> QED
    BY <1>3, <2>1, <2>2 DEF QueueGoes
<1>5. promised' \in [Peers -> Nat] /\ \A q \in Peers : promised'[q] <= Held(q)
  <2>1. \A q \in Peers : promised[q] \in Nat /\ promised[q] <= Held(q)
    BY <1>1 DEF MirrorInv, StoreOK
  <2>2. CASE job[w].intact
    <3>1. Larger(promised[p], n) \in Nat /\ Larger(promised[p], n) <= Held(p)
      BY <1>2, <2>1, <2>2 DEF Larger
    <3> QED
      BY <1>1, <1>3, <2>1, <2>2, <3>1
  <2>3. CASE ~job[w].intact
    BY <1>1, <1>3, <2>1, <2>3
  <2> QED
    BY <2>2, <2>3
<1>6. WorkerOK("idle", NoJob)' /\ "idle" \in Pcs
  BY NoJobIsJob DEF WorkerOK, WithPeer, Dumping, Pcs
<1>7. CountersOK' /\ \A q \in Peers : streak'[q] >= streak[q]
  BY <1>1, <1>3 DEF MirrorInv, CountersOK, Never
<1> QED
  BY <1>1, <1>3, <1>4, <1>5, <1>6, <1>7, NoJobIsJob, WorkerKeeps

\* Probes and expiry: the failures counted since the last answer, or since the
\* mirror was last forgotten, are at most the run of them.
LEMMA ProbeKeeps ==
  ASSUME MirrorInv, NEW w \in Workers, ProbeAnswered(w) \/ ProbeFails(w)
  PROVE  MirrorInv'
<1>1. /\ pc[w] = "probe" /\ job[w] \in Jobs /\ WorkerOK(pc[w], job[w])
      /\ mirrors \subseteq Peers /\ health_failures \in [Peers -> Nat] /\ run \in [Peers -> Nat]
      /\ streak \in [Peers -> Nat] /\ owed \in [Peers -> Nat] /\ promised \in [Peers -> Nat] /\ faults \in Nat
  BY JobOf, TypeParts DEF ProbeAnswered, ProbeFails, MirrorInv
<1>2. PICK p \in Peers : p = job[w].mirror
  BY <1>1 DEF WorkerOK, WithPeer
<1>3. /\ pc' = [pc EXCEPT ![w] = "idle"] /\ job' = [job EXCEPT ![w] = NoJob]
      /\ UNCHANGED <<mirrors, ticks, requests, store, clients, posted, faults, owed, promised>>
  BY DEF ProbeAnswered, ProbeFails, Done, peer, bounds
<1>4. WorkerOK("idle", NoJob)' /\ "idle" \in Pcs
  BY NoJobIsJob DEF WorkerOK, WithPeer, Dumping, Pcs
<1>5. CASE ProbeAnswered(w)
  <2>1. /\ health_failures' = [health_failures EXCEPT ![p] = 0] /\ run' = [run EXCEPT ![p] = 0] /\ UNCHANGED <<queue, streak>>
    BY <1>2, <1>5 DEF ProbeAnswered
  <2>2. health_failures' \in [Peers -> Nat] /\ run' \in [Peers -> Nat] /\ QueueGoes
    BY <1>1, <2>1 DEF QueueGoes
  <2>3. CountersOK' /\ \A q \in Peers : streak'[q] >= streak[q]
    BY <1>1, <1>3, <2>1 DEF MirrorInv, CountersOK, Never
  <2>4. \A q \in Peers : promised'[q] <= Held(q)
    BY <1>3 DEF MirrorInv, StoreOK
  <2> QED
    BY <1>1, <1>3, <1>4, <2>1, <2>2, <2>3, <2>4, NoJobIsJob, WorkerKeeps
<1>6. CASE ProbeFails(w)
  <2>1. /\ health_failures' = [health_failures EXCEPT ![p] = health_failures[p] + 1]
        /\ run' = [run EXCEPT ![p] = run[p] + 1]
        /\ streak' = [streak EXCEPT ![p] = Larger(streak[p], run'[p])]
        /\ queue' = IF health_failures'[p] >= MaxHealthFailures THEN Append(queue, Task("ExpireMirror", p)) ELSE queue
    BY <1>2, <1>6 DEF ProbeFails
  <2>2. health_failures[p] \in Nat /\ run[p] \in Nat /\ streak[p] \in Nat /\ MaxHealthFailures \in Nat
        /\ health_failures[p] <= run[p]
    BY <1>1, TargetAssumption DEF MirrorInv, CountersOK
  <2>3. run'[p] = run[p] + 1 /\ health_failures'[p] = health_failures[p] + 1
    BY <1>1, <2>1
  <2>4. /\ Larger(streak[p], run'[p]) \in Nat /\ Larger(streak[p], run'[p]) >= streak[p]
        /\ Larger(streak[p], run'[p]) >= run'[p]
    BY <2>2, <2>3 DEF Larger
  <2>5. streak'[p] \in Nat /\ streak'[p] >= streak[p] /\ streak'[p] >= run'[p] /\ streak'[p] >= health_failures'[p]
    BY <1>1, <2>1, <2>2, <2>3, <2>4
  <2>6. /\ health_failures' \in [Peers -> Nat] /\ run' \in [Peers -> Nat] /\ streak' \in [Peers -> Nat]
        /\ \A q \in Peers : q # p => health_failures'[q] = health_failures[q] /\ run'[q] = run[q] /\ streak'[q] = streak[q]
    BY <1>1, <2>1, <2>2, <2>4
  <2>7. CountersOK' /\ \A q \in Peers : streak'[q] >= streak[q]
    BY <1>1, <1>3, <2>2, <2>3, <2>5, <2>6 DEF MirrorInv, CountersOK, Never
  <2>8. QueueGoes
    <3>1. Task("ExpireMirror", p) \in Tasks /\ Task("ExpireMirror", p).kind = "ExpireMirror" /\ Task("ExpireMirror", p).mirror = p
      BY DEF Task, Tasks, Kinds
    <3>2. CASE health_failures'[p] >= MaxHealthFailures
      <4>1. PICK t \in Tasks : t = Task("ExpireMirror", p)
        BY <3>1
      <4>2. streak'[p] >= MaxHealthFailures
        BY <2>2, <2>3, <2>5, <3>2
      <4>3. TaskOK(t)'
        BY <3>1, <4>1, <4>2 DEF TaskOK
      <4> QED
        BY <2>1, <3>2, <4>1, <4>3 DEF QueueGoes
    <3>3. CASE ~(health_failures'[p] >= MaxHealthFailures)
      BY <2>1, <3>3 DEF QueueGoes
    <3> QED
      BY <3>2, <3>3
  <2>9. \A q \in Peers : promised'[q] <= Held(q)
    BY <1>3 DEF MirrorInv, StoreOK
  <2> QED
    BY <1>1, <1>3, <1>4, <2>6, <2>7, <2>8, <2>9, NoJobIsJob, WorkerKeeps
<1> QED
  BY <1>5, <1>6

LEMMA ExpireKeeps ==
  ASSUME MirrorInv, NEW w \in Workers, ExpireMirror(w) \/ ForgetFailures(w)
  PROVE  MirrorInv'
<1>1. /\ pc[w] \in {"expire", "forget"} /\ job[w] \in Jobs /\ WorkerOK(pc[w], job[w]) /\ job = [job EXCEPT ![w] = job[w]]
      /\ mirrors \subseteq Peers /\ health_failures \in [Peers -> Nat] /\ run \in [Peers -> Nat]
      /\ streak \in [Peers -> Nat] /\ owed \in [Peers -> Nat] /\ promised \in [Peers -> Nat] /\ faults \in Nat
  BY JobOf, TypeParts DEF ExpireMirror, ForgetFailures, Goto, MirrorInv
<1>2. PICK j \in Jobs, p \in Peers : j = job[w] /\ p = j.mirror
  BY <1>1 DEF WorkerOK, WithPeer
<1>3. /\ UNCHANGED <<queue, ticks, requests, store, clients, posted, faults, owed, promised, streak, run>>
      /\ QueueGoes
  BY DEF ExpireMirror, ForgetFailures, peer, bounds, history, QueueGoes
<1>4. \A s \in {"forget", "refill"} : s \in Pcs /\ s # "chunk" /\ WorkerOK(s, j)'
  BY <1>1, <1>2, <1>3 DEF WorkerOK, WithPeer, Dumping, Pcs
<1>5. CASE ExpireMirror(w)
  <2>1. mirrors' \subseteq mirrors /\ UNCHANGED <<health_failures, ticks, peer, posted, clients, history, faults>>
    BY <1>5 DEF ExpireMirror, bounds
  <2>2. CASE p \in mirrors
    <3>1. pc' = [pc EXCEPT ![w] = "forget"] /\ job' = [job EXCEPT ![w] = j]
      BY <1>1, <1>2, <1>5, <2>2 DEF ExpireMirror
    <3> QED
      BY <1>1, <1>3, <1>4, <2>1, <3>1, QuietWorkerKeeps
  <2>3. CASE p \notin mirrors
    <3>1. Done(w)
      BY <1>2, <1>5, <2>3 DEF ExpireMirror
    <3> QED
      BY <1>1, <1>3, <2>1, <3>1, TaskEndsKeeps
  <2> QED
    BY <2>2, <2>3
<1>6. CASE ForgetFailures(w)
  <2>1. /\ pc' = [pc EXCEPT ![w] = "refill"] /\ job' = [job EXCEPT ![w] = j] /\ mirrors' = mirrors
        /\ health_failures' = [health_failures EXCEPT ![p] = 0]
    BY <1>1, <1>2, <1>6 DEF ForgetFailures, Goto
  <2>2. health_failures' \in [Peers -> Nat] /\ \A q \in Peers : health_failures'[q] = 0 \/ health_failures'[q] = health_failures[q]
    BY <1>1, <2>1
  <2>3. CountersOK' /\ \A q \in Peers : streak'[q] >= streak[q] /\ promised'[q] <= Held(q)
    BY <1>1, <1>3, <2>1, <2>2 DEF MirrorInv, CountersOK, StoreOK, Never
  <2> QED
    BY <1>1, <1>3, <1>4, <2>1, <2>2, <2>3, WorkerKeeps
<1> QED
  BY <1>5, <1>6

-----------------------------------------------------------------------------
(* Requests and the peers *)

\* A step that leaves the source's state alone.
LEMMA SourceStays ==
  ASSUME MirrorInv, UNCHANGED <<queue, mirrors, health_failures, owed, streak, run>>,
         ticks' \in Nat, ticks <= ticks', ticks' <= MaxTicks
  PROVE  QueueOK' /\ CountersOK'
<1>1. ticks \in Nat /\ owed \in [Peers -> Nat]
  BY TypeParts DEF MirrorInv
<1>2. QueueOK'
  BY DEF MirrorInv, QueueOK, TaskOK, Never
<1>3. CountersOK'
  BY <1>1 DEF MirrorInv, CountersOK, Never
<1> QED
  BY <1>2, <1>3

\* A request that is not served now.
LEMMA RequestStays ==
  ASSUME NEW q \in RequestType, RequestOK(q), ticks \in Nat, ticks' \in Nat, ticks <= ticks',
         Held(q.mirror) \in Nat, Held(q.mirror)' \in Nat, Held(q.mirror) <= Held(q.mirror)',
         q.owner \in Workers => pc'[q.owner] = pc[q.owner] /\ job'[q.owner] = job[q.owner],
         faults' = 0 /\ clients' = 0 => faults = 0 /\ clients = 0
  PROVE  RequestOK(q)'
<1>1. q.first \in Nat /\ q.last \in Nat
  BY DEF RequestType
<1>2. 1 <= q.first /\ q.first <= q.last /\ q.last <= ticks' /\ (~q.verified => q.first = q.last)
  BY <1>1 DEF RequestOK
<1>3. q.verified => q.first <= Held(q.mirror)' + 1
  BY <1>1 DEF RequestOK
<1>4. q.owner \in Workers => /\ pc'[q.owner] = "chunk" /\ job'[q.owner].mirror = q.mirror
                              /\ job'[q.owner].next = q.first /\ q.first = q.last
  BY DEF RequestOK
<1> QED
  BY <1>2, <1>3, <1>4 DEF RequestOK, Held

\* One request is served, and at most one takes its place.
LEMMA RequestReplaced ==
  ASSUME MirrorInv, NEW r \in requests,
         \A q \in requests : q # r => RequestOK(q)',
         \/ requests' = requests \ {r}
         \/ \E n \in RequestType : /\ requests' = (requests \ {r}) \cup {n} /\ RequestOK(n)'
                                   /\ n.owner \in Workers => n.owner = r.owner
  PROVE  requests' \subseteq RequestType /\ RequestsOK'
<1>1. requests \subseteq RequestType
  BY TypeParts DEF MirrorInv
<1>2. \A q, o \in requests : q.owner = o.owner /\ q.owner \in Workers => q = o
  BY DEF MirrorInv, RequestsOK
<1>3. CASE requests' = requests \ {r}
  BY <1>1, <1>2, <1>3 DEF RequestsOK
<1>4. ASSUME NEW n \in RequestType, requests' = (requests \ {r}) \cup {n}, RequestOK(n)',
             n.owner \in Workers => n.owner = r.owner
      PROVE  requests' \subseteq RequestType /\ RequestsOK'
  <2>1. \A q \in requests' : RequestOK(q)'
    BY <1>4
  <2>2. \A q, o \in requests' : q.owner = o.owner /\ q.owner \in Workers => q = o
    BY <1>2, <1>4
  <2> QED
    BY <1>1, <1>4, <2>1, <2>2 DEF RequestsOK
<1> QED
  BY <1>3, <1>4

\* The other requests when the one of a worker is served: their owners are others.
LEMMA OthersStay ==
  ASSUME MirrorInv, NEW r \in requests, NEW s \in Pcs, NEW j \in Jobs,
         \/ UNCHANGED <<pc, job>>
         \/ r.owner \in Workers /\ pc' = [pc EXCEPT ![r.owner] = s] /\ job' = [job EXCEPT ![r.owner] = j],
         ticks' = ticks, clients' = clients, faults' = 0 => faults = 0,
         \A p \in Peers : Held(p)' \in Nat /\ Held(p) <= Held(p)'
  PROVE  /\ \A q \in requests : q # r => RequestOK(q)'
         /\ pc' \in [Workers -> Pcs] /\ job' \in [Workers -> Jobs]
<1>1. pc \in [Workers -> Pcs] /\ job \in [Workers -> Jobs] /\ requests \subseteq RequestType /\ ticks \in Nat
  BY TypeParts DEF MirrorInv
<1>2. ASSUME NEW q \in requests, q # r PROVE RequestOK(q)'
  <2>1. PICK q0 \in RequestType : q0 = q
    BY <1>1
  <2>2. RequestOK(q) /\ (q.owner \in Workers => q.owner # r.owner)
    BY <1>2 DEF MirrorInv, RequestsOK
  <2>3. q0.mirror \in Peers
    BY DEF RequestType
  <2>4. Held(q0.mirror) \in Nat /\ Held(q0.mirror)' \in Nat /\ Held(q0.mirror) <= Held(q0.mirror)'
    BY <2>3 DEF MirrorInv, StoreOK
  <2>5. q0.owner \in Workers => pc'[q0.owner] = pc[q0.owner] /\ job'[q0.owner] = job[q0.owner]
    BY <1>1, <2>1, <2>2
  <2>6. RequestOK(q0)'
    BY <1>1, <2>1, <2>2, <2>4, <2>5, RequestStays
  <2> QED
    BY <2>1, <2>6
<1> QED
  BY <1>1, <1>2

\* The workers when one of them goes on and stores only grow.
LEMMA WorkersGo ==
  ASSUME MirrorInv, NEW w \in Workers, NEW s \in Pcs, NEW j \in Jobs, WorkerOK(s, j)',
         pc' = [pc EXCEPT ![w] = s], job' = [job EXCEPT ![w] = j],
         ticks' = ticks, faults' \in Nat, faults' = 0 => faults = 0, UNCHANGED <<streak, owed>>,
         \A p \in Peers : Held(p)' \in Nat /\ Held(p) <= Held(p)'
  PROVE  WorkersOK'
<1>1. pc \in [Workers -> Pcs] /\ job \in [Workers -> Jobs] /\ ticks \in Nat /\ faults \in Nat /\ streak \in [Peers -> Nat]
  BY TypeParts DEF MirrorInv
<1> SUFFICES ASSUME NEW v \in Workers PROVE WorkerOK(pc[v], job[v])'
  BY DEF WorkersOK
<1>2. CASE v = w
  <2>1. pc'[v] = s /\ job'[v] = j
    BY <1>1, <1>2
  <2> QED
    BY <2>1
<1>3. CASE v # w
  <2>1. PICK s0 \in Pcs, j0 \in Jobs : s0 = pc[v] /\ j0 = job[v]
    BY <1>1
  <2>2. WorkerOK(s0, j0)
    BY <2>1 DEF MirrorInv, WorkersOK
  <2>3. pc'[v] = s0 /\ job'[v] = j0
    BY <1>1, <1>3, <2>1
  <2>4. \A p \in Peers : Held(p) \in Nat /\ streak[p] \in Nat /\ streak'[p] >= streak[p]
    BY <1>1 DEF MirrorInv, StoreOK
  <2>5. WorkerOK(s0, j0)'
    BY <1>1, <2>2, <2>4, WorkerStays
  <2> QED
    BY <2>3, <2>5
<1> QED
  BY <1>2, <1>3

\* The workers when none of them moves.
LEMMA WorkersStay ==
  ASSUME MirrorInv, UNCHANGED <<pc, job, streak, owed>>, ticks' \in Nat, ticks <= ticks',
         faults' \in Nat, faults' = 0 => faults = 0,
         \A p \in Peers : Held(p)' \in Nat /\ Held(p) <= Held(p)'
  PROVE  WorkersOK'
<1>1. pc \in [Workers -> Pcs] /\ job \in [Workers -> Jobs] /\ ticks \in Nat /\ faults \in Nat /\ streak \in [Peers -> Nat]
  BY TypeParts DEF MirrorInv
<1> SUFFICES ASSUME NEW v \in Workers PROVE WorkerOK(pc[v], job[v])'
  BY DEF WorkersOK
<1>2. PICK s0 \in Pcs, j0 \in Jobs : s0 = pc[v] /\ j0 = job[v]
  BY <1>1
<1>3. WorkerOK(s0, j0)
  BY <1>2 DEF MirrorInv, WorkersOK
<1>4. \A p \in Peers : Held(p) \in Nat /\ streak[p] \in Nat /\ streak'[p] >= streak[p]
  BY <1>1 DEF MirrorInv, StoreOK
<1>5. WorkerOK(s0, j0)'
  BY <1>1, <1>3, <1>4, WorkerStays
<1> QED
  BY <1>2, <1>5

LEMMA StoreUnchanged ==
  ASSUME MirrorInv, UNCHANGED <<store, promised>>, ticks' \in Nat, ticks <= ticks'
  PROVE  StoreOK' /\ \A p \in Peers : Held(p)' \in Nat /\ Held(p) <= Held(p)' /\ Held(p)' = Held(p)
<1>1. ticks \in Nat
  BY TypeParts DEF MirrorInv
<1> QED
  BY <1>1 DEF MirrorInv, StoreOK, Held

\* A chunk goes out: its worker had none out.
LEMMA SendChunkKeeps ==
  ASSUME MirrorInv, NEW w \in Workers, SendChunk(w)
  PROVE  MirrorInv'
<1>1. /\ pc[w] = "send" /\ job[w] \in Jobs /\ WorkerOK(pc[w], job[w]) /\ job = [job EXCEPT ![w] = job[w]]
      /\ pc \in [Workers -> Pcs] /\ job \in [Workers -> Jobs] /\ requests \subseteq RequestType
      /\ ticks \in Nat /\ faults \in Nat
  BY JobOf, TypeParts DEF SendChunk, Goto, MirrorInv
<1>2. PICK j \in Jobs : j = job[w] /\ j.mirror \in Peers /\ j.next \in Nat /\ 1 <= j.next /\ j.next <= ticks
  <2>1. job[w].next \in Nat /\ job[w].total \in Nat
    BY <1>1 DEF Jobs
  <2> QED
    BY <1>1, <2>1 DEF WorkerOK, WithPeer, Dumping
<1> DEFINE n == Request(w, j.mirror, j.next, j.next, FALSE)
<1>3. /\ pc' = [pc EXCEPT ![w] = "chunk"] /\ job' = [job EXCEPT ![w] = j]
      /\ requests' = requests \cup {n}
      /\ UNCHANGED <<queue, mirrors, health_failures, ticks, store, posted, clients, faults, promised, owed, streak, run>>
  BY <1>1, <1>2 DEF SendChunk, Goto, source, bounds, history
<1>4. /\ n \in RequestType /\ n.owner = w /\ n.mirror = j.mirror /\ n.first = j.next /\ n.last = j.next /\ n.verified = FALSE
  BY <1>2 DEF Request, RequestType
<1> HIDE DEF n
<1>5. QueueOK' /\ CountersOK' /\ StoreOK' /\ \A p \in Peers : Held(p)' \in Nat /\ Held(p) <= Held(p)' /\ Held(p)' = Held(p)
  BY <1>1, <1>3, SourceStays, StoreUnchanged DEF MirrorInv, CountersOK
<1>6. WorkersOK'
  <2>1. WorkerOK("send", j)
    BY <1>1, <1>2
  <2>2. WorkerOK("chunk", j)
    BY <2>1 DEF WorkerOK, WithPeer, Dumping
  <2>3. WorkerOK("chunk", j)' /\ "chunk" \in Pcs
    BY <1>2, <1>3, <1>5, <2>2 DEF WorkerOK, Never, WithPeer, Dumping, Pcs
  <2> QED
    BY <1>1, <1>3, <1>5, <2>3, WorkersGo
<1>7. pc' \in [Workers -> Pcs] /\ job' \in [Workers -> Jobs] /\ pc'[w] = "chunk" /\ job'[w] = j
      /\ \A v \in Workers : v # w => pc'[v] = pc[v] /\ job'[v] = job[v]
  BY <1>1, <1>3 DEF Pcs
<1>8. ASSUME NEW q \in requests PROVE RequestOK(q)' /\ (q.owner \in Workers => q.owner # w)
  <2>1. PICK q0 \in RequestType : q0 = q
    BY <1>1
  <2>2. RequestOK(q) /\ (q.owner \in Workers => q.owner # w)
    BY <1>1 DEF MirrorInv, RequestsOK, RequestOK
  <2>3. q0.mirror \in Peers
    BY DEF RequestType
  <2>4. Held(q0.mirror) \in Nat /\ Held(q0.mirror)' \in Nat /\ Held(q0.mirror) <= Held(q0.mirror)'
    BY <1>5, <2>3 DEF MirrorInv, StoreOK
  <2>5. q0.owner \in Workers => pc'[q0.owner] = pc[q0.owner] /\ job'[q0.owner] = job[q0.owner]
    BY <1>7, <2>1, <2>2
  <2>6. RequestOK(q0)'
    BY <1>1, <1>3, <2>1, <2>2, <2>4, <2>5, RequestStays
  <2> QED
    BY <2>1, <2>2, <2>6
<1>9. RequestOK(n)'
  BY <1>2, <1>3, <1>4, <1>7 DEF RequestOK
<1>10. RequestsOK'
  <2>1. \A q, o \in requests : q.owner = o.owner /\ q.owner \in Workers => q = o
    BY DEF MirrorInv, RequestsOK
  <2> QED
    BY <1>3, <1>4, <1>8, <1>9, <2>1 DEF RequestsOK
<1>11. TypeOK'
  BY <1>1, <1>3, <1>4, <1>7 DEF MirrorInv, TypeOK, Pcs, Jobs, RequestType
<1> QED
  BY <1>5, <1>6, <1>10, <1>11 DEF MirrorInv

\* What a request says of its worker and its peer.
LEMMA RequestOf ==
  ASSUME MirrorInv, NEW r \in requests
  PROVE  /\ r \in RequestType /\ r.mirror \in Peers /\ r.first \in Nat /\ r.last \in Nat /\ RequestOK(r)
         /\ Held(r.mirror) \in Nat /\ Latest(r.mirror) = Held(r.mirror)
         /\ r.owner \in Workers => job[r.owner] \in Jobs /\ WorkerOK("chunk", job[r.owner])
<1>1. /\ r \in RequestType /\ RequestOK(r)
  BY TypeParts DEF MirrorInv, RequestsOK
<1>2. r.mirror \in Peers /\ r.first \in Nat /\ r.last \in Nat
  BY <1>1 DEF RequestType
<1>3. Held(r.mirror) \in Nat /\ Latest(r.mirror) = Held(r.mirror)
  BY <1>2, LatestIsHeld DEF MirrorInv, StoreOK
<1>4. r.owner \in Workers => job[r.owner] \in Jobs /\ WorkerOK("chunk", job[r.owner])
  BY <1>1, JobOf DEF RequestOK
<1> QED
  BY <1>1, <1>2, <1>3, <1>4

\* The chain check passes: the record is the next one.
LEMMA VerifyKeeps ==
  ASSUME MirrorInv, NEW r \in requests, verify_history_dump_chunk(r)
  PROVE  MirrorInv'
<1>1. /\ r \in RequestType /\ r.mirror \in Peers /\ r.first \in Nat /\ RequestOK(r)
      /\ Held(r.mirror) \in Nat /\ r.first = Held(r.mirror) + 1 /\ ticks \in Nat /\ faults \in Nat
  BY RequestOf, TypeParts DEF verify_history_dump_chunk, MirrorInv
<1> DEFINE n == [r EXCEPT !.verified = TRUE]
<1>2. /\ requests' = (requests \ {r}) \cup {n}
      /\ UNCHANGED <<queue, mirrors, health_failures, ticks, pc, job, store, posted, clients, faults, promised, owed, streak, run>>
  BY DEF verify_history_dump_chunk, source, worker, bounds, history
<1>3. n \in RequestType /\ n.owner = r.owner /\ n.mirror = r.mirror /\ n.first = r.first /\ n.last = r.last /\ n.verified = TRUE
  BY <1>1 DEF RequestType
<1> HIDE DEF n
<1>4. QueueOK' /\ CountersOK' /\ StoreOK' /\ \A p \in Peers : Held(p)' \in Nat /\ Held(p) <= Held(p)' /\ Held(p)' = Held(p)
  BY <1>1, <1>2, SourceStays, StoreUnchanged DEF MirrorInv, CountersOK
<1>5. WorkersOK'
  BY <1>1, <1>2, <1>4, WorkersStay
<1>6. PICK r0 \in RequestType : r0 = n
  BY <1>3
<1>7. RequestOK(r0)'
  BY <1>1, <1>2, <1>3, <1>4, <1>6 DEF RequestOK
<1>8. \A q \in requests : q # r => RequestOK(q)'
  BY <1>2, <1>4, OthersStay, NoJobIsJob DEF Pcs
<1>9. requests' \subseteq RequestType /\ RequestsOK'
  BY <1>2, <1>3, <1>6, <1>7, <1>8, RequestReplaced
<1>10. TypeOK'
  BY <1>2, <1>9 DEF MirrorInv, TypeOK, RequestType
<1> QED
  BY <1>4, <1>5, <1>9, <1>10 DEF MirrorInv

\* The record does not follow, or its call times out: the worker aborts.
LEMMA AbortKeeps ==
  ASSUME MirrorInv, NEW r \in requests,
         \/ RefuseRecord(r)
         \/ \E w \in Workers : ChunkTimesOut(w, r)
  PROVE  MirrorInv'
<1>1. /\ r \in RequestType /\ r.mirror \in Peers /\ RequestOK(r) /\ ticks \in Nat /\ faults \in Nat
      /\ pc \in [Workers -> Pcs] /\ job \in [Workers -> Jobs]
  BY RequestOf, TypeParts DEF MirrorInv
<1> DEFINE n == [r EXCEPT !.owner = NoWorker]
<1>2. /\ n \in RequestType /\ n.owner = NoWorker /\ n.mirror = r.mirror /\ n.first = r.first /\ n.last = r.last
      /\ n.verified = r.verified
  BY <1>1 DEF RequestType
<1>3. UNCHANGED <<queue, mirrors, health_failures, ticks, store, posted, clients, promised, owed, streak, run>>
  BY DEF RefuseRecord, ChunkTimesOut, source, bounds, history
<1>4. \/ UNCHANGED <<pc, job>>
      \/ r.owner \in Workers /\ pc' = [pc EXCEPT ![r.owner] = "idle"] /\ job' = [job EXCEPT ![r.owner] = NoJob]
  BY DEF RefuseRecord, ChunkTimesOut, worker, Done
<1>5. /\ faults' \in Nat /\ (faults' = 0 => faults = 0)
      /\ requests' = requests \ {r} \/ (requests' = (requests \ {r}) \cup {n} /\ faults' # 0)
  BY <1>1 DEF RefuseRecord, ChunkTimesOut, bounds
<1> HIDE DEF n
<1>6. QueueOK' /\ CountersOK' /\ StoreOK' /\ \A p \in Peers : Held(p)' \in Nat /\ Held(p) <= Held(p)' /\ Held(p)' = Held(p)
  BY <1>1, <1>3, SourceStays, StoreUnchanged DEF MirrorInv, CountersOK
<1>7. WorkersOK'
  <2>1. WorkerOK("idle", NoJob)' /\ "idle" \in Pcs
    BY NoJobIsJob DEF WorkerOK, WithPeer, Dumping, Pcs
  <2> QED
    BY <1>1, <1>3, <1>4, <1>5, <1>6, <2>1, NoJobIsJob, WorkersGo, WorkersStay
<1>8. (\A q \in requests : q # r => RequestOK(q)') /\ pc' \in [Workers -> Pcs] /\ job' \in [Workers -> Jobs]
  <2>1. "idle" \in Pcs
    BY DEF Pcs
  <2> QED
    BY <1>3, <1>4, <1>5, <1>6, <2>1, NoJobIsJob, OthersStay
<1>9. requests' \subseteq RequestType /\ RequestsOK'
  <2>1. CASE requests' = requests \ {r}
    BY <1>8, <2>1, RequestReplaced
  <2>2. CASE requests' = (requests \ {r}) \cup {n} /\ faults' # 0
    <3>1. PICK r0 \in RequestType : r0 = n
      BY <1>2
    <3>2. RequestOK(r0)'
      BY <1>1, <1>2, <1>3, <1>6, <2>2, <3>1, PoolAssumption DEF RequestOK
    <3> QED
      BY <1>2, <1>8, <2>2, <3>1, <3>2, PoolAssumption, RequestReplaced
  <2> QED
    BY <1>5, <2>1, <2>2
<1>10. TypeOK'
  BY <1>3, <1>5, <1>8, <1>9 DEF MirrorInv, TypeOK, Pcs, Jobs, RequestType
<1> QED
  BY <1>6, <1>7, <1>9, <1>10 DEF MirrorInv

\* An insertion of a record that fits extends the prefix, or changes nothing.
LEMMA InsertGrows ==
  ASSUME MirrorInv, NEW p \in Peers, NEW f \in Nat, 1 <= f, f <= Held(p) + 1, f <= ticks,
         store' = [store EXCEPT ![p] = @ \cup {f}], UNCHANGED <<promised, ticks>>
  PROVE  /\ StoreOK' /\ store' \in [Peers -> SUBSET Nat]
         /\ \A q \in Peers : Held(q)' \in Nat /\ Held(q) <= Held(q)' /\ (q # p => Held(q)' = Held(q))
         /\ Held(p)' = IF f = Held(p) + 1 THEN f ELSE Held(p)
         /\ f <= Held(p)'
<1>1. /\ store \in [Peers -> SUBSET Nat] /\ ticks \in Nat /\ promised \in [Peers -> Nat]
      /\ \A q \in Peers : Held(q) \in Nat /\ store[q] = 1..Held(q) /\ Held(q) <= ticks /\ promised[q] <= Held(q)
  BY TypeParts DEF MirrorInv, StoreOK
<1>2. store' \in [Peers -> SUBSET Nat] /\ store'[p] = store[p] \cup {f} /\ \A q \in Peers : q # p => store'[q] = store[q]
  BY <1>1
<1>3. PICK h \in Nat : h = IF f = Held(p) + 1 THEN f ELSE Held(p)
  BY <1>1
<1>4. store'[p] = 1..h /\ f <= h /\ Held(p) <= h /\ h <= ticks
  BY <1>1, <1>2, <1>3
<1>5. Held(p)' = h
  BY <1>4, PrefixCounts DEF Held
<1>6. \A q \in Peers : q # p => Held(q)' = Held(q)
  BY <1>2 DEF Held
<1>7. \A q \in Peers : Held(q)' \in Nat /\ Held(q) <= Held(q)'
  BY <1>1, <1>4, <1>5, <1>6
<1>8. StoreOK'
  <2> SUFFICES ASSUME NEW q \in Peers
               PROVE  Held(q)' \in Nat /\ store'[q] = 1..Held(q)' /\ Held(q)' <= ticks /\ promised[q] <= Held(q)'
    BY DEF StoreOK
  <2>1. CASE q = p
    BY <1>1, <1>4, <1>5, <2>1
  <2>2. CASE q # p
    BY <1>1, <1>2, <1>6, <2>2
  <2> QED
    BY <2>1, <2>2
<1> QED
  BY <1>2, <1>3, <1>4, <1>5, <1>6, <1>7, <1>8

\* What an acknowledged worker goes on to.
LEMMA AcknowledgedGoes ==
  ASSUME MirrorInv, NEW w \in Workers, pc[w] = "chunk", Acknowledged(w)
  PROVE  \E s \in {"send", "complete"}, j \in Jobs :
           /\ pc' = [pc EXCEPT ![w] = s] /\ job' = [job EXCEPT ![w] = j]
           /\ j.mirror = job[w].mirror /\ j.total = job[w].total /\ j.intact = job[w].intact
           /\ s = "send" => j.next = job[w].next + 1 /\ job[w].next < job[w].total
           /\ s = "complete" => j.next = job[w].next /\ job[w].next = job[w].total
<1>1. job[w] \in Jobs /\ job = [job EXCEPT ![w] = job[w]] /\ WorkerOK("chunk", job[w])
  BY JobOf
<1>2. job[w].next \in Nat /\ job[w].total \in Nat /\ job[w].next <= job[w].total
  BY <1>1 DEF Jobs, WorkerOK
<1>3. CASE job[w].next = job[w].total
  BY <1>1, <1>3 DEF Acknowledged
<1>4. CASE job[w].next # job[w].total
  <2> DEFINE j == [job[w] EXCEPT !.next = job[w].next + 1]
  <2>1. pc' = [pc EXCEPT ![w] = "send"] /\ job' = [job EXCEPT ![w] = j]
    BY <1>4 DEF Acknowledged
  <2>2. j \in Jobs /\ j.mirror = job[w].mirror /\ j.total = job[w].total /\ j.intact = job[w].intact /\ j.next = job[w].next + 1
    BY <1>1, <1>2 DEF Jobs
  <2>3. job[w].next < job[w].total
    BY <1>2, <1>4
  <2> HIDE DEF j
  <2> QED
    BY <2>1, <2>2, <2>3
<1> QED
  BY <1>3, <1>4

LEMMA InsertKeeps ==
  ASSUME MirrorInv, NEW r \in requests, insert_mirrored(r)
  PROVE  MirrorInv'
<1>1. /\ r \in RequestType /\ r.mirror \in Peers /\ r.first \in Nat /\ r.last \in Nat /\ RequestOK(r) /\ r.verified
      /\ Held(r.mirror) \in Nat /\ ticks \in Nat /\ faults \in Nat
      /\ pc \in [Workers -> Pcs] /\ job \in [Workers -> Jobs] /\ requests \subseteq RequestType
      /\ r.owner \in Workers => job[r.owner] \in Jobs /\ WorkerOK("chunk", job[r.owner])
  BY RequestOf, TypeParts DEF insert_mirrored, MirrorInv
<1>2. 1 <= r.first /\ r.first <= r.last /\ r.last <= ticks /\ r.first <= Held(r.mirror) + 1
  BY <1>1 DEF RequestOK
<1>3. /\ store' = [store EXCEPT ![r.mirror] = @ \cup {r.first}]
      /\ UNCHANGED <<queue, mirrors, health_failures, ticks, posted, clients, faults, promised, owed, streak, run>>
  BY DEF insert_mirrored, source, bounds, history
<1>4. /\ StoreOK' /\ store' \in [Peers -> SUBSET Nat]
      /\ \A q \in Peers : Held(q)' \in Nat /\ Held(q) <= Held(q)'
      /\ r.first <= Cardinality(store'[r.mirror])
  <2>1. PICK p \in Peers, f \in Nat : p = r.mirror /\ f = r.first
    BY <1>1
  <2>2. /\ StoreOK' /\ store' \in [Peers -> SUBSET Nat]
        /\ \A q \in Peers : Held(q)' \in Nat /\ Held(q) <= Held(q)'
        /\ f <= Held(p)'
    <3>1. 1 <= f /\ f <= Held(p) + 1 /\ f <= ticks
      BY <1>1, <1>2, <2>1
    <3>2. store' = [store EXCEPT ![p] = @ \cup {f}] /\ UNCHANGED <<promised, ticks>>
      BY <1>3, <2>1
    <3> QED
      BY <3>1, <3>2, InsertGrows
  <2> QED
    BY <2>1, <2>2 DEF Held
<1>5. QueueOK' /\ CountersOK'
  BY <1>1, <1>3, SourceStays DEF MirrorInv, CountersOK
<1>6. CASE r.first < r.last
  <2> DEFINE n == [r EXCEPT !.first = r.first + 1]
  <2>1. requests' = (requests \ {r}) \cup {n} /\ UNCHANGED <<pc, job>>
    BY <1>6 DEF insert_mirrored, worker
  <2>2. /\ n \in RequestType /\ n.owner = r.owner /\ n.mirror = r.mirror /\ n.first = r.first + 1 /\ n.last = r.last
        /\ n.verified = r.verified
    <3>1. r.first + 1 \in Nat
      BY <1>1
    <3> QED
      BY <1>1, <3>1 DEF RequestType
  <2> HIDE DEF n
  <2>3. WorkersOK'
    BY <1>1, <1>3, <1>4, <2>1, WorkersStay
  <2>4. \A q \in requests : q # r => RequestOK(q)'
    BY <1>3, <1>4, <2>1, OthersStay, NoJobIsJob DEF Pcs
  <2>5. PICK r0 \in RequestType : r0 = n
    BY <2>2
  <2>6. r0.owner \notin Workers /\ ~(faults = 0 /\ clients = 0)
    BY <1>1, <1>6, <2>2, <2>5 DEF RequestOK
  <2>7. r0.first <= Held(r0.mirror)' + 1 /\ 1 <= r0.first /\ r0.first <= r0.last /\ r0.last <= ticks
    <3>1. r0.first = r.first + 1 /\ r0.mirror = r.mirror /\ r0.last = r.last
      BY <2>2, <2>5
    <3>2. Cardinality(store'[r.mirror]) \in Nat
      BY <1>1, <1>4 DEF Held
    <3>3. r0.first <= Cardinality(store'[r0.mirror]) + 1
      BY <1>1, <1>4, <3>1, <3>2
    <3> QED
      BY <1>1, <1>2, <1>6, <3>1, <3>3 DEF Held
  <2>8. RequestOK(r0)'
    BY <1>1, <1>3, <2>2, <2>5, <2>6, <2>7 DEF RequestOK, Held
  <2>9. requests' \subseteq RequestType /\ RequestsOK'
    BY <2>1, <2>2, <2>4, <2>5, <2>8, RequestReplaced
  <2>10. TypeOK'
    BY <1>3, <1>4, <2>1, <2>9 DEF MirrorInv, TypeOK, RequestType
  <2> QED
    BY <1>4, <1>5, <2>3, <2>9, <2>10 DEF MirrorInv
<1>7. CASE ~(r.first < r.last) /\ r.owner \notin Workers
  <2>1. requests' = requests \ {r} /\ UNCHANGED <<pc, job>>
    BY <1>7 DEF insert_mirrored, worker
  <2>2. WorkersOK'
    BY <1>1, <1>3, <1>4, <2>1, WorkersStay
  <2>3. \A q \in requests : q # r => RequestOK(q)'
    BY <1>3, <1>4, <2>1, OthersStay, NoJobIsJob DEF Pcs
  <2>4. requests' \subseteq RequestType /\ RequestsOK'
    BY <2>1, <2>3, RequestReplaced
  <2>5. TypeOK'
    BY <1>3, <1>4, <2>1, <2>4 DEF MirrorInv, TypeOK, RequestType
  <2> QED
    BY <1>4, <1>5, <2>2, <2>4, <2>5 DEF MirrorInv
<1>8. CASE ~(r.first < r.last) /\ r.owner \in Workers
  <2>1. requests' = requests \ {r} /\ Acknowledged(r.owner)
    BY <1>8 DEF insert_mirrored
  <2>2. /\ pc[r.owner] = "chunk" /\ job[r.owner].mirror = r.mirror /\ job[r.owner].next = r.first
    BY <1>1, <1>8 DEF RequestOK
  <2>3. PICK w \in Workers : w = r.owner
    BY <1>8
  <2>4. PICK s \in {"send", "complete"}, j \in Jobs :
           /\ pc' = [pc EXCEPT ![w] = s] /\ job' = [job EXCEPT ![w] = j]
           /\ j.mirror = job[w].mirror /\ j.total = job[w].total /\ j.intact = job[w].intact
           /\ s = "send" => j.next = job[w].next + 1 /\ job[w].next < job[w].total
           /\ s = "complete" => j.next = job[w].next /\ job[w].next = job[w].total
    BY <2>1, <2>2, <2>3, AcknowledgedGoes
  <2>5. WorkerOK(s, j)'
    <3>1. WorkerOK("chunk", job[w]) /\ job[w].next \in Nat /\ job[w].total \in Nat
      BY <1>1, <2>3 DEF Jobs
    <3>2. PICK p \in Peers : p = j.mirror /\ p = r.mirror
      BY <1>1, <2>2, <2>3, <2>4
    <3>3. Held(p)' \in Nat /\ job[w].next <= Held(p)'
      BY <1>1, <1>4, <2>2, <2>3, <3>2 DEF Held
    <3>4. owed[p] # Never /\ 1 <= j.next /\ j.next <= j.total /\ j.total <= ticks /\ owed[p] <= j.total
      BY <2>4, <3>1, <3>2 DEF WorkerOK, Dumping
    <3>5. (s = "send" => j.next <= Held(p)' + 1) /\ (s = "complete" => j.total <= Held(p)')
      BY <2>4, <3>1, <3>3
    <3>6. faults = 0 => j.intact
      BY <2>4, <3>1 DEF WorkerOK
    <3> QED
      BY <1>3, <3>2, <3>4, <3>5, <3>6 DEF WorkerOK, Never, WithPeer, Dumping, Held
  <2>6. s \in Pcs
    BY DEF Pcs
  <2>7. WorkersOK'
    BY <1>1, <1>3, <1>4, <2>4, <2>5, <2>6, WorkersGo
  <2>8. (\A q \in requests : q # r => RequestOK(q)') /\ pc' \in [Workers -> Pcs] /\ job' \in [Workers -> Jobs]
    BY <1>3, <1>4, <2>3, <2>4, <2>6, OthersStay
  <2>9. requests' \subseteq RequestType /\ RequestsOK'
    BY <2>1, <2>8, RequestReplaced
  <2>10. TypeOK'
    BY <1>3, <1>4, <2>8, <2>9 DEF MirrorInv, TypeOK, RequestType, Pcs, Jobs
  <2> QED
    BY <1>4, <1>5, <2>7, <2>9, <2>10 DEF MirrorInv
<1> QED
  BY <1>6, <1>7, <1>8

\* Records and batches of other senders.
LEMMA ClientKeeps ==
  ASSUME MirrorInv, NEW p \in Peers, NEW n \in Nat, handle_stream_tick(p, n) \/ handle_ship_ack(p, n)
  PROVE  MirrorInv'
<1>0. n \in 1..ticks /\ clients' = clients + 1 /\ UNCHANGED <<source, ticks, worker, store, posted, faults, history>>
  BY Zenon DEF handle_stream_tick, handle_ship_ack
<1>1. /\ ticks \in Nat /\ faults \in Nat /\ clients \in Nat /\ 1 <= n /\ n <= ticks /\ requests \subseteq RequestType
      /\ pc \in [Workers -> Pcs] /\ job \in [Workers -> Jobs]
  BY <1>0, TypeParts DEF MirrorInv
<1>2. PICK q \in RequestType :
        /\ requests' = requests \cup {q} /\ q.owner = NoWorker /\ q.mirror = p /\ q.last = n
        /\ (q.first = n /\ ~q.verified) \/ (q.first = 1 /\ q.verified)
  <2>1. CASE handle_stream_tick(p, n)
    <3> DEFINE a == Request(NoWorker, p, n, n, FALSE)
    <3>1. requests' = requests \cup {a}
      BY <2>1, Zenon DEF handle_stream_tick
    <3>2. a \in RequestType /\ a.owner = NoWorker /\ a.mirror = p /\ a.last = n /\ a.first = n /\ ~a.verified
      BY DEF Request, RequestType
    <3> HIDE DEF a
    <3> QED
      BY <3>1, <3>2
  <2>2. CASE handle_ship_ack(p, n)
    <3> DEFINE a == Request(NoWorker, p, 1, n, TRUE)
    <3>1. requests' = requests \cup {a}
      BY <2>2, Zenon DEF handle_ship_ack
    <3>2. a \in RequestType /\ a.owner = NoWorker /\ a.mirror = p /\ a.last = n /\ a.first = 1 /\ a.verified
      BY DEF Request, RequestType
    <3> HIDE DEF a
    <3> QED
      BY <3>1, <3>2
  <2> QED
    BY <2>1, <2>2
<1>3. /\ UNCHANGED <<queue, mirrors, health_failures, ticks, pc, job, store, posted, faults, promised, owed, streak, run>>
      /\ clients' = clients + 1 /\ clients' \in Nat /\ clients' # 0
  BY <1>0, <1>1 DEF source, worker, history
<1>4. QueueOK' /\ CountersOK' /\ StoreOK' /\ \A u \in Peers : Held(u)' \in Nat /\ Held(u) <= Held(u)' /\ Held(u)' = Held(u)
  BY <1>1, <1>3, SourceStays, StoreUnchanged DEF MirrorInv, CountersOK
<1>5. WorkersOK'
  BY <1>1, <1>3, <1>4, WorkersStay
<1>6. RequestOK(q)'
  BY <1>1, <1>2, <1>3, <1>4, PoolAssumption DEF RequestOK
<1>7. ASSUME NEW o \in requests PROVE RequestOK(o)'
  <2>1. PICK o0 \in RequestType : o0 = o /\ RequestOK(o0) /\ o0.mirror \in Peers
    BY RequestOf
  <2>2. Held(o0.mirror) \in Nat /\ Held(o0.mirror)' \in Nat /\ Held(o0.mirror) <= Held(o0.mirror)'
    BY <1>4, <2>1 DEF MirrorInv, StoreOK
  <2>3. RequestOK(o0)'
    BY <1>1, <1>3, <2>1, <2>2, RequestStays
  <2> QED
    BY <2>1, <2>3
<1>8. RequestsOK'
  <2>1. \A x, y \in requests : x.owner = y.owner /\ x.owner \in Workers => x = y
    BY DEF MirrorInv, RequestsOK
  <2> QED
    BY <1>2, <1>6, <1>7, <2>1, PoolAssumption DEF RequestsOK
<1>9. TypeOK'
  BY <1>1, <1>2, <1>3 DEF MirrorInv, TypeOK, RequestType
<1> QED
  BY <1>4, <1>5, <1>8, <1>9 DEF MirrorInv

\* The calendar grows, or a task comes from outside the pool.
LEMMA OutsideKeeps ==
  ASSUME MirrorInv, Tick \/ \E t : enqueue_task(t)
  PROVE  MirrorInv'
<1>1. /\ ticks \in Nat /\ faults \in Nat /\ requests \subseteq RequestType /\ posted \in Nat /\ mirrors \subseteq Peers
      /\ streak \in [Peers -> Nat] /\ queue \in Seq(Tasks)
  BY TypeParts DEF MirrorInv
<1>2. /\ UNCHANGED <<mirrors, health_failures, pc, job, requests, store, clients, faults, promised, owed, streak, run>>
      /\ ticks' \in Nat /\ ticks <= ticks' /\ ticks' <= MaxTicks /\ posted' \in Nat
  BY <1>1, BoundAssumption DEF Tick, enqueue_task, source, worker, peer, bounds, history, MirrorInv, CountersOK
<1>3. StoreOK' /\ \A u \in Peers : Held(u)' \in Nat /\ Held(u) <= Held(u)' /\ Held(u)' = Held(u)
  BY <1>2, StoreUnchanged
<1>4. WorkersOK'
  BY <1>1, <1>2, <1>3, WorkersStay
<1>5. RequestsOK'
  <2>1. ASSUME NEW o \in requests PROVE RequestOK(o)'
    <3>1. PICK o0 \in RequestType : o0 = o /\ RequestOK(o0) /\ o0.mirror \in Peers
      BY RequestOf
    <3>2. Held(o0.mirror) \in Nat /\ Held(o0.mirror)' \in Nat /\ Held(o0.mirror) <= Held(o0.mirror)'
      BY <1>3, <3>1 DEF MirrorInv, StoreOK
    <3>3. RequestOK(o0)'
      BY <1>1, <1>2, <3>1, <3>2, RequestStays
    <3> QED
      BY <3>1, <3>3
  <2> QED
    BY <1>2, <2>1 DEF MirrorInv, RequestsOK
<1>6. QueueGoes
  <2>1. CASE Tick
    BY <2>1 DEF Tick, QueueGoes, source
  <2>2. ASSUME NEW t, enqueue_task(t) PROVE QueueGoes
    <3>1. t \in Tasks /\ TaskOK(t)
      BY <1>1, <2>2 DEF enqueue_task, Task, Tasks, Kinds, TaskOK
    <3>2. TaskOK(t)'
      BY <1>2, <3>1 DEF TaskOK, Never
    <3> QED
      BY <2>2, <3>1, <3>2 DEF enqueue_task, QueueGoes
  <2> QED
    BY <2>1, <2>2
<1>7. queue' \in Seq(Tasks) /\ QueueOK'
  BY <1>1, <1>2, <1>6, QueueKeeps DEF MirrorInv
<1>8. CountersOK'
  BY <1>1, <1>2, TypeParts DEF MirrorInv, CountersOK, Never
<1>9. TypeOK'
  BY <1>2, <1>7 DEF MirrorInv, TypeOK, Tasks
<1> QED
  BY <1>3, <1>4, <1>5, <1>7, <1>8, <1>9 DEF MirrorInv

\* A restart empties a store; no dump to it counts as intact any more.
LEMMA RestartKeeps ==
  ASSUME MirrorInv, NEW p \in Peers, Restart(p)
  PROVE  MirrorInv'
<1> DEFINE broken == {w \in Workers : \E r \in requests : r.owner = w /\ r.mirror = p}
<1>1. /\ ticks \in Nat /\ faults \in Nat /\ requests \subseteq RequestType /\ pc \in [Workers -> Pcs]
      /\ job \in [Workers -> Jobs] /\ store \in [Peers -> SUBSET Nat] /\ promised \in [Peers -> Nat]
      /\ streak \in [Peers -> Nat]
  BY TypeParts DEF MirrorInv
<1>2. /\ faults' = faults + 1 /\ store' = [store EXCEPT ![p] = {}] /\ requests' = {r \in requests : r.mirror # p}
      /\ pc' = [w \in Workers |-> IF w \in broken THEN "idle" ELSE pc[w]]
      /\ job' = [w \in Workers |-> IF w \in broken THEN NoJob
                                   ELSE [job[w] EXCEPT !.intact = job[w].intact /\ job[w].mirror # p]]
      /\ promised' = [promised EXCEPT ![p] = 0]
      /\ UNCHANGED <<queue, mirrors, health_failures, ticks, posted, clients, owed, streak, run>>
  BY DEF Restart, source
<1> HIDE DEF broken
<1>3. faults' \in Nat /\ faults' # 0
  BY <1>1, <1>2
<1>4. QueueOK' /\ CountersOK'
  BY <1>1, <1>2, SourceStays DEF MirrorInv, CountersOK
<1>5. Held(p)' = 0 /\ store'[p] = 1..0 /\ \A q \in Peers : q # p => Held(q)' = Held(q) /\ store'[q] = store[q]
  <2>1. store'[p] = {} /\ \A q \in Peers : q # p => store'[q] = store[q]
    BY <1>1, <1>2
  <2>2. 1..0 = {}
    OBVIOUS
  <2> QED
    BY <2>1, <2>2, FS_EmptySet DEF Held
<1>6. StoreOK'
  <2>1. \A q \in Peers : promised'[q] = IF q = p THEN 0 ELSE promised[q]
    BY <1>1, <1>2
  <2> QED
    BY <1>1, <1>2, <1>5, <2>1 DEF MirrorInv, StoreOK
<1>7. ASSUME NEW w \in Workers
      PROVE  pc'[w] \in Pcs /\ job'[w] \in Jobs /\ WorkerOK(pc[w], job[w])'
  <2>1. CASE w \in broken
    <3>1. pc'[w] = "idle" /\ job'[w] = NoJob
      BY <1>2, <2>1
    <3> QED
      BY <3>1, NoJobIsJob DEF WorkerOK, WithPeer, Dumping, Pcs
  <2>2. CASE w \notin broken
    <3> DEFINE j == [job[w] EXCEPT !.intact = job[w].intact /\ job[w].mirror # p]
    <3>1. pc'[w] = pc[w] /\ job'[w] = j /\ pc[w] \in Pcs
      BY <1>1, <1>2, <2>2
    <3>2. /\ j \in Jobs /\ j.mirror = job[w].mirror /\ j.next = job[w].next /\ j.total = job[w].total
          /\ j.intact <=> (job[w].intact /\ job[w].mirror # p)
      <4>1. job[w] \in Jobs /\ (job[w].intact /\ job[w].mirror # p) \in BOOLEAN
        BY <1>1
      <4> QED
        BY <4>1, Zenon DEF Jobs
    <3> HIDE DEF j
    <3>3. PICK s0 \in Pcs, j0 \in Jobs : s0 = pc[w] /\ j0 = j
      BY <3>1, <3>2
    <3>4. WorkerOK(s0, job[w])
      BY <3>3, JobOf
    <3>5. ASSUME s0 \notin WithPeer PROVE WorkerOK(s0, j0)'
      BY <1>3, <3>5 DEF WorkerOK, WithPeer, Dumping
    <3>6. ASSUME s0 \in WithPeer PROVE WorkerOK(s0, j0)'
      <4>1. PICK q \in Peers : q = j0.mirror
        BY <3>2, <3>3, <3>4, <3>6 DEF WorkerOK
      <4>2. /\ s0 = "expire" => streak'[q] >= MaxHealthFailures
            /\ s0 \in Dumping => owed'[q] # Never
            /\ s0 \in {"send", "chunk", "complete"} => /\ 1 <= j0.next /\ j0.next <= j0.total /\ j0.total <= ticks'
                                                       /\ owed'[q] <= j0.total
        BY <1>2, <3>2, <3>3, <3>4, <4>1 DEF WorkerOK
      <4>3. j0.intact => q # p /\ Held(q)' = Held(q) /\ job[w].intact
        BY <1>5, <3>2, <3>3, <4>1
      <4>4. /\ s0 \in {"send", "chunk"} /\ j0.intact => j0.next <= Held(q)' + 1
            /\ s0 = "complete" /\ j0.intact => j0.total <= Held(q)'
        BY <3>2, <3>3, <3>4, <4>1, <4>3 DEF WorkerOK
      <4> QED
        BY <1>3, <4>1, <4>2, <4>4 DEF WorkerOK, Never, Held
    <3>7. WorkerOK(s0, j0)'
      BY <3>5, <3>6
    <3> QED
      BY <3>1, <3>2, <3>3, <3>7
  <2> QED
    BY <2>1, <2>2
<1>8. WorkersOK' /\ pc' \in [Workers -> Pcs] /\ job' \in [Workers -> Jobs]
  BY <1>2, <1>7 DEF WorkersOK
<1>9. RequestsOK'
  <2>1. ASSUME NEW q \in requests, q.mirror # p PROVE RequestOK(q)'
    <3>1. PICK o \in RequestType : o = q /\ RequestOK(o) /\ o.mirror \in Peers /\ Held(o.mirror) \in Nat
      BY RequestOf
    <3>2. q.owner \in Workers => q.owner \notin broken
      BY <2>1 DEF broken, MirrorInv, RequestsOK
    <3>3. o.owner \in Workers => /\ pc'[o.owner] = pc[o.owner] /\ job'[o.owner].mirror = job[o.owner].mirror
                                  /\ job'[o.owner].next = job[o.owner].next
      BY <1>1, <1>2, <3>1, <3>2 DEF Jobs
    <3>4. Held(o.mirror)' = Held(o.mirror)
      BY <1>5, <2>1, <3>1
    <3>5. RequestOK(o)'
      BY <1>2, <1>3, <3>1, <3>3, <3>4 DEF RequestOK
    <3> QED
      BY <3>1, <3>5
  <2> QED
    BY <1>2, <2>1 DEF MirrorInv, RequestsOK
<1>10. TypeOK'
  <2>1. store' \in [Peers -> SUBSET Nat] /\ promised' \in [Peers -> Nat] /\ requests' \subseteq RequestType
    BY <1>1, <1>2
  <2> QED
    BY <1>2, <1>3, <1>8, <2>1 DEF MirrorInv, TypeOK, RequestType, Pcs, Jobs
<1> QED
  BY <1>4, <1>6, <1>8, <1>9, <1>10 DEF MirrorInv

LEMMA MirrorNextKeeps ==
  ASSUME MirrorInv, Next
  PROVE  MirrorInv'
<1>1. ASSUME NEW w \in Workers, Work(w) PROVE MirrorInv'
  BY <1>1, TakeTaskKeeps, SearchKeeps, AcceptedKeeps, EnrolKeeps, EnqueueDumpKeeps, SnapshotCalendarKeeps,
     SendChunkKeeps, DumpCompletesKeeps, ProbeKeeps, ExpireKeeps, RefillKeeps DEF Work
<1>2. ASSUME NEW r \in requests, Serve(r) PROVE MirrorInv'
  BY <1>2, VerifyKeeps, AbortKeeps, InsertKeeps DEF Serve
<1>3. ASSUME NEW p \in Peers, NEW n \in 1..MaxTicks, handle_stream_tick(p, n) \/ handle_ship_ack(p, n) PROVE MirrorInv'
  <2>1. n \in Nat
    BY BoundAssumption
  <2> QED
    BY <1>3, <2>1, ClientKeeps
<1>4. ASSUME Fault PROVE MirrorInv'
  BY <1>4, AbortKeeps, RefillKeeps, RestartKeeps DEF Fault
<1> QED
  BY <1>1, <1>2, <1>3, <1>4, OutsideKeeps DEF Next

LEMMA MirrorInitKeeps == Init => MirrorInv
<1> SUFFICES ASSUME Init PROVE MirrorInv
  OBVIOUS
<1>1. Never \in Nat /\ 0 <= MaxTicks
  BY BoundAssumption DEF Never
<1>2. \A p \in Peers : Held(p) = 0 /\ store[p] = 1..0
  <2>1. 1..0 = {} /\ \A p \in Peers : store[p] = {}
    BY DEF Init
  <2> QED
    BY <2>1, FS_EmptySet DEF Held
<1>3. TypeOK
  BY <1>1, NoJobIsJob DEF Init, TypeOK, Jobs
<1>4. QueueOK /\ RequestsOK
  BY DEF Init, QueueOK, RequestsOK
<1>5. WorkersOK
  BY NoJobIsJob DEF Init, WorkersOK, WorkerOK, WithPeer, Dumping
<1>6. CountersOK
  BY <1>1 DEF Init, CountersOK
<1>7. StoreOK
  BY <1>2 DEF Init, StoreOK
<1> QED
  BY <1>3, <1>4, <1>5, <1>6, <1>7 DEF MirrorInv

LEMMA MirrorInvariant == Spec => []MirrorInv
<1>1. MirrorInv /\ [Next]_vars => MirrorInv'
  <2>1. ASSUME MirrorInv, UNCHANGED vars PROVE MirrorInv'
    BY <2>1 DEF vars, source, worker, peer, bounds, history, MirrorInv, TypeOK, QueueOK, TaskOK, WorkersOK, WorkerOK,
                CountersOK, RequestsOK, RequestOK, StoreOK, Held, Never
  <2> QED
    BY <2>1, MirrorNextKeeps
<1> QED
  BY <1>1, MirrorInitKeeps, PTL DEF Spec

-----------------------------------------------------------------------------
(* Theorems *)

\* MirrorState, the locals of the workers and the stores of the peers hold
\* values of their types in every behaviour.
THEOREM MirrorTypeCorrect == Spec => []TypeOK
<1>1. MirrorInv => TypeOK
  BY DEF MirrorInv
<1> QED
  BY <1>1, MirrorInvariant, PTL

\* insert_mirrored never leaves a gap: what a peer holds of a calendar is its
\* first records, although the check of a record and its insertion are apart and
\* dumps, streamed records, batches, timeouts and restarts fall between them.
THEOREM MirrorsHoldPrefixes == Spec => []MirrorHoldsPrefix
<1>1. MirrorInv => MirrorHoldsPrefix
  <2> SUFFICES ASSUME MirrorInv, NEW p \in Peers PROVE \E n \in 0..ticks : store[p] = 1..n
    BY DEF MirrorHoldsPrefix
  <2>1. Held(p) \in 0..ticks /\ store[p] = 1..Held(p)
    BY TypeParts DEF MirrorInv, StoreOK
  <2> QED
    BY <2>1
<1> QED
  BY <1>1, MirrorInvariant, PTL

\* A dump that handle_initiate_dump reported complete is complete, unless the
\* peer restarted since.
THEOREM CompletedDumpsArrived == Spec => []CompleteDumpArrived
<1>1. MirrorInv => CompleteDumpArrived
  BY DEF MirrorInv, StoreOK, Held, CompleteDumpArrived
<1> QED
  BY <1>1, MirrorInvariant, PTL

\* Only ExpireMirror takes a mirror out, and it was asked to.
LEMMA OnlyExpireDrops ==
  ASSUME MirrorInv, Next, NEW p \in mirrors, p \notin mirrors'
  PROVE  streak[p] >= MaxHealthFailures
<1>1. PICK w \in Workers : ExpireMirror(w)
  <2>1. ASSUME NEW w \in Workers, Work(w), ~ExpireMirror(w) PROVE mirrors \subseteq mirrors'
    BY <2>1 DEF Work, TakeTask, CheckTarget, SnapshotCandidates, AnnounceAccepted, AnnounceDeclined, CandidatesExhausted,
                Enrol, EnqueueDump, SnapshotCalendar, SendChunk, DumpCompletes, ProbeAnswered, ProbeFails,
                ForgetFailures, Refill, source
  <2>2. ASSUME NEW r \in requests, Serve(r) PROVE mirrors' = mirrors
    BY <2>2 DEF Serve, verify_history_dump_chunk, RefuseRecord, insert_mirrored, source
  <2>3. ASSUME NEW q \in Peers, NEW n \in 1..MaxTicks, handle_stream_tick(q, n) \/ handle_ship_ack(q, n)
        PROVE  mirrors' = mirrors
    BY <2>3, Zenon DEF handle_stream_tick, handle_ship_ack, source
  <2>4. ASSUME Tick \/ Fault \/ \E t : enqueue_task(t) PROVE mirrors' = mirrors
    BY <2>4 DEF Tick, Fault, ChunkTimesOut, CompleteTimesOut, Restart, enqueue_task, source
  <2> QED
    BY <2>1, <2>2, <2>3, <2>4 DEF Next
<1>2. pc[w] = "expire" /\ p = job[w].mirror
  BY <1>1 DEF ExpireMirror
<1>3. WorkerOK("expire", job[w])
  BY <1>2, JobOf
<1> QED
  BY <1>2, <1>3 DEF WorkerOK

\* handle_expire_mirror only ever drops a mirror that failed MAX_HEALTH_FAILURES
\* probes in a row, however many workers probe, forget and enrol it.
THEOREM OnlyFailingMirrorsExpire == Spec => OnlyFailingExpire
<1>1. MirrorInv /\ [Next]_vars => [\A p \in mirrors \ mirrors' : streak[p] >= MaxHealthFailures]_vars
  BY OnlyExpireDrops
<1> QED
  BY <1>1, MirrorInvariant, PTL DEF Spec, OnlyFailingExpire

-----------------------------------------------------------------------------
(* The number of mirrors *)

SearchPcs == {"known", "announce", "accepted"}

LEMMA SearchCounts ==
  ASSUME TypeOK
  PROVE  /\ IsFiniteSet(mirrors) /\ Cardinality(mirrors) \in Nat
         /\ IsFiniteSet(Searching) /\ Cardinality(Searching) \in Nat
         /\ Cardinality(Workers) \in Nat /\ Cardinality(Searching) <= Cardinality(Workers)
<1>1. mirrors \in SUBSET Peers /\ Searching \in SUBSET Workers
  BY TypeParts DEF Searching
<1>2. IsFiniteSet(mirrors)
  BY <1>1, PeerAssumption, FS_Subset
<1>3. IsFiniteSet(Searching) /\ Cardinality(Searching) <= Cardinality(Workers)
  BY <1>1, PoolAssumption, FS_Subset
<1> QED
  BY <1>2, <1>3, PoolAssumption, FS_CardinalityType

\* A step by which nobody enrols and nobody begins to search.
LEMMA SearchShrinks ==
  ASSUME TypeOK, SearchOK, mirrors' \subseteq mirrors,
         \A w \in Workers : pc'[w] \in SearchPcs => pc[w] \in SearchPcs
  PROVE  SearchOK'
<1>1. /\ IsFiniteSet(mirrors) /\ Cardinality(mirrors) \in Nat
      /\ IsFiniteSet(Searching) /\ Cardinality(Searching) \in Nat /\ Cardinality(Workers) \in Nat
  BY SearchCounts
<1>2. Searching' \in SUBSET Searching /\ mirrors' \in SUBSET mirrors
  BY DEF Searching, SearchPcs
<1>3. Cardinality(mirrors') <= Cardinality(mirrors) /\ IsFiniteSet(mirrors')
  BY <1>1, <1>2, FS_Subset
<1>4. Cardinality(Searching') <= Cardinality(Searching) /\ IsFiniteSet(Searching')
  BY <1>1, <1>2, FS_Subset
<1>5. Cardinality(mirrors') \in Nat /\ Cardinality(Searching') \in Nat
  BY <1>3, <1>4, FS_CardinalityType
<1>6. TargetMirrors \in Nat
  BY TargetAssumption
<1> QED
  BY <1>1, <1>3, <1>4, <1>5, <1>6 DEF SearchOK

\* A worker begins to search, or goes on, when there are too few mirrors.
LEMMA SearchBegins ==
  ASSUME TypeOK, TypeOK', mirrors' = mirrors, Cardinality(mirrors) < TargetMirrors
  PROVE  SearchOK'
<1>1. Cardinality(mirrors) \in Nat /\ Cardinality(Workers) \in Nat
  BY SearchCounts
<1>2. Cardinality(Searching') \in Nat /\ Cardinality(Searching') <= Cardinality(Workers)
  <2>1. Searching' \in SUBSET Workers
    BY DEF Searching
  <2>2. IsFiniteSet(Searching') /\ Cardinality(Searching') <= Cardinality(Workers)
    BY <2>1, PoolAssumption, FS_Subset
  <2> QED
    BY <2>2, FS_CardinalityType
<1>3. TargetMirrors \in Nat
  BY TargetAssumption
<1> QED
  BY <1>1, <1>2, <1>3 DEF SearchOK

\* A worker that enrols a mirror stops counting as one that searches.
LEMMA SearchEnrols ==
  ASSUME MirrorInv, SearchOK, NEW w \in Workers, Enrol(w)
  PROVE  SearchOK'
<1>1. /\ IsFiniteSet(mirrors) /\ Cardinality(mirrors) \in Nat
      /\ IsFiniteSet(Searching) /\ Cardinality(Searching) \in Nat /\ Cardinality(Workers) \in Nat
  BY SearchCounts DEF MirrorInv
<1>2. pc \in [Workers -> Pcs] /\ pc[w] = "accepted" /\ pc' = [pc EXCEPT ![w] = "enrolled"]
  BY TypeParts DEF MirrorInv, Enrol, Goto
<1>3. w \in Searching /\ Searching' = Searching \ {w}
  BY <1>2 DEF Searching
<1>4. Cardinality(Searching') = Cardinality(Searching) - 1
  BY <1>1, <1>3, FS_RemoveElement
<1>5. Cardinality(mirrors') <= Cardinality(mirrors) + 1 /\ Cardinality(mirrors') \in Nat
  <2>1. PICK m : mirrors' = mirrors \cup {m}
    BY DEF Enrol
  <2>2. Cardinality(mirrors \cup {m}) = IF m \in mirrors THEN Cardinality(mirrors) ELSE Cardinality(mirrors) + 1
    BY <1>1, FS_AddElement
  <2> QED
    BY <1>1, <2>1, <2>2
<1>6. TargetMirrors \in Nat
  BY TargetAssumption
<1> QED
  BY <1>1, <1>4, <1>5, <1>6 DEF SearchOK

LEMMA SearchNextKeeps ==
  ASSUME MirrorInv, MirrorInv', SearchOK, Next
  PROVE  SearchOK'
<1>1. TypeOK /\ TypeOK' /\ pc \in [Workers -> Pcs] /\ queue \in Seq(Tasks) /\ Cardinality(mirrors) \in Nat /\ TargetMirrors \in Nat
  BY TypeParts, SearchCounts, TargetAssumption DEF MirrorInv
<1>2. ASSUME NEW w \in Workers, NEW s, pc' = [pc EXCEPT ![w] = s], s \in SearchPcs => pc[w] \in SearchPcs, mirrors' \subseteq mirrors
      PROVE  SearchOK'
  <2>1. \A v \in Workers : pc'[v] \in SearchPcs => pc[v] \in SearchPcs
    BY <1>1, <1>2
  <2> QED
    BY <1>1, <1>2, <2>1, SearchShrinks
<1>3. ASSUME pc' = pc, mirrors' \subseteq mirrors PROVE SearchOK'
  BY <1>1, <1>3, SearchShrinks
<1>4. ASSUME NEW w \in Workers, Done(w), mirrors' \subseteq mirrors PROVE SearchOK'
  BY <1>2, <1>4 DEF Done, SearchPcs
<1>5. ASSUME NEW w \in Workers, Work(w) PROVE SearchOK'
  <2>1. CASE TakeTask(w)
    <3>0. queue # << >> /\ mirrors' = mirrors
      BY <2>1 DEF TakeTask
    <3>a. Head(queue) \in Tasks
      BY <1>1, <3>0
    <3>1. Head(queue).kind \in Kinds /\ mirrors' = mirrors
      BY <3>0, <3>a DEF Tasks
    <3>2. handle_task[Head(queue).kind] \notin SearchPcs
      BY <3>1, HandleTaskStart DEF SearchPcs
    <3> QED
      BY <1>2, <2>1, <3>1, <3>2 DEF TakeTask, Goto
  <2>2. CASE CheckTarget(w)
    <3>1. CASE Cardinality(mirrors) >= TargetMirrors
      BY <1>2, <2>2, <3>1 DEF CheckTarget, Goto, source, SearchPcs
    <3>2. CASE Cardinality(mirrors) < TargetMirrors
      BY <1>1, <2>2, <3>2, SearchBegins DEF CheckTarget, source
    <3> QED
      BY <1>1, <3>1, <3>2
  <2>3. CASE \E known \in SUBSET Peers : SnapshotCandidates(w, known)
    BY <1>2, <2>3 DEF SnapshotCandidates, Goto, source, SearchPcs
  <2>4. CASE \E p \in Peers : AnnounceAccepted(w, p) \/ AnnounceDeclined(w, p)
    BY <1>2, <1>3, <2>4 DEF AnnounceAccepted, AnnounceDeclined, Goto, source, SearchPcs
  <2>5. CASE Enrol(w)
    BY <2>5, SearchEnrols
  <2>6. CASE EnqueueDump(w)
    <3>1. CASE Cardinality(mirrors) >= TargetMirrors
      BY <1>2, <2>6, <3>1 DEF EnqueueDump, Goto, SearchPcs
    <3>2. CASE Cardinality(mirrors) < TargetMirrors
      BY <1>1, <2>6, <3>2, SearchBegins DEF EnqueueDump
    <3> QED
      BY <1>1, <3>1, <3>2
  <2>7. CASE SnapshotCalendar(w)
    BY <1>2, <1>4, <2>7 DEF SnapshotCalendar, source, SearchPcs
  <2>8. CASE SendChunk(w)
    BY <1>2, <2>8 DEF SendChunk, Goto, source, SearchPcs
  <2>9. CASE ExpireMirror(w) \/ ForgetFailures(w)
    BY <1>2, <1>4, <2>9 DEF ExpireMirror, ForgetFailures, Goto, SearchPcs
  <2>10. CASE CandidatesExhausted(w) \/ DumpCompletes(w) \/ ProbeAnswered(w) \/ ProbeFails(w) \/ Refill(w)
    BY <1>4, <2>10 DEF CandidatesExhausted, DumpCompletes, ProbeAnswered, ProbeFails, Refill, source
  <2> QED
    BY <1>5, <2>1, <2>2, <2>3, <2>4, <2>5, <2>6, <2>7, <2>8, <2>9, <2>10 DEF Work
<1>6. ASSUME NEW r \in requests, Serve(r) PROVE SearchOK'
  <2>1. mirrors' = mirrors
    BY <1>6 DEF Serve, verify_history_dump_chunk, RefuseRecord, insert_mirrored, source
  <2>2. \/ pc' = pc
        \/ \E w \in Workers : \E s : pc' = [pc EXCEPT ![w] = s] /\ s \notin SearchPcs
    BY <1>6 DEF Serve, verify_history_dump_chunk, RefuseRecord, insert_mirrored, worker, Done, Acknowledged, SearchPcs
  <2> QED
    BY <1>2, <1>3, <2>1, <2>2
<1>7. ASSUME NEW q \in Peers, NEW n \in 1..MaxTicks, handle_stream_tick(q, n) \/ handle_ship_ack(q, n) PROVE SearchOK'
  <2>1. UNCHANGED <<source, worker>>
    BY <1>7, Zenon DEF handle_stream_tick, handle_ship_ack
  <2> QED
    BY <1>3, <2>1 DEF source, worker
<1>8. ASSUME Tick \/ \E t : enqueue_task(t) PROVE SearchOK'
  BY <1>3, <1>8 DEF Tick, enqueue_task, source, worker
<1>9. ASSUME Fault PROVE SearchOK'
  <2>1. CASE \E w \in Workers, r \in requests : ChunkTimesOut(w, r)
    BY <1>4, <2>1 DEF ChunkTimesOut, source
  <2>2. CASE \E w \in Workers : CompleteTimesOut(w)
    BY <1>4, <2>2 DEF CompleteTimesOut, source
  <2>3. ASSUME NEW p \in Peers, Restart(p) PROVE SearchOK'
    <3>1. mirrors' = mirrors /\ \A v \in Workers : pc'[v] = "idle" \/ pc'[v] = pc[v]
      BY <2>3 DEF Restart, source
    <3>2. \A v \in Workers : pc'[v] \in SearchPcs => pc[v] \in SearchPcs
      BY <3>1 DEF SearchPcs
    <3> QED
      BY <1>1, <3>1, <3>2, SearchShrinks
  <2> QED
    BY <1>9, <2>1, <2>2, <2>3 DEF Fault
<1> QED
  BY <1>5, <1>6, <1>7, <1>8, <1>9 DEF Next

\* Workers that each compare the active set with target_mirrors on their own
\* enrol at most one mirror too many for every worker but one.
THEOREM OvershootIsBounded == Spec => []BoundedOvershoot
<1>1. Init => SearchOK
  <2> SUFFICES ASSUME Init PROVE SearchOK
    OBVIOUS
  <2>1. mirrors = {} /\ Searching = {}
    BY DEF Init, Searching
  <2>2. Cardinality(Workers) \in Nat /\ TargetMirrors \in Nat /\ TargetMirrors # 0
    BY PoolAssumption, TargetAssumption, FS_CardinalityType
  <2>3. Cardinality(mirrors) = 0 /\ Cardinality(Searching) = 0
    BY <2>1, FS_EmptySet
  <2> QED
    BY <2>2, <2>3 DEF SearchOK
<1>2. MirrorInv /\ MirrorInv' /\ SearchOK /\ [Next]_vars => SearchOK'
  <2>1. ASSUME SearchOK, UNCHANGED vars PROVE SearchOK'
    <3>1. mirrors' = mirrors /\ Searching' = Searching
      BY <2>1 DEF vars, source, worker, Searching
    <3> QED
      BY <2>1, <3>1 DEF SearchOK
  <2> QED
    BY <2>1, SearchNextKeeps
<1>3. MirrorInv /\ SearchOK => BoundedOvershoot
  <2> SUFFICES ASSUME MirrorInv, SearchOK PROVE BoundedOvershoot
    OBVIOUS
  <2>1. Cardinality(mirrors) \in Nat /\ Cardinality(Searching) \in Nat /\ Cardinality(Workers) \in Nat /\ TargetMirrors \in Nat
    BY SearchCounts, TargetAssumption DEF MirrorInv
  <2> QED
    BY <2>1 DEF SearchOK, BoundedOvershoot
<1> QED
  BY <1>1, <1>2, <1>3, MirrorInvariant, PTL DEF Spec

-----------------------------------------------------------------------------
(* A mirror without a pending dump holds what it was owed *)

\* What an enrolled peer is waiting for stays, or is done.
LEMMA ServedStays ==
  ASSUME MirrorInv, NEW p \in Peers, Served(p), Held(p)' = Held(p), owed'[p] = owed[p],
         \A i \in DOMAIN queue : queue[i] = Task("InitiateDump", p) => DumpPending(p)',
         \A v \in Workers : pc[v] \in Dumping /\ job[v].mirror = p => DumpPending(p)' \/ owed[p] <= Held(p),
         \A v \in Workers : pc[v] \in {"send", "chunk"} /\ job[v].mirror = p /\ job[v].next = Held(p) + 1 => Leads(p)'
  PROVE  Served(p)'
<1>1. CASE owed[p] = Never /\ Held(p) = 0
  BY <1>1 DEF Served, Never
<1>2. CASE owed[p] # Never /\ owed[p] <= Held(p)
  BY <1>2 DEF Served, Never
<1>3. CASE Held(p) = 0 /\ DumpPending(p)
  <2>1. ASSUME NEW v \in Workers, pc[v] \in Dumping, job[v].mirror = p PROVE owed[p] # Never
    BY <2>1 DEF MirrorInv, WorkersOK, WorkerOK
  <2>2. DumpPending(p)' \/ (owed[p] # Never /\ owed[p] <= Held(p))
    BY <1>3, <2>1 DEF DumpPending, Dumping
  <2> QED
    BY <1>3, <2>2 DEF Served, Never
<1>4. CASE Leads(p)
  BY <1>4 DEF Leads, Served
<1> QED
  BY <1>1, <1>2, <1>3, <1>4 DEF Served

\* The tasks in the channel stay there when one is added.
LEMMA QueuedStays ==
  ASSUME queue \in Seq(Tasks), queue' = queue \/ \E t \in Tasks : queue' = Append(queue, t), NEW p \in Peers,
         NEW i \in DOMAIN queue, queue[i] = Task("InitiateDump", p)
  PROVE  DumpPending(p)'
<1>1. i \in DOMAIN queue' /\ queue'[i] = queue[i]
  OBVIOUS
<1> QED
  BY <1>1 DEF DumpPending, Task

\* A step of one worker that is not sending, and adds at most one task.
LEMMA ServedByOthers ==
  ASSUME MirrorInv, NEW p \in Peers, Served(p), NEW w \in Workers, pc[w] \notin {"send", "chunk"},
         \A v \in Workers : v # w => pc'[v] = pc[v] /\ job'[v] = job[v],
         store' = store, owed'[p] = owed[p],
         \A i \in DOMAIN queue : queue[i] = Task("InitiateDump", p) => DumpPending(p)',
         pc[w] \in Dumping /\ job[w].mirror = p => DumpPending(p)' \/ owed[p] <= Held(p)
  PROVE  Served(p)'
<1>1. Held(p)' = Held(p)
  BY DEF Held
<1>2. ASSUME NEW v \in Workers, pc[v] \in Dumping, job[v].mirror = p PROVE DumpPending(p)' \/ owed[p] <= Held(p)
  BY <1>2 DEF DumpPending, Dumping
<1>3. ASSUME NEW v \in Workers, pc[v] \in {"send", "chunk"}, job[v].mirror = p, job[v].next = Held(p) + 1 PROVE Leads(p)'
  BY <1>1, <1>3 DEF Leads
<1> QED
  BY <1>1, <1>2, <1>3, ServedStays

LEMMA TakeTaskServes ==
  ASSUME MirrorInv, NEW p \in Peers, Served(p), NEW w \in Workers, TakeTask(w)
  PROVE  Served(p)'
<1>1. queue # << >> /\ queue \in Seq(Tasks) /\ pc \in [Workers -> Pcs] /\ job \in [Workers -> Jobs]
  BY TypeParts DEF MirrorInv, TakeTask
<1>2. /\ pc[w] = "idle" /\ store' = store /\ owed' = owed /\ queue' = Tail(queue)
      /\ pc' = [pc EXCEPT ![w] = handle_task[Head(queue).kind]]
  BY DEF TakeTask, Goto, peer, history
<1>3. \A v \in Workers : v # w => pc'[v] = pc[v] /\ job'[v] = job[v]
  BY <1>1, <1>2 DEF TakeTask
<1>4. ASSUME NEW i \in DOMAIN queue, queue[i] = Task("InitiateDump", p) PROVE DumpPending(p)'
  <2>1. CASE i = 1
    <3>1. Head(queue) = Task("InitiateDump", p)
      BY <1>1, <1>4, <2>1
    <3>2. Head(queue).kind = "InitiateDump" /\ Head(queue).mirror = p
      BY <3>1 DEF Task
    <3>3. pc'[w] = "dump"
      BY <1>1, <1>2, <3>2 DEF handle_task
    <3>4. job'[w] = [NoJob EXCEPT !.mirror = p]
      BY <1>1, <3>2, <3>3 DEF TakeTask
    <3>5. job'[w].mirror = p
      BY <3>4 DEF NoJob
    <3> QED
      BY <3>3, <3>5 DEF DumpPending
  <2>2. CASE i # 1
    <3>1. i - 1 \in DOMAIN queue' /\ queue'[i - 1] = queue[i]
      BY <1>1, <1>2, <2>2
    <3> QED
      BY <1>4, <3>1 DEF DumpPending, Task
  <2> QED
    BY <2>1, <2>2
<1> QED
  BY <1>2, <1>3, <1>4, ServedByOthers DEF Dumping

\* An enrolment: either the peer is new and has a dump coming, or nothing changes for it.
LEMMA EnrolServes ==
  ASSUME MirrorInv, NEW p \in Peers, Served(p), NEW w \in Workers, Enrol(w)
  PROVE  Served(p)'
<1>1. /\ pc \in [Workers -> Pcs] /\ owed \in [Peers -> Nat] /\ pc[w] = "accepted" /\ queue' = queue /\ job' = job /\ store' = store
      /\ pc' = [pc EXCEPT ![w] = "enrolled"] /\ queue \in Seq(Tasks)
  BY TypeParts DEF MirrorInv, Enrol, Goto, peer
<1>2. owed' = [owed EXCEPT ![job[w].mirror] = IF owed[job[w].mirror] = Never THEN ticks ELSE owed[job[w].mirror]]
  BY DEF Enrol
<1>3. CASE owed[p] = Never /\ job[w].mirror = p
  <2>1. DumpPending(p)'
    BY <1>1, <1>3 DEF DumpPending
  <2>2. ASSUME NEW v \in Workers, pc[v] \in {"send", "chunk"}, job[v].mirror = p PROVE FALSE
    BY <1>3, <2>2 DEF MirrorInv, WorkersOK, WorkerOK, Dumping
  <2>3. Held(p) = 0 /\ Held(p)' = Held(p)
    BY <1>1, <1>3, <2>2 DEF Served, Leads, Held
  <2> QED
    BY <2>1, <2>3 DEF Served
<1>4. CASE ~(owed[p] = Never /\ job[w].mirror = p)
  <2>1. owed'[p] = owed[p]
    BY <1>1, <1>2, <1>4
  <2>2. \A v \in Workers : v # w => pc'[v] = pc[v] /\ job'[v] = job[v]
    BY <1>1
  <2>3. \A i \in DOMAIN queue : queue[i] = Task("InitiateDump", p) => DumpPending(p)'
    BY <1>1, QueuedStays
  <2> QED
    BY <1>1, <2>1, <2>2, <2>3, ServedByOthers DEF Dumping
<1> QED
  BY <1>3, <1>4

LEMMA EnqueueDumpServes ==
  ASSUME MirrorInv, NEW p \in Peers, Served(p), NEW w \in Workers, EnqueueDump(w)
  PROVE  Served(p)'
<1>1. /\ pc \in [Workers -> Pcs] /\ job \in [Workers -> Jobs] /\ queue \in Seq(Tasks) /\ pc[w] = "enrolled"
      /\ store' = store /\ owed' = owed /\ queue' = Append(queue, Task("InitiateDump", job[w].mirror))
  BY TypeParts DEF MirrorInv, EnqueueDump, Goto, peer, history
<1>2. \A v \in Workers : v # w => pc'[v] = pc[v] /\ job'[v] = job[v]
  BY <1>1 DEF EnqueueDump, Goto
<1>3. PICK t \in Tasks : t = Task("InitiateDump", job[w].mirror)
  <2>1. job[w].mirror \in Peers \cup {NoPeer}
    BY <1>1 DEF Jobs
  <2> QED
    BY <2>1 DEF Task, Tasks, Kinds
<1>4. queue' = Append(queue, t) /\ Len(queue) + 1 \in DOMAIN queue' /\ queue'[Len(queue) + 1] = t
  BY <1>1, <1>3
<1>5. \A i \in DOMAIN queue : queue[i] = Task("InitiateDump", p) => DumpPending(p)'
  BY <1>1, <1>4, QueuedStays
<1>6. job[w].mirror = p => DumpPending(p)'
  BY <1>3, <1>4 DEF DumpPending, Task
<1> QED
  BY <1>1, <1>2, <1>5, <1>6, ServedByOthers

\* The calendar was copied: nothing is owed of an empty one.
LEMMA SnapshotServes ==
  ASSUME MirrorInv, NEW p \in Peers, Served(p), NEW w \in Workers, SnapshotCalendar(w)
  PROVE  Served(p)'
<1>1. /\ pc \in [Workers -> Pcs] /\ job \in [Workers -> Jobs] /\ queue \in Seq(Tasks) /\ pc[w] = "dump" /\ job[w] \in Jobs
      /\ store' = store /\ owed' = owed /\ queue' = queue /\ owed \in [Peers -> Nat] /\ ticks \in Nat
  BY TypeParts DEF MirrorInv, SnapshotCalendar, peer, history, source
<1>2. \A v \in Workers : v # w => pc'[v] = pc[v] /\ job'[v] = job[v]
  BY <1>1 DEF SnapshotCalendar, Done
<1>3. \A i \in DOMAIN queue : queue[i] = Task("InitiateDump", p) => DumpPending(p)'
  BY <1>1, QueuedStays
<1>4. ASSUME job[w].mirror = p PROVE DumpPending(p)' \/ owed[p] <= Held(p)
  <2>1. CASE ticks = 0
    <3>1. owed[p] # Never
      BY <1>1, <1>4 DEF MirrorInv, WorkersOK, WorkerOK, Dumping
    <3>2. owed[p] <= ticks /\ Held(p) \in Nat
      BY <3>1 DEF MirrorInv, CountersOK, StoreOK
    <3> QED
      BY <1>1, <2>1, <3>2
  <2>2. CASE ticks # 0
    <3>1. pc' = [pc EXCEPT ![w] = "send"] /\ job' = [job EXCEPT ![w] = [job[w] EXCEPT !.total = ticks, !.next = 1]]
      BY <2>2 DEF SnapshotCalendar
    <3>2. pc'[w] = "send" /\ job'[w] = [job[w] EXCEPT !.total = ticks, !.next = 1]
      BY <1>1, <3>1
    <3>3. job'[w].mirror = p
      BY <1>1, <1>4, <3>2 DEF Jobs
    <3> QED
      BY <3>2, <3>3 DEF DumpPending
  <2> QED
    BY <2>1, <2>2
<1> QED
  BY <1>1, <1>2, <1>3, <1>4, ServedByOthers

LEMMA DumpCompletesServes ==
  ASSUME MirrorInv, NEW p \in Peers, Served(p), NEW w \in Workers, DumpCompletes(w), faults = 0
  PROVE  Served(p)'
<1>1. /\ pc \in [Workers -> Pcs] /\ job \in [Workers -> Jobs] /\ queue \in Seq(Tasks) /\ pc[w] = "complete" /\ job[w] \in Jobs
      /\ store' = store /\ owed' = owed /\ queue' = Append(queue, Task("StartStream", job[w].mirror)) /\ owed \in [Peers -> Nat]
  BY TypeParts DEF MirrorInv, DumpCompletes, peer
<1>2. \A v \in Workers : v # w => pc'[v] = pc[v] /\ job'[v] = job[v]
  BY <1>1 DEF DumpCompletes, Done
<1>3. PICK t \in Tasks : t = Task("StartStream", job[w].mirror)
  <2>1. job[w].mirror \in Peers \cup {NoPeer}
    BY <1>1 DEF Jobs
  <2> QED
    BY <2>1 DEF Task, Tasks, Kinds
<1>4. \A i \in DOMAIN queue : queue[i] = Task("InitiateDump", p) => DumpPending(p)'
  BY <1>1, <1>3, QueuedStays
<1>5. ASSUME job[w].mirror = p PROVE owed[p] <= Held(p)
  <2>1. WorkerOK("complete", job[w])
    BY <1>1 DEF MirrorInv, WorkersOK
  <2>2. owed[p] <= job[w].total /\ job[w].total <= Held(p)
    BY <1>5, <2>1 DEF WorkerOK
  <2>3. job[w].total \in Nat /\ owed[p] \in Nat /\ Held(p) \in Nat
    BY <1>1 DEF Jobs, MirrorInv, StoreOK
  <2> QED
    BY <2>2, <2>3
<1> QED
  BY <1>1, <1>2, <1>4, <1>5, ServedByOthers

\* The steps of a worker that has nothing to do with a dump.
LEMMA OtherWorkServes ==
  ASSUME MirrorInv, NEW p \in Peers, Served(p), NEW w \in Workers,
         \/ CheckTarget(w) \/ CandidatesExhausted(w)
         \/ \E known \in SUBSET Peers : SnapshotCandidates(w, known)
         \/ \E q \in Peers : AnnounceAccepted(w, q) \/ AnnounceDeclined(w, q)
         \/ ProbeAnswered(w) \/ ProbeFails(w) \/ ExpireMirror(w) \/ ForgetFailures(w) \/ Refill(w)
  PROVE  Served(p)'
<1>1. pc \in [Workers -> Pcs] /\ job \in [Workers -> Jobs] /\ queue \in Seq(Tasks) /\ job[w] \in Jobs
  BY TypeParts DEF MirrorInv
<1>2. pc[w] \notin Dumping /\ store' = store /\ owed' = owed
  BY DEF CheckTarget, CandidatesExhausted, SnapshotCandidates, AnnounceAccepted, AnnounceDeclined, ProbeAnswered,
         ProbeFails, ExpireMirror, ForgetFailures, Refill, Goto, peer, history, Dumping
<1>3. \A v \in Workers : v # w => pc'[v] = pc[v] /\ job'[v] = job[v]
  BY <1>1 DEF CheckTarget, CandidatesExhausted, SnapshotCandidates, AnnounceAccepted, AnnounceDeclined, ProbeAnswered,
              ProbeFails, ExpireMirror, ForgetFailures, Refill, Goto, Done
<1>4. queue' = queue \/ \E t \in Tasks : queue' = Append(queue, t)
  <2>1. CASE ProbeFails(w)
    <3>1. job[w].mirror \in Peers \cup {NoPeer}
      BY <1>1 DEF Jobs
    <3>2. Task("ExpireMirror", job[w].mirror) \in Tasks
      BY <3>1 DEF Task, Tasks, Kinds
    <3> QED
      BY <2>1, <3>2 DEF ProbeFails
  <2>2. CASE Refill(w)
    <3>1. Task("FindNewMirror", NoPeer) \in Tasks
      BY DEF Task, Tasks, Kinds
    <3> QED
      BY <2>2, <3>1 DEF Refill
  <2>3. CASE ~ProbeFails(w) /\ ~Refill(w)
    BY <2>3 DEF CheckTarget, CandidatesExhausted, SnapshotCandidates, AnnounceAccepted, AnnounceDeclined, ProbeAnswered,
                ExpireMirror, ForgetFailures, source
  <2> QED
    BY <2>1, <2>2, <2>3
<1>5. \A i \in DOMAIN queue : queue[i] = Task("InitiateDump", p) => DumpPending(p)'
  BY <1>1, <1>4, QueuedStays
<1> QED
  BY <1>2, <1>3, <1>5, ServedByOthers DEF Dumping

LEMMA SendChunkServes ==
  ASSUME MirrorInv, NEW p \in Peers, Served(p), NEW w \in Workers, SendChunk(w)
  PROVE  Served(p)'
<1>1. /\ pc \in [Workers -> Pcs] /\ queue \in Seq(Tasks) /\ pc[w] = "send" /\ pc' = [pc EXCEPT ![w] = "chunk"]
      /\ store' = store /\ owed' = owed /\ queue' = queue /\ job' = job
  BY TypeParts DEF MirrorInv, SendChunk, Goto, source, history
<1>2. Held(p)' = Held(p)
  BY <1>1 DEF Held
<1>3. \A i \in DOMAIN queue : queue[i] = Task("InitiateDump", p) => DumpPending(p)'
  BY <1>1, QueuedStays
<1>4. \A v \in Workers : (pc[v] \in Dumping => pc'[v] \in Dumping) /\ (pc[v] \in {"send", "chunk"} => pc'[v] \in {"send", "chunk"})
  BY <1>1 DEF Dumping
<1>5. ASSUME NEW v \in Workers, pc[v] \in Dumping, job[v].mirror = p PROVE DumpPending(p)'
  BY <1>1, <1>4, <1>5 DEF DumpPending, Dumping
<1>6. ASSUME NEW v \in Workers, pc[v] \in {"send", "chunk"}, job[v].mirror = p, job[v].next = Held(p) + 1 PROVE Leads(p)'
  BY <1>1, <1>2, <1>4, <1>6 DEF Leads
<1> QED
  BY <1>1, <1>2, <1>3, <1>5, <1>6, ServedStays

\* A step that leaves the workers and the stores alone.
LEMMA IdleServes ==
  ASSUME MirrorInv, NEW p \in Peers, Served(p), UNCHANGED <<pc, job, store, owed>>,
         queue' = queue \/ \E t \in Tasks : queue' = Append(queue, t)
  PROVE  Served(p)'
<1>1. queue \in Seq(Tasks) /\ Held(p)' = Held(p)
  BY TypeParts DEF MirrorInv, Held
<1>2. \A i \in DOMAIN queue : queue[i] = Task("InitiateDump", p) => DumpPending(p)'
  BY <1>1, QueuedStays
<1>3. ASSUME NEW v \in Workers, pc[v] \in Dumping, job[v].mirror = p PROVE DumpPending(p)'
  BY <1>3 DEF DumpPending, Dumping
<1>4. ASSUME NEW v \in Workers, pc[v] \in {"send", "chunk"}, job[v].mirror = p, job[v].next = Held(p) + 1 PROVE Leads(p)'
  BY <1>1, <1>4 DEF Leads
<1> QED
  BY <1>1, <1>2, <1>3, <1>4, ServedStays

\* The dump that is refused is not the one that leads, and the peer holds something.
LEMMA RefuseServes ==
  ASSUME MirrorInv, NEW p \in Peers, Served(p), NEW r \in requests, RefuseRecord(r), faults = 0, clients = 0
  PROVE  Served(p)'
<1>1. /\ pc \in [Workers -> Pcs] /\ job \in [Workers -> Jobs] /\ queue \in Seq(Tasks) /\ r \in RequestType
      /\ store' = store /\ owed' = owed /\ queue' = queue
  BY TypeParts DEF MirrorInv, RefuseRecord, source, history
<1>2. RequestOK(r)
  BY DEF MirrorInv, RequestsOK
<1>3. r.owner \in Workers /\ r.mirror \in Peers
  BY <1>1, <1>2 DEF RequestOK, RequestType
<1>4. PICK w \in Workers, q \in Peers : w = r.owner /\ q = r.mirror
  BY <1>3
<1>5. pc[w] = "chunk" /\ job[w].mirror = q /\ job[w].next = r.first
  BY <1>2, <1>4 DEF RequestOK
<1>6. pc' = [pc EXCEPT ![w] = "idle"] /\ job' = [job EXCEPT ![w] = NoJob]
  BY <1>4 DEF RefuseRecord, Done
<1>7. r.first # Held(q) + 1
  <2>1. Latest(q) = Held(q)
    BY LatestIsHeld DEF MirrorInv
  <2> QED
    BY <1>4, <2>1 DEF RefuseRecord
<1>8. Held(q) # 0
  <2>1. WorkerOK("chunk", job[w]) /\ job[w] \in Jobs
    BY <1>1, <1>5 DEF MirrorInv, WorkersOK
  <2>2. 1 <= job[w].next /\ job[w].next <= Held(q) + 1
    BY <1>5, <2>1 DEF WorkerOK
  <2>3. job[w].next \in Nat /\ Held(q) \in Nat
    BY <2>1 DEF Jobs, MirrorInv, StoreOK
  <2> QED
    BY <1>5, <1>7, <2>2, <2>3
<1>9. Held(p)' = Held(p)
  BY <1>1 DEF Held
<1>10. \A v \in Workers : v # w => pc'[v] = pc[v] /\ job'[v] = job[v]
  BY <1>1, <1>6
<1>11. ASSUME NEW v \in Workers, pc[v] \in {"send", "chunk"}, job[v].mirror = p, job[v].next = Held(p) + 1 PROVE Leads(p)'
  <2>1. v # w
    BY <1>5, <1>7, <1>11
  <2> QED
    BY <1>9, <1>10, <1>11, <2>1 DEF Leads
<1>12. CASE q = p
  <2>1. CASE owed[p] # Never /\ owed[p] <= Held(p)
    BY <1>1, <1>9, <2>1 DEF Served, Never
  <2>2. CASE Leads(p)
    BY <1>11, <2>2 DEF Leads, Served
  <2> QED
    BY <1>8, <1>12, <2>1, <2>2 DEF Served
<1>13. CASE q # p
  <2>1. \A i \in DOMAIN queue : queue[i] = Task("InitiateDump", p) => DumpPending(p)'
    BY <1>1, QueuedStays
  <2>2. ASSUME NEW v \in Workers, pc[v] \in Dumping, job[v].mirror = p PROVE DumpPending(p)'
    <3>1. v # w
      BY <1>5, <1>13, <2>2
    <3> QED
      BY <1>10, <2>2, <3>1 DEF DumpPending, Dumping
  <2> QED
    BY <1>1, <1>9, <1>11, <2>1, <2>2, ServedStays
<1> QED
  BY <1>12, <1>13

\* The record that is inserted is the leader's, which goes on, or one that the
\* peer has already.
LEMMA InsertServes ==
  ASSUME MirrorInv, NEW p \in Peers, Served(p), NEW r \in requests, insert_mirrored(r), faults = 0, clients = 0
  PROVE  Served(p)'
<1>1. /\ pc \in [Workers -> Pcs] /\ job \in [Workers -> Jobs] /\ queue \in Seq(Tasks) /\ r \in RequestType /\ r.verified
      /\ owed' = owed /\ queue' = queue /\ owed \in [Peers -> Nat] /\ UNCHANGED <<promised, ticks>>
      /\ store' = [store EXCEPT ![r.mirror] = @ \cup {r.first}]
  BY TypeParts DEF MirrorInv, insert_mirrored, source, history
<1>2. RequestOK(r)
  BY DEF MirrorInv, RequestsOK
<1>3. r.owner \in Workers /\ r.mirror \in Peers /\ r.first \in Nat
  BY <1>1, <1>2 DEF RequestOK, RequestType
<1>4. PICK w \in Workers, q \in Peers, f \in Nat : w = r.owner /\ q = r.mirror /\ f = r.first
  BY <1>3
<1>5. /\ pc[w] = "chunk" /\ job[w].mirror = q /\ job[w].next = f /\ r.first = r.last
      /\ 1 <= f /\ f <= ticks /\ f <= Held(q) + 1
  BY <1>1, <1>2, <1>4 DEF RequestOK
<1>6. /\ \A u \in Peers : Held(u) \in Nat /\ Held(u)' \in Nat /\ (u # q => Held(u)' = Held(u))
      /\ Held(q)' = IF f = Held(q) + 1 THEN f ELSE Held(q)
  <2>1. store' = [store EXCEPT ![q] = @ \cup {f}]
    BY <1>1, <1>4
  <2>2. /\ \A u \in Peers : Held(u)' \in Nat /\ (u # q => Held(u)' = Held(u))
        /\ Held(q)' = IF f = Held(q) + 1 THEN f ELSE Held(q)
    BY <1>1, <1>5, <2>1, InsertGrows
  <2>3. \A u \in Peers : Held(u) \in Nat
    BY DEF MirrorInv, StoreOK
  <2> QED
    BY <2>2, <2>3
<1>7. Acknowledged(w)
  <2>1. ~(r.first < r.last)
    BY <1>3, <1>5
  <2> QED
    BY <1>4, <2>1 DEF insert_mirrored
<1>8. PICK s \in {"send", "complete"}, j \in Jobs :
        /\ pc' = [pc EXCEPT ![w] = s] /\ job' = [job EXCEPT ![w] = j]
        /\ j.mirror = job[w].mirror /\ j.total = job[w].total /\ j.intact = job[w].intact
        /\ s = "send" => j.next = job[w].next + 1 /\ job[w].next < job[w].total
        /\ s = "complete" => j.next = job[w].next /\ job[w].next = job[w].total
  BY <1>5, <1>7, AcknowledgedGoes
<1>9. pc'[w] = s /\ job'[w] = j /\ \A v \in Workers : v # w => pc'[v] = pc[v] /\ job'[v] = job[v]
  BY <1>1, <1>8
<1>10. owed[q] # Never /\ owed[q] <= job[w].total
  BY <1>5 DEF MirrorInv, WorkersOK, WorkerOK, Dumping
<1>11. CASE q = p /\ f = Held(q) + 1
  <2>1. Held(p)' = f
    BY <1>6, <1>11
  <2>2. CASE s = "send"
    <3>1. pc'[w] = "send" /\ job'[w].mirror = p /\ job'[w].next = Held(p)' + 1
      BY <1>5, <1>8, <1>9, <1>11, <2>1, <2>2
    <3>2. Leads(p)'
      BY <3>1 DEF Leads
    <3> QED
      BY <3>2 DEF Served
  <2>3. CASE s = "complete"
    <3>1. owed[p] # Never /\ owed[p] <= Held(p)'
      BY <1>5, <1>8, <1>10, <1>11, <2>1, <2>3
    <3> QED
      BY <1>1, <3>1 DEF Served, Never
  <2> QED
    BY <2>2, <2>3
<1>12. CASE q = p /\ f # Held(q) + 1
  <2>1. Held(p)' = Held(p) /\ Held(p) # 0
    BY <1>5, <1>6, <1>12
  <2>2. CASE owed[p] # Never /\ owed[p] <= Held(p)
    BY <1>1, <2>1, <2>2 DEF Served, Never
  <2>3. CASE Leads(p)
    <3>1. PICK v \in Workers : pc[v] \in {"send", "chunk"} /\ job[v].mirror = p /\ job[v].next = Held(p) + 1
      BY <2>3 DEF Leads
    <3>2. v # w
      BY <1>5, <1>12, <3>1
    <3>3. pc'[v] \in {"send", "chunk"} /\ job'[v].mirror = p /\ job'[v].next = Held(p)' + 1
      BY <1>9, <2>1, <3>1, <3>2
    <3>4. Leads(p)'
      BY <3>3 DEF Leads
    <3> QED
      BY <3>4 DEF Served
  <2> QED
    BY <2>1, <2>2, <2>3 DEF Served
<1>13. CASE q # p
  <2>1. Held(p)' = Held(p)
    BY <1>6, <1>13
  <2>2. \A i \in DOMAIN queue : queue[i] = Task("InitiateDump", p) => DumpPending(p)'
    BY <1>1, QueuedStays
  <2>3. ASSUME NEW v \in Workers, pc[v] \in Dumping, job[v].mirror = p PROVE DumpPending(p)'
    <3>1. v # w
      BY <1>5, <1>13, <2>3
    <3> QED
      BY <1>9, <2>3, <3>1 DEF DumpPending, Dumping
  <2>4. ASSUME NEW v \in Workers, pc[v] \in {"send", "chunk"}, job[v].mirror = p, job[v].next = Held(p) + 1 PROVE Leads(p)'
    <3>1. v # w
      BY <1>5, <1>13, <2>4
    <3> QED
      BY <1>9, <2>1, <2>4, <3>1 DEF Leads
  <2> QED
    BY <1>1, <2>1, <2>2, <2>3, <2>4, ServedStays
<1> QED
  BY <1>11, <1>12, <1>13

LEMMA OwedNextKeeps ==
  ASSUME MirrorInv, OwedOK, Next
  PROVE  OwedOK'
<1>1. SUFFICES ASSUME faults' = 0, clients' = 0, NEW p \in Peers PROVE Served(p)'
  BY DEF OwedOK
<1>2. ASSUME faults = 0, clients = 0 PROVE Served(p)
  BY <1>2 DEF OwedOK
<1>3. faults \in Nat /\ clients \in Nat
  BY TypeParts DEF MirrorInv
<1>4. ASSUME NEW w \in Workers, Work(w) PROVE Served(p)'
  <2>1. faults = 0 /\ clients = 0
    BY <1>1, <1>4 DEF Work, TakeTask, CheckTarget, SnapshotCandidates, AnnounceAccepted, AnnounceDeclined, CandidatesExhausted,
                      Enrol, EnqueueDump, SnapshotCalendar, SendChunk, DumpCompletes, ProbeAnswered, ProbeFails,
                      ExpireMirror, ForgetFailures, Refill, bounds
  <2>2. Served(p)
    BY <1>2, <2>1
  <2> QED
    BY <1>4, <2>1, <2>2, TakeTaskServes, EnrolServes, EnqueueDumpServes, SnapshotServes, SendChunkServes, DumpCompletesServes,
       OtherWorkServes DEF Work
<1>5. ASSUME NEW r \in requests, Serve(r) PROVE Served(p)'
  <2>1. faults = 0 /\ clients = 0
    BY <1>1, <1>5 DEF Serve, verify_history_dump_chunk, RefuseRecord, insert_mirrored, bounds
  <2>2. Served(p)
    BY <1>2, <2>1
  <2>3. CASE verify_history_dump_chunk(r)
    <3>1. UNCHANGED <<pc, job, store, owed>> /\ queue' = queue
      BY <2>3 DEF verify_history_dump_chunk, worker, history, source
    <3> QED
      BY <2>2, <3>1, IdleServes
  <2> QED
    BY <1>5, <2>1, <2>2, <2>3, RefuseServes, InsertServes DEF Serve
<1>6. ASSUME NEW q \in Peers, NEW n \in 1..MaxTicks, handle_stream_tick(q, n) \/ handle_ship_ack(q, n) PROVE Served(p)'
  <2>1. clients' = clients + 1
    BY <1>6, Zenon DEF handle_stream_tick, handle_ship_ack
  <2> QED
    BY <1>1, <1>3, <2>1
<1>7. ASSUME NEW q \in Peers \cup {NoPeer}, NEW k \in {"FindNewMirror", "ExploreMirror"}, enqueue_task(Task(k, q)) PROVE Served(p)'
  <2>1. /\ faults' = faults /\ clients' = clients /\ UNCHANGED <<pc, job, store, owed>>
        /\ queue' = Append(queue, Task(k, q))
    BY <1>7 DEF enqueue_task, worker, peer, history
  <2>2. Task(k, q) \in Tasks
    BY DEF Task, Tasks, Kinds
  <2> QED
    BY <1>1, <1>2, <2>1, <2>2, IdleServes
<1>8. ASSUME Tick PROVE Served(p)'
  <2>1. faults' = faults /\ clients' = clients /\ UNCHANGED <<pc, job, store, owed>> /\ queue' = queue
    BY <1>8 DEF Tick, worker, peer, bounds, history, source
  <2> QED
    BY <1>1, <1>2, <2>1, IdleServes
<1>9. ASSUME Fault PROVE Served(p)'
  <2>1. faults' = faults + 1
    BY <1>9 DEF Fault, ChunkTimesOut, CompleteTimesOut, Restart
  <2> QED
    BY <1>1, <1>3, <2>1
<1> QED
  BY <1>4, <1>5, <1>6, <1>7, <1>8, <1>9 DEF Next

\* Two workers may enrol one peer and dump to it at once, and one of the dumps is
\* refused and aborted: never both.  While no call fails and nobody else sends, a
\* mirror without a dump on its way holds every record there was when it enrolled.
THEOREM OneOfTwoDumpsArrives == Spec => []OneDumpGetsThrough
<1>1. Init => OwedOK
  <2> SUFFICES ASSUME Init, NEW p \in Peers PROVE owed[p] = Never /\ Held(p) = 0
    BY DEF OwedOK, Served
  <2>1. store[p] = {} /\ owed[p] = Never
    BY DEF Init
  <2> QED
    BY <2>1, FS_EmptySet DEF Held
<1>2. MirrorInv /\ OwedOK /\ [Next]_vars => OwedOK'
  <2>1. ASSUME OwedOK, UNCHANGED vars PROVE OwedOK'
    BY <2>1 DEF vars, source, worker, peer, bounds, history, OwedOK, Served, Leads, DumpPending, Held, Never
  <2> QED
    BY <2>1, OwedNextKeeps
<1>3. MirrorInv /\ OwedOK => OneDumpGetsThrough
  <2> SUFFICES ASSUME MirrorInv, OwedOK, faults = 0, clients = 0, NEW p \in mirrors
               PROVE  DumpPending(p) \/ owed[p] <= Cardinality(store[p])
    BY DEF OneDumpGetsThrough
  <2>1. p \in Peers /\ owed[p] # Never
    BY TypeParts DEF MirrorInv, CountersOK
  <2>2. Leads(p) => DumpPending(p)
    BY DEF Leads, DumpPending
  <2> QED
    BY <2>1, <2>2 DEF OwedOK, Served, Held
<1> QED
  BY <1>1, <1>2, <1>3, MirrorInvariant, PTL DEF Spec
=============================================================================
