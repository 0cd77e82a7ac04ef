------------------------------ MODULE NodeProofs ------------------------------
(***************************************************************************)
(* Theorems about Communerd's directory for any number of callers, TBIDs   *)
(* and lines, and any contents of the DHT; about requests over the swarm   *)
(* for any number of them; and about the collision detector for any number *)
(* of processes that share an identity, any window and any number of       *)
(* heartbeats; and about probity scores for any peers, reports and limits. *)
(***************************************************************************)
EXTENDS TLAPS, Directory, Swarm, Collision, Probity, SumTheorems, FiniteSetTheorems, SequenceTheorems

-----------------------------------------------------------------------------
(* The directory *)

Records == UNION {Dht[t] : t \in Tbids}
Asking == {"line", "insert", "lookup"}
Waiting == {"wait", "expire"}
CallState ==
  [id : Nat, pc : {"idle", "call"} \cup Asking \cup Waiting, op : {"none", "stamp", "slice", "family"},
   tbid : Tbids \cup {Nobody}, rx : {"open", "closed", "value"}, rec : Records \cup {NoRecord}, line : Nat]

CallersOK ==
  /\ caller \in [Callers -> CallState] /\ calls \in Nat
  /\ \A c \in Callers :
       /\ caller[c].pc # "idle" => caller[c].tbid \in Tbids
       /\ caller[c].pc \in Asking => caller[c].rx = "open"
       /\ caller[c].id <= calls
       /\ \A d \in Callers : caller[c].id = caller[d].id /\ caller[c].id # 0 => c = d

MapsOK ==
  /\ tbid_index \in [Tbids -> Records \cup {NoRecord}]
  /\ pending_lookups \in [Tbids -> Nat] /\ pending_family_lookups \in [Tbids -> Nat]
  /\ queries \subseteq [id : Nat, kind : {"tbid", "family"}, key : Tbids]
  /\ events \in Seq([kind : {"tbid", "family"}, key : Tbids, found : SUBSET Records])

\* The owner of a sender in the TBID map waits, and its receiver has no answer.
WaitsOpen(id, t) ==
  \E c \in Callers : /\ caller[c].id = id /\ caller[c].tbid = t /\ caller[c].pc \in Waiting
                     /\ caller[c].op # "family" /\ caller[c].rx = "open"
PendingOpen == \A t \in Tbids : pending_lookups[t] # 0 => WaitsOpen(pending_lookups[t], t)

\* A sender in the family map is a family request's, past or present.
FamilyOwn ==
  \A t \in Tbids :
    /\ pending_family_lookups[t] <= calls
    /\ \A c \in Callers : caller[c].id = pending_family_lookups[t] /\ caller[c].id # 0 =>
         caller[c].op = "family" /\ caller[c].pc \in Waiting \cup {"call"}

\* Lines are numbered as they are made, and what the sweep has passed is cancelled.
LinesOK ==
  /\ lines \in Nat /\ communerdettes \in [Tbids -> Nat]
  /\ sweep \subseteq Tbids /\ shutdown_pc \in {"no", "sweep", "done"}
  /\ \A c \in Callers : caller[c].line <= lines
  /\ \A t \in Tbids : communerdettes[t] <= lines
  /\ affected \subseteq 1..lines
  /\ \A t \in Tbids :
       /\ shutdown_pc = "done" \/ (shutdown_pc = "sweep" /\ t \notin sweep)
       /\ communerdettes[t] \in affected
       => communerdettes[t] \in cancelled

DirectoryInv ==
  /\ CallersOK /\ MapsOK /\ PendingOpen /\ FamilyOwn /\ LinesOK

\* Dropping senders closes their receivers and leaves the rest of a request.
LEMMA ClosedEffect ==
  ASSUME CallersOK, NEW ids
  PROVE  /\ Closed(ids) \in [Callers -> CallState]
         /\ \A c \in Callers :
              /\ Closed(ids)[c].id = caller[c].id /\ Closed(ids)[c].pc = caller[c].pc
              /\ Closed(ids)[c].op = caller[c].op /\ Closed(ids)[c].tbid = caller[c].tbid
              /\ Closed(ids)[c].rec = caller[c].rec /\ Closed(ids)[c].line = caller[c].line
              /\ caller[c].id \notin ids \ {0} => Closed(ids)[c] = caller[c]
<1>1. \A c \in Callers : caller[c] \in CallState
  BY DEF CallersOK
<1>2. ASSUME NEW c \in Callers
      PROVE  LET x == [caller[c] EXCEPT !.rx = "closed"] IN
             /\ x \in CallState /\ x.id = caller[c].id /\ x.pc = caller[c].pc /\ x.op = caller[c].op
             /\ x.tbid = caller[c].tbid /\ x.rec = caller[c].rec /\ x.line = caller[c].line
  BY <1>1 DEF CallState
<1> QED
  BY <1>1, <1>2 DEF Closed

\* A step that changes one request and no map: the request of a sender in the
\* TBID map goes on waiting.
LEMMA OneCallerKeeps ==
  ASSUME CallersOK, PendingOpen, FamilyOwn, NEW c \in Callers, NEW x \in CallState,
         caller' = [caller EXCEPT ![c] = x],
         UNCHANGED <<pending_lookups, pending_family_lookups, calls>>,
         x.pc # "idle" => x.tbid \in Tbids,
         x.pc \in Asking => x.rx = "open",
         x.id = 0 \/ (x.id = caller[c].id /\ x.op = caller[c].op),
         caller[c].pc \in Waiting \cup {"call"} /\ x.id # 0 => x.pc \in Waiting \cup {"call"},
         caller[c].pc \in Waiting /\ caller[c].op # "family" /\ caller[c].rx = "open" =>
           x.id = caller[c].id /\ x.tbid = caller[c].tbid /\ x.pc \in Waiting /\ x.rx = "open"
  PROVE  CallersOK' /\ PendingOpen' /\ FamilyOwn'
<1>1. caller' \in [Callers -> CallState] /\ caller'[c] = x /\ \A d \in Callers : d # c => caller'[d] = caller[d]
  BY DEF CallersOK
<1>2. x.id \in Nat
  BY DEF CallState
<1>3. CallersOK'
  BY <1>1, <1>2 DEF CallersOK
<1>4. PendingOpen'
  <2> SUFFICES ASSUME NEW t \in Tbids, pending_lookups[t] # 0 PROVE WaitsOpen(pending_lookups[t], t)'
    BY DEF PendingOpen
  <2>1. PICK d \in Callers : /\ caller[d].id = pending_lookups[t] /\ caller[d].tbid = t /\ caller[d].pc \in Waiting
                              /\ caller[d].op # "family" /\ caller[d].rx = "open"
    BY DEF PendingOpen, WaitsOpen
  <2>2. /\ caller'[d].id = pending_lookups'[t] /\ caller'[d].tbid = t /\ caller'[d].pc \in Waiting
        /\ caller'[d].op # "family" /\ caller'[d].rx = "open"
    <3>1. CASE d # c
      BY <1>1, <2>1, <3>1
    <3>2. CASE d = c
      BY <1>1, <2>1, <3>2
    <3> QED
      BY <3>1, <3>2
  <2> QED
    BY <2>2 DEF WaitsOpen
<1>5. FamilyOwn'
  <2> SUFFICES ASSUME NEW t \in Tbids, NEW d \in Callers, caller'[d].id = pending_family_lookups[t], caller'[d].id # 0
               PROVE  caller'[d].op = "family" /\ caller'[d].pc \in Waiting \cup {"call"}
    BY DEF FamilyOwn
  <2>1. CASE d # c
    BY <1>1, <2>1 DEF FamilyOwn
  <2>2. CASE d = c
    BY <1>1, <2>2 DEF FamilyOwn
  <2> QED
    BY <2>1, <2>2
<1> QED
  BY <1>3, <1>4, <1>5

\* The registry is left alone, and a request has a line that exists.
LEMMA LinesUntouched ==
  ASSUME LinesOK, UNCHANGED lineVars, \A c \in Callers : caller'[c].line <= lines
  PROVE  LinesOK'
BY DEF LinesOK, lineVars

LEMMA IdleIsCallState == Idle \in CallState
BY DEF Idle, CallState

\* A request begins: its number is new.
LEMMA BeginKeeps ==
  ASSUME DirectoryInv, NEW c \in Callers, NEW t \in Tbids, NEW op \in {"stamp", "slice", "family"},
         NEW pc \in {"line", "lookup"}, Begin(c, op, t, pc)
  PROVE  DirectoryInv'
<1> USE DEF DirectoryInv
<1> DEFINE x == [Idle EXCEPT !.id = calls + 1, !.pc = pc, !.op = op, !.tbid = t]
<1>1. /\ caller[c].pc = "idle" /\ calls' = calls + 1 /\ caller' = [caller EXCEPT ![c] = x]
      /\ UNCHANGED <<swarm, lookupVars, lineVars>>
  BY DEF Begin
<1>2. /\ calls \in Nat /\ x \in CallState /\ x.id = calls + 1 /\ x.pc = pc /\ x.op = op /\ x.tbid = t
      /\ x.rx = "open" /\ x.line = 0
  <2>1. calls \in Nat /\ calls + 1 \in Nat
    BY DEF CallersOK
  <2> QED
    BY <2>1, IdleIsCallState DEF CallState, Asking, Idle
<1> HIDE DEF x
<1>3. caller' \in [Callers -> CallState] /\ caller'[c] = x /\ \A d \in Callers : d # c => caller'[d] = caller[d]
  BY <1>1, <1>2 DEF CallersOK
<1>4. \A d \in Callers : caller[d].id \in Nat /\ caller[d].id <= calls
  BY DEF CallersOK, CallState
<1>5. CallersOK'
  BY <1>1, <1>2, <1>3, <1>4 DEF CallersOK, Asking
<1>6. PendingOpen'
  <2> SUFFICES ASSUME NEW u \in Tbids, pending_lookups[u] # 0 PROVE WaitsOpen(pending_lookups[u], u)'
    BY <1>1 DEF PendingOpen, lookupVars
  <2>1. PICK d \in Callers : /\ caller[d].id = pending_lookups[u] /\ caller[d].tbid = u /\ caller[d].pc \in Waiting
                              /\ caller[d].op # "family" /\ caller[d].rx = "open"
    BY DEF PendingOpen, WaitsOpen
  <2>2. d # c
    BY <1>1, <2>1 DEF Waiting
  <2> QED
    BY <1>1, <1>3, <2>1, <2>2 DEF WaitsOpen, lookupVars
<1>7. FamilyOwn'
  <2> SUFFICES ASSUME NEW u \in Tbids
               PROVE  /\ pending_family_lookups[u] <= calls + 1
                      /\ \A d \in Callers : caller'[d].id = pending_family_lookups[u] /\ caller'[d].id # 0 =>
                           caller'[d].op = "family" /\ caller'[d].pc \in Waiting \cup {"call"}
    BY <1>1 DEF FamilyOwn, lookupVars
  <2>1. pending_family_lookups[u] \in Nat /\ pending_family_lookups[u] <= calls
    BY DEF MapsOK, FamilyOwn
  <2>2. caller'[c].id # pending_family_lookups[u]
    BY <1>2, <1>3, <2>1
  <2> QED
    BY <1>2, <1>3, <2>1, <2>2 DEF FamilyOwn
<1>8. LinesOK'
  BY <1>1, <1>2, <1>3, LinesUntouched DEF LinesOK
<1> QED
  BY <1>1, <1>5, <1>6, <1>7, <1>8 DEF MapsOK, lookupVars

\* A step of one request alone, which may make or find a line and may return.
LEMMA CallerAlone ==
  ASSUME DirectoryInv, NEW c \in Callers, NEW x \in CallState, caller' = [caller EXCEPT ![c] = x],
         UNCHANGED <<lookupVars, calls>>, LinesOK',
         x.pc # "idle" => x.tbid \in Tbids,
         x.pc \in Asking => x.rx = "open",
         x.id = 0 \/ (x.id = caller[c].id /\ x.op = caller[c].op),
         caller[c].pc \in Waiting \cup {"call"} /\ x.id # 0 => x.pc \in Waiting \cup {"call"},
         caller[c].pc \in Waiting /\ caller[c].op # "family" /\ caller[c].rx = "open" =>
           x.id = caller[c].id /\ x.tbid = caller[c].tbid /\ x.pc \in Waiting /\ x.rx = "open"
  PROVE  DirectoryInv'
<1>1. UNCHANGED <<tbid_index, pending_lookups, pending_family_lookups, queries, events>>
  BY DEF lookupVars
<1>2. CallersOK' /\ PendingOpen' /\ FamilyOwn'
  BY <1>1, OneCallerKeeps DEF DirectoryInv
<1> QED
  BY <1>1, <1>2 DEF DirectoryInv, MapsOK

\* A request that is not waiting for its sender's answer returns nothing.
LEMMA ReturnsNothing ==
  ASSUME DirectoryInv, NEW c \in Callers, caller' = [caller EXCEPT ![c] = Idle], UNCHANGED <<lookupVars, calls, lineVars>>,
         ~(caller[c].pc \in Waiting /\ caller[c].op # "family" /\ caller[c].rx = "open")
  PROVE  DirectoryInv'
<1>1. Idle.pc = "idle" /\ Idle.id = 0 /\ Idle.line = 0 /\ Idle \in CallState
  BY IdleIsCallState DEF Idle
<1>2. LinesOK'
  <2>1. \A d \in Callers : caller'[d].line <= lines
    BY <1>1 DEF DirectoryInv, LinesOK, CallersOK
  <2> QED
    BY <2>1, LinesUntouched DEF DirectoryInv
<1> QED
  BY <1>1, <1>2, CallerAlone DEF Asking

\* line_for_tbid and the line it inserts.
LEMMA LineKeeps ==
  ASSUME DirectoryInv, NEW c \in Callers, line_for_tbid(c) \/ InsertLine(c)
  PROVE  DirectoryInv'
<1> USE DEF DirectoryInv
<1>1. caller[c] \in CallState /\ caller[c].tbid \in Tbids /\ caller[c].rx = "open" /\ caller[c].pc \in {"line", "insert"}
  BY DEF line_for_tbid, InsertLine, CallersOK, Asking
<1>2. UNCHANGED <<lookupVars, calls>>
  BY DEF line_for_tbid, InsertLine
<1>3. PICK l \in Nat, pc \in {"insert", "lookup"} :
        /\ caller' = [caller EXCEPT ![c] = [caller[c] EXCEPT !.pc = pc, !.line = l]]
        /\ l <= lines'
  <2>1. CASE line_for_tbid(c)
    <3>1. communerdettes[caller[c].tbid] \in Nat /\ communerdettes[caller[c].tbid] <= lines
      BY <1>1 DEF LinesOK
    <3> QED
      BY <2>1, <3>1 DEF line_for_tbid, lineVars
  <2>2. CASE InsertLine(c)
    <3>1. lines + 1 \in Nat /\ lines + 1 <= lines'
      BY <2>2 DEF InsertLine, LinesOK
    <3>2. caller' = [caller EXCEPT ![c] = [caller[c] EXCEPT !.pc = "lookup", !.line = lines + 1]]
      BY <2>2 DEF InsertLine
    <3> QED
      BY <3>1, <3>2
  <2> QED
    BY <2>1, <2>2
<1> DEFINE x == [caller[c] EXCEPT !.pc = pc, !.line = l]
<1>4. x \in CallState /\ x.id = caller[c].id /\ x.op = caller[c].op /\ x.tbid = caller[c].tbid
      /\ x.rx = caller[c].rx /\ x.pc = pc /\ x.line = l
  BY <1>1 DEF CallState, Asking
<1> HIDE DEF x
<1>5. caller' = [caller EXCEPT ![c] = x] /\ caller'[c] = x /\ \A d \in Callers : d # c => caller'[d] = caller[d]
  BY <1>3 DEF CallersOK, x
<1>6. LinesOK'
  <2>1. CASE line_for_tbid(c)
    BY <2>1, <1>3, <1>4, <1>5, LinesUntouched DEF line_for_tbid, LinesOK, lineVars
  <2>2. CASE InsertLine(c)
    <3>1. lines' = lines + 1 /\ communerdettes' = [communerdettes EXCEPT ![caller[c].tbid] = lines + 1]
          /\ UNCHANGED <<cancelled, shutdown_pc, sweep, affected>>
      BY <2>2 DEF InsertLine
    <3>2. lines \in Nat /\ lines + 1 \in Nat /\ \A d \in Callers : caller[d].line \in Nat
      BY DEF LinesOK, CallersOK, CallState
    <3>3. \A d \in Callers : caller'[d].line <= lines'
      BY <3>1, <3>2, <1>3, <1>4, <1>5 DEF LinesOK
    <3>4. communerdettes' \in [Tbids -> Nat]
      BY <3>1, <3>2 DEF LinesOK
    <3>5. \A t \in Tbids : communerdettes'[t] = IF t = caller[c].tbid THEN lines + 1 ELSE communerdettes[t]
      BY <3>1 DEF LinesOK
    <3>6. affected \subseteq 1..lines' /\ lines + 1 \notin affected
      BY <3>1, <3>2 DEF LinesOK
    <3> QED
      BY <3>1, <3>2, <3>3, <3>4, <3>5, <3>6 DEF LinesOK
  <2> QED
    BY <2>1, <2>2
<1>8. caller[c].pc \notin Waiting \cup {"call"}
  BY <1>1 DEF Waiting
<1> QED
  BY <1>1, <1>2, <1>4, <1>5, <1>6, <1>8, CallerAlone

\* The peer is called and the request returns.
LEMMA CallPeerKeeps ==
  ASSUME DirectoryInv, NEW c \in Callers, CallPeer(c)
  PROVE  DirectoryInv'
BY ReturnsNothing DEF CallPeer, Return, Waiting

\* The request whose sender the TBID map holds.
LEMMA SenderWaits ==
  ASSUME DirectoryInv, NEW c \in Callers, NEW t \in Tbids, caller[c].id = pending_lookups[t], caller[c].id # 0
  PROVE  caller[c].pc \in Waiting /\ caller[c].tbid = t /\ caller[c].op # "family" /\ caller[c].rx = "open"
<1>1. PICK d \in Callers : /\ caller[d].id = pending_lookups[t] /\ caller[d].tbid = t /\ caller[d].pc \in Waiting
                            /\ caller[d].op # "family" /\ caller[d].rx = "open"
  BY DEF DirectoryInv, PendingOpen, WaitsOpen
<1>2. d = c
  BY <1>1 DEF DirectoryInv, CallersOK
<1> QED
  BY <1>1, <1>2

\* What a step does to a request that keeps it the same request, or ends it.
Goes(x, y) ==
  \/ y = Idle
  \/ /\ y.id = x.id /\ y.op = x.op /\ y.tbid = x.tbid /\ y.line = x.line
     /\ y.pc = x.pc \/ (x.pc # "idle" /\ y.pc \in Waiting)
     /\ y.pc \in Asking => y.rx = "open"

LEMMA RequestsKeep ==
  ASSUME DirectoryInv, caller' \in [Callers -> CallState], UNCHANGED calls,
         \A c \in Callers : Goes(caller[c], caller'[c])
  PROVE  /\ CallersOK'
         /\ UNCHANGED lineVars => LinesOK'
         /\ UNCHANGED pending_family_lookups => FamilyOwn'
<1>1. Idle.pc = "idle" /\ Idle.id = 0 /\ Idle.line = 0
  BY DEF Idle
<1>2. calls \in Nat /\ lines \in Nat
  BY DEF DirectoryInv, CallersOK, LinesOK
<1>3. CallersOK'
  <2>1. ASSUME NEW c \in Callers
        PROVE  /\ caller'[c].pc # "idle" => caller'[c].tbid \in Tbids
               /\ caller'[c].pc \in Asking => caller'[c].rx = "open"
               /\ caller'[c].id <= calls
               /\ caller'[c].id = 0 \/ caller'[c].id = caller[c].id
    <3>1. Goes(caller[c], caller'[c])
      OBVIOUS
    <3> QED
      BY <1>1, <1>2, <3>1 DEF Goes, DirectoryInv, CallersOK, Asking
  <2>2. \A c, d \in Callers : caller'[c].id = caller'[d].id /\ caller'[c].id # 0 => c = d
    BY <2>1 DEF DirectoryInv, CallersOK
  <2> QED
    BY <1>2, <2>1, <2>2 DEF CallersOK
<1>4. ASSUME UNCHANGED lineVars PROVE LinesOK'
  <2>1. \A c \in Callers : caller'[c].line <= lines
    BY <1>1, <1>2 DEF Goes, DirectoryInv, LinesOK
  <2> QED
    BY <1>4, <2>1, LinesUntouched DEF DirectoryInv
<1>5. ASSUME UNCHANGED pending_family_lookups PROVE FamilyOwn'
  <2> SUFFICES ASSUME NEW t \in Tbids, NEW c \in Callers, caller'[c].id = pending_family_lookups[t], caller'[c].id # 0
               PROVE  caller'[c].op = "family" /\ caller'[c].pc \in Waiting \cup {"call"}
    BY <1>5 DEF FamilyOwn, DirectoryInv
  <2>1. Goes(caller[c], caller'[c])
    OBVIOUS
  <2> QED
    BY <1>1, <2>1 DEF Goes, DirectoryInv, FamilyOwn
<1> QED
  BY <1>3, <1>4, <1>5

\* A lookup answered by the index, refused without a swarm, or put to the DHT.
LEMMA LookupKeeps ==
  ASSUME DirectoryInv, NEW c \in Callers, lookup_tbid(c)
  PROVE  DirectoryInv'
<1> USE DEF DirectoryInv
<1> DEFINE t == caller[c].tbid
<1>1. /\ caller[c] \in CallState /\ t \in Tbids /\ caller[c].pc = "lookup" /\ caller[c].rx = "open"
      /\ caller[c].op \in {"stamp", "slice"} /\ UNCHANGED <<calls, lineVars>>
  BY DEF lookup_tbid, CallersOK, Asking, Return
<1>3. CASE tbid_index[t] # NoRecord
  <2>1. tbid_index[t] \in Records \cup {NoRecord}
    BY <1>1 DEF MapsOK
  <2> DEFINE x == [caller[c] EXCEPT !.pc = "call", !.rec = tbid_index[t]]
  <2>2. caller' = [caller EXCEPT ![c] = x] /\ UNCHANGED lookupVars
    BY <1>3 DEF lookup_tbid
  <2>3. x \in CallState /\ x.id = caller[c].id /\ x.op = caller[c].op /\ x.tbid = t
        /\ x.pc = "call" /\ x.line = caller[c].line
    BY <1>1, <2>1 DEF CallState
  <2> HIDE DEF x
  <2>4. \A d \in Callers : caller'[d].line <= lines
    BY <1>1, <2>2, <2>3 DEF LinesOK, CallersOK
  <2>5. LinesOK'
    BY <1>1, <2>4, LinesUntouched
  <2> QED
    BY <1>1, <2>2, <2>3, <2>5, CallerAlone DEF Asking, Waiting
<1>4. CASE tbid_index[t] = NoRecord /\ ~swarm
  <2>1. caller' = [caller EXCEPT ![c] = Idle] /\ UNCHANGED lookupVars
    BY <1>4 DEF lookup_tbid, Return
  <2> QED
    BY <1>1, <2>1, ReturnsNothing DEF Waiting
<1>5. CASE tbid_index[t] = NoRecord /\ swarm
  <2> DEFINE K == Closed({pending_lookups[t]})
             x == [K[c] EXCEPT !.pc = "wait"]
             q == [id |-> caller[c].id, kind |-> "tbid", key |-> t]
  <2>1. /\ caller' = [K EXCEPT ![c] = x]
        /\ pending_lookups' = [pending_lookups EXCEPT ![t] = caller[c].id]
        /\ queries' = queries \cup {q} /\ UNCHANGED <<tbid_index, pending_family_lookups, events>>
    BY <1>5 DEF lookup_tbid
  <2>2. /\ K \in [Callers -> CallState]
        /\ \A d \in Callers :
              /\ K[d].id = caller[d].id /\ K[d].pc = caller[d].pc
              /\ K[d].op = caller[d].op /\ K[d].tbid = caller[d].tbid /\ K[d].line = caller[d].line
              /\ (caller[d].id # 0 /\ caller[d].id = pending_lookups[t]) \/ K[d] = caller[d]
    BY ClosedEffect
  <2> HIDE DEF K
  <2>3. K[c] = caller[c]
    BY <1>1, <2>2, SenderWaits DEF Waiting
  <2>4. /\ x \in CallState /\ x.id = caller[c].id /\ x.op = caller[c].op /\ x.tbid = t /\ x.line = caller[c].line
        /\ x.pc = "wait" /\ x.rx = "open"
    BY <1>1, <2>3 DEF CallState, Waiting
  <2> HIDE DEF x
  <2>5. caller' \in [Callers -> CallState] /\ caller'[c] = x /\ \A d \in Callers : d # c => caller'[d] = K[d]
    BY <2>1, <2>2, <2>4
  <2>6. \A d \in Callers : Goes(caller[d], caller'[d])
    <3> TAKE d \in Callers
    <3>1. CASE d = c
      BY <1>1, <2>4, <2>5, <3>1 DEF Goes, Waiting, Asking
    <3>2. CASE d # c
      <4>1. caller[d].pc \in Asking => K[d] = caller[d]
        BY <1>1, <2>2, SenderWaits DEF Waiting, Asking
      <4> QED
        BY <2>2, <2>5, <3>2, <4>1 DEF Goes, CallersOK
    <3> QED
      BY <3>1, <3>2
  <2>7. CallersOK' /\ LinesOK' /\ FamilyOwn'
    BY <1>1, <2>1, <2>5, <2>6, RequestsKeep
  <2>8. PendingOpen'
    <3> SUFFICES ASSUME NEW u \in Tbids, pending_lookups'[u] # 0 PROVE WaitsOpen(pending_lookups[u], u)'
      BY DEF PendingOpen
    <3>1. CASE u = t
      <4>1. pending_lookups'[u] = caller[c].id
        BY <1>1, <2>1, <3>1 DEF MapsOK
      <4> QED
        BY <1>1, <2>4, <2>5, <3>1, <4>1 DEF WaitsOpen, Waiting
    <3>2. CASE u # t
      <4>1. pending_lookups'[u] = pending_lookups[u]
        BY <1>1, <2>1, <3>2 DEF MapsOK
      <4>2. PICK d \in Callers : /\ caller[d].id = pending_lookups[u] /\ caller[d].tbid = u /\ caller[d].pc \in Waiting
                                  /\ caller[d].op # "family" /\ caller[d].rx = "open"
        BY <4>1 DEF PendingOpen, WaitsOpen
      <4>3. d # c /\ K[d] = caller[d]
        BY <1>1, <2>2, <3>2, <4>2, SenderWaits DEF Waiting
      <4> QED
        BY <2>5, <4>1, <4>2, <4>3 DEF WaitsOpen
    <3> QED
      BY <3>1, <3>2
  <2>9. MapsOK'
    <3>1. caller[c].id \in Nat
      BY <1>1 DEF CallState
    <3>2. q \in [id : Nat, kind : {"tbid", "family"}, key : Tbids]
      BY <1>1, <3>1
    <3> HIDE DEF q
    <3> QED
      BY <1>1, <2>1, <3>1, <3>2 DEF MapsOK
  <2> QED
    BY <2>7, <2>8, <2>9
<1> QED
  BY <1>3, <1>4, <1>5

\* A family lookup takes its key's place in the other map.
LEMMA LookupFamilyKeeps ==
  ASSUME DirectoryInv, NEW c \in Callers, LookupFamily(c)
  PROVE  DirectoryInv'
<1> USE DEF DirectoryInv
<1> DEFINE t == caller[c].tbid
<1>1. /\ caller[c] \in CallState /\ t \in Tbids /\ caller[c].pc = "lookup" /\ caller[c].rx = "open"
      /\ caller[c].op = "family" /\ UNCHANGED <<calls, lineVars>>
  BY DEF LookupFamily, CallersOK, Asking, Return
<1>3. CASE ~swarm
  <2>1. caller' = [caller EXCEPT ![c] = Idle] /\ UNCHANGED lookupVars
    BY <1>3 DEF LookupFamily, Return
  <2> QED
    BY <1>1, <2>1, ReturnsNothing DEF Waiting
<1>4. CASE swarm
  <2> DEFINE K == Closed({pending_family_lookups[t]})
             x == [K[c] EXCEPT !.pc = "wait"]
             q == [id |-> caller[c].id, kind |-> "family", key |-> t]
  <2>1. /\ caller' = [K EXCEPT ![c] = x]
        /\ pending_family_lookups' = [pending_family_lookups EXCEPT ![t] = caller[c].id]
        /\ queries' = queries \cup {q} /\ UNCHANGED <<tbid_index, pending_lookups, events>>
    BY <1>4 DEF LookupFamily
  <2>2. /\ K \in [Callers -> CallState]
        /\ \A d \in Callers :
              /\ K[d].id = caller[d].id /\ K[d].pc = caller[d].pc
              /\ K[d].op = caller[d].op /\ K[d].tbid = caller[d].tbid /\ K[d].line = caller[d].line
              /\ (caller[d].id # 0 /\ caller[d].id = pending_family_lookups[t]) \/ K[d] = caller[d]
    BY ClosedEffect
  <2> HIDE DEF K
  <2>3. \A d \in Callers : K[d] = caller[d] \/ (caller[d].op = "family" /\ caller[d].pc \in Waiting \cup {"call"})
    BY <1>1, <2>2 DEF FamilyOwn
  <2>4. /\ x \in CallState /\ x.id = caller[c].id /\ x.op = caller[c].op /\ x.tbid = t /\ x.line = caller[c].line
        /\ x.pc = "wait" /\ x.rx = "open"
    BY <1>1, <2>3 DEF CallState, Waiting
  <2> HIDE DEF x
  <2>5. caller' \in [Callers -> CallState] /\ caller'[c] = x /\ \A d \in Callers : d # c => caller'[d] = K[d]
    BY <2>1, <2>2, <2>4
  <2>6. \A d \in Callers : Goes(caller[d], caller'[d])
    <3> TAKE d \in Callers
    <3>1. CASE d = c
      BY <1>1, <2>4, <2>5, <3>1 DEF Goes, Waiting, Asking
    <3>2. CASE d # c
      <4>1. caller[d].pc \in Asking => K[d] = caller[d]
        BY <2>3 DEF Waiting, Asking
      <4> QED
        BY <2>2, <2>5, <3>2, <4>1 DEF Goes, CallersOK
    <3> QED
      BY <3>1, <3>2
  <2>7. CallersOK' /\ LinesOK'
    BY <1>1, <2>5, <2>6, RequestsKeep
  <2>8. PendingOpen'
    <3> SUFFICES ASSUME NEW u \in Tbids, pending_lookups[u] # 0 PROVE WaitsOpen(pending_lookups[u], u)'
      BY <2>1 DEF PendingOpen
    <3>1. PICK d \in Callers : /\ caller[d].id = pending_lookups[u] /\ caller[d].tbid = u /\ caller[d].pc \in Waiting
                                /\ caller[d].op # "family" /\ caller[d].rx = "open"
      BY DEF PendingOpen, WaitsOpen
    <3>2. d # c /\ K[d] = caller[d]
      BY <1>1, <2>3, <3>1
    <3> QED
      BY <2>1, <2>5, <3>1, <3>2 DEF WaitsOpen
  <2>9. FamilyOwn'
    <3> SUFFICES ASSUME NEW u \in Tbids
                 PROVE  /\ pending_family_lookups'[u] <= calls
                        /\ \A d \in Callers : caller'[d].id = pending_family_lookups'[u] /\ caller'[d].id # 0 =>
                             caller'[d].op = "family" /\ caller'[d].pc \in Waiting \cup {"call"}
      BY <1>1 DEF FamilyOwn
    <3>1. CASE u = t
      <4>1. pending_family_lookups'[u] = caller[c].id
        BY <1>1, <2>1, <3>1 DEF MapsOK
      <4>2. \A d \in Callers : caller'[d].id = caller[c].id /\ caller'[d].id # 0 => d = c
        BY <2>2, <2>4, <2>5 DEF CallersOK
      <4> QED
        BY <1>1, <2>4, <2>5, <4>1, <4>2 DEF CallersOK, Waiting
    <3>2. CASE u # t
      <4>1. pending_family_lookups'[u] = pending_family_lookups[u]
        BY <1>1, <2>1, <3>2 DEF MapsOK
      <4>2. caller[c].id = pending_family_lookups[u] => caller[c].id = 0
        BY <1>1 DEF FamilyOwn, Waiting
      <4> QED
        BY <2>2, <2>4, <2>5, <4>1, <4>2 DEF FamilyOwn
    <3> QED
      BY <3>1, <3>2
  <2>10. MapsOK'
    <3>1. caller[c].id \in Nat
      BY <1>1 DEF CallState
    <3>2. q \in [id : Nat, kind : {"tbid", "family"}, key : Tbids]
      BY <1>1, <3>1
    <3> HIDE DEF q
    <3> QED
      BY <1>1, <2>1, <3>1, <3>2 DEF MapsOK
  <2> QED
    BY <2>7, <2>8, <2>9, <2>10
<1> QED
  BY <1>3, <1>4

\* The swarm takes a query off and, if it finished, queues its event.
LEMMA QueryEndKeeps ==
  ASSUME DirectoryInv, NEW q \in queries, GetRecordFinishes(q) \/ GetRecordFails(q)
  PROVE  DirectoryInv'
<1> USE DEF DirectoryInv
<1>1. /\ UNCHANGED <<tbid_index, pending_lookups, pending_family_lookups, caller, calls, lineVars>>
      /\ queries' \subseteq queries
  BY DEF GetRecordFinishes, GetRecordFails
<1>2. q.kind \in {"tbid", "family"} /\ q.key \in Tbids
  BY DEF MapsOK
<1>3. events' \in Seq([kind : {"tbid", "family"}, key : Tbids, found : SUBSET Records])
  <2>1. CASE GetRecordFinishes(q)
    <3>1. PICK found \in SUBSET Dht[q.key] :
            events' = Append(events, [kind |-> q.kind, key |-> q.key, found |-> found])
      BY <2>1 DEF GetRecordFinishes
    <3>2. found \in SUBSET Records
      BY <1>2 DEF Records
    <3>3. [kind |-> q.kind, key |-> q.key, found |-> found] \in [kind : {"tbid", "family"}, key : Tbids, found : SUBSET Records]
      BY <1>2, <3>2
    <3> QED
      BY <3>1, <3>3 DEF MapsOK
  <2>2. CASE GetRecordFails(q)
    BY <2>2 DEF GetRecordFails, MapsOK
  <2> QED
    BY <2>1, <2>2
<1> QED
  BY <1>1, <1>3 DEF CallersOK, MapsOK, PendingOpen, WaitsOpen, FamilyOwn, LinesOK, lineVars

LEMMA HeadEvent ==
  ASSUME MapsOK, events # << >>
  PROVE  /\ Head(events) \in [kind : {"tbid", "family"}, key : Tbids, found : SUBSET Records]
         /\ Tail(events) \in Seq([kind : {"tbid", "family"}, key : Tbids, found : SUBSET Records])
<1> DEFINE E == [kind : {"tbid", "family"}, key : Tbids, found : SUBSET Records]
<1>1. events \in Seq(E)
  BY DEF MapsOK
<1> HIDE DEF E
<1>2. Head(events) \in E /\ Tail(events) \in Seq(E)
  BY <1>1
<1> QED
  BY <1>2 DEF E

\* A family event closes the receiver of its key's sender.
LEMMA RetrieveFamilyKeeps ==
  ASSUME DirectoryInv, RetrieveFamily
  PROVE  DirectoryInv'
<1> USE DEF DirectoryInv
<1>0. events # << >>
  BY DEF RetrieveFamily
<1>1. PICK t \in Tbids :
        /\ pending_family_lookups' = [pending_family_lookups EXCEPT ![t] = 0]
        /\ caller' = Closed({pending_family_lookups[t]})
  BY <1>0, HeadEvent DEF RetrieveFamily
<1>2. /\ UNCHANGED <<tbid_index, pending_lookups, queries, calls, lineVars>>
      /\ events' \in Seq([kind : {"tbid", "family"}, key : Tbids, found : SUBSET Records])
  BY <1>0, HeadEvent DEF RetrieveFamily
<1>3. /\ caller' \in [Callers -> CallState]
      /\ \A d \in Callers :
            /\ caller'[d].id = caller[d].id /\ caller'[d].pc = caller[d].pc
            /\ caller'[d].op = caller[d].op /\ caller'[d].tbid = caller[d].tbid /\ caller'[d].line = caller[d].line
            /\ (caller[d].id # 0 /\ caller[d].id = pending_family_lookups[t]) \/ caller'[d] = caller[d]
  BY <1>1, ClosedEffect
<1>4. \A d \in Callers : caller'[d] = caller[d] \/ (caller[d].op = "family" /\ caller[d].pc \in Waiting \cup {"call"})
  BY <1>3 DEF FamilyOwn
<1>5. \A d \in Callers : Goes(caller[d], caller'[d])
  BY <1>3, <1>4 DEF Goes, CallersOK, Asking, Waiting
<1>6. CallersOK' /\ LinesOK'
  BY <1>2, <1>3, <1>5, RequestsKeep
<1>7. PendingOpen'
  <2> SUFFICES ASSUME NEW u \in Tbids, pending_lookups[u] # 0 PROVE WaitsOpen(pending_lookups[u], u)'
    BY <1>2 DEF PendingOpen
  <2>1. PICK d \in Callers : /\ caller[d].id = pending_lookups[u] /\ caller[d].tbid = u /\ caller[d].pc \in Waiting
                              /\ caller[d].op # "family" /\ caller[d].rx = "open"
    BY DEF PendingOpen, WaitsOpen
  <2> QED
    BY <1>2, <1>4, <2>1 DEF WaitsOpen
<1>8. FamilyOwn'
  <2>1. \A u \in Tbids : pending_family_lookups'[u] = 0 \/ pending_family_lookups'[u] = pending_family_lookups[u]
    BY <1>1 DEF MapsOK
  <2>2. calls \in Nat
    BY DEF CallersOK
  <2> QED
    BY <1>2, <1>3, <2>1, <2>2 DEF FamilyOwn
<1>9. MapsOK'
  BY <1>1, <1>2 DEF MapsOK
<1> QED
  BY <1>6, <1>7, <1>8, <1>9

\* The receiver wakes, or 5 s pass.
LEMMA WaitEndsKeeps ==
  ASSUME DirectoryInv, NEW c \in Callers, Answered(c) \/ TimesOut(c)
  PROVE  DirectoryInv'
<1> USE DEF DirectoryInv
<1>1. /\ caller[c] \in CallState /\ caller[c].tbid \in Tbids /\ caller[c].pc = "wait"
      /\ UNCHANGED <<lookupVars, calls, lineVars>>
  BY DEF Answered, TimesOut, CallersOK, Return
<1>3. CASE caller' = [caller EXCEPT ![c] = Idle] /\ caller[c].rx # "open"
  BY <1>1, <1>3, ReturnsNothing
<1>4. ASSUME NEW pc \in {"call", "expire"}, caller' = [caller EXCEPT ![c] = [caller[c] EXCEPT !.pc = pc]],
             pc = "expire" <=> caller[c].rx = "open"
      PROVE  DirectoryInv'
  <2> DEFINE x == [caller[c] EXCEPT !.pc = pc]
  <2>1. /\ x \in CallState /\ x.id = caller[c].id /\ x.op = caller[c].op /\ x.tbid = caller[c].tbid
        /\ x.line = caller[c].line /\ x.pc = pc /\ x.rx = caller[c].rx
    BY <1>1 DEF CallState, Waiting
  <2> HIDE DEF x
  <2>2. caller' = [caller EXCEPT ![c] = x]
    BY <1>4 DEF x
  <2>3. \A d \in Callers : caller'[d].line <= lines
    BY <2>1, <2>2 DEF LinesOK, CallersOK
  <2>4. LinesOK'
    BY <1>1, <2>3, LinesUntouched
  <2> QED
    BY <1>1, <1>4, <2>1, <2>2, <2>4, CallerAlone DEF Asking, Waiting
<1>5. CASE Answered(c)
  <2>1. CASE caller[c].rec # NoRecord
    <3>1. caller' = [caller EXCEPT ![c] = [caller[c] EXCEPT !.pc = "call"]] /\ caller[c].rx # "open"
      BY <1>5, <2>1 DEF Answered
    <3> QED
      BY <1>4, <3>1
  <2>2. CASE caller[c].rec = NoRecord
    BY <1>3, <1>5, <2>2 DEF Answered, Return
  <2> QED
    BY <2>1, <2>2
<1>6. CASE TimesOut(c)
  <2>1. caller' = [caller EXCEPT ![c] = [caller[c] EXCEPT !.pc = "expire"]] /\ caller[c].rx = "open"
    BY <1>6 DEF TimesOut
  <2> QED
    BY <1>4, <2>1
<1> QED
  BY <1>5, <1>6

\* An expired lookup removes its key, whoever holds it by now.
LEMMA RemovePendingKeeps ==
  ASSUME DirectoryInv, NEW c \in Callers, RemovePending(c)
  PROVE  DirectoryInv'
<1> USE DEF DirectoryInv
<1> DEFINE t == caller[c].tbid
<1>1. /\ t \in Tbids /\ caller[c].pc = "expire"
      /\ UNCHANGED <<tbid_index, pending_family_lookups, queries, events, calls, lineVars>>
  BY DEF RemovePending, CallersOK, Return
<1>3. CASE caller[c].op = "family"
  <2>1. caller' = [caller EXCEPT ![c] = Idle] /\ UNCHANGED pending_lookups
    BY <1>3 DEF RemovePending, Return
  <2> QED
    BY <1>1, <1>3, <2>1, ReturnsNothing DEF lookupVars
<1>4. CASE caller[c].op # "family"
  <2> DEFINE K == Closed({pending_lookups[t]})
  <2>1. caller' = [K EXCEPT ![c] = Idle] /\ pending_lookups' = [pending_lookups EXCEPT ![t] = 0]
    BY <1>4 DEF RemovePending
  <2>2. /\ K \in [Callers -> CallState]
        /\ \A d \in Callers :
              /\ K[d].id = caller[d].id /\ K[d].pc = caller[d].pc
              /\ K[d].op = caller[d].op /\ K[d].tbid = caller[d].tbid /\ K[d].line = caller[d].line
              /\ (caller[d].id # 0 /\ caller[d].id = pending_lookups[t]) \/ K[d] = caller[d]
    BY ClosedEffect
  <2> HIDE DEF K
  <2>3. caller' \in [Callers -> CallState] /\ caller'[c] = Idle /\ \A d \in Callers : d # c => caller'[d] = K[d]
    BY <2>1, <2>2, IdleIsCallState
  <2>4. \A d \in Callers : Goes(caller[d], caller'[d])
    <3> TAKE d \in Callers
    <3>1. CASE d = c
      BY <2>3, <3>1 DEF Goes
    <3>2. CASE d # c
      <4>1. caller[d].pc \in Asking => K[d] = caller[d]
        BY <1>1, <2>2, SenderWaits DEF Waiting, Asking
      <4> QED
        BY <2>2, <2>3, <3>2, <4>1 DEF Goes, CallersOK
    <3> QED
      BY <3>1, <3>2
  <2>5. CallersOK' /\ LinesOK' /\ FamilyOwn'
    BY <1>1, <2>3, <2>4, RequestsKeep
  <2>6. PendingOpen'
    <3> SUFFICES ASSUME NEW u \in Tbids, pending_lookups'[u] # 0 PROVE WaitsOpen(pending_lookups[u], u)'
      BY DEF PendingOpen
    <3>1. u # t /\ pending_lookups'[u] = pending_lookups[u]
      BY <1>1, <2>1 DEF MapsOK
    <3>2. PICK d \in Callers : /\ caller[d].id = pending_lookups[u] /\ caller[d].tbid = u /\ caller[d].pc \in Waiting
                                /\ caller[d].op # "family" /\ caller[d].rx = "open"
      BY <3>1 DEF PendingOpen, WaitsOpen
    <3>3. d # c /\ K[d] = caller[d]
      BY <1>1, <2>2, <3>1, <3>2, SenderWaits
    <3> QED
      BY <2>3, <3>1, <3>2, <3>3 DEF WaitsOpen
  <2>7. MapsOK'
    BY <1>1, <2>1 DEF MapsOK
  <2> QED
    BY <2>5, <2>6, <2>7
<1> QED
  BY <1>3, <1>4

\* The TBIDs of a DHT answer that get a line, and how many they are.
LEMMA BridgedFinite ==
  ASSUME NEW rs
  PROVE  Bridged(rs) \subseteq Tbids /\ Cardinality(Bridged(rs)) \in Nat
<1>1. Bridged(rs) \subseteq Tbids
  BY DEF Bridged
<1>2. IsFiniteSet(Bridged(rs))
  BY <1>1, DirectoryAssumption, FS_Subset
<1> QED
  BY <1>1, <1>2, FS_CardinalityType

\* A DHT answer takes every sender out of the TBID map: one is answered, the
\* others are dropped.  The lines it makes are newer than any that was out.
LEMMA HandleRecordsKeeps ==
  ASSUME DirectoryInv, handle_tbid_records
  PROVE  DirectoryInv'
<1> USE DEF DirectoryInv
<1> DEFINE valid == {r \in Head(events).found : validate_peer_registration(r)}
           waiting == {pending_lookups[t] : t \in Tbids} \ {0}
           new == Bridged(valid)
<1>1. events # << >>
  BY DEF handle_tbid_records
<1>2. valid \subseteq Records
  <2>1. Head(events).found \subseteq Records
    BY <1>1, HeadEvent
  <2> QED
    BY <2>1
<1>3. events' \in Seq([kind : {"tbid", "family"}, key : Tbids, found : SUBSET Records])
  BY <1>1, HeadEvent DEF handle_tbid_records
<1>4. /\ tbid_index' \in [Tbids -> valid \cup {tbid_index[t] : t \in Tbids}]
      /\ lines' = lines + Cardinality(new)
      /\ communerdettes' \in {f \in [Tbids -> 0..lines'] :
              /\ \A t \in Tbids \ new : f[t] = communerdettes[t]
              /\ {f[t] : t \in new} = (lines + 1)..lines'}
      /\ UNCHANGED <<pending_family_lookups, queries, calls, cancelled, shutdown_pc, sweep, affected>>
  BY DEF handle_tbid_records
<1>5. /\ \/ UNCHANGED caller
         \/ \E c \in Callers, r \in valid \cup {NoRecord} :
              /\ caller[c].id \in waiting
              /\ caller' = [Closed({pending_lookups[t] : t \in Tbids} \ {caller[c].id}) EXCEPT
                   ![c] = IF @.pc = "wait" THEN [@ EXCEPT !.rx = "value", !.rec = r] ELSE @]
      /\ \A t \in Tbids : pending_lookups'[t] = 0
      /\ pending_lookups' \in [Tbids -> Nat]
  <2>1. CASE waiting = {} /\ UNCHANGED <<caller, pending_lookups>>
    <3>1. \A t \in Tbids : pending_lookups[t] = 0
      BY <2>1
    <3> QED
      BY <2>1, <3>1 DEF MapsOK
  <2>2. CASE \E c \in Callers, r \in valid \cup {NoRecord} :
               /\ caller[c].id \in waiting
               /\ pending_lookups' = [t \in Tbids |-> IF t \in Drained(c) THEN 0 ELSE pending_lookups[t]]
               /\ caller' = [Closed({pending_lookups[t] : t \in Drained(c)} \ {caller[c].id}) EXCEPT
                    ![c] = IF @.pc = "wait" THEN [@ EXCEPT !.rx = "value", !.rec = r] ELSE @]
    <3>1. PICK c \in Callers, r \in valid \cup {NoRecord} :
               /\ caller[c].id \in waiting
               /\ pending_lookups' = [t \in Tbids |-> IF t \in Tbids THEN 0 ELSE pending_lookups[t]]
               /\ caller' = [Closed({pending_lookups[t] : t \in Tbids} \ {caller[c].id}) EXCEPT
                    ![c] = IF @.pc = "wait" THEN [@ EXCEPT !.rx = "value", !.rec = r] ELSE @]
      BY <2>2, Zenon DEF Drained
    <3> HIDE DEF valid, waiting
    <3>2. /\ \A t \in Tbids : pending_lookups'[t] = 0
          /\ pending_lookups' \in [Tbids -> Nat]
      BY <3>1
    <3> QED
      BY <3>1, <3>2, Zenon
  <2>3. \/ waiting = {} /\ UNCHANGED <<caller, pending_lookups>>
        \/ \E c \in Callers, r \in valid \cup {NoRecord} :
               /\ caller[c].id \in waiting
               /\ pending_lookups' = [t \in Tbids |-> IF t \in Drained(c) THEN 0 ELSE pending_lookups[t]]
               /\ caller' = [Closed({pending_lookups[t] : t \in Drained(c)} \ {caller[c].id}) EXCEPT
                    ![c] = IF @.pc = "wait" THEN [@ EXCEPT !.rx = "value", !.rec = r] ELSE @]
    BY Zenon DEF handle_tbid_records
  <2> QED
    BY <2>1, <2>2, <2>3, Zenon
<1>6. Cardinality(new) \in Nat /\ new \subseteq Tbids
  BY BridgedFinite
<1> HIDE DEF valid, new
<1>7. \A d \in Callers : caller[d].id \in waiting => caller[d].pc \in Waiting
  BY SenderWaits
<1> DEFINE senders == {pending_lookups[t] : t \in Tbids}
<1>13. waiting = senders \ {0}
  OBVIOUS
<1> HIDE DEF waiting, senders
<1>8. caller' \in [Callers -> CallState] /\ \A d \in Callers : Goes(caller[d], caller'[d])
  <2>1. CASE UNCHANGED caller
    BY <2>1 DEF Goes, CallersOK
  <2>2. ASSUME NEW c \in Callers, NEW r \in valid \cup {NoRecord},
               caller[c].id \in waiting,
               caller' = [Closed(senders \ {caller[c].id}) EXCEPT
                 ![c] = IF @.pc = "wait" THEN [@ EXCEPT !.rx = "value", !.rec = r] ELSE @]
        PROVE  caller' \in [Callers -> CallState] /\ \A d \in Callers : Goes(caller[d], caller'[d])
    <3> DEFINE K == Closed(senders \ {caller[c].id})
               x == IF K[c].pc = "wait" THEN [K[c] EXCEPT !.rx = "value", !.rec = r] ELSE K[c]
    <3>1. /\ K \in [Callers -> CallState]
          /\ \A d \in Callers :
                /\ K[d].id = caller[d].id /\ K[d].pc = caller[d].pc
                /\ K[d].op = caller[d].op /\ K[d].tbid = caller[d].tbid /\ K[d].line = caller[d].line
                /\ caller[d].id \in waiting \/ K[d] = caller[d]
      BY <1>13, ClosedEffect
    <3>2. caller' = [K EXCEPT ![c] = x]
      BY <2>2
    <3> HIDE DEF K
    <3>3. r \in Records \cup {NoRecord}
      BY <1>2
    <3>4. /\ x \in CallState /\ x.id = caller[c].id /\ x.op = caller[c].op /\ x.tbid = caller[c].tbid
          /\ x.line = caller[c].line /\ x.pc = caller[c].pc
      <4>1. CASE K[c].pc = "wait"
        <5>1. K[c] \in CallState
          BY <3>1
        <5> QED
          BY <3>1, <3>3, <4>1, <5>1 DEF CallState
      <4>2. CASE K[c].pc # "wait"
        BY <3>1, <4>2
      <4> QED
        BY <4>1, <4>2
    <3> HIDE DEF x
    <3>5. caller' \in [Callers -> CallState] /\ caller'[c] = x /\ \A d \in Callers : d # c => caller'[d] = K[d]
      BY <3>1, <3>2, <3>4
    <3>6. \A d \in Callers : Goes(caller[d], caller'[d])
      <4> TAKE d \in Callers
      <4>1. CASE d = c
        BY <1>7, <2>2, <3>4, <3>5, <4>1 DEF Goes, Waiting, Asking
      <4>2. CASE d # c
        <5>1. caller[d].pc \in Asking => K[d] = caller[d]
          BY <1>7, <3>1 DEF Waiting, Asking
        <5> QED
          BY <3>1, <3>5, <4>2, <5>1 DEF Goes, CallersOK
      <4> QED
        BY <4>1, <4>2
    <3> QED
      BY <3>5, <3>6
  <2> QED
    BY <1>5, <2>1, <2>2 DEF senders
<1>9. CallersOK' /\ FamilyOwn'
  BY <1>4, <1>8, RequestsKeep
<1>10. PendingOpen'
  BY <1>5 DEF PendingOpen
<1>11. MapsOK'
  <2>1. tbid_index' \in [Tbids -> Records \cup {NoRecord}]
    <3>1. {tbid_index[t] : t \in Tbids} \subseteq Records \cup {NoRecord}
      BY DEF MapsOK
    <3> QED
      BY <1>2, <1>4, <3>1
  <2> QED
    BY <1>3, <1>4, <1>5, <2>1 DEF MapsOK
<1>12. LinesOK'
  <2>1. lines \in Nat /\ lines' \in Nat /\ lines <= lines'
    BY <1>4, <1>6 DEF LinesOK
  <2>2. /\ communerdettes' \in [Tbids -> 0..lines'] /\ \A t \in Tbids \ new : communerdettes'[t] = communerdettes[t]
        /\ \A t \in new : communerdettes'[t] \in (lines + 1)..lines'
    BY <1>4
  <2>3. \A c \in Callers : caller'[c].line <= lines'
    <3>1. \A c \in Callers : caller[c].line \in Nat /\ caller[c].line <= lines
      BY DEF LinesOK, CallersOK, CallState
    <3>2. Idle.line = 0
      BY DEF Idle
    <3> QED
      BY <1>8, <2>1, <3>1, <3>2 DEF Goes
  <2>4. communerdettes' \in [Tbids -> Nat] /\ \A t \in Tbids : communerdettes'[t] <= lines'
    BY <2>1, <2>2
  <2>5. affected \subseteq 1..lines'
    BY <2>1 DEF LinesOK
  <2>6. \A t \in new : communerdettes'[t] \notin affected
    BY <2>1, <2>2 DEF LinesOK
  <2> QED
    BY <1>4, <2>1, <2>2, <2>3, <2>4, <2>5, <2>6 DEF LinesOK
<1> QED
  BY <1>9, <1>10, <1>11, <1>12

\* shutdown_relationships begins, and passes an entry.
LEMMA ShutdownKeeps ==
  ASSUME DirectoryInv, shutdown_relationships \/ \E t \in Tbids : ShutdownEntry(t)
  PROVE  DirectoryInv'
<1> USE DEF DirectoryInv
<1>1. UNCHANGED <<lookupVars, caller, calls, communerdettes, lines>>
  BY DEF shutdown_relationships, ShutdownEntry
<1>2. CallersOK' /\ MapsOK' /\ PendingOpen' /\ FamilyOwn'
  BY <1>1 DEF CallersOK, MapsOK, PendingOpen, WaitsOpen, FamilyOwn, lookupVars
<1>3. LinesOK'
  <2>1. CASE shutdown_relationships
    <3>1. \A c \in Callers : caller[c].line \in Nat /\ caller[c].line <= lines
      BY DEF LinesOK, CallersOK, CallState
    <3>2. affected' \subseteq 1..lines
      BY <2>1, <3>1 DEF shutdown_relationships, LinesOK
    <3> QED
      BY <1>1, <2>1, <3>2 DEF shutdown_relationships, LinesOK
  <2>2. ASSUME NEW t \in Tbids, ShutdownEntry(t) PROVE LinesOK'
    <3>1. /\ shutdown_pc = "sweep" /\ sweep' = sweep \ {t} /\ shutdown_pc' \in {"done", "sweep"}
          /\ cancelled' = cancelled \cup ({communerdettes[t]} \ {0}) /\ UNCHANGED affected
          /\ shutdown_pc' = "done" => sweep' = {}
      BY <2>2 DEF ShutdownEntry
    <3>2. \A u \in Tbids : u \notin sweep' /\ communerdettes[u] \in affected => communerdettes[u] \in cancelled'
      <4> SUFFICES ASSUME NEW u \in Tbids, u \notin sweep', communerdettes[u] \in affected
                   PROVE  communerdettes[u] \in cancelled'
        OBVIOUS
      <4>1. CASE u = t
        <5>1. communerdettes[u] # 0
          BY DEF LinesOK
        <5> QED
          BY <3>1, <4>1, <5>1
      <4>2. CASE u # t
        BY <3>1, <4>2 DEF LinesOK
      <4> QED
        BY <4>1, <4>2
    <3> QED
      BY <1>1, <3>1, <3>2 DEF LinesOK
  <2> QED
    BY <2>1, <2>2
<1> QED
  BY <1>2, <1>3

LEMMA DirectoryNextKeeps ==
  ASSUME DirectoryInv, LookupNext \/ RegistryNext
  PROVE  DirectoryInv'
<1>1. ASSUME NEW c \in Callers, NEW t \in Tbids,
             \/ host_lookup_tbid(c, t) \/ fetch_and_cache_family_record(c, t)
             \/ route_stamp(c, t) \/ get_calendar_slice_by_tbid(c, t)
      PROVE  DirectoryInv'
  <2>1. PICK op \in {"stamp", "slice", "family"}, pc \in {"line", "lookup"} : Begin(c, op, t, pc)
    BY <1>1 DEF host_lookup_tbid, fetch_and_cache_family_record, route_stamp, get_calendar_slice_by_tbid
  <2> QED
    BY <2>1, BeginKeeps
<1>2. ASSUME NEW c \in Callers, CallerStep(c) PROVE DirectoryInv'
  BY <1>2, LookupKeeps, LookupFamilyKeeps, WaitEndsKeeps, RemovePendingKeeps, CallPeerKeeps DEF CallerStep
<1>3. ASSUME RetrieveNext PROVE DirectoryInv'
  BY <1>3, HandleRecordsKeeps, RetrieveFamilyKeeps, QueryEndKeeps DEF RetrieveNext
<1>4. ASSUME NEW c \in Callers, line_for_tbid(c) \/ InsertLine(c) \/ LookupCached(c) \/ CallPeer(c)
      PROVE  DirectoryInv'
  BY <1>4, LineKeeps, LookupKeeps, CallPeerKeeps DEF LookupCached
<1> QED
  BY <1>1, <1>2, <1>3, <1>4, HandleRecordsKeeps, ShutdownKeeps DEF LookupNext, RegistryNext

\* The registry that has a line for every TBID: there are enough numbers.
LEMMA FullRegistryNumbers ==
  ASSUME FullRegistry
  PROVE  lines \in Nat /\ communerdettes \in [Tbids -> Nat] /\ \A t \in Tbids : communerdettes[t] <= lines
<1>1. lines \in Nat
  BY DirectoryAssumption, FS_CardinalityType DEF FullRegistry
<1>2. PICK f \in [Tbids -> 1..lines] : \A t, u \in Tbids : f[t] = f[u] => t = u
  <2>1. ExistsBijection(1..lines, Tbids)
    BY DirectoryAssumption, FS_CardinalityType DEF FullRegistry
  <2>2. PICK g \in [1..lines -> Tbids] : \A t \in Tbids : \E n \in 1..lines : g[n] = t
    BY <2>1 DEF ExistsBijection, Bijection, Surjection
  <2> DEFINE f == [t \in Tbids |-> CHOOSE n \in 1..lines : g[n] = t]
  <2>3. \A t \in Tbids : f[t] \in 1..lines /\ g[f[t]] = t
    BY <2>2
  <2>4. f \in [Tbids -> 1..lines]
    BY <2>3
  <2> HIDE DEF f
  <2>5. \A t, u \in Tbids : f[t] = f[u] => t = u
    BY <2>3
  <2> QED
    BY <2>4, <2>5
<1>3. communerdettes \in [Tbids -> 1..lines]
  BY <1>2 DEF FullRegistry
<1> QED
  BY <1>1, <1>3

LEMMA DirectoryInitKeeps ==
  ASSUME DirectoryInit, EmptyRegistry \/ FullRegistry
  PROVE  DirectoryInv
<1>1. Idle \in CallState /\ Idle.pc = "idle" /\ Idle.id = 0 /\ Idle.line = 0
  BY IdleIsCallState DEF Idle
<1>2. lines \in Nat /\ communerdettes \in [Tbids -> Nat] /\ \A t \in Tbids : communerdettes[t] <= lines
  BY FullRegistryNumbers DEF EmptyRegistry
<1>3. events \in Seq([kind : {"tbid", "family"}, key : Tbids, found : SUBSET Records])
  <2>1. CASE EmptyRegistry
    <3>1. PICK t \in Tbids : events = <<[kind |-> "tbid", key |-> t, found |-> Dht[t]]>>
      BY <2>1 DEF EmptyRegistry
    <3>2. Dht[t] \in SUBSET Records
      BY DEF Records
    <3>3. [kind |-> "tbid", key |-> t, found |-> Dht[t]] \in [kind : {"tbid", "family"}, key : Tbids, found : SUBSET Records]
      BY <3>2
    <3> QED
      BY <3>1, <3>3
  <2>2. CASE FullRegistry
    BY <2>2 DEF FullRegistry
  <2> QED
    BY <2>1, <2>2
<1>4. CallersOK
  BY <1>1 DEF DirectoryInit, CallersOK, Asking
<1>5. MapsOK /\ PendingOpen
  BY <1>3 DEF DirectoryInit, MapsOK, PendingOpen
<1>6. FamilyOwn
  BY <1>1 DEF DirectoryInit, FamilyOwn
<1>7. LinesOK
  BY <1>1, <1>2 DEF DirectoryInit, LinesOK
<1> QED
  BY <1>4, <1>5, <1>6, <1>7 DEF DirectoryInv

LEMMA DirectoryInvariant == DirectorySpec => []DirectoryInv
<1>1. DirectoryInit /\ (EmptyRegistry \/ FullRegistry) => DirectoryInv
  BY DirectoryInitKeeps
<1>2. DirectoryInv /\ [LookupNext \/ RegistryNext]_directoryVars => DirectoryInv'
  <2>1. DirectoryInv /\ UNCHANGED directoryVars => DirectoryInv'
    BY DEF directoryVars, lookupVars, lineVars, DirectoryInv, CallersOK, MapsOK, PendingOpen, WaitsOpen, FamilyOwn,
           LinesOK
  <2> QED
    BY <2>1, DirectoryNextKeeps
<1> QED
  BY <1>1, <1>2, PTL DEF DirectorySpec

\* A sender in pending_lookups always belongs to a request that is still
\* waiting for that TBID, for any number of callers replacing, answering,
\* dropping and expiring lookups: the map never outgrows the lookups under way.
THEOREM PendingLookupsHaveWaiters == DirectorySpec => []PendingHasWaiter
<1>1. DirectoryInv => PendingHasWaiter
  BY DEF DirectoryInv, PendingOpen, WaitsOpen, Waiting, PendingHasWaiter
<1> QED
  BY <1>1, DirectoryInvariant, PTL


\* The lookups that wait are accounted for, and every request has a number.
AccountInv == LookupsAccountedFor /\ \A c \in Callers : caller[c].pc # "idle" => caller[c].id # 0

LEMMA ComingStays ==
  ASSUME NEW d \in Callers, caller'[d] = caller[d], queries \subseteq queries', events' = events, failed \subseteq failed'
  PROVE  AnswerComing(caller[d]) => AnswerComing(caller[d])'
<1>1. CASE \E i \in 1..Len(events) : events[i].kind = Kind(caller[d]) /\ events[i].key = caller[d].tbid
  BY <1>1 DEF AnswerComing, Kind
<1>2. CASE \/ [id |-> caller[d].id, kind |-> Kind(caller[d]), key |-> caller[d].tbid] \in queries
           \/ caller[d].id \in failed
  BY <1>2 DEF AnswerComing, Kind
<1> QED
  BY <1>1, <1>2 DEF AnswerComing

\* A request the step leaves as it is, with its sender where it was.
LEMMA StillAccounted ==
  ASSUME AccountInv, NEW d \in Callers, caller'[d] = caller[d], caller[d].pc = "wait", caller[d].rx = "open",
         caller[d].op = "family" => pending_family_lookups'[caller[d].tbid] = pending_family_lookups[caller[d].tbid],
         caller[d].op # "family" => pending_lookups'[caller[d].tbid] = pending_lookups[caller[d].tbid],
         AnswerComing(caller[d]) => AnswerComing(caller[d])'
  PROVE  SenderKept(caller[d])' /\ AnswerComing(caller[d])'
<1>1. SenderKept(caller[d]) /\ AnswerComing(caller[d])
  BY DEF AccountInv, LookupsAccountedFor
<1>2. SenderKept(caller[d])'
  BY <1>1 DEF SenderKept
<1> QED
  BY <1>1, <1>2

\* A step of one request that leaves the maps, the queries and the events alone.
LEMMA AccountsOneCaller ==
  ASSUME AccountInv, CallersOK, NEW c \in Callers, UNCHANGED <<lookupVars, failed>>,
         NEW x, caller' = [caller EXCEPT ![c] = x],
         x.pc # "idle" => x.id # 0, x.pc # "wait"
  PROVE  AccountInv'
<1>1. caller'[c] = x /\ \A d \in Callers : d # c => caller'[d] = caller[d]
  BY DEF CallersOK
<1>2. \A d \in Callers : caller'[d].pc # "idle" => caller'[d].id # 0
  BY <1>1 DEF AccountInv
<1>3. UNCHANGED <<pending_lookups, pending_family_lookups, queries, events, failed>>
  BY DEF lookupVars
<1>4. ASSUME NEW d \in Callers, caller'[d].pc = "wait", caller'[d].rx = "open"
      PROVE  SenderKept(caller[d])' /\ AnswerComing(caller[d])'
  <2>1. caller'[d] = caller[d]
    BY <1>1, <1>4
  <2> QED
    BY <1>3, <1>4, <2>1, ComingStays, StillAccounted
<1> QED
  BY <1>2, <1>4 DEF AccountInv, LookupsAccountedFor

LEMMA WaitingHasTbid ==
  ASSUME DirectoryInv, NEW d \in Callers, caller[d].pc = "wait"
  PROVE  caller[d].tbid \in Tbids
BY DEF DirectoryInv, CallersOK

LEMMA AccountsReturn ==
  ASSUME AccountInv, CallersOK, NEW c \in Callers, UNCHANGED lookupVars, failed' = failed,
         caller' = [caller EXCEPT ![c] = Idle]
  PROVE  AccountInv'
<1>1. Idle.pc = "idle"
  BY DEF Idle
<1>2. UNCHANGED <<lookupVars, failed>>
  OBVIOUS
<1> HIDE DEF Idle
<1> QED
  BY <1>1, <1>2, AccountsOneCaller

\* A lookup waits with its query; whoever waited for its key is dropped.
LEMMA LookupAccounts ==
  ASSUME DirectoryInv, AccountInv, NEW c \in Callers, lookup_tbid(c)
  PROVE  AccountInv'
<1> DEFINE t == caller[c].tbid
<1>1. /\ t \in Tbids /\ caller[c].pc = "lookup" /\ caller[c].rx = "open" /\ caller[c].id # 0
      /\ caller[c].op \in {"stamp", "slice"} /\ failed' = failed /\ CallersOK
      /\ caller[c] \in CallState
  BY DEF lookup_tbid, DirectoryInv, CallersOK, AccountInv, Asking
<1>2. CASE tbid_index[t] # NoRecord
  <2> DEFINE x == [caller[c] EXCEPT !.pc = "call", !.rec = tbid_index[t]]
  <2>1. caller' = [caller EXCEPT ![c] = x] /\ UNCHANGED lookupVars
    BY <1>2 DEF lookup_tbid
  <2>2. x.pc = "call" /\ x.id = caller[c].id
    BY <1>1 DEF CallState
  <2> HIDE DEF x
  <2>3. (x.pc # "idle" => x.id # 0) /\ x.pc # "wait"
    BY <1>1, <2>2
  <2>4. UNCHANGED <<lookupVars, failed>>
    BY <1>1, <2>1
  <2> QED
    BY <1>1, <2>1, <2>3, <2>4, AccountsOneCaller
<1>3. CASE tbid_index[t] = NoRecord /\ ~swarm
  <2>1. caller' = [caller EXCEPT ![c] = Idle] /\ UNCHANGED lookupVars
    BY <1>3 DEF lookup_tbid, Return
  <2> QED
    BY <1>1, <2>1, AccountsReturn
<1>4. CASE tbid_index[t] = NoRecord /\ swarm
  <2> DEFINE K == Closed({pending_lookups[t]})
             x == [K[c] EXCEPT !.pc = "wait"]
             q == [id |-> caller[c].id, kind |-> "tbid", key |-> t]
  <2>1. /\ caller' = [K EXCEPT ![c] = x]
        /\ pending_lookups' = [pending_lookups EXCEPT ![t] = caller[c].id]
        /\ queries' = queries \cup {q} /\ UNCHANGED <<tbid_index, pending_family_lookups, events>>
    BY <1>4 DEF lookup_tbid
  <2>2. K \in [Callers -> CallState] /\ \A d \in Callers : K[d].id = caller[d].id /\ K[d].pc = caller[d].pc
    BY <1>1, ClosedEffect
  <2>3. \A d \in Callers : K[d].rx = "open" =>
          K[d] = caller[d] /\ (caller[d].id = 0 \/ caller[d].id # pending_lookups[t])
    BY <1>1 DEF Closed, CallersOK, CallState
  <2>4. K[c] = caller[c]
    BY <1>1, <2>2, SenderWaits DEF Closed, Waiting
  <2> HIDE DEF K
  <2>5. x.id = caller[c].id /\ x.op = caller[c].op /\ x.tbid = t /\ x.pc = "wait"
    BY <1>1, <2>4 DEF CallState
  <2> HIDE DEF x
  <2>6. caller'[c] = x /\ \A d \in Callers : d # c => caller'[d] = K[d]
    BY <2>1, <2>2
  <2>7. \A d \in Callers : caller'[d].pc # "idle" => caller'[d].id # 0
    BY <1>1, <2>2, <2>5, <2>6 DEF AccountInv
  <2>8. ASSUME NEW d \in Callers, caller'[d].pc = "wait", caller'[d].rx = "open"
        PROVE  SenderKept(caller[d])' /\ AnswerComing(caller[d])'
    <3>1. CASE d = c
      <4>1. pending_lookups'[t] = caller[c].id
        BY <1>1, <2>1 DEF DirectoryInv, MapsOK
      <4>2. caller'[c].id = caller[c].id /\ caller'[c].tbid = t /\ caller'[c].op # "family"
        BY <1>1, <2>5, <2>6
      <4>3. SenderKept(caller[c])'
        BY <4>1, <4>2 DEF SenderKept
      <4>4. Kind(caller[c])' = "tbid"
        BY <4>2 DEF Kind
      <4>5. AnswerComing(caller[c])'
        BY <2>1, <4>2, <4>4 DEF AnswerComing
      <4> QED
        BY <3>1, <4>3, <4>5
    <3>2. CASE d # c
      <4>1. caller'[d] = caller[d] /\ (caller[d].id = 0 \/ caller[d].id # pending_lookups[t])
        BY <2>3, <2>6, <2>8, <3>2
      <4>2. caller[d].pc = "wait" /\ caller[d].rx = "open" /\ caller[d].id # 0 /\ caller[d].tbid \in Tbids
        BY <2>8, <4>1, WaitingHasTbid DEF AccountInv
      <4>3. caller[d].op # "family" => caller[d].tbid # t
        BY <4>1, <4>2 DEF AccountInv, LookupsAccountedFor, SenderKept
      <4>4. caller[d].op # "family" => pending_lookups'[caller[d].tbid] = pending_lookups[caller[d].tbid]
        BY <1>1, <2>1, <4>2, <4>3 DEF DirectoryInv, MapsOK
      <4>5. AnswerComing(caller[d]) => AnswerComing(caller[d])'
        BY <1>1, <2>1, <4>1, ComingStays
      <4> QED
        BY <2>1, <4>1, <4>2, <4>4, <4>5, StillAccounted
    <3> QED
      BY <3>1, <3>2
  <2> QED
    BY <2>7, <2>8 DEF AccountInv, LookupsAccountedFor
<1> QED
  BY <1>2, <1>3, <1>4

\* The same in the family map.
LEMMA LookupFamilyAccounts ==
  ASSUME DirectoryInv, AccountInv, NEW c \in Callers, LookupFamily(c)
  PROVE  AccountInv'
<1> DEFINE t == caller[c].tbid
<1>1. /\ t \in Tbids /\ caller[c].pc = "lookup" /\ caller[c].rx = "open" /\ caller[c].id # 0
      /\ caller[c].op = "family" /\ failed' = failed /\ CallersOK /\ caller[c] \in CallState
  BY DEF LookupFamily, DirectoryInv, CallersOK, AccountInv, Asking
<1>2. CASE ~swarm
  <2>1. caller' = [caller EXCEPT ![c] = Idle] /\ UNCHANGED lookupVars
    BY <1>2 DEF LookupFamily, Return
  <2> QED
    BY <1>1, <2>1, AccountsReturn
<1>3. CASE swarm
  <2> DEFINE K == Closed({pending_family_lookups[t]})
             x == [K[c] EXCEPT !.pc = "wait"]
             q == [id |-> caller[c].id, kind |-> "family", key |-> t]
  <2>1. /\ caller' = [K EXCEPT ![c] = x]
        /\ pending_family_lookups' = [pending_family_lookups EXCEPT ![t] = caller[c].id]
        /\ queries' = queries \cup {q} /\ UNCHANGED <<tbid_index, pending_lookups, events>>
    BY <1>3 DEF LookupFamily
  <2>2. /\ K \in [Callers -> CallState]
        /\ \A d \in Callers : /\ K[d].id = caller[d].id /\ K[d].pc = caller[d].pc
                              /\ K[d].op = caller[d].op /\ K[d].tbid = caller[d].tbid
    BY <1>1, ClosedEffect
  <2>3. \A d \in Callers : K[d].rx = "open" =>
          K[d] = caller[d] /\ (caller[d].id = 0 \/ caller[d].id # pending_family_lookups[t])
    BY <1>1 DEF Closed, CallersOK, CallState
  <2> HIDE DEF K
  <2>4. x.id = caller[c].id /\ x.op = caller[c].op /\ x.tbid = t /\ x.pc = "wait"
    BY <2>2 DEF CallState
  <2> HIDE DEF x
  <2>5. caller'[c] = x /\ \A d \in Callers : d # c => caller'[d] = K[d]
    BY <2>1, <2>2
  <2>6. \A d \in Callers : caller'[d].pc # "idle" => caller'[d].id # 0
    BY <1>1, <2>2, <2>4, <2>5 DEF AccountInv
  <2>7. ASSUME NEW d \in Callers, caller'[d].pc = "wait", caller'[d].rx = "open"
        PROVE  SenderKept(caller[d])' /\ AnswerComing(caller[d])'
    <3>1. CASE d = c
      <4>1. pending_family_lookups'[t] = caller[c].id
        BY <1>1, <2>1 DEF DirectoryInv, MapsOK
      <4>2. caller'[c].id = caller[c].id /\ caller'[c].tbid = t /\ caller'[c].op = "family"
        BY <1>1, <2>4, <2>5
      <4>3. SenderKept(caller[c])'
        BY <4>1, <4>2 DEF SenderKept
      <4>4. Kind(caller[c])' = "family"
        BY <4>2 DEF Kind
      <4>5. AnswerComing(caller[c])'
        BY <2>1, <4>2, <4>4 DEF AnswerComing
      <4> QED
        BY <3>1, <4>3, <4>5
    <3>2. CASE d # c
      <4>1. caller'[d] = caller[d] /\ (caller[d].id = 0 \/ caller[d].id # pending_family_lookups[t])
        BY <2>3, <2>5, <2>7, <3>2
      <4>2. caller[d].pc = "wait" /\ caller[d].rx = "open" /\ caller[d].id # 0 /\ caller[d].tbid \in Tbids
        BY <2>7, <4>1, WaitingHasTbid DEF AccountInv
      <4>3. caller[d].op = "family" => caller[d].tbid # t
        BY <4>1, <4>2 DEF AccountInv, LookupsAccountedFor, SenderKept
      <4>4. caller[d].op = "family" =>
              pending_family_lookups'[caller[d].tbid] = pending_family_lookups[caller[d].tbid]
        BY <1>1, <2>1, <4>2, <4>3 DEF DirectoryInv, MapsOK
      <4>5. AnswerComing(caller[d]) => AnswerComing(caller[d])'
        BY <1>1, <2>1, <4>1, ComingStays
      <4> QED
        BY <2>1, <4>1, <4>2, <4>4, <4>5, StillAccounted
    <3> QED
      BY <3>1, <3>2
  <2> QED
    BY <2>6, <2>7 DEF AccountInv, LookupsAccountedFor
<1> QED
  BY <1>2, <1>3

\* A query that finishes leaves its event, one that fails its number.
LEMMA QueryEndAccounts ==
  ASSUME DirectoryInv, AccountInv, NEW q \in queries, GetRecordFinishes(q) \/ GetRecordFails(q)
  PROVE  AccountInv'
<1>1. UNCHANGED <<pending_lookups, pending_family_lookups, caller>> /\ queries' = queries \ {q}
  BY DEF GetRecordFinishes, GetRecordFails
<1>2. ASSUME NEW d \in Callers, AnswerComing(caller[d]) PROVE AnswerComing(caller[d])'
  <2> DEFINE w == caller[d]
             own == [id |-> w.id, kind |-> Kind(w), key |-> w.tbid]
  <2>1. caller'[d] = w /\ Kind(caller[d])' = Kind(w)
    BY <1>1 DEF Kind
  <2>2. CASE GetRecordFinishes(q)
    <3>1. PICK found \in SUBSET Dht[q.key] :
            events' = Append(events, [kind |-> q.kind, key |-> q.key, found |-> found])
      BY <2>2 DEF GetRecordFinishes
    <3> DEFINE e == [kind |-> q.kind, key |-> q.key, found |-> found]
    <3>2. failed' = failed
      BY <2>2 DEF GetRecordFinishes
    <3>3. /\ Len(events') = Len(events) + 1 /\ Len(events) \in Nat /\ events'[Len(events) + 1] = e
          /\ \A i \in 1..Len(events) : events'[i] = events[i]
      BY <3>1 DEF DirectoryInv, MapsOK
    <3> HIDE DEF e
    <3>4. CASE own = q
      <4>1. e.kind = Kind(w) /\ e.key = w.tbid
        BY <3>4 DEF e
      <4>2. Len(events) + 1 \in 1..Len(events')
        BY <3>3
      <4> QED
        BY <2>1, <3>3, <4>1, <4>2 DEF AnswerComing
    <3>5. CASE own \in queries /\ own # q
      BY <1>1, <2>1, <3>5 DEF AnswerComing
    <3>6. CASE \E i \in 1..Len(events) : events[i].kind = Kind(w) /\ events[i].key = w.tbid
      <4>1. PICK i \in 1..Len(events) : events[i].kind = Kind(w) /\ events[i].key = w.tbid
        BY <3>6
      <4>2. i \in 1..Len(events')
        BY <3>3
      <4> QED
        BY <2>1, <3>3, <4>1, <4>2 DEF AnswerComing
    <3>7. CASE w.id \in failed
      BY <2>1, <3>2, <3>7 DEF AnswerComing
    <3> QED
      BY <1>2, <3>4, <3>5, <3>6, <3>7 DEF AnswerComing
  <2>3. CASE GetRecordFails(q)
    <3>1. events' = events /\ failed' = failed \cup {q.id}
      BY <2>3 DEF GetRecordFails
    <3>2. CASE own = q
      <4>1. w.id = q.id
        BY <3>2
      <4> QED
        BY <2>1, <3>1, <4>1 DEF AnswerComing
    <3>3. CASE own \in queries /\ own # q
      BY <1>1, <2>1, <3>3 DEF AnswerComing
    <3>4. CASE w.id \in failed \/ \E i \in 1..Len(events) : events[i].kind = Kind(w) /\ events[i].key = w.tbid
      BY <2>1, <3>1, <3>4 DEF AnswerComing
    <3> QED
      BY <1>2, <3>2, <3>3, <3>4 DEF AnswerComing
  <2> QED
    BY <2>2, <2>3
<1>3. ASSUME NEW d \in Callers, caller'[d].pc = "wait", caller'[d].rx = "open"
      PROVE  SenderKept(caller[d])' /\ AnswerComing(caller[d])'
  BY <1>1, <1>2, <1>3, StillAccounted
<1> QED
  BY <1>1, <1>3 DEF AccountInv, LookupsAccountedFor

\* An event leaves the queue: what waits for another kind or key does not.
LEMMA EventLeaves ==
  ASSUME MapsOK, NEW d \in Callers, caller'[d] = caller[d], UNCHANGED <<queries, failed>>,
         events # << >>, events' = Tail(events),
         Head(events).kind # Kind(caller[d]) \/ Head(events).key # caller[d].tbid
  PROVE  AnswerComing(caller[d]) => AnswerComing(caller[d])'
<1> DEFINE w == caller[d]
<1>1. Kind(caller[d])' = Kind(w)
  BY DEF Kind
<1>2. CASE \E i \in 1..Len(events) : events[i].kind = Kind(w) /\ events[i].key = w.tbid
  <2>1. PICK i \in 1..Len(events) : events[i].kind = Kind(w) /\ events[i].key = w.tbid
    BY <1>2
  <2>2. i # 1
    BY <2>1 DEF MapsOK
  <2>3. i - 1 \in 1..Len(events') /\ events'[i - 1] = events[i]
    BY <2>1, <2>2 DEF MapsOK
  <2> QED
    BY <1>1, <2>1, <2>3 DEF AnswerComing
<1>3. CASE w.id \in failed \/ [id |-> w.id, kind |-> Kind(w), key |-> w.tbid] \in queries
  BY <1>1, <1>3 DEF AnswerComing
<1> QED
  BY <1>2, <1>3 DEF AnswerComing

\* A family event releases the one that waits for its key.
LEMMA RetrieveFamilyAccounts ==
  ASSUME DirectoryInv, AccountInv, RetrieveFamily
  PROVE  AccountInv'
<1> DEFINE t == Head(events).key
           K == Closed({pending_family_lookups[t]})
<1>1. /\ events # << >> /\ Head(events).kind = "family" /\ events' = Tail(events) /\ t \in Tbids
      /\ MapsOK /\ CallersOK
  BY HeadEvent DEF RetrieveFamily, DirectoryInv
<1>2. /\ pending_family_lookups' = [pending_family_lookups EXCEPT ![t] = 0] /\ caller' = K
      /\ UNCHANGED <<pending_lookups, queries, failed>>
  BY DEF RetrieveFamily
<1>3. \A d \in Callers : K[d].id = caller[d].id /\ K[d].pc = caller[d].pc
  BY <1>1, ClosedEffect
<1>4. \A d \in Callers : K[d].rx = "open" =>
        K[d] = caller[d] /\ (caller[d].id = 0 \/ caller[d].id # pending_family_lookups[t])
  BY <1>1 DEF Closed, CallersOK, CallState
<1> HIDE DEF K, t
<1>5. ASSUME NEW d \in Callers, caller'[d].pc = "wait", caller'[d].rx = "open"
      PROVE  SenderKept(caller[d])' /\ AnswerComing(caller[d])'
  <2>1. caller'[d] = caller[d] /\ (caller[d].id = 0 \/ caller[d].id # pending_family_lookups[t])
    BY <1>2, <1>4, <1>5
  <2>2. caller[d].pc = "wait" /\ caller[d].rx = "open" /\ caller[d].id # 0 /\ caller[d].tbid \in Tbids
    BY <1>5, <2>1, WaitingHasTbid DEF AccountInv
  <2>3. caller[d].op = "family" => caller[d].tbid # t
    BY <2>1, <2>2 DEF AccountInv, LookupsAccountedFor, SenderKept
  <2>4. caller[d].op = "family" =>
          pending_family_lookups'[caller[d].tbid] = pending_family_lookups[caller[d].tbid]
    BY <1>1, <1>2, <2>2, <2>3 DEF MapsOK
  <2>5. Head(events).kind # Kind(caller[d]) \/ Head(events).key # caller[d].tbid
    BY <1>1, <2>3 DEF Kind, t
  <2>6. AnswerComing(caller[d]) => AnswerComing(caller[d])'
    BY <1>1, <1>2, <2>1, <2>5, EventLeaves
  <2> QED
    BY <1>2, <2>1, <2>2, <2>4, <2>6, StillAccounted
<1> QED
  BY <1>2, <1>3, <1>5 DEF AccountInv, LookupsAccountedFor

\* A TBID event releases every TBID lookup that waits.
LEMMA HandleRecordsAccounts ==
  ASSUME DirectoryInv, AccountInv, handle_tbid_records
  PROVE  AccountInv'
<1> DEFINE senders == {pending_lookups[t] : t \in Tbids}
           valid == {r \in Head(events).found : validate_peer_registration(r)}
<1>1. /\ events # << >> /\ Head(events).kind = "tbid" /\ events' = Tail(events)
      /\ MapsOK /\ CallersOK /\ UNCHANGED <<pending_family_lookups, queries, failed>>
  BY DEF handle_tbid_records, DirectoryInv
<1>2. \/ senders \ {0} = {} /\ UNCHANGED caller
      \/ \E c \in Callers, r \in valid \cup {NoRecord} :
           /\ caller[c].id \in senders \ {0}
           /\ caller' = [Closed({pending_lookups[t] : t \in Drained(c)} \ {caller[c].id}) EXCEPT
                ![c] = IF @.pc = "wait" THEN [@ EXCEPT !.rx = "value", !.rec = r] ELSE @]
  BY DEF handle_tbid_records
<1> HIDE DEF valid
<1>3. \A d \in Callers : caller[d].pc = "wait" /\ caller[d].rx = "open" /\ caller[d].op # "family" =>
        caller[d].id \in senders \ {0}
  BY WaitingHasTbid DEF AccountInv, LookupsAccountedFor, SenderKept
<1>4. \A d \in Callers : caller[d].id \in senders \ {0} => caller[d].op # "family"
  BY SenderWaits
<1> HIDE DEF senders
<1>5. /\ \A d \in Callers : caller'[d].id = caller[d].id /\ caller'[d].pc = caller[d].pc
      /\ \A d \in Callers : caller'[d].pc = "wait" /\ caller'[d].rx = "open" =>
           caller'[d] = caller[d] /\ caller[d].op = "family"
  <2>1. CASE senders \ {0} = {} /\ UNCHANGED caller
    BY <1>3, <2>1
  <2>2. ASSUME NEW c \in Callers, NEW r \in valid \cup {NoRecord}, caller[c].id \in senders \ {0},
               caller' = [Closed({pending_lookups[t] : t \in Drained(c)} \ {caller[c].id}) EXCEPT
                 ![c] = IF @.pc = "wait" THEN [@ EXCEPT !.rx = "value", !.rec = r] ELSE @]
        PROVE  /\ \A d \in Callers : caller'[d].id = caller[d].id /\ caller'[d].pc = caller[d].pc
               /\ \A d \in Callers : caller'[d].pc = "wait" /\ caller'[d].rx = "open" =>
                    caller'[d] = caller[d] /\ caller[d].op = "family"
    <3> DEFINE K == Closed(senders \ {caller[c].id})
               x == IF K[c].pc = "wait" THEN [K[c] EXCEPT !.rx = "value", !.rec = r] ELSE K[c]
    <3>1. caller' = [K EXCEPT ![c] = x]
      BY <2>2 DEF Drained, senders
    <3>2. /\ K \in [Callers -> CallState]
          /\ \A d \in Callers : K[d].id = caller[d].id /\ K[d].pc = caller[d].pc
      BY <1>1, ClosedEffect
    <3>3. \A d \in Callers : K[d].rx = "open" =>
            K[d] = caller[d] /\ (caller[d].id \notin senders \ {0} \/ caller[d].id = caller[c].id)
      BY <1>1 DEF Closed, CallersOK, CallState
    <3> HIDE DEF K
    <3>4. x.id = caller[c].id /\ x.pc = caller[c].pc /\ (x.pc = "wait" => x.rx = "value")
      BY <3>2 DEF CallState
    <3> HIDE DEF x
    <3>5. caller'[c] = x /\ \A d \in Callers : d # c => caller'[d] = K[d]
      BY <3>1, <3>2
    <3>6. ASSUME NEW d \in Callers, caller'[d].pc = "wait", caller'[d].rx = "open"
          PROVE  caller'[d] = caller[d] /\ caller[d].op = "family"
      <4>1. d # c
        BY <3>4, <3>5, <3>6
      <4>2. caller'[d] = caller[d] /\ (caller[d].id \notin senders \ {0} \/ caller[d].id = caller[c].id)
        BY <3>3, <3>5, <3>6, <4>1
      <4>3. caller[d].id \notin senders \ {0}
        BY <2>2, <4>1, <4>2, <1>1 DEF CallersOK
      <4> QED
        BY <1>3, <3>6, <4>2, <4>3
    <3> QED
      BY <3>2, <3>4, <3>5, <3>6
  <2> QED
    BY <1>2, <2>1, <2>2
<1>6. ASSUME NEW d \in Callers, caller'[d].pc = "wait", caller'[d].rx = "open"
      PROVE  SenderKept(caller[d])' /\ AnswerComing(caller[d])'
  <2>1. caller'[d] = caller[d] /\ caller[d].op = "family"
    BY <1>5, <1>6
  <2>2. Head(events).kind # Kind(caller[d])
    BY <1>1, <2>1 DEF Kind
  <2>3. AnswerComing(caller[d]) => AnswerComing(caller[d])'
    BY <1>1, <2>1, <2>2, EventLeaves
  <2> QED
    BY <1>1, <1>6, <2>1, <2>3, StillAccounted
<1> QED
  BY <1>5, <1>6 DEF AccountInv, LookupsAccountedFor

\* A receiver wakes or times out.
LEMMA WaitEndsAccounts ==
  ASSUME DirectoryInv, AccountInv, NEW c \in Callers, Answered(c) \/ TimesOut(c)
  PROVE  AccountInv'
<1>1. /\ caller[c].pc = "wait" /\ caller[c].id # 0 /\ caller[c] \in CallState /\ CallersOK
      /\ UNCHANGED lookupVars /\ failed' = failed
  BY DEF Answered, TimesOut, AccountInv, DirectoryInv, CallersOK
<1>2. ASSUME NEW pc \in {"call", "expire"}, caller' = [caller EXCEPT ![c] = [caller[c] EXCEPT !.pc = pc]]
      PROVE  AccountInv'
  <2> DEFINE x == [caller[c] EXCEPT !.pc = pc]
  <2>1. x.pc = pc /\ x.id = caller[c].id
    BY <1>1 DEF CallState
  <2>2. caller' = [caller EXCEPT ![c] = x]
    BY <1>2
  <2> HIDE DEF x
  <2>3. (x.pc # "idle" => x.id # 0) /\ x.pc # "wait"
    BY <1>1, <2>1
  <2>4. UNCHANGED <<lookupVars, failed>>
    BY <1>1
  <2> QED
    BY <1>1, <2>2, <2>3, <2>4, AccountsOneCaller
<1>3. CASE Answered(c)
  <2>1. CASE caller[c].rec # NoRecord
    BY <1>2, <1>3, <2>1 DEF Answered
  <2>2. CASE caller[c].rec = NoRecord
    BY <1>1, <1>3, <2>2, AccountsReturn DEF Answered, Return
  <2> QED
    BY <2>1, <2>2
<1>4. CASE TimesOut(c)
  BY <1>2, <1>4 DEF TimesOut
<1> QED
  BY <1>3, <1>4

\* An expired lookup removes its key and drops whoever waits there by now.
LEMMA RemovePendingAccounts ==
  ASSUME DirectoryInv, AccountInv, NEW c \in Callers, RemovePending(c)
  PROVE  AccountInv'
<1> DEFINE t == caller[c].tbid
           K == Closed({pending_lookups[t]})
<1>1. /\ t \in Tbids /\ caller[c].pc = "expire" /\ CallersOK /\ MapsOK
      /\ UNCHANGED <<tbid_index, pending_family_lookups, queries, events, failed>>
  BY DEF RemovePending, DirectoryInv, CallersOK
<1>2. CASE caller[c].op = "family"
  <2>1. caller' = [caller EXCEPT ![c] = Idle] /\ UNCHANGED pending_lookups
    BY <1>2 DEF RemovePending, Return
  <2> QED
    BY <1>1, <2>1, AccountsReturn DEF lookupVars
<1>3. CASE caller[c].op # "family"
  <2>1. caller' = [K EXCEPT ![c] = Idle] /\ pending_lookups' = [pending_lookups EXCEPT ![t] = 0]
    BY <1>3 DEF RemovePending
  <2>2. /\ K \in [Callers -> CallState]
        /\ \A d \in Callers : K[d].id = caller[d].id /\ K[d].pc = caller[d].pc
    BY <1>1, ClosedEffect
  <2>3. \A d \in Callers : K[d].rx = "open" =>
          K[d] = caller[d] /\ (caller[d].id = 0 \/ caller[d].id # pending_lookups[t])
    BY <1>1 DEF Closed, CallersOK, CallState
  <2> HIDE DEF K
  <2>4. caller'[c].pc = "idle" /\ \A d \in Callers : d # c => caller'[d] = K[d]
    BY <2>1, <2>2 DEF Idle
  <2>5. \A d \in Callers : caller'[d].pc # "idle" => caller'[d].id # 0
    BY <2>2, <2>4 DEF AccountInv
  <2>6. ASSUME NEW d \in Callers, caller'[d].pc = "wait", caller'[d].rx = "open"
        PROVE  SenderKept(caller[d])' /\ AnswerComing(caller[d])'
    <3>1. caller'[d] = caller[d] /\ (caller[d].id = 0 \/ caller[d].id # pending_lookups[t])
      BY <2>3, <2>4, <2>6
    <3>2. caller[d].pc = "wait" /\ caller[d].rx = "open" /\ caller[d].id # 0 /\ caller[d].tbid \in Tbids
      BY <2>6, <3>1, WaitingHasTbid DEF AccountInv
    <3>3. caller[d].op # "family" => caller[d].tbid # t
      BY <3>1, <3>2 DEF AccountInv, LookupsAccountedFor, SenderKept
    <3>4. caller[d].op # "family" => pending_lookups'[caller[d].tbid] = pending_lookups[caller[d].tbid]
      BY <1>1, <2>1, <3>2, <3>3 DEF MapsOK
    <3>5. AnswerComing(caller[d]) => AnswerComing(caller[d])'
      BY <1>1, <3>1, ComingStays
    <3> QED
      BY <1>1, <3>1, <3>2, <3>4, <3>5, StillAccounted
  <2> QED
    BY <2>5, <2>6 DEF AccountInv, LookupsAccountedFor
<1> QED
  BY <1>2, <1>3

\* A request begins, gets its line, or calls its peer.
LEMMA RequestAccounts ==
  ASSUME DirectoryInv, AccountInv, NEW c \in Callers,
         \/ \E op \in {"stamp", "slice", "family"}, pc \in {"line", "lookup"}, t \in Tbids : Begin(c, op, t, pc)
         \/ line_for_tbid(c) \/ InsertLine(c) \/ CallPeer(c)
  PROVE  AccountInv'
<1>1. /\ UNCHANGED lookupVars /\ failed' = failed /\ CallersOK /\ caller[c] \in CallState
      /\ UNCHANGED <<lookupVars, failed>>
  BY DEF Begin, line_for_tbid, InsertLine, CallPeer, DirectoryInv, CallersOK
<1>2. ASSUME NEW op \in {"stamp", "slice", "family"}, NEW pc \in {"line", "lookup"}, NEW t \in Tbids,
             Begin(c, op, t, pc)
      PROVE  AccountInv'
  <2> DEFINE x == [Idle EXCEPT !.id = calls + 1, !.pc = pc, !.op = op, !.tbid = t]
  <2>1. caller' = [caller EXCEPT ![c] = x]
    BY <1>2 DEF Begin
  <2>2. calls \in Nat /\ x.pc = pc /\ x.id = calls + 1
    BY DEF Idle, DirectoryInv, CallersOK
  <2> HIDE DEF x
  <2>3. (x.pc # "idle" => x.id # 0) /\ x.pc # "wait"
    BY <2>2
  <2> QED
    BY <1>1, <2>1, <2>3, AccountsOneCaller
<1>3. CASE line_for_tbid(c) \/ InsertLine(c)
  <2>1. PICK pc \in {"insert", "lookup"} :
          \E l : caller' = [caller EXCEPT ![c] = [caller[c] EXCEPT !.pc = pc, !.line = l]]
    <3>1. CASE line_for_tbid(c)
      BY <3>1 DEF line_for_tbid
    <3>2. CASE InsertLine(c)
      BY <3>2 DEF InsertLine
    <3> QED
      BY <1>3, <3>1, <3>2
  <2>2. PICK l : caller' = [caller EXCEPT ![c] = [caller[c] EXCEPT !.pc = pc, !.line = l]]
    BY <2>1
  <2>3. caller[c].id # 0
    BY <1>3 DEF line_for_tbid, InsertLine, AccountInv
  <2> DEFINE x == [caller[c] EXCEPT !.pc = pc, !.line = l]
  <2>4. x.pc = pc /\ x.id = caller[c].id
    BY <1>1 DEF CallState
  <2>5. caller' = [caller EXCEPT ![c] = x]
    BY <2>2
  <2> HIDE DEF x
  <2>6. (x.pc # "idle" => x.id # 0) /\ x.pc # "wait"
    BY <2>3, <2>4
  <2> QED
    BY <1>1, <2>5, <2>6, AccountsOneCaller
<1>4. CASE CallPeer(c)
  BY <1>1, <1>4, AccountsReturn DEF CallPeer, Return
<1> QED
  BY <1>2, <1>3, <1>4

LEMMA AccountsKept ==
  ASSUME DirectoryInv, AccountInv, LookupNext \/ RegistryNext
  PROVE  AccountInv'
<1>1. ASSUME NEW c \in Callers, NEW t \in Tbids,
             \/ host_lookup_tbid(c, t) \/ fetch_and_cache_family_record(c, t)
             \/ route_stamp(c, t) \/ get_calendar_slice_by_tbid(c, t)
      PROVE  AccountInv'
  <2>1. PICK op \in {"stamp", "slice", "family"}, pc \in {"line", "lookup"} : Begin(c, op, t, pc)
    BY <1>1 DEF host_lookup_tbid, fetch_and_cache_family_record, route_stamp, get_calendar_slice_by_tbid
  <2> QED
    BY <2>1, RequestAccounts
<1>2. ASSUME NEW c \in Callers, CallerStep(c) PROVE AccountInv'
  BY <1>2, LookupAccounts, LookupFamilyAccounts, WaitEndsAccounts, RemovePendingAccounts, RequestAccounts DEF CallerStep
<1>3. ASSUME RetrieveNext PROVE AccountInv'
  BY <1>3, HandleRecordsAccounts, RetrieveFamilyAccounts, QueryEndAccounts DEF RetrieveNext
<1>4. ASSUME NEW c \in Callers, line_for_tbid(c) \/ InsertLine(c) \/ LookupCached(c) \/ CallPeer(c)
      PROVE  AccountInv'
  BY <1>4, LookupAccounts, RequestAccounts DEF LookupCached
<1>5. ASSUME shutdown_relationships \/ \E t \in Tbids : ShutdownEntry(t)
      PROVE  AccountInv'
  <2>1. UNCHANGED <<caller, pending_lookups, pending_family_lookups, queries, events, failed>>
    BY <1>5 DEF shutdown_relationships, ShutdownEntry, lookupVars
  <2> QED
    BY <2>1 DEF AccountInv, LookupsAccountedFor, SenderKept, AnswerComing, Kind
<1> QED
  BY <1>1, <1>2, <1>3, <1>4, <1>5, HandleRecordsAccounts DEF LookupNext, RegistryNext

\* No lookup is forgotten: for any number of callers that replace, answer, drop
\* and expire each other's lookups, one that still waits has its sender in the
\* map and its query or its event on the way, unless its own query failed.
THEOREM NoLookupForgotten == DirectorySpec => []LookupsAccountedFor
<1>1. DirectoryInit => AccountInv
  BY DEF DirectoryInit, AccountInv, LookupsAccountedFor, Idle
<1>2. DirectoryInv /\ AccountInv /\ [LookupNext \/ RegistryNext]_directoryVars => AccountInv'
  <2>1. AccountInv /\ UNCHANGED directoryVars => AccountInv'
    BY DEF directoryVars, lookupVars, AccountInv, LookupsAccountedFor, SenderKept, AnswerComing, Kind
  <2> QED
    BY <2>1, AccountsKept
<1>3. AccountInv => LookupsAccountedFor
  BY DEF AccountInv
<1> QED
  BY <1>1, <1>2, <1>3, DirectoryInvariant, PTL DEF DirectorySpec

\* When shutdown_relationships has gone through the registry, the lines that
\* were out when it began are cancelled or no longer registered, whatever
\* callers and DHT answers inserted meanwhile.
THEOREM ShutdownReachesLines == DirectorySpec => []ShutdownReachesRegistered
<1>1. DirectoryInv => ShutdownReachesRegistered
  BY DEF DirectoryInv, LinesOK, ShutdownReachesRegistered
<1> QED
  BY <1>1, DirectoryInvariant, PTL

-----------------------------------------------------------------------------
(* Requests over the swarm *)

RequestName == "RequestResponse"
CommandType ==
  [name : {"Dial", "Bootstrap", "Provide", "PutRecord", "GetRecord", "EnterDormancy", RequestName},
   arg : Nodes \cup {Me} \cup Calls \cup {OwnRecord("peers"), OwnRecord("tbid")}]
CallType == [pc : {"new", "wait", "tcp", "ok", "failed"}, reply : {"none", "ok", "error"}]
UnderWay == {"sent", "handled", "empty", "lost"}

\* The channel holds at most one command for a request.
CommandsOK ==
  /\ commands \in Seq(CommandType)
  /\ \A i \in DOMAIN commands : commands[i].name = RequestName => commands[i].arg \in Calls
  /\ \A i, j \in DOMAIN commands : commands[i].name = RequestName /\ commands[j] = commands[i] => i = j

RpcTypes ==
  /\ call \in [Calls -> CallType] /\ remote \in [Calls -> {"none", "done"} \cup UnderWay]
  /\ executed \in [Calls -> Nat] /\ pending_rpc \subseteq Calls

Queued(c) == \E i \in DOMAIN commands : commands[i] = Command(RequestName, c)

\* How often a request can have been executed: over libp2p, from the time the
\* peer may have handled it, and over JSON-RPC, once that call has ended.
Executions(c) ==
  (IF remote[c] \in {"none", "sent", "empty"} THEN 0 ELSE 1)
    + (IF call[c].pc \in {"new", "wait", "tcp"} THEN 0 ELSE 1)

CallOK(c) ==
  /\ call[c].pc = "new" => call[c].reply = "none" /\ remote[c] = "none" /\ executed[c] = 0
  /\ Queued(c) => remote[c] = "none" /\ call[c].pc # "new"
  /\ c \in pending_rpc <=> remote[c] \in UnderWay
  /\ call[c].pc = "wait" /\ call[c].reply = "none" => Queued(c) \/ c \in pending_rpc
  /\ remote[c] = "handled" \/ call[c].reply = "ok" \/ call[c].pc = "ok" => executed[c] > 0
  /\ executed[c] <= Executions(c)

SwarmInv == CommandsOK /\ RpcTypes /\ \A c \in Calls : CallOK(c)

\* Commands other than requests are put at the end and taken from the head.
OthersGo ==
  \/ commands' = commands
  \/ commands # << >> /\ Head(commands).name # RequestName /\ commands' = Tail(commands)
  \/ \E cs \in Seq(CommandType) :
       (\A i \in DOMAIN cs : cs[i].name # RequestName) /\ commands' = commands \o cs

LEMMA TailOK ==
  ASSUME CommandsOK, commands # << >>, commands' = Tail(commands)
  PROVE  /\ CommandsOK'
         /\ \A c \in Calls : Queued(c)' <=> Queued(c) /\ Head(commands) # Command(RequestName, c)
<1>1. /\ commands' \in Seq(CommandType) /\ Len(commands') = Len(commands) - 1 /\ Len(commands) >= 1
      /\ \A i \in DOMAIN commands' : i + 1 \in DOMAIN commands /\ commands'[i] = commands[i + 1]
      /\ \A i \in DOMAIN commands : i # 1 => i - 1 \in DOMAIN commands' /\ commands'[i - 1] = commands[i]
      /\ Head(commands) = commands[1] /\ 1 \in DOMAIN commands /\ DOMAIN commands \subseteq Nat /\ DOMAIN commands' \subseteq Nat
  BY DEF CommandsOK
<1>2. \A i, j \in DOMAIN commands' : commands'[i].name = RequestName /\ commands'[j] = commands'[i] => i = j
  <2> SUFFICES ASSUME NEW i \in DOMAIN commands', NEW j \in DOMAIN commands',
                      commands'[i].name = RequestName, commands'[j] = commands'[i]
               PROVE  i = j
    OBVIOUS
  <2>1. i + 1 = j + 1
    BY <1>1 DEF CommandsOK
  <2> QED
    BY <1>1, <2>1
<1>3. CommandsOK'
  BY <1>1, <1>2 DEF CommandsOK
<1>4. ASSUME NEW c \in Calls, Queued(c)' PROVE Queued(c) /\ Head(commands) # Command(RequestName, c)
  <2>1. PICK i \in DOMAIN commands' : commands'[i] = Command(RequestName, c)
    BY <1>4 DEF Queued, Command
  <2>2. Command(RequestName, c).name = RequestName
    BY DEF Command
  <2>3. i + 1 \in DOMAIN commands /\ commands[i + 1] = Command(RequestName, c) /\ i + 1 # 1
    BY <1>1, <2>1
  <2> QED
    BY <1>1, <2>2, <2>3 DEF CommandsOK, Queued
<1>5. ASSUME NEW c \in Calls, Queued(c), Head(commands) # Command(RequestName, c) PROVE Queued(c)'
  <2>1. PICK i \in DOMAIN commands : commands[i] = Command(RequestName, c)
    BY <1>5 DEF Queued
  <2>2. i # 1
    BY <1>1, <1>5, <2>1
  <2>3. i - 1 \in DOMAIN commands' /\ commands'[i - 1] = Command(RequestName, c)
    BY <1>1, <2>1, <2>2
  <2> QED
    BY <2>3 DEF Queued, Command
<1> QED
  BY <1>3, <1>4, <1>5

LEMMA OthersKeepQueued ==
  ASSUME CommandsOK, OthersGo
  PROVE  CommandsOK' /\ \A c \in Calls : Queued(c)' <=> Queued(c)
<1>1. CASE commands' = commands
  BY <1>1 DEF CommandsOK, Queued, Command
<1>2. CASE commands # << >> /\ Head(commands).name # RequestName /\ commands' = Tail(commands)
  <2>1. \A c \in Calls : Command(RequestName, c).name = RequestName
    BY DEF Command
  <2> QED
    BY <1>2, <2>1, TailOK
<1>3. ASSUME NEW cs \in Seq(CommandType), \A i \in DOMAIN cs : cs[i].name # RequestName, commands' = commands \o cs
      PROVE  CommandsOK' /\ \A c \in Calls : Queued(c)' <=> Queued(c)
  <2>1. /\ commands \in Seq(CommandType) /\ commands' \in Seq(CommandType)
        /\ DOMAIN commands = 1..Len(commands) /\ DOMAIN commands' = 1..(Len(commands) + Len(cs)) /\ DOMAIN cs = 1..Len(cs)
        /\ Len(commands) \in Nat /\ Len(cs) \in Nat
        /\ \A i \in 1..(Len(commands) + Len(cs)) :
             commands'[i] = IF i <= Len(commands) THEN commands[i] ELSE cs[i - Len(commands)]
    BY <1>3, ConcatProperties DEF CommandsOK
  <2>2. \A i \in DOMAIN commands : i \in DOMAIN commands' /\ commands'[i] = commands[i]
    BY <2>1
  <2>3. \A i \in DOMAIN commands' : commands'[i].name = RequestName => i \in DOMAIN commands
    BY <1>3, <2>1
  <2>4. CommandsOK'
    BY <2>1, <2>2, <2>3 DEF CommandsOK
  <2>5. ASSUME NEW c \in Calls PROVE Queued(c)' <=> Queued(c)
    <3>1. Command(RequestName, c).name = RequestName
      BY DEF Command
    <3> QED
      BY <2>2, <2>3, <3>1 DEF Queued, Command
  <2> QED
    BY <2>4, <2>5
<1> QED
  BY <1>1, <1>2, <1>3 DEF OthersGo

\* A step that touches no request.
LEMMA NodeStepKeeps ==
  ASSUME SwarmInv, UNCHANGED rpcVars, OthersGo
  PROVE  SwarmInv'
<1>1. UNCHANGED <<call, pending_rpc, remote, executed>>
  BY DEF rpcVars
<1>2. CommandsOK' /\ \A c \in Calls : Queued(c)' <=> Queued(c)
  BY OthersKeepQueued DEF SwarmInv
<1>3. RpcTypes'
  BY <1>1 DEF SwarmInv, RpcTypes
<1>4. ASSUME NEW c \in Calls PROVE CallOK(c)'
  BY <1>1, <1>2 DEF SwarmInv, CallOK, Executions
<1> QED
  BY <1>2, <1>3, <1>4 DEF SwarmInv

\* A step of one request.
LEMMA CallStepKeeps ==
  ASSUME SwarmInv, NEW c \in Calls, CommandsOK', RpcTypes',
         \A d \in Calls : d # c => /\ call'[d] = call[d] /\ remote'[d] = remote[d] /\ executed'[d] = executed[d]
                                   /\ d \in pending_rpc' <=> d \in pending_rpc
                                   /\ Queued(d)' <=> Queued(d),
         CallOK(c)'
  PROVE  SwarmInv'
<1>1. ASSUME NEW d \in Calls, d # c PROVE CallOK(d)'
  BY <1>1 DEF SwarmInv, CallOK, Executions
<1> QED
  BY <1>1 DEF SwarmInv

LEMMA SameCommands ==
  ASSUME SwarmInv, commands' = commands
  PROVE  CommandsOK' /\ \A d \in Calls : Queued(d)' <=> Queued(d)
BY OthersKeepQueued DEF SwarmInv, OthersGo

LEMMA CallParts ==
  ASSUME SwarmInv, NEW c \in Calls
  PROVE  /\ call \in [Calls -> CallType] /\ call[c] \in CallType /\ remote \in [Calls -> {"none", "done"} \cup UnderWay]
         /\ executed \in [Calls -> Nat] /\ executed[c] \in Nat /\ pending_rpc \subseteq Calls
         /\ CallOK(c) /\ call[c].pc \in {"new", "wait", "tcp", "ok", "failed"} /\ call[c].reply \in {"none", "ok", "error"}
<1>1. RpcTypes /\ CallOK(c)
  BY DEF SwarmInv
<1>2. call \in [Calls -> CallType] /\ call[c] \in CallType
  BY <1>1 DEF RpcTypes
<1>3. call[c].pc \in {"new", "wait", "tcp", "ok", "failed"} /\ call[c].reply \in {"none", "ok", "error"}
  BY <1>2 DEF CallType
<1> QED
  BY <1>1, <1>2, <1>3 DEF RpcTypes

\* A request moves on in the caller's hands.
LEMMA CallerGoes ==
  ASSUME SwarmInv, NEW c \in Calls, NEW s \in {"new", "wait", "tcp", "ok", "failed"},
         call' = [call EXCEPT ![c].pc = s]
  PROVE  /\ call' \in [Calls -> CallType] /\ call'[c].pc = s /\ call'[c].reply = call[c].reply
         /\ \A d \in Calls : d # c => call'[d] = call[d]
<1>1. call \in [Calls -> CallType] /\ call[c] \in CallType
  BY CallParts
<1>2. [call[c] EXCEPT !.pc = s] \in CallType /\ [call[c] EXCEPT !.pc = s].pc = s /\ [call[c] EXCEPT !.pc = s].reply = call[c].reply
  BY <1>1 DEF CallType
<1>3. call' = [call EXCEPT ![c] = [call[c] EXCEPT !.pc = s]]
  OBVIOUS
<1> QED
  BY <1>1, <1>2, <1>3

\* Replied, Timeout, and a request that goes to the JSON-RPC transport at once.
LEMMA CallerStepKeeps ==
  ASSUME SwarmInv, NEW c \in Calls, NEW s \in {"tcp", "ok"}, call' = [call EXCEPT ![c].pc = s],
         UNCHANGED <<commands, pending_rpc, remote, executed>>,
         call[c].pc \in {"new", "wait"}, s = "ok" => call[c].reply = "ok"
  PROVE  SwarmInv'
<1>1. /\ RpcTypes /\ CallOK(c) /\ executed[c] \in Nat /\ executed \in [Calls -> Nat]
  BY CallParts DEF SwarmInv
<1>2. /\ call' \in [Calls -> CallType] /\ call'[c].pc = s /\ call'[c].reply = call[c].reply
      /\ \A d \in Calls : d # c => call'[d] = call[d]
  BY CallerGoes
<1>3. CommandsOK' /\ \A d \in Calls : Queued(d)' <=> Queued(d)
  BY SameCommands
<1>4. RpcTypes'
  BY <1>1, <1>2 DEF RpcTypes
<1>5. Executions(c) \in Nat /\ Executions(c)' \in Nat /\ Executions(c) <= Executions(c)'
  BY <1>2 DEF Executions
<1>6. executed[c] <= Executions(c)'
  BY <1>1, <1>5 DEF CallOK
<1>7. CallOK(c)'
  BY <1>1, <1>2, <1>3, <1>6 DEF CallOK
<1> QED
  BY <1>2, <1>3, <1>4, <1>7, CallStepKeeps

\* rpc_call: the command is the first for this request.
LEMMA RpcCallKeeps ==
  ASSUME SwarmInv, NEW c \in Calls, rpc_call(c), call[c].pc = "new", UNCHANGED <<pending_rpc, remote, executed>>
  PROVE  SwarmInv'
<1>1. CommandsOK /\ RpcTypes /\ CallOK(c) /\ executed[c] \in Nat /\ commands \in Seq(CommandType)
  BY CallParts DEF SwarmInv, CommandsOK
<1>2. /\ call' \in [Calls -> CallType] /\ call'[c].pc = "wait" /\ call'[c].reply = call[c].reply
      /\ \A d \in Calls : d # c => call'[d] = call[d]
  BY CallerGoes DEF rpc_call
<1>3. ~Queued(c)
  BY <1>1 DEF CallOK
<1>4. PICK m \in CommandType : m = Command(RequestName, c) /\ m.name = RequestName /\ m.arg = c
  <2>1. Command(RequestName, c).name = RequestName /\ Command(RequestName, c).arg = c
    BY DEF Command
  <2>2. Command(RequestName, c) \in CommandType
    BY DEF Command, CommandType
  <2> QED
    BY <2>1, <2>2
<1>5. commands' = commands \o <<m>>
  BY <1>4 DEF rpc_call, Send, RequestName
<1>6. /\ commands' \in Seq(CommandType) /\ Len(commands) \in Nat
      /\ DOMAIN commands = 1..Len(commands) /\ DOMAIN commands' = 1..(Len(commands) + 1)
      /\ \A i \in DOMAIN commands : commands'[i] = commands[i]
      /\ commands'[Len(commands) + 1] = m
  <2>1. <<m>> \in Seq(CommandType) /\ Len(<<m>>) = 1 /\ <<m>>[1] = m
    OBVIOUS
  <2> QED
    BY <1>1, <1>5, <2>1, ConcatProperties
<1>7. \A i \in DOMAIN commands : commands[i] # m
  BY <1>3, <1>4 DEF Queued
<1>8. \A i \in DOMAIN commands' : i \in DOMAIN commands \/ i = Len(commands) + 1
  BY <1>6
<1>9. \A i, j \in DOMAIN commands' : commands'[i].name = RequestName /\ commands'[j] = commands'[i] => i = j
  BY <1>1, <1>6, <1>7, <1>8 DEF CommandsOK
<1>10. \A i \in DOMAIN commands' : commands'[i].name = RequestName => commands'[i].arg \in Calls
  BY <1>1, <1>4, <1>6, <1>8 DEF CommandsOK
<1>11. CommandsOK'
  BY <1>6, <1>9, <1>10 DEF CommandsOK
<1>12. ASSUME NEW d \in Calls, d # c PROVE Queued(d)' <=> Queued(d)
  <2>1. Command(RequestName, d).arg = d
    BY DEF Command
  <2>2. Command(RequestName, d) # m
    BY <1>4, <1>12, <2>1
  <2>3. DOMAIN commands \subseteq DOMAIN commands'
    BY <1>6
  <2> QED
    BY <1>6, <1>8, <2>2, <2>3 DEF Queued, Command
<1>13. Queued(c)'
  <2>1. Len(commands) + 1 \in DOMAIN commands'
    BY <1>6
  <2> QED
    BY <1>4, <1>6, <2>1 DEF Queued, Command
<1>14. RpcTypes'
  BY <1>1, <1>2 DEF RpcTypes
<1>15. CallOK(c)'
  BY <1>1, <1>2, <1>13 DEF CallOK, Executions
<1> QED
  BY <1>2, <1>11, <1>12, <1>14, <1>15, CallStepKeeps

\* The loop takes a request: it is the only command for it.
LEMMA RequestResponseKeeps ==
  ASSUME SwarmInv, RequestResponse
  PROVE  SwarmInv'
<1>1. CommandsOK /\ RpcTypes /\ commands \in Seq(CommandType) /\ commands # << >> /\ Head(commands).name = RequestName
  BY DEF SwarmInv, CommandsOK, RequestResponse, Take, RequestName
<1>2. PICK c \in Calls : c = Head(commands).arg
  <2>1. 1 \in DOMAIN commands /\ Head(commands) = commands[1]
    BY <1>1
  <2> QED
    BY <1>1, <2>1 DEF CommandsOK
<1>3. Head(commands) = Command(RequestName, c)
  <2>1. PICK m \in CommandType : m = Head(commands)
    BY <1>1
  <2>2. m = [name |-> m.name, arg |-> m.arg]
    BY DEF CommandType
  <2> QED
    BY <1>1, <1>2, <2>1, <2>2 DEF Command
<1>4. /\ commands' = Tail(commands) /\ pending_rpc' = pending_rpc \cup {c} /\ remote' = [remote EXCEPT ![c] = "sent"]
      /\ UNCHANGED <<call, executed>>
  BY <1>2 DEF RequestResponse, Take
<1>5. CommandsOK' /\ \A d \in Calls : Queued(d)' <=> Queued(d) /\ Head(commands) # Command(RequestName, d)
  BY <1>1, <1>4, TailOK
<1>6. \A d \in Calls : d # c => (Queued(d)' <=> Queued(d))
  <2>1. \A d \in Calls : Command(RequestName, d).arg = d
    BY DEF Command
  <2> QED
    BY <1>2, <1>5, <2>1
<1>7. Queued(c) /\ ~Queued(c)'
  <2>1. 1 \in DOMAIN commands /\ Head(commands) = commands[1]
    BY <1>1
  <2>2. Queued(c)
    BY <1>3, <2>1 DEF Queued
  <2> QED
    BY <1>3, <1>5, <2>2
<1>8. remote' \in [Calls -> {"none", "done"} \cup UnderWay] /\ remote'[c] = "sent" /\ \A d \in Calls : d # c => remote'[d] = remote[d]
  BY <1>1, <1>4 DEF RpcTypes, UnderWay
<1>9. RpcTypes'
  BY <1>1, <1>4, <1>8 DEF RpcTypes
<1>10. CallOK(c)
  BY DEF SwarmInv
<1>11. CallOK(c)'
  <2>1. remote[c] = "none" /\ call[c].pc # "new"
    BY <1>7, <1>10 DEF CallOK
  <2>2. Executions(c)' = Executions(c)
    BY <1>4, <1>8, <2>1 DEF Executions
  <2> QED
    BY <1>4, <1>7, <1>8, <1>10, <2>1, <2>2 DEF CallOK, UnderWay
<1>12. \A d \in Calls : d # c => (d \in pending_rpc' <=> d \in pending_rpc)
  BY <1>4
<1> QED
  BY <1>4, <1>5, <1>6, <1>8, <1>9, <1>11, <1>12, CallStepKeeps

\* At the peer.
LEMMA RemoteStepKeeps ==
  ASSUME SwarmInv, NEW c \in Calls, Handle(c) \/ HandleFails(c) \/ Drop(c)
  PROVE  SwarmInv'
<1>1. /\ RpcTypes /\ CallOK(c) /\ executed[c] \in Nat /\ executed \in [Calls -> Nat]
      /\ remote \in [Calls -> {"none", "done"} \cup UnderWay]
  BY CallParts DEF SwarmInv
<1>2. UNCHANGED <<commands, call, pending_rpc>>
  BY DEF Handle, HandleFails, Drop
<1>3. CommandsOK' /\ \A d \in Calls : Queued(d)' <=> Queued(d)
  BY <1>2, SameCommands
<1>4. PICK s \in UnderWay, k \in {0, 1} :
        /\ remote' = [remote EXCEPT ![c] = s] /\ executed' = [executed EXCEPT ![c] = executed[c] + k]
        /\ remote[c] \in UnderWay
        /\ k = 1 => remote[c] = "sent" /\ s = "handled"
        /\ k = 0 => s = "lost" \/ (s = "empty" /\ remote[c] = "sent")
  <2>1. CASE Handle(c)
    BY <2>1 DEF Handle, UnderWay
  <2>2. CASE HandleFails(c) \/ Drop(c)
    <3>1. executed' = [executed EXCEPT ![c] = executed[c] + 0]
      BY <1>1, <2>2 DEF HandleFails, Drop
    <3> QED
      BY <2>2, <3>1 DEF HandleFails, Drop, UnderWay
  <2> QED
    BY <2>1, <2>2
<1>5. /\ executed' \in [Calls -> Nat] /\ executed'[c] = executed[c] + k /\ \A d \in Calls : d # c => executed'[d] = executed[d]
      /\ remote' \in [Calls -> {"none", "done"} \cup UnderWay] /\ remote'[c] = s /\ \A d \in Calls : d # c => remote'[d] = remote[d]
  BY <1>1, <1>4
<1>6. RpcTypes'
  BY <1>1, <1>2, <1>5 DEF RpcTypes
<1>7. executed'[c] <= Executions(c)'
  <2>1. executed[c] <= Executions(c)
    BY <1>1 DEF CallOK
  <2>2. Executions(c) + k <= Executions(c)' /\ Executions(c) \in Nat /\ Executions(c)' \in Nat
    BY <1>2, <1>4, <1>5 DEF Executions, UnderWay
  <2> QED
    BY <1>1, <1>5, <2>1, <2>2
<1>8. CallOK(c)'
  BY <1>1, <1>2, <1>3, <1>4, <1>5, <1>7 DEF CallOK, UnderWay
<1> QED
  BY <1>2, <1>3, <1>5, <1>6, <1>8, CallStepKeeps

\* The answer, or the news that there will be none, reaches a caller that waits.
LEMMA AnswerKeeps ==
  ASSUME SwarmInv, NEW c \in Calls, Response(c) \/ OutboundFailure(c)
  PROVE  SwarmInv'
<1>1. /\ RpcTypes /\ CallOK(c) /\ executed[c] \in Nat /\ call \in [Calls -> CallType] /\ call[c] \in CallType
      /\ remote \in [Calls -> {"none", "done"} \cup UnderWay] /\ pending_rpc \subseteq Calls
      /\ call[c].pc \in {"new", "wait", "tcp", "ok", "failed"} /\ call[c].reply \in {"none", "ok", "error"}
  BY CallParts DEF SwarmInv
<1>2. /\ UNCHANGED <<commands, executed>> /\ pending_rpc' = pending_rpc \ {c} /\ remote' = [remote EXCEPT ![c] = "done"]
      /\ remote[c] \in UnderWay \ {"sent"}
  BY DEF Response, OutboundFailure, UnderWay
<1>3. CommandsOK' /\ \A d \in Calls : Queued(d)' <=> Queued(d)
  BY <1>2, SameCommands
<1>4. PICK reply \in {"ok", "error"} : Deliver(c, reply) /\ (reply = "ok" => remote[c] = "handled")
  <2>1. CASE Response(c)
    BY <2>1 DEF Response
  <2>2. CASE OutboundFailure(c)
    BY <2>2 DEF OutboundFailure
  <2> QED
    BY <2>1, <2>2
<1>5. PICK x \in {"none", "ok", "error"} : x = IF call[c].pc = "wait" THEN reply ELSE call[c].reply
  BY <1>1
<1>6. /\ call' \in [Calls -> CallType] /\ call'[c].pc = call[c].pc /\ call'[c].reply = x
      /\ \A d \in Calls : d # c => call'[d] = call[d]
  <2>1. [call[c] EXCEPT !.reply = x] \in CallType /\ [call[c] EXCEPT !.reply = x].pc = call[c].pc /\ [call[c] EXCEPT !.reply = x].reply = x
    BY <1>1 DEF CallType
  <2>2. call' = [call EXCEPT ![c] = [call[c] EXCEPT !.reply = x]]
    BY <1>1, <1>4, <1>5 DEF Deliver
  <2> QED
    BY <1>1, <2>1, <2>2
<1>7. remote' \in [Calls -> {"none", "done"} \cup UnderWay] /\ remote'[c] = "done" /\ \A d \in Calls : d # c => remote'[d] = remote[d]
  BY <1>1, <1>2
<1>8. RpcTypes'
  BY <1>1, <1>2, <1>6, <1>7 DEF RpcTypes
<1>9. executed'[c] <= Executions(c)'
  <2>1. executed[c] <= Executions(c)
    BY <1>1 DEF CallOK
  <2>2. Executions(c) <= Executions(c)' /\ Executions(c) \in Nat /\ Executions(c)' \in Nat
    BY <1>6, <1>7 DEF Executions
  <2> QED
    BY <1>1, <1>2, <2>1, <2>2
<1>10. ~Queued(c) /\ call[c].pc # "new"
  BY <1>1, <1>2 DEF CallOK, UnderWay
<1>11. (call'[c].reply = "ok" \/ call'[c].pc = "ok") => executed'[c] > 0
  BY <1>1, <1>2, <1>4, <1>5, <1>6 DEF CallOK
<1>12. ~(call'[c].pc = "wait" /\ call'[c].reply = "none")
  BY <1>5, <1>6
<1>13. CallOK(c)'
  BY <1>2, <1>3, <1>6, <1>7, <1>9, <1>10, <1>11, <1>12 DEF CallOK, UnderWay
<1>14. \A d \in Calls : d # c => (d \in pending_rpc' <=> d \in pending_rpc)
  BY <1>2
<1> QED
  BY <1>2, <1>3, <1>6, <1>7, <1>8, <1>13, <1>14, CallStepKeeps

\* The second transport executes a request at most once more.
LEMMA JsonRpcKeeps ==
  ASSUME SwarmInv, NEW c \in Calls, json_rpc_call(c)
  PROVE  SwarmInv'
<1>1. /\ RpcTypes /\ CallOK(c) /\ executed[c] \in Nat /\ executed \in [Calls -> Nat] /\ call[c].pc = "tcp"
  BY CallParts DEF SwarmInv, json_rpc_call
<1>2. UNCHANGED <<commands, pending_rpc, remote>>
  BY DEF json_rpc_call
<1>3. CommandsOK' /\ \A d \in Calls : Queued(d)' <=> Queued(d)
  BY <1>2, SameCommands
<1>4. PICK s \in {"ok", "failed"}, k \in {0, 1} :
        /\ call' = [call EXCEPT ![c].pc = s] /\ executed' = [executed EXCEPT ![c] = executed[c] + k]
        /\ s = "ok" => k = 1
  <2>1. executed = [executed EXCEPT ![c] = executed[c] + 0]
    BY <1>1
  <2> QED
    BY <2>1 DEF json_rpc_call
<1>5. /\ call' \in [Calls -> CallType] /\ call'[c].pc = s /\ call'[c].reply = call[c].reply
      /\ \A d \in Calls : d # c => call'[d] = call[d]
  BY <1>4, CallerGoes
<1>6. executed' \in [Calls -> Nat] /\ executed'[c] = executed[c] + k /\ \A d \in Calls : d # c => executed'[d] = executed[d]
  BY <1>1, <1>4
<1>7. RpcTypes'
  BY <1>1, <1>2, <1>5, <1>6 DEF RpcTypes
<1>8. executed'[c] <= Executions(c)'
  <2>1. executed[c] <= Executions(c)
    BY <1>1 DEF CallOK
  <2>2. Executions(c) + 1 = Executions(c)' /\ Executions(c) \in Nat
    BY <1>1, <1>2, <1>5 DEF Executions
  <2> QED
    BY <1>1, <1>6, <2>1, <2>2
<1>9. (remote[c] = "handled" \/ call[c].reply = "ok" \/ s = "ok") => executed'[c] > 0
  BY <1>1, <1>4, <1>6 DEF CallOK
<1>10. CallOK(c)'
  BY <1>1, <1>2, <1>3, <1>5, <1>8, <1>9 DEF CallOK
<1> QED
  BY <1>2, <1>3, <1>5, <1>6, <1>7, <1>10, CallStepKeeps

LEMMA TakenGoes ==
  ASSUME NEW name, name # RequestName, Take(name)
  PROVE  OthersGo
BY DEF Take, OthersGo

\* The commands a node sends for itself.
LEMMA SentGoes ==
  ASSUME NEW cs \in Seq(CommandType), \A i \in DOMAIN cs : cs[i].name # RequestName, Send(cs)
  PROVE  OthersGo
BY DEF Send, OthersGo

LEMMA NodeCommands ==
  ASSUME NEW name \in {"Dial", "Bootstrap", "Provide", "PutRecord", "GetRecord", "EnterDormancy"},
         NEW a \in Nodes \cup {Me, OwnRecord("peers"), OwnRecord("tbid")}
  PROVE  Command(name, a) \in CommandType /\ Command(name, a).name # RequestName
<1>1. Command(name, a) \in CommandType
  BY DEF Command, CommandType
<1> QED
  BY <1>1 DEF Command, RequestName

LEMMA OneSent ==
  ASSUME NEW m \in CommandType, m.name # RequestName, Send(<<m>>)
  PROVE  OthersGo
<1>1. <<m>> \in Seq(CommandType) /\ \A i \in DOMAIN <<m>> : <<m>>[i].name # RequestName
  OBVIOUS
<1> QED
  BY <1>1, SentGoes

LEMMA StartUpKeeps ==
  ASSUME SwarmInv, NEW n \in Nodes, bootstrap_dht(n) \/ register_and_discover(n)
  PROVE  SwarmInv'
<1>1. UNCHANGED rpcVars
  BY DEF bootstrap_dht, register_and_discover
<1>2. CASE bootstrap_dht(n)
  <2>1. PICK a \in CommandType, b \in CommandType :
          a = Command("Dial", n) /\ b = Command("Bootstrap", n) /\ a.name # RequestName /\ b.name # RequestName
    BY NodeCommands
  <2>2. <<a, b>> \in Seq(CommandType) /\ \A i \in DOMAIN <<a, b>> : <<a, b>>[i].name # RequestName
    BY <2>1
  <2>3. Send(<<a, b>>) \/ commands' = commands
    BY <1>2, <2>1 DEF bootstrap_dht
  <2>4. OthersGo
    BY <2>2, <2>3, SentGoes DEF OthersGo
  <2> QED
    BY <1>1, <2>4, NodeStepKeeps
<1>3. CASE register_and_discover(n)
  <2>1. Send(<<Command("Dial", n)>>)
    BY <1>3 DEF register_and_discover
  <2>2. OthersGo
    BY <2>1, NodeCommands, OneSent
  <2> QED
    BY <1>1, <2>2, NodeStepKeeps
<1> QED
  BY <1>2, <1>3

LEMMA PutKeeps ==
  ASSUME SwarmInv, PutOwnRecord \/ refresh_self_registration
  PROVE  SwarmInv'
<1>1. UNCHANGED rpcVars
  BY DEF PutOwnRecord, refresh_self_registration
<1>2. PICK a \in CommandType, b \in CommandType, g \in CommandType :
        /\ a = Command("PutRecord", OwnRecord("peers")) /\ b = Command("PutRecord", OwnRecord("tbid")) /\ g = Command("GetRecord", Me)
        /\ a.name # RequestName /\ b.name # RequestName /\ g.name # RequestName
  BY NodeCommands
<1>3. <<a, b>> \in Seq(CommandType) /\ Len(<<a, b>>) = 2 /\ \A i \in 1..2 : <<a, b>>[i].name # RequestName
  BY <1>2
<1>4. <<g>> \in Seq(CommandType) /\ Len(<<g>>) = 1 /\ \A i \in 1..1 : <<g>>[i].name # RequestName
  BY <1>2
<1>5. PICK ab \in Seq(CommandType), c \in Seq(CommandType) : ab = <<a, b>> /\ c = <<g>>
  BY <1>3, <1>4
<1>6. ab \o c \in Seq(CommandType) /\ Len(ab \o c) = 3 /\ \A i \in 1..3 : (ab \o c)[i] = IF i <= 2 THEN ab[i] ELSE c[i - 2]
  BY <1>3, <1>4, <1>5, ConcatProperties
<1>7. \A i \in DOMAIN (ab \o c) : (ab \o c)[i].name # RequestName
  BY <1>3, <1>4, <1>5, <1>6
<1>8. \A i \in DOMAIN ab : ab[i].name # RequestName
  BY <1>3, <1>5
<1>9. Send(ab) \/ Send(ab \o c)
  BY <1>2, <1>5 DEF PutOwnRecord, refresh_self_registration, PutCommands
<1>10. OthersGo
  BY <1>6, <1>7, <1>8, <1>9, SentGoes
<1> QED
  BY <1>1, <1>10, NodeStepKeeps

\* The steps that send nothing, or one command of their own.
LEMMA QuietStepKeeps ==
  ASSUME SwarmInv,
         \/ build_and_spawn_swarm \/ WithoutSwarm \/ enable_p2p \/ NothingToRegister \/ ListenAddressUnknown
         \/ \E l \in {"listener"} : NewListenAddr(l) \/ ListenerClosed(l)
         \/ \E n \in Nodes : \/ ConnectionEstablished(n) \/ ConnectionClosed(n)
                             \/ handle_peer_records(n) \/ handle_dht_peer_discovered(n) \/ remove_peer(n)
         \/ \E q \in dht_queries :
              \/ \E ok \in BOOLEAN : PutRecordEnds(q, ok) \/ PeersQueryEnds(q, ok)
              \/ \E n \in Nodes : FoundRecord(q, n)
  PROVE  SwarmInv'
<1>1. UNCHANGED <<commands, rpcVars>>
  <2>1. CASE build_and_spawn_swarm \/ WithoutSwarm \/ enable_p2p \/ NothingToRegister \/ ListenAddressUnknown
    BY <2>1 DEF build_and_spawn_swarm, WithoutSwarm, enable_p2p, NothingToRegister, ListenAddressUnknown
  <2>2. CASE \E l \in {"listener"} : NewListenAddr(l) \/ ListenerClosed(l)
    BY <2>2 DEF NewListenAddr, ListenerClosed
  <2>3. CASE \E n \in Nodes : \/ ConnectionEstablished(n) \/ ConnectionClosed(n)
                              \/ handle_peer_records(n) \/ handle_dht_peer_discovered(n) \/ remove_peer(n)
    BY <2>3 DEF ConnectionEstablished, ConnectionClosed, handle_peer_records, handle_dht_peer_discovered, remove_peer
  <2>4. ASSUME NEW q \in dht_queries, NEW ok \in BOOLEAN, PutRecordEnds(q, ok) \/ PeersQueryEnds(q, ok)
        PROVE  UNCHANGED <<commands, rpcVars>>
    BY <2>4, Zenon DEF PutRecordEnds, PeersQueryEnds
  <2>5. ASSUME NEW q \in dht_queries, NEW n \in Nodes, FoundRecord(q, n) PROVE UNCHANGED <<commands, rpcVars>>
    BY <2>5, Zenon DEF FoundRecord
  <2> QED
    BY <2>1, <2>2, <2>3, <2>4, <2>5, Zenon
<1>2. OthersGo
  BY <1>1 DEF OthersGo
<1> QED
  BY <1>1, <1>2, NodeStepKeeps

LEMMA SwarmNextKeeps ==
  ASSUME SwarmInv, SwarmNext
  PROVE  SwarmInv'
<1>1. CASE publish_attest_willing \/ BootstrapFirst \/ SendEnterDormancy
  <2>1. UNCHANGED rpcVars
    BY <1>1 DEF publish_attest_willing, BootstrapFirst, SendEnterDormancy
  <2>2. Send(<<Command("Provide", Me)>>) \/ Send(<<Command("Bootstrap", Me)>>) \/ Send(<<Command("EnterDormancy", Me)>>)
    BY <1>1 DEF publish_attest_willing, BootstrapFirst, SendEnterDormancy
  <2>3. OthersGo
    BY <2>2, NodeCommands, OneSent
  <2> QED
    BY <2>1, <2>3, NodeStepKeeps
<1>2. CASE Dial \/ PutRecord \/ GetRecord \/ EnterDormancy \/ Bootstrap \/ ProvideForCapability
  <2>1. UNCHANGED rpcVars
    BY <1>2 DEF Dial, PutRecord, GetRecord, EnterDormancy, Bootstrap, ProvideForCapability
  <2>2. \E name \in {"Dial", "PutRecord", "GetRecord", "EnterDormancy", "Bootstrap", "Provide"} : Take(name)
    BY <1>2 DEF Dial, PutRecord, GetRecord, EnterDormancy, Bootstrap, ProvideForCapability
  <2>3. OthersGo
    BY <2>2, TakenGoes DEF RequestName
  <2> QED
    BY <2>1, <2>3, NodeStepKeeps
<1>3. CASE \E n \in Nodes : bootstrap_dht(n) \/ register_and_discover(n)
  BY <1>3, StartUpKeeps
<1>4. CASE PutOwnRecord \/ refresh_self_registration
  BY <1>4, PutKeeps
<1> QED
  BY <1>1, <1>2, <1>3, <1>4, QuietStepKeeps, Zenon DEF SwarmNext

LEMMA RpcNextKeeps ==
  ASSUME SwarmInv, RpcNext
  PROVE  SwarmInv'
<1>1. CASE build_and_spawn_swarm \/ WithoutSwarm \/ enable_p2p \/ NothingToRegister
  BY <1>1, QuietStepKeeps
<1>2. CASE \E n \in Nodes : bootstrap_dht(n)
  BY <1>2, StartUpKeeps
<1>3. CASE RequestResponse
  BY <1>3, RequestResponseKeeps
<1>4. ASSUME NEW c \in Calls, NEW has_peer_id \in BOOLEAN, SendOrFallBack(c, has_peer_id)
      PROVE  SwarmInv'
  <2>1. /\ call[c].pc = "new" /\ UNCHANGED <<pending_rpc, remote, executed>>
        /\ rpc_call(c) \/ (call' = [call EXCEPT ![c].pc = "tcp"] /\ UNCHANGED commands)
    BY <1>4, Zenon DEF SendOrFallBack
  <2> QED
    BY <2>1, RpcCallKeeps, CallerStepKeeps
<1>5. ASSUME NEW c \in Calls, mirror_rpc(c) \/ Timeout(c) PROVE SwarmInv'
  BY <1>5, CallerStepKeeps DEF mirror_rpc, Timeout
<1>6. ASSUME NEW c \in Calls, Replied(c) PROVE SwarmInv'
  <2>1. \E s \in {"tcp", "ok"} : call' = [call EXCEPT ![c].pc = s] /\ (s = "ok" => call[c].reply = "ok")
    BY <1>6 DEF Replied
  <2>2. call[c].pc = "wait" /\ UNCHANGED <<commands, pending_rpc, remote, executed>>
    BY <1>6 DEF Replied
  <2> QED
    BY <2>1, <2>2, CallerStepKeeps
<1>7. ASSUME NEW c \in Calls,
             \/ \E has_peer_id \in BOOLEAN : host_execute_stamp(c, has_peer_id) \/ get_calendar_slice(c, has_peer_id)
             \/ mirror_rpc(c) \/ Handle(c) \/ HandleFails(c) \/ Drop(c) \/ Response(c) \/ OutboundFailure(c)
             \/ Replied(c) \/ Timeout(c) \/ json_rpc_call(c)
      PROVE  SwarmInv'
  BY <1>4, <1>5, <1>6, <1>7, RemoteStepKeeps, AnswerKeeps, JsonRpcKeeps, Zenon DEF host_execute_stamp, get_calendar_slice
<1> QED
  BY <1>1, <1>2, <1>3, <1>7, Zenon DEF RpcNext

\* The swarm keeps each call in exactly one of the places that will answer it.
THEOREM SwarmInvariant == SwarmSpec => []SwarmInv
<1>1. SwarmInit => SwarmInv
  <2> SUFFICES ASSUME SwarmInit PROVE SwarmInv
    OBVIOUS
  <2>1. commands = << >> /\ pending_rpc = {} /\ remote = [c \in Calls |-> "none"] /\ executed = [c \in Calls |-> 0]
    BY DEF SwarmInit
  <2>2. call \in [Calls -> CallType] /\ \A c \in Calls : call[c].pc = "new" /\ call[c].reply = "none"
    BY DEF SwarmInit, CallType
  <2>3. CommandsOK /\ \A c \in Calls : ~Queued(c)
    BY <2>1 DEF CommandsOK, Queued
  <2>4. RpcTypes
    BY <2>1, <2>2 DEF RpcTypes
  <2>5. \A c \in Calls : CallOK(c)
    BY <2>1, <2>2, <2>3 DEF CallOK, Executions, UnderWay
  <2> QED
    BY <2>3, <2>4, <2>5 DEF SwarmInv
<1>2. SwarmInv /\ [SwarmNext \/ RpcNext]_swarmVars => SwarmInv'
  <2>1. ASSUME SwarmInv, UNCHANGED swarmVars PROVE SwarmInv'
    <3>1. UNCHANGED rpcVars /\ commands' = commands
      BY <2>1 DEF swarmVars
    <3>2. OthersGo
      BY <3>1 DEF OthersGo
    <3> QED
      BY <2>1, <3>1, <3>2, NodeStepKeeps
  <2> QED
    BY <2>1, SwarmNextKeeps, RpcNextKeeps
<1> QED
  BY <1>1, <1>2, PTL DEF SwarmSpec

\* Whoever waits for a reply over libp2p is still going to get one, the loop
\* keeps no sender of a request that is over, and a request is executed at most
\* once by each transport, for any number of requests, whatever start-up,
\* registration, discovery and dormancy put into the same channel.
THEOREM RequestsAccountedFor == SwarmSpec => []CallsAccountedFor
<1>1. SwarmInv => CallsAccountedFor
  <2> SUFFICES ASSUME SwarmInv, NEW c \in Calls
               PROVE  /\ (call[c].pc = "wait" /\ call[c].reply = "none") => Queued(c) \/ (c \in pending_rpc /\ remote[c] # "done")
                      /\ c \in pending_rpc => remote[c] \in {"sent", "handled", "empty", "lost"}
                      /\ call[c].pc = "ok" => executed[c] > 0
                      /\ executed[c] <= 2
    BY DEF CallsAccountedFor, Queued, RequestName
  <2>1. CallOK(c) /\ executed[c] \in Nat
    BY CallParts
  <2>2. Executions(c) \in {0, 1, 2}
    BY DEF Executions
  <2>3. executed[c] <= 2
    BY <2>1, <2>2 DEF CallOK
  <2> QED
    BY <2>1, <2>3 DEF CallOK, UnderWay
<1> QED
  BY <1>1, SwarmInvariant, PTL

-----------------------------------------------------------------------------
(* Collision *)

Names == Processes \cup {"nobody"}
Heartbeat == [from : Names, nonce : Names \X Nat, valid : BOOLEAN, topic : {"heartbeat", "probity"}]

CollisionTypeOK ==
  /\ started \subseteq Processes /\ dormant \subseteq Processes
  /\ beats \in [Processes -> Nat] /\ my_nonces \in [Processes -> Seq(Processes \X Nat)]
  /\ gossip \subseteq Heartbeat

\* A signature of the shared key is made by a process that has sent that nonce.
SignedWasSent ==
  \A h \in gossip : h.valid =>
    /\ h.from \in Processes
    /\ \E k \in 1..beats[h.from] : h.nonce = <<h.from, k>>

\* w is what a process that has sent n heartbeats remembers.
LastNonces(p, n, w) ==
  /\ w \in Seq(Processes \X Nat)
  /\ Len(w) = IF n < NonceWindow THEN n ELSE NonceWindow
  /\ \A i \in 1..Len(w) : w[i][1] = p /\ w[i][2] = n - Len(w) + i

\* A process remembers its last nonces, as many as the window holds, in order.
RemembersLast == \A p \in Processes : LastNonces(p, beats[p], my_nonces[p])

CollisionInv == CollisionTypeOK /\ SignedWasSent /\ RemembersLast /\ NoFalseCollision

\* register_own_nonce adds a nonce, and drops the oldest one of a full window.
LEMMA WindowSlides ==
  ASSUME NEW p \in Processes, NEW n \in Nat, NEW w, LastNonces(p, n, w)
  PROVE  LastNonces(p, n + 1, register_own_nonce(w, <<p, n + 1>>))
<1>1. /\ NonceWindow \in Nat \ {0} /\ w \in Seq(Processes \X Nat) /\ Len(w) \in Nat
      /\ Len(w) = IF n < NonceWindow THEN n ELSE NonceWindow
      /\ \A i \in 1..Len(w) : w[i][1] = p /\ w[i][2] = n - Len(w) + i
  BY CollisionAssumption DEF LastNonces
<1>2. <<p, n + 1>> \in Processes \X Nat
  OBVIOUS
<1>3. PICK x \in Processes \X Nat : x = <<p, n + 1>> /\ x[1] = p /\ x[2] = n + 1
  BY <1>2
<1> DEFINE u == IF Len(w) >= NonceWindow THEN Tail(w) ELSE w
           v == Append(u, x)
<1>4. /\ u \in Seq(Processes \X Nat)
      /\ Len(u) = IF n < NonceWindow THEN n ELSE NonceWindow - 1
      /\ \A i \in 1..Len(u) : u[i][1] = p /\ u[i][2] = n - Len(u) + i
  <2>1. CASE Len(w) < NonceWindow
    <3>1. u = w /\ Len(w) = n /\ n < NonceWindow
      BY <1>1, <2>1
    <3> HIDE DEF u
    <3> QED
      BY <1>1, <3>1
  <2>2. CASE Len(w) >= NonceWindow
    <3>1. u = Tail(w) /\ w # << >> /\ Len(w) = NonceWindow
      BY <1>1, <2>2
    <3> HIDE DEF u
    <3>2. u \in Seq(Processes \X Nat) /\ Len(u) = Len(w) - 1 /\ \A i \in 1..Len(u) : u[i] = w[i + 1]
      BY <1>1, <3>1
    <3>3. \A i \in 1..Len(u) : i + 1 \in 1..Len(w) /\ n - Len(w) + (i + 1) = n - Len(u) + i
      BY <1>1, <3>2
    <3> QED
      BY <1>1, <2>2, <3>1, <3>2, <3>3
  <2> HIDE DEF u
  <2> QED
    BY <1>1, <2>1, <2>2
<1> HIDE DEF u
<1>5. v \in Seq(Processes \X Nat) /\ Len(v) = Len(u) + 1 /\ v[Len(u) + 1] = x
      /\ \A i \in 1..Len(u) : v[i] = u[i]
  BY <1>4
<1> HIDE DEF v
<1>6. ASSUME NEW i \in 1..Len(v) PROVE v[i][1] = p /\ v[i][2] = n + 1 - Len(v) + i
  <2>1. Len(u) \in Nat
    BY <1>4
  <2>2. CASE i = Len(v)
    BY <2>1, <2>2, <1>3, <1>5
  <2>3. CASE i # Len(v)
    <3>1. i \in 1..Len(u) /\ n + 1 - Len(v) + i = n - Len(u) + i
      BY <2>1, <2>3, <1>5
    <3> QED
      BY <3>1, <1>4, <1>5
  <2> QED
    BY <2>2, <2>3
<1>7. Len(v) = IF n + 1 < NonceWindow THEN n + 1 ELSE NonceWindow
  BY <1>1, <1>4, <1>5
<1>8. register_own_nonce(w, <<p, n + 1>>) = v
  BY <1>3 DEF register_own_nonce, u, v
<1>9. LastNonces(p, n + 1, v)
  <2>1. v \in Seq(Processes \X Nat)
    BY <1>5, Zenon
  <2> QED
    BY <2>1, <1>6, <1>7 DEF LastNonces
<1> QED
  BY <1>8, <1>9

\* A heartbeat of one's own that comes back in time has a remembered nonce.
LEMMA OwnIsRemembered ==
  ASSUME CollisionInv, NEW p \in Processes, NEW h \in gossip, h.valid, h.from = p, Arrives(p, h)
  PROVE  ~on_heartbeat(p, h)
<1>1. PICK k \in 1..beats[p] : h.nonce = <<p, k>>
  BY DEF CollisionInv, SignedWasSent
<1>2. beats[p] \in Nat /\ NonceWindow \in Nat \ {0} /\ MaxDelay \in Nat /\ MaxDelay <= NonceWindow - 1
  BY CollisionAssumption DEF CollisionInv, CollisionTypeOK
<1>3. beats[p] - k <= MaxDelay
  BY <1>1 DEF Arrives
<1> DEFINE l == Len(my_nonces[p])
           i == k - beats[p] + l
<1>4. l = (IF beats[p] < NonceWindow THEN beats[p] ELSE NonceWindow)
      /\ \A j \in 1..l : my_nonces[p][j][1] = p /\ my_nonces[p][j][2] = beats[p] - l + j
  BY DEF CollisionInv, RemembersLast, LastNonces
<1>5. my_nonces[p] \in Seq(Processes \X Nat)
  BY DEF CollisionInv, CollisionTypeOK
<1> HIDE DEF l
<1>6. i \in 1..l /\ beats[p] - l + i = k
  BY <1>2, <1>3, <1>4
<1>7. i \in DOMAIN my_nonces[p]
  BY <1>5, <1>6 DEF l
<1>8. my_nonces[p][i] \in Processes \X Nat
  BY <1>5, <1>7
<1>9. my_nonces[p][i][1] = p /\ my_nonces[p][i][2] = k
  BY <1>4, <1>6
<1> HIDE DEF i
<1>10. my_nonces[p][i] = <<p, k>>
  BY <1>8, <1>9
<1> QED
  BY <1>1, <1>7, <1>10 DEF on_heartbeat

LEMMA CollisionStep == CollisionInv /\ [CollisionNext]_collisionVars => CollisionInv'
<1> SUFFICES ASSUME CollisionInv, [CollisionNext]_collisionVars PROVE CollisionInv'
  OBVIOUS
<1> USE DEF CollisionInv
<1>1. CASE UNCHANGED collisionVars
  BY <1>1 DEF collisionVars, CollisionTypeOK, SignedWasSent, RemembersLast, NoFalseCollision
<1>2. ASSUME NEW p \in Processes, StartTwin(p) PROVE CollisionInv'
  BY <1>2 DEF StartTwin, CollisionTypeOK, SignedWasSent, RemembersLast, NoFalseCollision
<1>3. CASE Forge
  <2> DEFINE forged == [from |-> "nobody", nonce |-> <<"nobody", 1>>, valid |-> FALSE, topic |-> "heartbeat"]
  <2>1. UNCHANGED <<started, beats, my_nonces, dormant>>
    BY <1>3 DEF Forge
  <2>2. PICK g : gossip' = gossip \cup {g} /\ (g = forged \/ \E h \in gossip : g = [h EXCEPT !.topic = "probity"])
    BY <1>3 DEF Forge
  <2>3. g \in Heartbeat /\ (g.valid => g.from \in Processes /\ \E k \in 1..beats[g.from] : g.nonce = <<g.from, k>>)
    <3>1. CASE g = forged
      BY <3>1 DEF Heartbeat, Names
    <3>2. ASSUME NEW h \in gossip, g = [h EXCEPT !.topic = "probity"]
          PROVE  g \in Heartbeat /\ g.valid = h.valid /\ g.from = h.from /\ g.nonce = h.nonce
      <4>1. h \in Heartbeat
        BY DEF CollisionTypeOK
      <4> QED
        BY <4>1, <3>2 DEF Heartbeat
    <3> QED
      BY <2>2, <3>1, <3>2 DEF SignedWasSent
  <2>4. CollisionTypeOK' /\ SignedWasSent'
    BY <2>1, <2>2, <2>3 DEF CollisionTypeOK, SignedWasSent
  <2> QED
    BY <2>1, <2>2, <2>4 DEF RemembersLast, NoFalseCollision
<1>4. ASSUME NEW p \in Processes, NEW valid \in BOOLEAN, heartbeat_broadcast_loop(p, valid) PROVE CollisionInv'
  <2> DEFINE n == beats[p]
             h == [from |-> p, nonce |-> <<p, n + 1>>, valid |-> valid, topic |-> "heartbeat"]
             w == my_nonces[p]
  <2>1. /\ UNCHANGED <<started, dormant>> /\ beats' = [beats EXCEPT ![p] = n + 1]
        /\ my_nonces' = [my_nonces EXCEPT ![p] = register_own_nonce(w, <<p, n + 1>>)]
        /\ gossip' = gossip \/ gossip' = gossip \cup {h}
    BY <1>4 DEF heartbeat_broadcast_loop, PublishHeartbeat
  <2>2. n \in Nat
    BY DEF CollisionTypeOK
  <2>3. PICK v : v = register_own_nonce(w, <<p, n + 1>>)
    OBVIOUS
  <2>4. LastNonces(p, n + 1, v)
    BY <2>2, <2>3, WindowSlides DEF RemembersLast
  <2>5. h \in Heartbeat
    BY <2>2 DEF Heartbeat, Names
  <2>6. CollisionTypeOK'
    <3>1. v \in Seq(Processes \X Nat)
      BY <2>4 DEF LastNonces
    <3>2. my_nonces' \in [Processes -> Seq(Processes \X Nat)]
      BY <3>1, <2>1, <2>3 DEF CollisionTypeOK
    <3>3. beats' \in [Processes -> Nat]
      BY <2>1, <2>2 DEF CollisionTypeOK
    <3>4. gossip' \subseteq Heartbeat
      BY <2>1, <2>5 DEF CollisionTypeOK
    <3> QED
      BY <3>2, <3>3, <3>4, <2>1 DEF CollisionTypeOK
  <2>7. \A q \in Processes : /\ beats'[q] = IF q = p THEN n + 1 ELSE beats[q]
                             /\ my_nonces'[q] = IF q = p THEN v ELSE my_nonces[q]
    BY <2>1, <2>3 DEF CollisionTypeOK
  <2>9. RemembersLast'
    BY <2>4, <2>7 DEF RemembersLast
  <2>8. SignedWasSent'
    <3> SUFFICES ASSUME NEW g \in gossip', g.valid
                 PROVE  g.from \in Processes /\ \E k \in 1..beats'[g.from] : g.nonce = <<g.from, k>>
      BY DEF SignedWasSent
    <3>1. CASE g \in gossip
      <4>1. PICK k \in 1..beats[g.from] : g.from \in Processes /\ g.nonce = <<g.from, k>>
        BY <3>1 DEF SignedWasSent
      <4>2. beats[g.from] \in Nat /\ beats'[g.from] >= beats[g.from] /\ beats'[g.from] \in Nat
        <5>1. beats[g.from] \in Nat
          BY <4>1 DEF CollisionTypeOK
        <5>2. CASE g.from = p
          BY <5>1, <5>2, <2>7
        <5>3. CASE g.from # p
          BY <5>1, <5>3, <4>1, <2>7
        <5> QED
          BY <5>2, <5>3
      <4>3. k \in 1..beats'[g.from]
        BY <4>1, <4>2
      <4> QED
        BY <4>1, <4>3
    <3>2. CASE g = h
      BY <3>2, <2>2, <2>7
    <3> QED
      BY <3>1, <3>2, <2>1
  <2> QED
    BY <2>1, <2>6, <2>8, <2>9 DEF NoFalseCollision
<1>5. ASSUME NEW p \in Processes, NEW h \in gossip, handle_heartbeat(p, h) PROVE CollisionInv'
  <2>1. h.valid /\ Arrives(p, h) /\ on_heartbeat(p, h) /\ dormant' = dormant \cup {p}
        /\ UNCHANGED <<started, beats, my_nonces, gossip>>
    BY <1>5 DEF handle_heartbeat, on_heartbeat
  <2>2. h.from \in Processes \ {p}
    BY <2>1, OwnIsRemembered DEF SignedWasSent
  <2>3. NoFalseCollision'
    BY <2>1, <2>2 DEF NoFalseCollision
  <2> QED
    BY <2>1, <2>3 DEF CollisionTypeOK, SignedWasSent, RemembersLast
<1> QED
  BY <1>1, <1>2, <1>3, <1>4, <1>5 DEF CollisionNext

\* A node goes dormant only when another process has published a heartbeat with
\* its key: for every window and delay below it, the nonces a process remembers
\* are enough to know its own heartbeats again.
THEOREM DormancyHasATwin == CollisionSpec => []NoFalseCollision
<1>1. CollisionInit => CollisionInv
  <2> SUFFICES ASSUME CollisionInit PROVE CollisionInv
    OBVIOUS
  <2>1. CollisionTypeOK /\ SignedWasSent /\ NoFalseCollision
    BY DEF CollisionInit, CollisionTypeOK, SignedWasSent, NoFalseCollision
  <2>2. RemembersLast
    <3>1. NonceWindow \in Nat \ {0}
      BY CollisionAssumption
    <3>2. \A p \in Processes : beats[p] = 0 /\ my_nonces[p] = << >>
      BY DEF CollisionInit
    <3>3. \A p \in Processes : LastNonces(p, 0, << >>)
      BY <3>1 DEF LastNonces
    <3> QED
      BY <3>2, <3>3 DEF RemembersLast
  <2> QED
    BY <2>1, <2>2 DEF CollisionInv
<1>2. CollisionInv => NoFalseCollision
  BY DEF CollisionInv
<1> QED
  BY <1>1, <1>2, CollisionStep, PTL DEF CollisionSpec

-----------------------------------------------------------------------------
(* Probity                                                                   *)

\* However old a report is, it does not count against what it says.
LEMMA WeightNotNegative == ASSUME NEW age \in Nat PROVE u_shape_weight(age) \in Nat
<1>1. Hot \in Nat /\ Valley \in Nat /\ Ancient \in Nat
  BY ProbityAssumption
<1>2. CASE age <= Hot
  BY <1>2 DEF u_shape_weight
<1>3. CASE age > Hot /\ age <= Valley
  <2>1. PICK a \in Nat, m \in Nat \ {0} : a = 9 * (age - Hot) /\ m = Valley - Hot /\ a <= 9 * m
    BY <1>1, <1>3
  <2>2. a \div m \in Int /\ a \div m <= 9
    BY <2>1, QuotientBounds
  <2>3. u_shape_weight(age) = 10 - a \div m
    BY <2>1, <1>1, <1>3 DEF u_shape_weight
  <2> QED
    BY <2>2, <2>3
<1>4. CASE age > Hot /\ age > Valley /\ age <= Ancient
  BY <1>1, <1>4 DEF u_shape_weight
<1>5. CASE age > Hot /\ age > Valley /\ age > Ancient
  <2>1. PICK a \in Nat, m \in Nat \ {0} : a = 9 * (age - Ancient) /\ m = age
    BY <1>1, <1>5
  <2>2. a \div m \in Int /\ a \div m >= 0
    BY <2>1, QuotientBounds
  <2>3. u_shape_weight(age) = 1 + a \div m
    BY <2>1, <1>1, <1>5 DEF u_shape_weight
  <2> QED
    BY <2>2, <2>3
<1> QED
  BY <1>1, <1>2, <1>3, <1>4, <1>5

\* A report counts no more than it says, and nothing from a reporter not believed.
LEMMA WeighedSign ==
  ASSUME NEW w \in Nat, NEW c \in Nat, NEW v \in Int
  PROVE  /\ (w * c * v) \div 1000 \in Int
         /\ v <= 0 => (w * c * v) \div 1000 <= 0
         /\ c = 0 => (w * c * v) \div 1000 = 0
<1>1. PICK k \in Nat : k = w * c
  OBVIOUS
<1>2. PICK x \in Int : x = k * v
  OBVIOUS
<1>3. v <= 0 => x <= 0
  BY <1>2
<1>4. c = 0 => x = 0
  BY <1>1, <1>2
<1>5. x \div 1000 \in Int /\ (x <= 0 => x \div 1000 <= 0) /\ (x >= 0 => x \div 1000 >= 0)
  BY QuotientBounds
<1>6. (w * c * v) \div 1000 = x \div 1000
  BY <1>1, <1>2
<1> QED
  BY <1>3, <1>4, <1>5, <1>6

\* What a subject's reports are; and what was said, of a report that is kept.
Of(subject) == {r \in reports : r.subject = subject}
Says(r, s) == <<r.reporter, r.subject, r.value > 0>> \in s

\* A peer somebody reported on whom a report favoured.
Vouched(p, s) == \E q, v \in Peers, b \in BOOLEAN : {<<v, q, TRUE>>, <<q, p, b>>} \subseteq s

ProbityTypes ==
  /\ clock \in Nat /\ reports \subseteq Report /\ IsFiniteSet(reports)
KeptWasSaid == \A r \in reports : Says(r, said)
WithinLimit == \A p \in Peers : Cardinality(Of(p)) <= MaxReports
ScoresFounded == \A p \in Peers : scores[p] # 0 => Vouched(p, said) /\ Of(p) # {}
ProbityInv == ProbityTypes /\ scores \in [Peers -> Int] /\ KeptWasSaid /\ WithinLimit /\ ScoresFounded

Credibility == [Peers -> Nat]

\* Cutting a score to its range leaves its sign.
LEMMA ClampIs == ASSUME NEW x \in Int PROVE /\ Clamp(x) \in Int /\ (Clamp(x) # 0 => x # 0) /\ (Clamp(x) > 0 => x > 0)
BY DEF Clamp

\* One report in a sum.
LEMMA WeighedReport ==
  ASSUME ProbityTypes, NEW p \in Peers, NEW cred \in Credibility, NEW r \in Due(p)
  PROVE  /\ r \in Of(p) /\ r.value \in Int /\ r.reporter \in Peers /\ cred[r.reporter] \in Nat
         /\ Weighed(p, cred)[r] \in Int
         /\ r.value <= 0 => Weighed(p, cred)[r] <= 0
         /\ cred[r.reporter] = 0 => Weighed(p, cred)[r] = 0
<1>1. r \in Report /\ r \in Of(p) /\ r.timestamp <= clock
  BY DEF Due, Of, ProbityTypes
<1>2. r.value \in Int /\ r.reporter \in Peers /\ r.timestamp \in Int
  <2>1. r.value \in Values /\ r.reporter \in Peers /\ r.timestamp \in 0..(MaxNow + MaxSkew + 1)
    BY <1>1 DEF Report
  <2>2. Values \subseteq Int /\ MaxNow \in Nat /\ MaxSkew \in Nat
    BY ProbityAssumption
  <2>3. PICK m \in Nat : m = MaxNow + MaxSkew + 1
    BY <2>2
  <2>4. r.timestamp \in 0..m
    BY <2>1, <2>3
  <2>5. r.timestamp \in Int
    BY <2>4
  <2>6. r.value \in Int
    BY <2>1, <2>2
  <2> QED
    BY <2>1, <2>5, <2>6
<1>3. PICK age \in Nat : age = clock - r.timestamp
  BY <1>1, <1>2 DEF ProbityTypes
<1>4. PICK w \in Nat : w = u_shape_weight(age)
  BY WeightNotNegative
<1>5. PICK c \in Nat, v \in Int : c = cred[r.reporter] /\ v = r.value
  BY <1>2 DEF Credibility
<1>6. Weighed(p, cred)[r] = (w * c * v) \div 1000
  BY <1>3, <1>4, <1>5 DEF Weighed
<1>7. /\ (w * c * v) \div 1000 \in Int
      /\ v <= 0 => (w * c * v) \div 1000 <= 0
      /\ c = 0 => (w * c * v) \div 1000 = 0
  BY WeighedSign
<1>8. PICK z \in Int : z = (w * c * v) \div 1000
  BY <1>7
<1>9. Weighed(p, cred)[r] = z /\ (v <= 0 => z <= 0) /\ (c = 0 => z = 0)
  BY <1>6, <1>7, <1>8
<1> QED
  BY <1>1, <1>2, <1>5, <1>9

\* A score comes from a report somebody believed makes, a good one from a report
\* that is good.
LEMMA ScoreHasReport ==
  ASSUME ProbityTypes, NEW p \in Peers, NEW cred \in Credibility
  PROVE  /\ aggregate(p, cred) \in Int
         /\ aggregate(p, cred) # 0 => \E r \in Of(p) : r.reporter \in Peers /\ r.value \in Int /\ cred[r.reporter] # 0
         /\ aggregate(p, cred) > 0 => \E r \in Of(p) : r.reporter \in Peers /\ r.value \in Int /\ r.value > 0
<1> DEFINE D == Due(p)
           f == Weighed(p, cred)
<1>1. IsFiniteSet(D)
  BY FS_Subset DEF ProbityTypes, Due
<1>2. \A r \in D : /\ r \in Of(p) /\ r.value \in Int /\ r.reporter \in Peers /\ cred[r.reporter] \in Nat
                   /\ f[r] \in Int /\ (r.value <= 0 => f[r] <= 0) /\ (cred[r.reporter] = 0 => f[r] = 0)
  BY WeighedReport
<1>3. aggregate(p, cred) = Clamp(SumFunctionOnSet(f, D))
  BY DEF aggregate
<1> HIDE DEF D, f
<1>4. Ints(f, D)
  BY <1>2 DEF Ints
<1>5. PICK x \in Int : x = SumFunctionOnSet(f, D)
  BY <1>1, <1>4, SumIsInt
<1>6. x # 0 => \E r \in D : f[r] # 0
  BY <1>1, <1>5, SumOfZeros
<1>7. x > 0 => \E r \in D : f[r] > 0
  <2> SUFFICES ASSUME x > 0, \A r \in D : ~(f[r] > 0) PROVE FALSE
    OBVIOUS
  <2>1. \A r \in D : f[r] <= 0
    BY <1>2
  <2>2. SumFunctionOnSet(f, D) <= 0
    BY <2>1, <1>1, <1>4, SumNotPositive
  <2> QED
    BY <2>2, <1>5
<1>8. x # 0 => \E r \in Of(p) : r.reporter \in Peers /\ r.value \in Int /\ cred[r.reporter] # 0
  BY <1>2, <1>6
<1>9. x > 0 => \E r \in Of(p) : r.reporter \in Peers /\ r.value \in Int /\ r.value > 0
  BY <1>2, <1>7
<1>10. aggregate(p, cred) = Clamp(x)
  BY <1>3, <1>5
<1> QED
  BY <1>8, <1>9, <1>10, ClampIs

\* The two passes: whoever counts in the second was favoured in the first.
LEMMA RecomputeKeepsProbity ==
  ASSUME ProbityInv, recompute_all
  PROVE  ProbityInv'
<1>1. ProbityTypes /\ KeptWasSaid /\ WithinLimit /\ UNCHANGED <<clock, reports, said>>
  BY DEF ProbityInv, recompute_all
<1> DEFINE all == [q \in Peers |-> 1000]
           pass1 == [p \in Peers |-> aggregate(p, all)]
           second == [q \in Peers |-> IF pass1[q] > 0 THEN pass1[q] ELSE 0]
<1>2. all \in Credibility
  BY DEF Credibility
<1>3. \A p \in Peers : pass1[p] \in Int /\ (pass1[p] > 0 => \E r \in Of(p) : r.reporter \in Peers /\ r.value \in Int /\ r.value > 0)
  <2> SUFFICES ASSUME NEW p \in Peers
               PROVE  pass1[p] \in Int /\ (pass1[p] > 0 => \E r \in Of(p) : r.reporter \in Peers /\ r.value \in Int /\ r.value > 0)
    OBVIOUS
  <2> HIDE DEF all
  <2>1. pass1[p] = aggregate(p, all)
    OBVIOUS
  <2> QED
    BY <2>1, <1>1, <1>2, ScoreHasReport
<1>4. scores' = [p \in Peers |-> aggregate(p, second)]
  BY DEF recompute_all
<1> HIDE DEF pass1
<1>5. second \in Credibility /\ \A q \in Peers : second[q] # 0 => pass1[q] > 0
  BY <1>3 DEF Credibility
<1> HIDE DEF second
<1>6. PICK cred \in Credibility : cred = second
  BY <1>5
<1>10. \A p \in Peers : scores'[p] = aggregate(p, cred)
  BY <1>4, <1>6
<1>11. \A p \in Peers : /\ aggregate(p, cred) \in Int
                        /\ aggregate(p, cred) # 0 =>
                            \E r \in Of(p) : r.reporter \in Peers /\ r.value \in Int /\ cred[r.reporter] # 0
  BY <1>1, ScoreHasReport
<1>7. scores' \in [Peers -> Int]
  <2>3. \A p \in Peers : aggregate(p, cred) \in Int
    BY <1>11, Zenon
  <2>1. PICK h : h = [p \in Peers |-> aggregate(p, cred)]
    OBVIOUS
  <2>2. h \in [Peers -> Int]
    BY <2>1, <2>3
  <2> QED
    BY <2>1, <2>2, <1>4, <1>6
<1>8. ASSUME NEW p \in Peers, scores'[p] # 0 PROVE Vouched(p, said) /\ Of(p) # {}
  <2>0. aggregate(p, cred) # 0
    BY <1>8, <1>10
  <2>1. PICK r \in Of(p) : r.reporter \in Peers /\ r.value \in Int /\ cred[r.reporter] # 0
    BY <2>0, <1>11, Zenon
  <2>2. PICK g \in Of(r.reporter) : g.reporter \in Peers /\ g.value \in Int /\ g.value > 0
    BY <2>1, <1>3, <1>5, <1>6
  <2>3. r \in reports /\ r.subject = p /\ g \in reports /\ g.subject = r.reporter
    BY <2>1, <2>2 DEF Of
  <2>4. PICK b \in BOOLEAN : b = (r.value > 0)
    <3>1. (r.value > 0) \in BOOLEAN
      BY <2>1
    <3> QED
      BY <3>1, Zenon
  <2>5. <<r.reporter, p, b>> \in said
    BY <2>3, <2>4, <1>1, Zenon DEF KeptWasSaid, Says
  <2>6. (g.value > 0) = TRUE
    BY <2>2
  <2>7. <<g.reporter, r.reporter, TRUE>> \in said
    BY <2>3, <2>6, <1>1, Zenon DEF KeptWasSaid, Says
  <2>8. Vouched(p, said)
    BY <2>1, <2>2, <2>5, <2>7, Zenon DEF Vouched
  <2> QED
    BY <2>1, <2>8
<1>9. \A p \in Peers : Of(p)' = Of(p)
  BY <1>1 DEF Of
<1> QED
  BY <1>1, <1>7, <1>8, <1>9 DEF ProbityInv, ProbityTypes, KeptWasSaid, WithinLimit, ScoresFounded

\* The reports on a subject after one more, and after the oldest has gone.
LEMMA OneMoreReport ==
  ASSUME NEW mine, IsFiniteSet(mine), Cardinality(mine) <= MaxReports, NEW r, r \notin mine, NEW new,
         \/ Cardinality(mine) < MaxReports /\ new = mine \cup {r}
         \/ /\ ~(Cardinality(mine) < MaxReports)
            /\ \E q \in mine \cup {r} : new = (mine \cup {r}) \ {q}
  PROVE  Cardinality(new) <= MaxReports /\ new # {}
<1>1. MaxReports \in Nat \ {0} /\ Cardinality(mine) \in Nat
  BY ProbityAssumption, FS_CardinalityType
<1>2. IsFiniteSet(mine \cup {r}) /\ Cardinality(mine \cup {r}) = Cardinality(mine) + 1
  BY FS_AddElement
<1>3. CASE Cardinality(mine) < MaxReports /\ new = mine \cup {r}
  BY <1>1, <1>2, <1>3
<1>4. ASSUME NEW q \in mine \cup {r}, ~(Cardinality(mine) < MaxReports), new = (mine \cup {r}) \ {q}
      PROVE  Cardinality(new) <= MaxReports /\ new # {}
  <2>1. Cardinality(new) = Cardinality(mine \cup {r}) - 1
    BY <1>2, <1>4, FS_RemoveElement
  <2>2. Cardinality(new) = MaxReports
    BY <2>1, <1>1, <1>2, <1>4
  <2> QED
    BY <2>2, <1>1, FS_EmptySet
<1> QED
  BY <1>3, <1>4

\* Who is vouched for stays so.
LEMMA VouchedStays ==
  ASSUME NEW s, NEW t, s \subseteq t, NEW p \in Peers, Vouched(p, s)
  PROVE  Vouched(p, t)
BY Zenon DEF Vouched

\* A report, of whomever and whenever dated, and what it displaces.
LEMMA IngestKeepsProbity ==
  ASSUME ProbityInv, NEW r \in Report, ingest(r), UNCHANGED <<clock, scores>>
  PROVE  ProbityInv'
<1> DEFINE mine == Of(r.subject)
           dup == \E q \in mine : /\ q.reporter = r.reporter /\ q.attribute = r.attribute
                                 /\ q.timestamp = r.timestamp
           oldest == {q \in mine \cup {r} : \A s \in mine \cup {r} : q.timestamp <= s.timestamp}
<1>1. /\ ProbityTypes /\ KeptWasSaid /\ WithinLimit /\ ScoresFounded /\ scores \in [Peers -> Int]
      /\ clock' = clock /\ scores' = scores
  BY DEF ProbityInv
<1>2. /\ dup => UNCHANGED <<reports, said>>
      /\ ~dup => /\ \/ Cardinality(mine) < MaxReports /\ reports' = reports \cup {r}
                    \/ /\ ~(Cardinality(mine) < MaxReports)
                       /\ \E q \in oldest : reports' = (reports \cup {r}) \ {q}
                 /\ said' = said \cup {<<r.reporter, r.subject, r.value > 0>>}
  BY Zenon DEF ingest, Of
<1>3. r.subject \in Peers
  BY DEF Report
<1>4. CASE dup
  <2>1. UNCHANGED <<reports, said>>
    BY <1>2, <1>4
  <2>2. \A p \in Peers : Of(p)' = Of(p)
    BY <2>1 DEF Of
  <2> QED
    BY <1>1, <2>1, <2>2 DEF ProbityInv, ProbityTypes, KeptWasSaid, WithinLimit, ScoresFounded
<1>5. CASE ~dup
  <2>1. r \notin mine
    BY <1>5
  <2>2. IsFiniteSet(mine) /\ mine \subseteq reports
    BY <1>1, FS_Subset DEF ProbityTypes, Of
  <2>3. Cardinality(mine) <= MaxReports
    BY <1>1, <1>3 DEF WithinLimit
  <2>4. PICK new : new = {x \in reports' : x.subject = r.subject}
    OBVIOUS
  <2>5. reports' \subseteq reports \cup {r} /\ \A x \in reports : x.subject # r.subject => x \in reports'
    <3>1. \A q \in oldest : q = r \/ q.subject = r.subject
      BY DEF Of
    <3> QED
      BY <3>1, <1>2, <1>5
  <2>6. \/ Cardinality(mine) < MaxReports /\ new = mine \cup {r}
        \/ /\ ~(Cardinality(mine) < MaxReports)
           /\ \E q \in mine \cup {r} : new = (mine \cup {r}) \ {q}
    <3>1. \A x : x \in mine \cup {r} <=> x \in reports \cup {r} /\ x.subject = r.subject
      BY DEF Of
    <3>2. CASE Cardinality(mine) < MaxReports /\ reports' = reports \cup {r}
      BY <2>4, <3>1, <3>2
    <3>3. ASSUME ~(Cardinality(mine) < MaxReports), NEW q \in oldest, reports' = (reports \cup {r}) \ {q}
          PROVE  ~(Cardinality(mine) < MaxReports) /\ \E x \in mine \cup {r} : new = (mine \cup {r}) \ {x}
      <4>1. q \in mine \cup {r}
        OBVIOUS
      <4>2. new = (mine \cup {r}) \ {q}
        BY <2>4, <3>1, <3>3
      <4> QED
        BY <4>1, <4>2, <3>3
    <3> QED
      BY <1>2, <1>5, <3>2, <3>3
  <2>7. Cardinality(new) <= MaxReports /\ new # {}
    <3> HIDE DEF mine
    <3> QED
      BY <2>1, <2>2, <2>3, <2>6, OneMoreReport
  <2>8. \A p \in Peers : Of(p)' = IF p = r.subject THEN new ELSE Of(p)
    BY <2>4, <2>5 DEF Of
  <2>9. ProbityTypes'
    <3>1. IsFiniteSet(reports \cup {r})
      BY <1>1, FS_AddElement DEF ProbityTypes
    <3> QED
      BY <3>1, <2>5, <1>1, FS_Subset DEF ProbityTypes
  <2>10. said \subseteq said' /\ <<r.reporter, r.subject, r.value > 0>> \in said'
    BY <1>2, <1>5, Zenon
  <2>11. KeptWasSaid'
    <3>1. PICK t : t = said'
      OBVIOUS
    <3>2. \A x \in reports : Says(x, t)
      BY <3>1, <2>10, <1>1, Zenon DEF KeptWasSaid, Says
    <3>3. Says(r, t)
      BY <3>1, <2>10, Zenon DEF Says
    <3>4. \A x \in reports' : Says(x, t)
      BY <3>2, <3>3, <2>5
    <3> QED
      BY <3>1, <3>4 DEF KeptWasSaid, Says
  <2>12. WithinLimit'
    BY <2>7, <2>8, <1>1 DEF WithinLimit
  <2>13. ScoresFounded'
    <3>1. PICK s, t : s = said /\ t = said'
      OBVIOUS
    <3>2. \A p \in Peers : scores'[p] # 0 => Vouched(p, t) /\ Of(p) # {}
      BY <3>1, <2>10, <1>1, VouchedStays DEF ScoresFounded
    <3>3. \A p \in Peers : scores'[p] # 0 => Vouched(p, t) /\ Of(p)' # {}
      BY <3>2, <2>7, <2>8
    <3> QED
      BY <3>1, <3>3 DEF ScoresFounded
  <2> QED
    BY <1>1, <2>9, <2>11, <2>12, <2>13 DEF ProbityInv
<1> QED
  BY <1>4, <1>5

\* Every step.
LEMMA ProbityStep == ProbityInv /\ [ProbityNext]_probityVars => ProbityInv'
<1> SUFFICES ASSUME ProbityInv, [ProbityNext]_probityVars PROVE ProbityInv'
  OBVIOUS
<1>1. CASE Clock \/ UNCHANGED probityVars
  <2>1. UNCHANGED <<reports, scores, said>> /\ clock' \in Nat
    BY <1>1 DEF Clock, probityVars, ProbityInv, ProbityTypes
  <2>2. \A p \in Peers : Of(p)' = Of(p)
    BY <2>1 DEF Of
  <2> QED
    BY <2>1, <2>2 DEF ProbityInv, ProbityTypes, KeptWasSaid, WithinLimit, ScoresFounded
<1>2. ASSUME NEW r \in Report, (\E e \in Envelope : handle_gossip_message(r, e)) \/ report_probity(r)
      PROVE  ProbityInv'
  <2>1. ingest(r) /\ UNCHANGED <<clock, scores>>
    BY <1>2 DEF handle_gossip_message, report_probity
  <2> QED
    BY <2>1, IngestKeepsProbity
<1> QED
  BY <1>1, <1>2, RecomputeKeepsProbity DEF ProbityNext

\* A new store has no reports and no scores.
LEMMA ProbityStarts == ProbityInit => ProbityInv
<1> SUFFICES ASSUME ProbityInit PROVE ProbityInv
  OBVIOUS
<1>1. clock = 0 /\ reports = {} /\ scores = [p \in Peers |-> 0]
  BY DEF ProbityInit
<1>2. ProbityTypes
  BY <1>1, FS_EmptySet DEF ProbityTypes
<1>3. WithinLimit
  <2>1. \A p \in Peers : Of(p) = {}
    BY <1>1 DEF Of
  <2>2. MaxReports \in Nat /\ Cardinality({}) = 0
    BY ProbityAssumption, FS_EmptySet
  <2> QED
    BY <2>1, <2>2 DEF WithinLimit
<1> QED
  BY <1>1, <1>2, <1>3 DEF ProbityInv, KeptWasSaid, ScoresFounded

\* Nobody has a score but by reports of somebody a report favoured, and no score
\* is answered without reports, nor more reports kept than the limit: for any
\* reports ingest() takes, in any order and however dated, and any limit.
THEOREM ScoresAreVouchedFor == ProbitySpec => []OnlyVouchedCount
<1>1. ProbityInv => OnlyVouchedCount
  <2> SUFFICES ASSUME ProbityInv PROVE OnlyVouchedCount
    OBVIOUS
  <2>1. WithinLimit /\ ScoresFounded /\ IsFiniteSet(reports)
    BY DEF ProbityInv, ProbityTypes
  <2>2. ASSUME NEW p \in Peers
        PROVE  /\ get_peer_score(p).score = scores[p]
               /\ get_peer_score(p).report_count = Cardinality(Of(p))
               /\ Cardinality(Of(p)) <= MaxReports
               /\ scores[p] # 0 => Cardinality(Of(p)) > 0
    <3>1. Cardinality(Of(p)) \in Nat /\ (Of(p) # {} => Cardinality(Of(p)) # 0)
      BY <2>1, FS_Subset, FS_CardinalityType, FS_EmptySet DEF Of
    <3>2. get_peer_score(p).score = scores[p] /\ get_peer_score(p).report_count = Cardinality(Of(p))
      BY DEF get_peer_score, Of
    <3> QED
      BY <3>1, <3>2, <2>1 DEF WithinLimit, ScoresFounded
  <2>3. \A p \in Peers : scores[p] # 0 => Vouched(p, said)
    BY <2>1 DEF ScoresFounded
  <2> QED
    BY <2>2, <2>3 DEF OnlyVouchedCount, Vouched
<1> QED
  BY <1>1, ProbityStarts, ProbityStep, PTL DEF ProbitySpec
=============================================================================
