------------------------------- MODULE Probity -------------------------------
(***************************************************************************)
(* Probity reports (foretias-server/src/probity): signed observations of   *)
(* one peer about another, gossiped, gated, deduplicated and aggregated    *)
(* into scores in two passes, where the second weighs a reporter by its    *)
(* own score of the first.  Weights are in tenths; a score of 1000 is 100. *)
(***************************************************************************)
EXTENDS Integers, FiniteSets, Functions

CONSTANTS
  Peers,
  Values,            \* values reported
  Hot, Valley, Ancient,  \* UShapeConfig, in the model's time
  MaxSkew,           \* tolerated clock skew of a report
  MaxReports,        \* max_reports_per_peer
  MaxNow,            \* bound: the clock
  MaxIngested        \* bound: reports ingested

ASSUME ProbityAssumption ==
  /\ Values \subseteq Int /\ {Hot, Valley, Ancient, MaxSkew, MaxNow} \subseteq Nat
  /\ MaxReports \in Nat \ {0}

VARIABLES
  clock, reports, scores, ingested,
  said               \* history: <<reporter, subject, favourable>> of what was ingested

probityVars == <<clock, reports, scores, ingested, said>>

Report == [subject : Peers, reporter : Peers, attribute : {"uptime", "fb"}, value : Values,
           timestamp : 0..(MaxNow + MaxSkew + 1)]

ProbityInit ==
  /\ clock = 0 /\ reports = {} /\ scores = [p \in Peers |-> 0] /\ ingested = 0 /\ said = {}

Clamp(x) == IF x > 1000 THEN 1000 ELSE IF x < -1000 THEN -1000 ELSE x

\* u_shape_weight: full when hot, falling to the valley, rising again when ancient.
u_shape_weight(age) ==
  IF age <= Hot THEN 10
  ELSE IF age <= Valley THEN 10 - (9 * (age - Hot)) \div (Valley - Hot)
  ELSE IF age <= Ancient THEN 1
  ELSE 1 + (9 * (age - Ancient)) \div age

\* aggregate: reports dated in the future do not count yet.
Due(subject) == {r \in reports : r.subject = subject /\ r.timestamp <= clock}
Weighed(subject, credibility) ==
  [r \in Due(subject) |->
     (u_shape_weight(clock - r.timestamp) * credibility[r.reporter] * r.value) \div 1000]
aggregate(subject, credibility) ==
  Clamp(SumFunctionOnSet(Weighed(subject, credibility), Due(subject)))

\* recompute_all, on a 60 s timer.
\* Mutant: every reporter is believed in the second pass too.
recompute_all_once ==
  /\ scores' = [p \in Peers |-> aggregate(p, [q \in Peers |-> 1000])]
  /\ UNCHANGED <<clock, reports, ingested, said>>
recompute_all ==
  /\ LET pass1 == [p \in Peers |-> aggregate(p, [q \in Peers |-> 1000])] IN
     scores' = [p \in Peers |-> aggregate(p, [q \in Peers |-> IF pass1[q] > 0 THEN pass1[q] ELSE 0])]
  /\ UNCHANGED <<clock, reports, ingested, said>>

\* ingest: a report of the same reporter, attribute and time is a duplicate;
\* beyond the limit the oldest of the subject go.
ingest(r) ==
  LET mine == {q \in reports : q.subject = r.subject}
      dup == \E q \in mine : /\ q.reporter = r.reporter /\ q.attribute = r.attribute
                             /\ q.timestamp = r.timestamp
      oldest == {q \in mine \cup {r} : \A s \in mine \cup {r} : q.timestamp <= s.timestamp}
  IN  /\ ingested' = ingested + 1
      /\ IF dup THEN UNCHANGED <<reports, said>>
         ELSE /\ IF Cardinality(mine) < MaxReports THEN reports' = reports \cup {r}
                 ELSE \E q \in oldest : reports' = (reports \cup {r}) \ {q}
              /\ said' = said \cup {<<r.reporter, r.subject, r.value > 0>>}

\* What a report carries besides: the curve, how its two signatures are, and
\* whether the reporter it names is the hex of a TBID; at most one is amiss.
WellSigned == [curve |-> 1, fast |-> "valid", slow |-> "long", reporter |-> "tbid"]
Envelope ==
  {WellSigned, [WellSigned EXCEPT !.curve = 2], [WellSigned EXCEPT !.reporter = "other"]}
    \cup {[WellSigned EXCEPT !.fast = f] : f \in {"wrong", "short"}}
    \cup {[WellSigned EXCEPT !.slow = f] : f \in {"none", "short"}}
pub_key_from_tbid_hex(e) == e.reporter = "tbid"
\* The gate of most attributes: the fast signature, over the canonical report.
verify(e) == e.curve = 1 /\ e.fast # "short" /\ pub_key_from_tbid_hex(e) /\ e.fast = "valid"
\* The gate of "fb" and "gnf": the slow signature need only be there and be long.
verify_full(e) == e.slow # "none" /\ verify(e) /\ e.slow = "long"
Gate(attribute, e) == IF attribute \in {"fb", "gnf"} THEN verify_full(e) ELSE verify(e)

handle_gossip_message(r, e) ==
  /\ r.timestamp <= clock + MaxSkew
  /\ scores[r.reporter] >= -500
  /\ Gate(r.attribute, e)
  /\ ingest(r)
  /\ UNCHANGED <<clock, scores>>

\* report_probity: ingested here at once.  It names the peer id as reporter, so
\* the gate of every other node drops it.
report_probity(r) ==
  /\ r.timestamp = clock /\ r.attribute = "uptime" /\ ingest(r)
  /\ UNCHANGED <<clock, scores>>

Clock ==
  /\ clock < MaxNow /\ clock' = clock + 1
  /\ UNCHANGED <<reports, scores, ingested, said>>

ProbityNext ==
  \/ Clock \/ recompute_all
  \/ /\ ingested < MaxIngested
     /\ \E r \in Report : \/ \E e \in Envelope : handle_gossip_message(r, e)
                          \/ report_probity(r)

ProbitySpec == ProbityInit /\ [][ProbityNext]_probityVars

\* What get_peer_score answers: the score of the last recomputation, and the
\* number of reports now.
get_peer_score(p) ==
  [score |-> scores[p], report_count |-> Cardinality({r \in reports : r.subject = p})]

-----------------------------------------------------------------------------
(* Properties *)

\* What nobody vouches for does not count: however reports arrive, are dated,
\* repeated and evicted, a peer has a score only if somebody reported on it
\* whom a report favoured, and no subject keeps more reports than the limit; a
\* score that is answered comes with reports it can rest on.
OnlyVouchedCount ==
  /\ \A p \in Peers : scores[p] # 0 =>
       \E q, v \in Peers, b \in BOOLEAN : {<<v, q, TRUE>>, <<q, p, b>>} \subseteq said
  /\ \A p \in Peers : LET answer == get_peer_score(p) IN
       answer.report_count <= MaxReports /\ (answer.score # 0 => answer.report_count > 0)
=============================================================================
