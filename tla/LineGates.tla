------------------------------ MODULE LineGates ------------------------------
(***************************************************************************)
(* Requests of a CommunerdetteLine to the remote time being it is scoped   *)
(* to (foretias-server/src/communerd/communerdette.rs) and the inbound     *)
(* gates its answers pass (core-engine/src/foretias/clean_auth.rs).  A     *)
(* request resolves the peer, calls it, and gates the answer; a stamp      *)
(* calls twice, once for the stamp and once for the record of its chronon. *)
(* The answers are any of the sets Slices, Foretises and Proofs: the peer   *)
(* may restart, be replaced or be wrong between two calls.                 *)
(*                                                                         *)
(* A signature is the pair of its key and what it covers.  The two         *)
(* signatures of a record cover the number and the key of the record       *)
(* before it; `link` is that pair, or Broken when one does not verify.     *)
(***************************************************************************)
EXTENDS Naturals, Sequences

CONSTANTS
  Target, Stranger,    \* TBIDs: the one of the line, any other
  NoKey,               \* an empty public key
  Broken,              \* a signature that does not verify
  Records,             \* records a peer may send
  Foretises,           \* stamps a peer may send, or Malformed
  Malformed,           \* JSON that does not parse
  Proofs,              \* answers to a channel-bind challenge
  MaxSlice,            \* bound: records in one answer
  Contents             \* what is stamped

ASSUME GateAssumption ==
  /\ MaxSlice \in Nat
  /\ Proofs \subseteq {Malformed} \cup
       [tbid : {Target, Stranger}, nonce : BOOLEAN, channel : BOOLEAN,
        fast : {Target, Stranger}, slow : {Target, Stranger}]

VARIABLES
  rq_pc,     \* where the request stands
  rq,        \* its locals
  accepted   \* what the last request returned, or Refused

gateVars == <<rq_pc, rq, accepted>>

Refused == [kind |-> "refused"]
NoRequest == [kind |-> "none", content |-> Malformed, raw |-> Malformed, records |-> << >>]
Slices == UNION {[1..n -> Records] : n \in 0..MaxSlice}

-----------------------------------------------------------------------------
(* clean_auth: the inbound gates of single records *)

\* verify_pair: both signatures of curr cover prev.
pair_verifies(prev, curr) == curr.link = <<prev.number, prev.key>>

\* UnverifiedSignatureEnvelope<ChrononRecord>::verify with a predecessor, or
\* with none (an empty sequence): then only a version 0 genesis passes.
verify_chronon(prev, r) ==
  IF prev # << >>
  THEN pair_verifies(prev[Len(prev)], r)
  ELSE r.number = 1 /\ r.key # NoKey /\ r.version < 1

\* from_json_value_v2: a signature that is empty or not hex is none, one of an
\* unknown algorithm is an error.
from_json_value_v2(raw) ==
  raw # Malformed /\ (raw.signed => raw.algorithm \in {"Ed25519", "SLH-DSA"})

\* SignatureAlgorithm::from_id_string, by which verify_with picks the verifier:
\* a name it does not know is an error.
from_id_string(id) ==
  id \in {"Ed25519", "SPHINCS+-SHA2-128s-simple", "Dilithium3", "SPHINCS+-SHA2-256f-simple"}
verify_with(key, id, sig) == from_id_string(id) /\ sig = key

\* UnverifiedSignatureEnvelope<ForetisRecord>::verify; tick::verify looks the
\* record up in a calendar that holds only `record`.
verify_foretis(f, record, content) ==
  /\ f.number = record.number
  /\ f.content = content
  /\ verify_with(record.key, f.algorithm, f.signer)

-----------------------------------------------------------------------------
(* CommunerdetteExecutor: the gates of whole answers *)

gate_chronon_records(rs) ==
  \A i \in DOMAIN rs : /\ rs[i].number # 0 /\ rs[i].key # NoKey
                       /\ rs[i].tbid = Target
                       /\ verify_chronon(SubSeq(rs, 1, i - 1), rs[i])

gate_foretis(f, record, content) ==
  /\ from_json_value_v2(f)
  /\ f.number # 0
  /\ f.tbid = Target
  /\ f.signed
  /\ verify_foretis(f, record, content)

\* ChannelBinding: TBID, nonce and channel are echoed; verify_full then hands both
\* signatures to the dual-key verifier of a TBID.
check_binding_fields(p) == p.tbid = Target /\ p.nonce /\ p.channel
verify_full(p) == p # Malformed /\ check_binding_fields(p) /\ p.fast = Target /\ p.slow = Target

\* The gate of the fast key alone.
verify_fast_only(p) ==
  p # Malformed /\ check_binding_fields(p) /\ verify_with(Target, "Ed25519", p.fast)

\* What the node of time being t answers to the challenge.
handle_channel_bind_challenge(t) ==
  [tbid |-> t, nonce |-> TRUE, channel |-> TRUE, fast |-> t, slow |-> t]

-----------------------------------------------------------------------------
(* The requests *)

GateInit == rq_pc = "idle" /\ rq = NoRequest /\ accepted = Refused

Finish(out) == rq_pc' = "idle" /\ rq' = NoRequest /\ accepted' = out

\* get_calendar_slice, get_chronon and stamp start alike: an executor and a lookup.
get_calendar_slice ==
  /\ rq_pc = "idle" /\ rq_pc' = "resolve" /\ accepted' = Refused
  /\ rq' = [NoRequest EXCEPT !.kind = "slice"]
get_chronon ==
  /\ rq_pc = "idle" /\ rq_pc' = "resolve" /\ accepted' = Refused
  /\ rq' = [NoRequest EXCEPT !.kind = "chronon"]
stamp(content) ==
  /\ rq_pc = "idle" /\ rq_pc' = "resolve" /\ accepted' = Refused
  /\ rq' = [NoRequest EXCEPT !.kind = "stamp", !.content = content]
\* spawn_channel_bind_task.
channel_bind ==
  /\ rq_pc = "idle" /\ rq_pc' = "resolve" /\ accepted' = Refused
  /\ rq' = [NoRequest EXCEPT !.kind = "bind"]

\* resolve_peer: the DHT knows the TBID, or the request fails.
resolve_peer ==
  /\ rq_pc = "resolve"
  /\ (rq_pc' = rq.kind /\ UNCHANGED <<rq, accepted>>) \/ Finish(Refused)

\* The call fails or its timeout passes.
CallFails ==
  /\ rq_pc \in {"slice", "chronon", "stamp", "record", "bind"}
  /\ Finish(Refused)

execute_calendar_slice(rs) ==
  /\ rq_pc = "slice"
  /\ Finish(IF gate_chronon_records(rs) THEN [kind |-> "slice", records |-> rs] ELSE Refused)

\* The first record of what should be a slice of one.
execute_tick(rs) ==
  /\ rq_pc = "chronon"
  /\ Finish(IF gate_chronon_records(rs) /\ rs # << >>
            THEN [kind |-> "slice", records |-> <<Head(rs)>>] ELSE Refused)

\* execute_stamp: the stamp is parsed for its chronon, then the record is fetched.
execute_stamp(f) ==
  /\ rq_pc = "stamp"
  /\ IF from_json_value_v2(f)
     THEN rq_pc' = "lookup" /\ rq' = [rq EXCEPT !.raw = f] /\ UNCHANGED accepted
     ELSE Finish(Refused)

ResolveRecord ==
  /\ rq_pc = "lookup"
  /\ (rq_pc' = "record" /\ UNCHANGED <<rq, accepted>>) \/ Finish(Refused)

\* Mutant: the stamp is checked against the key it names itself.
GateStampTrusting(rs) ==
  /\ rq_pc = "record"
  /\ Finish(IF gate_chronon_records(rs) /\ rs # << >>
               /\ gate_foretis(rq.raw, [Head(rs) EXCEPT !.key = rq.raw.signer], rq.content)
            THEN [kind |-> "stamp", foretis |-> rq.raw, content |-> rq.content,
                  record |-> Head(rs)]
            ELSE Refused)
GateStamp(rs) ==
  /\ rq_pc = "record"
  /\ Finish(IF gate_chronon_records(rs) /\ rs # << >>
               /\ gate_foretis(rq.raw, Head(rs), rq.content)
            THEN [kind |-> "stamp", foretis |-> rq.raw, content |-> rq.content,
                  record |-> Head(rs)]
            ELSE Refused)

\* The answer to a channel-bind challenge; the binding is only returned.
BindAnswered(p) ==
  /\ rq_pc = "bind"
  /\ Finish(IF verify_full(p)
            THEN [kind |-> "bound", proof |-> p] ELSE Refused)

GateNext ==
  \/ get_calendar_slice \/ get_chronon \/ channel_bind \/ (\E c \in Contents : stamp(c))
  \/ resolve_peer \/ ResolveRecord \/ CallFails
  \/ \E rs \in Slices : execute_calendar_slice(rs) \/ execute_tick(rs) \/ GateStamp(rs)
  \/ \E f \in Foretises : execute_stamp(f)
  \/ \E p \in Proofs \cup {handle_channel_bind_challenge(t) : t \in {Target, Stranger}} : BindAnswered(p)

GateSpec == GateInit /\ [][GateNext]_gateVars

-----------------------------------------------------------------------------
(* Properties *)

\* What a line returns as authenticated is one chain of the target time being
\* from its genesis on: numbers and keys of every record are covered by the
\* signatures of the next one.  It is the target's by the TBID that it names: the
\* gates hold a genesis record against the key it brings itself, so that whoever
\* makes one under the target's TBID passes them.
Chained(rs) ==
  /\ rs # << >> => rs[1].number = 1
  /\ \A i \in DOMAIN rs : rs[i].tbid = Target /\ rs[i].key # NoKey
  /\ \A i \in 2..Len(rs) : rs[i].link = <<rs[i - 1].number, rs[i - 1].key>>

\* Although a stamp and the record it is checked against come from two calls, a
\* returned stamp is over the content that was sent and is signed with the key
\* of a returned record of its own chronon; returned records are chained, and the
\* only answer that binds a channel is the one the target itself gives.
AcceptedIsAuthentic ==
  CASE accepted.kind = "slice" -> Chained(accepted.records)
    [] accepted.kind = "stamp" ->
         /\ Chained(<<accepted.record>>)
         /\ accepted.foretis.number = accepted.record.number
         /\ accepted.foretis.content = accepted.content
         /\ accepted.foretis.signer = accepted.record.key
         /\ accepted.foretis.tbid = Target
    [] accepted.kind = "bound" ->
         accepted.proof = handle_channel_bind_challenge(Target) /\ verify_fast_only(accepted.proof)
    [] OTHER -> TRUE
=============================================================================
