------------------------------ MODULE MCCalendar ------------------------------
(***************************************************************************)
(* A node's calendar for TLC: its file, the connections its server answers *)
(* on, the handlers of a mirror and the attestation tasks.  The parts      *)
(* touch different variables, so a behaviour exercises one of them         *)
(* (`part`); the others keep their initial values.                         *)
(***************************************************************************)
EXTENDS CalendarPersist, Session, Reconcile, Attestation

VARIABLE part

MCvars == <<part, vars, sessionVars, reconcileVars, attestationVars>>

MCInit ==
  /\ part \in {"file", "session", "reconcile", "attestation"}
  /\ Init
  /\ SessionInit /\ (part # "session" => asked = [c \in Conns |-> "stamp"])
  /\ ReconcileInit
  /\ AttestationInit /\ (part # "attestation" => wired = {} /\ task_tx)

FileStep ==
  part = "file" /\ Next /\ UNCHANGED <<sessionVars, reconcileVars, attestationVars>>
SessionStep ==
  part = "session" /\ SessionNext /\ UNCHANGED <<vars, reconcileVars, attestationVars>>
MirrorStep ==
  part = "reconcile" /\ ReconcileNext /\ UNCHANGED <<vars, sessionVars, attestationVars>>
PoolStep ==
  part = "attestation" /\ AttestationNext /\ UNCHANGED <<vars, sessionVars, reconcileVars>>
\* All parts but the file's may come to rest.
Rest == part # "file" /\ UNCHANGED <<vars, sessionVars, reconcileVars, attestationVars>>

MCNext ==
  UNCHANGED part /\ (FileStep \/ SessionStep \/ MirrorStep \/ PoolStep \/ Rest)

MCSpec == MCInit /\ [][MCNext]_MCvars
=============================================================================
