------------------------------- MODULE TickLog -------------------------------
(***************************************************************************)
(* What a time being promises about its ticks, whatever its threads do: a  *)
(* tick number is handed out once, it is settled once (recorded in the     *)
(* calendar, or dropped), the calendar only grows and only with larger     *)
(* numbers, and a stamp is issued only for a tick that was handed out.     *)
(*                                                                         *)
(* The promise is deliberately weak: it lets a tick be dropped, and lets a *)
(* stamp be issued for a dropped tick, because the code does both.         *)
(***************************************************************************)
EXTENDS Naturals, Sequences

VARIABLES
  handed_out,   \* the largest tick number handed out so far
  unsettled,    \* ticks handed out whose call has not returned
  log,          \* the numbers recorded, in the order they were recorded
  stamped       \* ticks for which a stamp was returned to a caller

vars == <<handed_out, unsettled, log, stamped>>

Init ==
  /\ handed_out = 0
  /\ unsettled = {}
  /\ log = << >>
  /\ stamped = {}

HandOut ==
  /\ handed_out' = handed_out + 1
  /\ unsettled' = unsettled \cup {handed_out + 1}
  /\ UNCHANGED <<log, stamped>>

\* A call returns: its tick is recorded if it is larger than every recorded
\* one, and the caller may be given a stamp.
Settle(n) ==
  /\ n \in unsettled
  /\ unsettled' = unsettled \ {n}
  /\ \/ /\ \A i \in DOMAIN log : log[i] < n
        /\ log' = Append(log, n)
     \/ log' = log
  /\ stamped' \in {stamped, stamped \cup {n}}
  /\ UNCHANGED handed_out

Next == HandOut \/ \E n \in unsettled : Settle(n)

Spec == Init /\ [][Next]_vars
=============================================================================
