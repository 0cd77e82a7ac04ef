-------------------------- MODULE MCCalendarPersist --------------------------
(* CalendarPersist alone, for the runs about one property of the files. *)
EXTENDS CalendarPersist
=============================================================================
