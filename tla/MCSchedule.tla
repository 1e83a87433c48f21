----------------------------- MODULE MCSchedule -----------------------------
(***************************************************************************)
(* Small instances of Schedule.                                            *)
(***************************************************************************)
EXTENDS Schedule, TLC

\* A window of two from the end of 2027 is topped up in a short month first.
MCStarts == {[month |-> 12 * 2027 + 11, day |-> 31]}
=============================================================================
