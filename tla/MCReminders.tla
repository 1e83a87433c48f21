----------------------------- MODULE MCReminders -----------------------------
(* One insurer with two pages open, two installments, two reminders. *)
EXTENDS Reminders

CONSTANTS i1, i2, g1, g2, axa

MCInsurer == [x \in {i1, i2, g1, g2} |-> axa]
MCReminders == 1..2
=============================================================================
