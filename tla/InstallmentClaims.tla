-------------------------- MODULE InstallmentClaims --------------------------
(***************************************************************************)
(* What premium collection promises of a broker's installments: a payment  *)
(* or batch, its source, collects installments that nobody has paid and no *)
(* other source in flight collects, it is decided once, and an installment *)
(* is paid by the one source that collected it and succeeded.  Collection  *)
(* implements this for transactions that commit on current reads.          *)
(***************************************************************************)
CONSTANTS Sources, Installments, None

VARIABLES
  outcome,   \* of each source: absent, initiated, success or failed
  collects,  \* the installments each source collects
  paid_by    \* the source each installment is paid by, None while it is unpaid

vars == <<outcome, collects, paid_by>>

Init ==
  /\ outcome = [c \in Sources |-> "absent"]
  /\ collects = [c \in Sources |-> {}]
  /\ paid_by = [i \in Installments |-> None]

Free(i) ==
  /\ paid_by[i] = None
  /\ \A c \in Sources : outcome[c] = "initiated" => i \notin collects[c]

Claim(c, S) ==
  /\ outcome[c] = "absent"
  /\ \A i \in S : Free(i)
  /\ outcome' = [outcome EXCEPT ![c] = "initiated"]
  /\ collects' = [collects EXCEPT ![c] = S]
  /\ UNCHANGED paid_by

\* One reconciliation run decides any number of sources: those of W succeed and
\* those of L fail.
Decide(W, L) ==
  /\ W \cap L = {}
  /\ \A c \in W \cup L : outcome[c] = "initiated"
  /\ outcome' = [c \in Sources |-> IF c \in W THEN "success"
                                   ELSE IF c \in L THEN "failed" ELSE outcome[c]]
  /\ paid_by' = [i \in Installments |->
       IF \E c \in W : i \in collects[c] THEN CHOOSE c \in W : i \in collects[c] ELSE paid_by[i]]
  /\ UNCHANGED collects

Next == \/ \E W, L \in SUBSET Sources : Decide(W, L)
        \/ \E c \in Sources, S \in SUBSET Installments : Claim(c, S)

Spec == Init /\ [][Next]_vars
=============================================================================
