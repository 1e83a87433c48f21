--------------------------- MODULE PayoutLifecycle ---------------------------
(***************************************************************************)
(* What settlement promises of one collected payment or batch, its source: *)
(* the insurer's share is attempted again only after an attempt failed, an *)
(* attempt Squad leaves open is closed before the next one, and a source   *)
(* whose share was paid out is never attempted again.  Settlement          *)
(* implements this for transactions that commit on current reads.          *)
(***************************************************************************)
CONSTANT Sources

VARIABLE outcome

Outcomes == {"unsettled", "failed", "pending", "success"}

Init == outcome = [s \in Sources |-> "unsettled"]

Attempt(s) ==
  /\ outcome[s] \in {"unsettled", "failed"}
  /\ \E o \in {"failed", "pending", "success"} : outcome' = [outcome EXCEPT ![s] = o]

\* One reconciliation run closes any number of open attempts.
Close(S) ==
  /\ \A s \in S : outcome[s] = "pending"
  /\ \E result \in [S -> {"failed", "success"}] :
       outcome' = [s \in Sources |-> IF s \in S THEN result[s] ELSE outcome[s]]

Next == \/ \E s \in Sources : Attempt(s)
        \/ \E S \in SUBSET Sources : Close(S)

Spec == Init /\ [][Next]_outcome
=============================================================================
