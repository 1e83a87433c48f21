------------------------------ MODULE Deliveries ------------------------------
(***************************************************************************)
(* Collection with one history variable: the rows that were matched by a   *)
(* repeated delivery of an event marked FAILED, each with the transfer.    *)
(* The code stores nothing by which such a match could be told from one by *)
(* the event's first delivery: raw_payload and signature_valid stay those  *)
(* of the first.                                                           *)
(***************************************************************************)
EXTENDS Collection

VARIABLE repeated

varsD == <<vars, repeated>>

\* What webhook handlers are working on that found their event FAILED.
MatchedAgain ==
  UNION {work[w].targets : w \in {v \in Workers : work[v].op = "webhook" /\ ~work[v].fresh}}

InitD == Init /\ repeated = {}

NextD == Next /\ repeated' = repeated \cup MatchedAgain'

SpecD == InitD /\ [][NextD]_varsD

-----------------------------------------------------------------------------
\* Transfer t is of row c's amount and went to its account number.
Fits(c, t) == Paid[t] = Amount(c) /\ sent_to[t] = claim_va[c]

\* A row succeeds only on a transfer Squad itself confirms.  The transfer is of the
\* row's amount and to its account number whatever transactions overlap, unless the
\* two were matched by a repeated delivery of a FAILED event, whose own signature
\* nobody tests.
SuccessIsBacked ==
  \A c \in Sources : status[c] = "success" =>
    \E t \in Transfers : /\ raw_ref[c] = t /\ squad[t] = "SUCCESS"
                         /\ Fits(c, t) \/ <<c, t>> \in repeated
=============================================================================
