---------------------------- MODULE MCCollection ----------------------------
(***************************************************************************)
(* Small instances of Collection.                                          *)
(***************************************************************************)
EXTENDS Collection, TLC

CONSTANTS i1, i2, p1, p2, b1, t1, t2, e1, e2, e3, v1, v2, w1, w2

\* Premiums of the same size, so that one transfer can fit several rows.
MCPremium == [i \in Installments |-> 1]
MCInsurer == [i \in Installments |-> "A"]

\* Either every transfer fits a single installment, or t2 fits a batch of two.
MCPaidOne  == [t \in Transfers |-> 1]
MCPaidBoth == [t \in Transfers |-> IF t = t2 THEN 2 ELSE 1]

\* e1 and e3 are the keys of t1 under two transaction types, e2 is that of t2.
MCTransferOf == [e \in Events |-> IF e = e2 THEN t2 ELSE t1]

\* Deliveries of t1 under a second transaction type come after one under the first, and
\* are followed among two rows and as long as t2 has not been sent; only e1 is ever
\* rejected; the due date of i2 lies ahead.
Bound ==
  /\ event[e3] # "none" => /\ event[e1] # "none" /\ squad[t2] = "unsent"
                           /\ \E c \in Sources : status[c] = "absent"
  /\ event[e2] # "rejected" /\ event[e3] # "rejected"
  /\ inst_status[i2] # "overdue"

\* Payment ids and workers are interchangeable; batch ids are not payment ids.
SymPayments == Permutations(Payments)
SymConcurrent == Permutations(Payments) \cup Permutations(Workers)
=============================================================================
