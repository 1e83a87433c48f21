--------------------------- MODULE PaymentPromises ---------------------------
(***************************************************************************)
(* What the payment endpoints promise a client that sends an idempotency   *)
(* key.  A 201 answer leaves before its transaction commits, so it is a    *)
(* promise: the payment it names may never be made, but if it is, then     *)
(* under the key and for the installments of the request, and it is the    *)
(* only one ever made under that key.  Checkout implements this, whatever  *)
(* overlaps.                                                               *)
(***************************************************************************)
CONSTANTS Keys, Payments, Installments, None

VARIABLES
  promised,  \* of each payment the requests it was promised to, by key and installments
  made,      \* the payment made under each key, None before
  outcome,   \* of each payment: absent, initiated, success or failed
  collects   \* the installments a payment collects

vars == <<promised, made, outcome, collects>>

Requests == [key : Keys, items : SUBSET Installments]

Init ==
  /\ promised = [p \in Payments |-> {}]
  /\ made = [k \in Keys |-> None]
  /\ outcome = [p \in Payments |-> "absent"]
  /\ collects = [p \in Payments |-> {}]

\* A new payment is promised to one request, and only while its key has none.
Promise(p, r) ==
  /\ promised[p] = {} /\ made[r.key] = None
  /\ promised' = [promised EXCEPT ![p] = {r}]
  /\ UNCHANGED <<made, outcome, collects>>

\* A promise is kept at most once, and at most one of those made to a key.
Keep(p, r) ==
  /\ r \in promised[p] /\ outcome[p] = "absent" /\ made[r.key] = None
  /\ made' = [made EXCEPT ![r.key] = p]
  /\ outcome' = [outcome EXCEPT ![p] = "initiated"]
  /\ collects' = [collects EXCEPT ![p] = r.items]
  /\ UNCHANGED promised

Decide(p, o) ==
  /\ outcome[p] = "initiated"
  /\ outcome' = [outcome EXCEPT ![p] = o]
  /\ UNCHANGED <<promised, made, collects>>

Next ==
  \E p \in Payments :
    \/ \E r \in Requests : Promise(p, r) \/ Keep(p, r)
    \/ \E o \in {"success", "failed"} : Decide(p, o)

Spec == Init /\ [][Next]_vars
=============================================================================
