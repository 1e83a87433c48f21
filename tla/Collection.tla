----------------------------- MODULE Collection -----------------------------
(***************************************************************************)
(* Premium collection for one broker: single payments, bulk payments, the  *)
(* Squad webhook, the transaction reconciliation job and the overdue job,  *)
(* all working on the same PostgreSQL tables.                              *)
(*                                                                         *)
(* Every HTTP request and every Celery task is one database transaction at *)
(* READ COMMITTED, committed when the handler returns and rolled back when *)
(* it raises.  No handler locks the rows it reads.  A handler is therefore *)
(* two steps here: Begin takes the decisions the code takes from what it   *)
(* reads, and Commit (or Resolve, Finish) performs every write it makes,   *)
(* in between which other transactions may commit.  A row the handler      *)
(* updates before it commits is locked against other writers only, so the  *)
(* writes can all be placed at the commit; the one wait that is visible is *)
(* the unique key of webhook_events, see EventKeyHeld.                     *)
(***************************************************************************)
EXTENDS Integers, FiniteSets, FiniteSetsExt

CONSTANTS
  Workers,      \* server and Celery processes; one worker = no overlapping requests
  Installments, \* premium_installments rows of the broker
  Payments,     \* ids available for payments rows
  Batches,      \* ids available for payment_batches rows
  Transfers,    \* bank transfers, named by Squad's transaction_reference
  Events,       \* keys (transaction_ref, event_type) of webhook_events
  TransferOf,   \* the transaction_ref of a key; one transfer may have several keys
  VAs,          \* virtual account numbers Squad may issue to the broker
  None,         \* SQL NULL
  Premium,      \* amount_kobo of each installment
  Amounts,      \* the principal_amounts deliveries state
  Paid,         \* the amount of each bank transfer, as its genuine deliveries state it
  Insurer,      \* the insurer of each installment's policy
  MaxItems,     \* bulk_payment_max_items
  Unpostable,   \* installments whose split has a zero GTBank or Insureflow leg
  Shareless     \* installments whose split leaves nothing to the insurer

Sources == Payments \cup Batches   \* settlement_payouts calls both a source

ASSUME ConstantsAssumption ==
  /\ IsFiniteSet(Installments) /\ IsFiniteSet(Sources)
  /\ Payments \cap Batches = {}
  /\ None \notin Sources \cup Transfers \cup VAs \cup Events
  /\ Premium \in [Installments -> Nat \ {0}]
  /\ Amounts \subseteq Nat \ {0}
  /\ Paid \in [Transfers -> Amounts]
  /\ TransferOf \in [Events -> Transfers]
  /\ MaxItems \in Nat
  /\ Unpostable \subseteq Installments
  /\ Shareless \subseteq Installments

VARIABLES
  va,           \* brokers.squad_va_number
  inst_status,  \* premium_installments.status
  payment_id,   \* premium_installments.payment_id
  item_of,      \* premium_installments.payment_batch_item_id, as the item's batch
  status,       \* status of each payments / payment_batches row, "absent" if no row
  items,        \* the installments the row collects (payment_batch_items)
  claim_va,     \* squad_virtual_account_number copied when the row is created
  created,      \* created_at, as a rank
  tx_ref,       \* squad_webhook_tx_ref
  raw_ref,      \* the transfer whose answer is kept in raw_squad_response
  stale,        \* rows older than reconciliation_stale_after_minutes
  event,        \* webhook_events.processing_status, "none" if no row
  postings,     \* committed ledger posting groups per row and installment
  payouts,      \* committed settle_payment calls per row
  squad,        \* what verify_transaction says of a transfer (external)
  sent_to,      \* the account number a transfer was sent to (external)
  work          \* what each worker has read and not yet committed

instVars  == <<inst_status, payment_id, item_of>>
claimVars == <<status, items, claim_va, created, tx_ref, raw_ref, stale>>
bookVars  == <<postings, payouts>>
bankVars  == <<squad, sent_to>>
vars == <<va, instVars, claimVars, event, bookVars, bankVars, work>>

Terminal == {"success", "failed"}
PayableEvenPaid == {"due", "overdue", "paid"}
Payable  == {"due", "overdue"}
Answers  == {"PENDING", "SUCCESS", "FAILED"}

Idle == [op |-> "idle", items |-> {}, since |-> 0, key |-> None, fresh |-> FALSE, targets |-> {}]

Work ==
  [op : {"idle", "pay", "bulk", "webhook", "reconcile", "reconcile_batches", "overdue"},
   items : SUBSET Installments, since : Nat, key : Events \cup {None}, fresh : BOOLEAN,
   targets : SUBSET (Sources \X Transfers)]

TypeOK ==
  /\ va \in VAs \cup {None}
  /\ inst_status \in [Installments -> Payable \cup {"paid"}]
  /\ payment_id \in [Installments -> Payments \cup {None}]
  /\ item_of \in [Installments -> Batches \cup {None}]
  /\ status \in [Sources -> {"absent", "initiated"} \cup Terminal]
  /\ items \in [Sources -> SUBSET Installments]
  /\ claim_va \in [Sources -> VAs \cup {None}]
  /\ created \in [Sources -> Nat]
  /\ tx_ref \in [Sources -> Transfers \cup {None}]
  /\ raw_ref \in [Sources -> Transfers \cup {None}]
  /\ stale \subseteq Sources
  /\ event \in [Events -> {"none", "failed", "processed", "rejected"}]
  /\ postings \in [Sources -> [Installments -> Nat]]
  /\ payouts \in [Sources -> Nat]
  /\ squad \in [Transfers -> {"unsent", "absent"} \cup Answers]
  /\ sent_to \in [Transfers -> VAs \cup {None}]
  /\ work \in [Workers -> Work]

Init ==
  /\ va = None
  /\ inst_status = [i \in Installments |-> "due"]
  /\ payment_id = [i \in Installments |-> None]
  /\ item_of = [i \in Installments |-> None]
  /\ status = [c \in Sources |-> "absent"]
  /\ items = [c \in Sources |-> {}]
  /\ claim_va = [c \in Sources |-> None]
  /\ created = [c \in Sources |-> 0]
  /\ tx_ref = [c \in Sources |-> None]
  /\ raw_ref = [c \in Sources |-> None]
  /\ stale = {}
  /\ event = [e \in Events |-> "none"]
  /\ postings = [c \in Sources |-> [i \in Installments |-> 0]]
  /\ payouts = [c \in Sources |-> 0]
  /\ squad = [t \in Transfers |-> "unsent"]
  /\ sent_to = [t \in Transfers |-> None]
  /\ work = [w \in Workers |-> Idle]

-----------------------------------------------------------------------------
(* The world outside the database.                                         *)

\* A customer sends money to an account number some payment row displayed.
SendMoney(t) ==
  /\ squad[t] = "unsent"
  /\ \E c \in Sources : status[c] # "absent" /\ sent_to' = [sent_to EXCEPT ![t] = claim_va[c]]
  /\ squad' = [squad EXCEPT ![t] = "absent"]
  /\ UNCHANGED <<va, instVars, claimVars, event, bookVars, work>>

\* Squad's verify endpoint first answers 404, then a status that settles once.
SquadAdvances(t) ==
  /\ \E a \in Answers : /\ \/ squad[t] = "absent"
                           \/ squad[t] = "PENDING" /\ a # "PENDING"
                        /\ squad' = [squad EXCEPT ![t] = a]
  /\ UNCHANGED <<va, instVars, claimVars, event, bookVars, sent_to, work>>

\* created_at falls behind the cutoff of the reconciliation job.
GrowStale(c) ==
  /\ status[c] = "initiated" /\ c \notin stale
  /\ stale' = stale \cup {c}
  /\ UNCHANGED <<va, instVars, status, items, claim_va, created, tx_ref, raw_ref, event,
                 bookVars, bankVars, work>>

\* create_broker_virtual_account at approval or again later: Squad may answer
\* with a new number, and only the current one is kept on the broker.
CreateVirtualAccount(v) ==
  /\ va # v
  /\ va' = v
  /\ UNCHANGED <<instVars, claimVars, event, bookVars, bankVars, work>>
-----------------------------------------------------------------------------
(* Initiating payments.                                                    *)

InFlightSingle(i) == \E c \in Payments : status[c] = "initiated" /\ i \in items[c]
InFlight(i) == \E c \in Sources : status[c] = "initiated" /\ i \in items[c]

Begin(w, rec) ==
  /\ work[w].op = "idle"
  /\ work' = [work EXCEPT ![w] = rec]
  /\ UNCHANGED <<va, instVars, claimVars, event, bookVars, bankVars>>

\* created_at is the time the transaction started, kept as the number of rows
\* there were then.
RowsNow == Cardinality({c \in Sources : status[c] # "absent"})

BeginPayment(w, i) ==
  /\ inst_status[i] \in Payable
  /\ ~InFlight(i)
  /\ va # None
  /\ Begin(w, [Idle EXCEPT !.op = "pay", !.items = {i}, !.since = RowsNow])

BeginBulk(w, S) ==
  /\ S # {} /\ Cardinality(S) <= MaxItems
  /\ \A i \in S : inst_status[i] \in Payable /\ ~InFlight(i)
  /\ \A i, j \in S : Insurer[i] = Insurer[j]
  /\ va # None
  /\ Begin(w, [Idle EXCEPT !.op = "bulk", !.items = S, !.since = RowsNow])

\* The INSERT of the row (and of a batch's items), with the broker's account number.
\* Only the commission is resolved between reading the broker and the INSERT: a number
\* that changes meanwhile leaves the row it leaves when it changes after the commit.
Insert(w, c) ==
  /\ status[c] = "absent"
  /\ status' = [status EXCEPT ![c] = "initiated"]
  /\ items' = [items EXCEPT ![c] = work[w].items]
  /\ claim_va' = [claim_va EXCEPT ![c] = va]
  /\ created' = [created EXCEPT ![c] = work[w].since]
  /\ work' = [work EXCEPT ![w] = Idle]
  /\ UNCHANGED <<va, instVars, tx_ref, raw_ref, stale, event, bookVars, bankVars>>

CommitPayment(w) == work[w].op = "pay" /\ \E c \in Payments : Insert(w, c)

CommitBulk(w) == work[w].op = "bulk" /\ \E c \in Batches : Insert(w, c)

-----------------------------------------------------------------------------
(* The Squad webhook.                                                      *)

\* amount_kobo of a payment, total_amount_kobo of a batch
Total(S) == MapThenSumSet(LAMBDA i : Premium[i], S)
Amount(c) == Total(items[c])

CandidatesAnyAccount(T, n, a) == {c \in T : status[c] = "initiated" /\ Amount(c) = a}

\* Rows of table T that a delivery stating account number n and amount a can be
\* meant for, and the oldest of them.
Candidates(T, n, a) ==
  {c \in T : status[c] = "initiated" /\ claim_va[c] = n /\ Amount(c) = a}

Oldest(C) == {c \in C : \A d \in C : created[c] <= created[d]}

\* The broker is looked up by the stated number; one that is no longer the broker's
\* finds no broker at all.  Payments come before batches.
Matches(n, a) ==
  IF n # va THEN {}
  ELSE IF Candidates(Payments, n, a) # {} THEN Oldest(Candidates(Payments, n, a))
  ELSE Oldest(Candidates(Batches, n, a))

\* A second INSERT of the same (transaction_ref, event_type) waits for the first.
EventKeyHeld(e) == \E v \in Workers : work[v].key = e /\ work[v].fresh

\* Squad delivers, and delivers again, any transfer it knows of, under any
\* transaction_type: the type is no part of what is signed.
Arrives(w, e) ==
  /\ work[w].op = "idle"
  /\ squad[TransferOf[e]] # "unsent"
  /\ ~EventKeyHeld(e)

\* The account number and the amount are the transfer's own where the signature holds.
Genuine(e, n, a) == n = sent_to[TransferOf[e]] /\ a = Paid[TransferOf[e]]

TakenUpAgain(w, e, n, a) ==
  /\ Arrives(w, e)
  /\ event[e] = "failed" \/ Genuine(e, n, a)

\* The handler goes on to match a delivery stating n and a.  Processed and rejected
\* events are answered without doing anything.  The signature that is tested is the
\* one stored with the event, of its first delivery: an event that is FAILED once had
\* a valid one, and what a later delivery states is matched as it stands.
TakenUp(w, e, n, a) ==
  /\ Arrives(w, e)
  /\ \/ event[e] = "none" /\ Genuine(e, n, a)
     \/ event[e] = "failed"

WebhookLeftPending(w, e) ==
  /\ Arrives(w, e)
  /\ event[e] = "none"
  /\ event' = [event EXCEPT ![e] = "pending"]
  /\ UNCHANGED <<va, instVars, claimVars, bookVars, bankVars, work>>

\* A first delivery whose signature does not hold.
WebhookBadSignature(w, e) ==
  /\ Arrives(w, e)
  /\ event[e] = "none"
  /\ event' = [event EXCEPT ![e] = "rejected"]
  /\ UNCHANGED <<va, instVars, claimVars, bookVars, bankVars, work>>

WebhookUnmatchedDone(w, e, n, a) ==
  /\ TakenUp(w, e, n, a)
  /\ Matches(n, a) = {}
  /\ event' = [event EXCEPT ![e] = "processed"]
  /\ UNCHANGED <<va, instVars, claimVars, bookVars, bankVars, work>>

WebhookUnmatched(w, e, n, a) ==
  /\ TakenUp(w, e, n, a)
  /\ Matches(n, a) = {}
  /\ event' = [event EXCEPT ![e] = "failed"]
  /\ UNCHANGED <<va, instVars, claimVars, bookVars, bankVars, work>>

BeginWebhook(w, e, n, a) ==
  /\ TakenUp(w, e, n, a)
  /\ \E c \in Matches(n, a) :
       Begin(w, [Idle EXCEPT !.op = "webhook", !.key = e, !.fresh = (event[e] = "none"),
                             !.targets = {<<c, TransferOf[e]>>}])

\* The handler stores the delivery's reference on the row it has matched.
StoreReference(w) ==
  /\ work[w].op = "webhook"
  /\ tx_ref' = [c \in Sources |-> IF <<c, TransferOf[work[w].key]>> \in work[w].targets
                                  THEN TransferOf[work[w].key] ELSE tx_ref[c]]
  /\ work' = [work EXCEPT ![w] = Idle]

\* verify_transaction raises, or knows no such transfer: the event is FAILED (one
\* that was FAILED when it was read is not written again) and the reference stays on
\* the row it was matched with.
WebhookVerifyFails(w) ==
  /\ StoreReference(w)
  /\ event' = [event EXCEPT ![work[w].key] = IF work[w].fresh THEN "failed" ELSE @]
  /\ UNCHANGED <<va, instVars, status, items, claim_va, created, raw_ref, stale, bookVars, bankVars>>

-----------------------------------------------------------------------------
(* Resolving rows: resolve_payment_outcome and resolve_batch_outcome.      *)

\* The rows that pairs <<row, transfer>> of R name.
Rows(R) == {c \in Sources : \E t \in Transfers : <<c, t>> \in R}

\* What installment i may be linked to after the rows of C paid for it.  A run that
\* resolves two rows of one installment writes the link twice, in no given order.
Links(C, i, before) ==
  IF \E c \in C : i \in items[c] THEN {c \in C : i \in items[c]} ELSE {before}

\* The rows of R whose transfer Squad answers SUCCESS for, and those it answers
\* anything else for: an answer that is not SUCCESS, PENDING included, fails the row.
Won(R)  == Rows({p \in R : squad[p[2]] = "SUCCESS"})
Lost(R) == Rows({p \in R : squad[p[2]] \in {"PENDING", "FAILED"}})

MarkRows(R) ==
  /\ status' = [c \in Sources |-> IF c \in Won(R) THEN "success"
                                  ELSE IF c \in Lost(R) THEN "failed" ELSE status[c]]
  /\ raw_ref' = [c \in Sources |->
       IF c \in Won(R) \cup Lost(R) THEN CHOOSE t \in Transfers : <<c, t>> \in R ELSE raw_ref[c]]

\* Each collected installment becomes paid and is linked to its row; the table's
\* CHECK refuses a link of both kinds, which rolls the transaction back.
PayInstallments(W) ==
  /\ inst_status' = [i \in Installments |->
                      IF \E c \in W : i \in items[c] THEN "paid" ELSE inst_status[i]]
  /\ payment_id' \in {f \in [Installments -> Payments \cup {None}] :
       \A i \in Installments : f[i] \in Links(W \cap Payments, i, payment_id[i])}
  /\ item_of' \in {f \in [Installments -> Batches \cup {None}] :
       \A i \in Installments : f[i] \in Links(W \cap Batches, i, item_of[i])}
  /\ \A i \in Installments : payment_id'[i] = None \/ item_of'[i] = None

PostUnpaidOnly(W) ==
  postings' = [c \in Sources |-> [i \in Installments |->
    IF c \in W /\ i \in items[c] /\ inst_status[i] # "paid" THEN postings[c][i] + 1
    ELSE postings[c][i]]]

\* One balanced posting group per installment.  A leg of zero kobo violates the
\* table's CHECK (amount_kobo > 0), which rolls the transaction back.
Post(W) ==
  /\ \A c \in W : items[c] \cap Unpostable = {}
  /\ postings' = [c \in Sources |-> [i \in Installments |->
       IF c \in W /\ i \in items[c] THEN postings[c][i] + 1 ELSE postings[c][i]]]

SettleShareless(W) ==
  payouts' = [c \in Sources |-> IF c \in W THEN payouts[c] + 1 ELSE payouts[c]]

\* settle_payment, once per row with anything left for the insurer.
Settle(W) ==
  payouts' = [c \in Sources |->
    IF c \in W /\ items[c] \ Shareless # {} THEN payouts[c] + 1 ELSE payouts[c]]

\* What a transaction commits that resolves the rows of R by the answers Squad
\* gives.  A row is resolved because it was initiated when it was read; its
\* status is not read again.
Resolve(R) ==
  /\ MarkRows(R)
  /\ PayInstallments(Won(R))
  /\ Post(Won(R))
  /\ Settle(Won(R))
  /\ UNCHANGED <<va, items, claim_va, created, stale, bankVars>>

ResolveWebhook(w) ==
  /\ StoreReference(w)
  /\ squad[TransferOf[work[w].key]] \in Answers
  /\ Resolve(work[w].targets)
  /\ event' = [event EXCEPT ![work[w].key] = "processed"]

-----------------------------------------------------------------------------
(* reconcile_transactions: stale payments are read and resolved first, then *)
(* stale batches, in one transaction that ends at the first error.         *)

StaleRefsAnyStatus(T) == {<<c, tx_ref[c]>> : c \in {d \in T \cap stale : tx_ref[d] # None}}
FreshRefs(T) ==
  {<<c, tx_ref[c]>> : c \in {d \in T \ stale : status[d] = "initiated" /\ tx_ref[d] # None}}

StaleRefs(T) ==
  {<<c, tx_ref[c]>> : c \in {d \in T \cap stale : status[d] = "initiated" /\ tx_ref[d] # None}}

BeginReconcile(w) ==
  /\ StaleRefs(Sources) # {}
  /\ Begin(w, [Idle EXCEPT !.op = "reconcile", !.targets = StaleRefs(Payments)])

ReadStaleBatches(w) ==
  /\ work[w].op = "reconcile"
  /\ work' = [work EXCEPT ![w] = [Idle EXCEPT !.op = "reconcile_batches",
                !.targets = work[w].targets \cup StaleRefs(Batches)]]
  /\ UNCHANGED <<va, instVars, claimVars, event, bookVars, bankVars>>

FinishReconcile(w) ==
  /\ work[w].op = "reconcile_batches"
  /\ Resolve({p \in work[w].targets : squad[p[2]] \in Answers})
  /\ work' = [work EXCEPT ![w] = Idle]
  /\ UNCHANGED <<tx_ref, event>>

-----------------------------------------------------------------------------
(* flag_overdue_installments: reads the due rows, then updates each by id. *)

BeginOverdue(w, S) ==
  /\ S # {} /\ \A i \in S : inst_status[i] = "due"
  /\ Begin(w, [Idle EXCEPT !.op = "overdue", !.items = S])

CommitOverdue(w) ==
  /\ work[w].op = "overdue"
  /\ inst_status' = [i \in Installments |->
       IF i \in work[w].items THEN "overdue" ELSE inst_status[i]]
  /\ work' = [work EXCEPT ![w] = Idle]
  /\ UNCHANGED <<va, payment_id, item_of, claimVars, event, bookVars, bankVars>>

-----------------------------------------------------------------------------
\* Any transaction in progress may roll back: a crash, a SquadAPIError out of
\* the reconciliation loop, a constraint violation, a deadlock, a lost client.
Abort(w) ==
  /\ work[w].op # "idle"
  /\ work' = [work EXCEPT ![w] = Idle]
  /\ UNCHANGED <<va, instVars, claimVars, event, bookVars, bankVars>>

Step(w) ==
  \/ \E i \in Installments : BeginPayment(w, i)
  \/ \E S \in SUBSET Installments : BeginBulk(w, S) \/ BeginOverdue(w, S)
  \/ CommitPayment(w) \/ CommitBulk(w) \/ CommitOverdue(w)
  \/ \E e \in Events : WebhookBadSignature(w, e)
  \/ \E e \in Events, n \in VAs, a \in Amounts :
       WebhookUnmatched(w, e, n, a) \/ BeginWebhook(w, e, n, a)
  \/ WebhookVerifyFails(w) \/ ResolveWebhook(w)
  \/ BeginReconcile(w) \/ ReadStaleBatches(w) \/ FinishReconcile(w)
  \/ Abort(w)

Environment ==
  \/ \E t \in Transfers : SendMoney(t) \/ SquadAdvances(t)
  \/ \E c \in Sources : GrowStale(c)
  \/ \E v \in VAs : CreateVirtualAccount(v)

Next == Environment \/ \E w \in Workers : Step(w)

Spec == Init /\ [][Next]_vars

\* A transaction ends one way or the other, rows age, and the beat schedule keeps
\* starting the reconciliation job, which is not rolled back every time it runs.
TransactionEnds(w) ==
  \/ CommitPayment(w) \/ CommitBulk(w) \/ CommitOverdue(w)
  \/ WebhookVerifyFails(w) \/ ResolveWebhook(w) \/ Abort(w)

Fairness ==
  /\ \A c \in Sources : WF_vars(GrowStale(c))
  /\ \A w \in Workers : /\ WF_vars(TransactionEnds(w))
                        /\ SF_vars(BeginReconcile(w))
                        /\ SF_vars(ReadStaleBatches(w))
                        /\ SF_vars(FinishReconcile(w))

FairSpec == Spec /\ Fairness

-----------------------------------------------------------------------------
(* Safety.                                                                 *)

\* An installment is claimed by at most one payment or batch still in flight,
\* and by none once it is paid.
OneClaim ==
  \A i \in Installments :
    /\ \A c, d \in Sources :
         /\ status[c] = "initiated" /\ i \in items[c]
         /\ status[d] = "initiated" /\ i \in items[d]
         => c = d
    /\ inst_status[i] = "paid" => ~InFlight(i)

\* An installment is paid exactly when one payment or batch that collects it
\* succeeded, only one ever does, and the installment is linked to that one.
PaidOnce ==
  \A i \in Installments :
    /\ inst_status[i] = "paid" <=> (payment_id[i] # None \/ item_of[i] # None)
    /\ payment_id[i] = None \/ item_of[i] = None
    /\ \A c \in Sources :
         status[c] = "success" /\ i \in items[c] <=> c \in {payment_id[i], item_of[i]}

\* One ledger posting group per collected installment and one settlement per
\* successful row, none for any other row.
BooksMatchOutcomes ==
  \A c \in Sources :
    /\ \A i \in Installments :
         postings[c][i] = IF status[c] = "success" /\ i \in items[c] THEN 1 ELSE 0
    /\ payouts[c] = IF status[c] = "success" /\ items[c] \ Shareless # {} THEN 1 ELSE 0

\* An event is marked processed only once its transfer decided some row.
ProcessedDecidedARow ==
  \A e \in Events : event[e] = "processed" =>
    \E c \in Sources : raw_ref[c] = TransferOf[e] /\ status[c] \in Terminal

\* A resolved row keeps its outcome and a paid installment stays paid.
OutcomesAreFinal ==
  [][/\ \A c \in Sources : status[c] \in Terminal =>
          status'[c] = status[c] /\ raw_ref'[c] = raw_ref[c]
     /\ \A i \in Installments : inst_status[i] = "paid" => inst_status'[i] = "paid"]_vars

\* One bank transfer pays for at most one payment or batch.
TransferAppliedOnce ==
  \A c, d \in Sources :
    status[c] = "success" /\ status[d] = "success" /\ raw_ref[c] = raw_ref[d] => c = d

\* However transactions overlap, the books of a row agree with each other: every
\* installment of a row is posted as often as the row is settled.
SettlementFollowsPostings ==
  \A c \in Sources : items[c] \ Shareless # {} =>
    \A i \in items[c] : postings[c][i] = payouts[c]

\* The source an installment is paid by.
PaidBy ==
  [i \in Installments |-> IF inst_status[i] # "paid" THEN None
                          ELSE IF payment_id[i] # None THEN payment_id[i] ELSE item_of[i]]

Claims == INSTANCE InstallmentClaims WITH outcome <- status, collects <- items, paid_by <- PaidBy

\* Collection keeps the promise of InstallmentClaims: no row is created for an
\* installment another row has claimed or paid, a row is decided once and together
\* with what it pays for, and no handler, reconciliation run, overdue run or rollback
\* changes any of it otherwise.
KeepsClaims == Claims!Spec

EventsOf(t) == {e \in Events : TransferOf[e] = t}

\* A transfer that pays for a second row does so in one of three ways: through a
\* reference that a failed re-query left on that row, by processing a repeated delivery
\* of an event that had failed, or by processing a first delivery under a second
\* transaction_type.  These are all the ways in which TransferAppliedOnce is missed.
TransferReusedOnlyIfMissed ==
  [][\A c \in Sources : status[c] # "success" /\ status'[c] = "success" =>
       \A d \in Sources \ {c}, t \in Transfers :
         status'[d] = "success" /\ raw_ref'[c] = t /\ raw_ref'[d] = t
         => \/ tx_ref[c] = t
            \/ \E e \in EventsOf(t) : event[e] = "failed" /\ event'[e] = "processed"
            \/ \E e, f \in EventsOf(t) : /\ event[e] = "none" /\ event'[e] = "processed"
                                          /\ event[f] \in {"failed", "processed"}]_vars

-----------------------------------------------------------------------------
(* Liveness.                                                               *)

\* A row left initiated by a webhook whose re-query failed is resolved once the
\* transfer's outcome is final, unless another transfer's reference replaces it.
MissedWebhookRecovered ==
  \A c \in Sources, t \in Transfers :
    (status[c] = "initiated" /\ tx_ref[c] = t /\ squad[t] \in {"SUCCESS", "FAILED"})
      ~> (status[c] # "initiated" \/ tx_ref[c] # t)
=============================================================================
