-------------------------- MODULE CollectionProofs --------------------------
(***************************************************************************)
(* What holds of Collection for any number of workers, installments,       *)
(* payments, batches, transfers and account numbers.                       *)
(***************************************************************************)
EXTENDS Deliveries, FiniteSetTheorems, TLAPS

(* The range of the variables.                                             *)

\* The number of rows is a natural number, as created_at ranks are.
LEMMA RowsNowIsNat == RowsNow \in Nat
<1>1. IsFiniteSet(Sources)
  BY ConstantsAssumption
<1>2. IsFiniteSet({c \in Sources : status[c] # "absent"})
  BY <1>1, FS_Subset
<1>. QED
  BY <1>2, FS_CardinalityType DEF RowsNow

\* Idle is a value of work.
LEMMA IdleIsWork == Idle \in Work
BY DEF Idle, Work

\* So is what a webhook handler keeps of the event it works on.
LEMMA WebhookIsWork ==
  ASSUME NEW e \in Events, NEW b \in BOOLEAN, NEW R \in SUBSET (Sources \X Transfers)
  PROVE  [Idle EXCEPT !.op = "webhook", !.key = e, !.fresh = b, !.targets = R] \in Work
BY DEF Idle, Work

\* A delivery of event e that is answered without matching any row.
AnsweredAtOnce(w, e) ==
  WebhookBadSignature(w, e) \/ \E n \in VAs, a \in Amounts : WebhookUnmatched(w, e, n, a)

\* A delivery of event e that is matched.
Matched(w, e) == \E n \in VAs, a \in Amounts : BeginWebhook(w, e, n, a)

\* A matched delivery names an initiated row and its own transfer; on its event's first
\* delivery the row is of the transfer's amount and account number.
LEMMA MatchedRow ==
  ASSUME NEW w \in Workers, NEW e \in Events, Matched(w, e)
  PROVE  /\ Arrives(w, e) /\ event[e] \in {"none", "failed"}
         /\ \E c \in Sources :
              /\ status[c] = "initiated"
              /\ event[e] = "none" => Fits(c, TransferOf[e])
              /\ Begin(w, [Idle EXCEPT !.op = "webhook", !.key = e, !.fresh = (event[e] = "none"),
                                      !.targets = {<<c, TransferOf[e]>>}])
<1>1. PICK n \in VAs, a \in Amounts : BeginWebhook(w, e, n, a)
  BY DEF Matched
<1>2. \A c \in Matches(n, a) :
        c \in Sources /\ status[c] = "initiated" /\ claim_va[c] = n /\ Amount(c) = a
  BY DEF Matches, Oldest, Candidates, Sources
<1>. QED
  BY <1>1, <1>2 DEF BeginWebhook, TakenUp, Genuine, Fits

\* What a transaction that resolves rows leaves in the tables it writes has its
\* type, whichever rows it resolves.
LEMMA ResolveType ==
  ASSUME TypeOK, NEW R \in SUBSET (Sources \X Transfers), Resolve(R)
  PROVE  /\ inst_status' \in [Installments -> Payable \cup {"paid"}]
         /\ payment_id' \in [Installments -> Payments \cup {None}]
         /\ item_of' \in [Installments -> Batches \cup {None}]
         /\ status' \in [Sources -> {"absent", "initiated"} \cup Terminal]
         /\ raw_ref' \in [Sources -> Transfers \cup {None}]
         /\ postings' \in [Sources -> [Installments -> Nat]]
         /\ payouts' \in [Sources -> Nat]
<1>. USE DEF TypeOK
<1>1. Won(R) \subseteq Sources
  BY DEF Won, Rows
<1>2. inst_status' \in [Installments -> Payable \cup {"paid"}]
  BY DEF Resolve, PayInstallments
<1>3. payment_id' \in [Installments -> Payments \cup {None}] /\ item_of' \in [Installments -> Batches \cup {None}]
  BY DEF Resolve, PayInstallments
<1>4. status' \in [Sources -> {"absent", "initiated"} \cup Terminal]
  BY DEF Resolve, MarkRows, Terminal
<1>5. raw_ref' \in [Sources -> Transfers \cup {None}]
  <2>1. ASSUME NEW c \in Won(R) \cup Lost(R)
        PROVE  (CHOOSE t \in Transfers : <<c, t>> \in R) \in Transfers
    <3>1. \E t \in Transfers : <<c, t>> \in R
      BY <2>1 DEF Won, Lost, Rows
    <3>. QED
      BY <3>1
  <2>. QED
    BY <2>1 DEF Resolve, MarkRows
<1>6. postings' \in [Sources -> [Installments -> Nat]]
  BY DEF Resolve, Post
<1>7. payouts' \in [Sources -> Nat]
  BY DEF Resolve, Settle
<1>. QED
  BY <1>2, <1>3, <1>4, <1>5, <1>6, <1>7

\* A step keeps the type of every variable.
LEMMA TypeOKStays ==
  ASSUME TypeOK, [Next]_vars
  PROVE  TypeOK'
<1>. USE IdleIsWork DEF TypeOK
<1>1. ASSUME NEW t \in Transfers, SendMoney(t) PROVE TypeOK'
  BY <1>1 DEF SendMoney, instVars, claimVars, bookVars
<1>2. ASSUME NEW t \in Transfers, SquadAdvances(t) PROVE TypeOK'
  BY <1>2 DEF SquadAdvances, Answers, instVars, claimVars, bookVars
<1>3. ASSUME NEW c \in Sources, GrowStale(c) PROVE TypeOK'
  BY <1>3 DEF GrowStale, instVars, bookVars, bankVars
<1>4. ASSUME NEW v \in VAs, CreateVirtualAccount(v) PROVE TypeOK'
  BY <1>4 DEF CreateVirtualAccount, instVars, claimVars, bookVars, bankVars
<1>5. ASSUME NEW w \in Workers, NEW i \in Installments, BeginPayment(w, i) PROVE TypeOK'
  BY <1>5, RowsNowIsNat DEF BeginPayment, Begin, Idle, Work, instVars, claimVars, bookVars, bankVars
<1>6. ASSUME NEW w \in Workers, NEW S \in SUBSET Installments, BeginBulk(w, S) PROVE TypeOK'
  BY <1>6, RowsNowIsNat DEF BeginBulk, Begin, Idle, Work, instVars, claimVars, bookVars, bankVars
<1>7. ASSUME NEW w \in Workers, NEW S \in SUBSET Installments, BeginOverdue(w, S) PROVE TypeOK'
  BY <1>7 DEF BeginOverdue, Begin, Idle, Work, instVars, claimVars, bookVars, bankVars
<1>8. ASSUME NEW w \in Workers, CommitPayment(w) \/ CommitBulk(w) PROVE TypeOK'
  <2>1. PICK c \in Sources : Insert(w, c)
    BY <1>8 DEF CommitPayment, CommitBulk, Sources
  <2>. QED
    BY <2>1 DEF Insert, Work, instVars, bookVars, bankVars
<1>9. ASSUME NEW w \in Workers, CommitOverdue(w) PROVE TypeOK'
  BY <1>9 DEF CommitOverdue, Payable, claimVars, bookVars, bankVars
<1>10. ASSUME NEW w \in Workers, NEW e \in Events, AnsweredAtOnce(w, e) PROVE TypeOK'
  BY <1>10 DEF AnsweredAtOnce, WebhookBadSignature, WebhookUnmatched, instVars, claimVars, bookVars, bankVars
<1>11. ASSUME NEW w \in Workers, NEW e \in Events, Matched(w, e) PROVE TypeOK'
  <2>1. PICK c \in Sources :
          Begin(w, [Idle EXCEPT !.op = "webhook", !.key = e, !.fresh = (event[e] = "none"),
                                !.targets = {<<c, TransferOf[e]>>}])
    BY <1>11, MatchedRow
  <2>2. {<<c, TransferOf[e]>>} \in SUBSET (Sources \X Transfers) /\ (event[e] = "none") \in BOOLEAN
    BY ConstantsAssumption
  <2>3. work' \in [Workers -> Work]
    BY <2>1, <2>2, WebhookIsWork DEF Begin
  <2>. QED
    BY <2>1, <2>3 DEF Begin, instVars, claimVars, bookVars, bankVars
<1>12. ASSUME NEW w \in Workers, WebhookVerifyFails(w) PROVE TypeOK'
  <2>1. work[w] \in Work /\ work[w].key \in Events \cup {None}
    BY DEF Work
  <2>2. tx_ref' \in [Sources -> Transfers \cup {None}]
    BY <1>12 DEF WebhookVerifyFails, StoreReference, Work
  <2>3. event' \in [Events -> {"none", "failed", "processed", "rejected"}]
    BY <1>12, <2>1 DEF WebhookVerifyFails, StoreReference
  <2>4. work' \in [Workers -> Work]
    BY <1>12 DEF WebhookVerifyFails, StoreReference
  <2>. QED
    BY <1>12, <2>2, <2>3, <2>4 DEF WebhookVerifyFails, StoreReference, instVars, bookVars, bankVars
<1>13. ASSUME NEW w \in Workers, ResolveWebhook(w) PROVE TypeOK'
  <2>1. work[w].targets \in SUBSET (Sources \X Transfers) /\ Resolve(work[w].targets)
    BY <1>13 DEF ResolveWebhook, StoreReference, Work
  <2>2. tx_ref' \in [Sources -> Transfers \cup {None}]
    BY <1>13 DEF ResolveWebhook, StoreReference, Work
  <2>3. work' \in [Workers -> Work] /\ event' \in [Events -> {"none", "failed", "processed", "rejected"}]
    BY <1>13 DEF ResolveWebhook, StoreReference
  <2>. QED
    BY <1>13, <2>1, <2>2, <2>3, ResolveType DEF ResolveWebhook, StoreReference, Resolve, bankVars
<1>14. ASSUME NEW w \in Workers, BeginReconcile(w) PROVE TypeOK'
  <2>1. StaleRefs(Payments) \subseteq Sources \X Transfers
    BY DEF StaleRefs, Sources
  <2>. QED
    BY <1>14, <2>1 DEF BeginReconcile, Begin, Idle, Work, instVars, claimVars, bookVars, bankVars
<1>15. ASSUME NEW w \in Workers, ReadStaleBatches(w) PROVE TypeOK'
  <2>1. StaleRefs(Batches) \subseteq Sources \X Transfers
    BY DEF StaleRefs, Sources
  <2>2. [Idle EXCEPT !.op = "reconcile_batches",
                     !.targets = work[w].targets \cup StaleRefs(Batches)] \in Work
    BY <2>1 DEF Idle, Work
  <2>. QED
    BY <1>15, <2>2 DEF ReadStaleBatches, instVars, claimVars, bookVars, bankVars
<1>16. ASSUME NEW w \in Workers, FinishReconcile(w) PROVE TypeOK'
  <2>1. PICK R \in SUBSET (Sources \X Transfers) : Resolve(R)
    <3>1. work[w].targets \in SUBSET (Sources \X Transfers)
      BY DEF Work
    <3>2. {p \in work[w].targets : squad[p[2]] \in Answers} \in SUBSET (Sources \X Transfers)
      BY <3>1
    <3>3. Resolve({p \in work[w].targets : squad[p[2]] \in Answers})
      BY <1>16 DEF FinishReconcile
    <3>. QED
      BY <3>2, <3>3
  <2>2. work' = [work EXCEPT ![w] = Idle] /\ UNCHANGED <<tx_ref, event>>
    BY <1>16 DEF FinishReconcile
  <2>3. UNCHANGED <<va, items, claim_va, created, stale, bankVars>>
    BY <2>1 DEF Resolve
  <2>. QED
    BY <2>1, <2>2, <2>3, ResolveType DEF bankVars
<1>17. ASSUME NEW w \in Workers, Abort(w) PROVE TypeOK'
  BY <1>17 DEF Abort, instVars, claimVars, bookVars, bankVars
<1>18. CASE UNCHANGED vars
  BY <1>18 DEF vars, instVars, claimVars, bookVars, bankVars
<1>. QED
  BY <1>1, <1>2, <1>3, <1>4, <1>5, <1>6, <1>7, <1>8, <1>9, <1>10, <1>11, <1>12, <1>13, <1>14,
     <1>15, <1>16, <1>17, <1>18 DEF Next, Environment, Step, AnsweredAtOnce, Matched

\* Every variable keeps its type: no step leaves a status, a link or a reference
\* that the tables' columns and CHECK constraints do not have.
THEOREM TypeCorrect == Spec => []TypeOK
<1>1. Init => TypeOK
  BY IdleIsWork DEF Init, TypeOK, Payable
<1>2. TypeOK /\ [Next]_vars => TypeOK'
  BY TypeOKStays
<1>. QED
  BY <1>1, <1>2, PTL DEF Spec
-----------------------------------------------------------------------------
(* What a step may change, whoever takes it.                               *)

\* A row, once inserted, stays, and keeps what it collects and where.
LEMMA RowsStay ==
  ASSUME TypeOK, [Next]_vars, NEW c \in Sources, status[c] # "absent"
  PROVE  status'[c] # "absent" /\ items'[c] = items[c] /\ claim_va'[c] = claim_va[c]
<1>. USE DEF TypeOK
<1>1. ASSUME NEW w \in Workers, NEW d \in Sources, Insert(w, d)
      PROVE  status'[c] # "absent" /\ items'[c] = items[c] /\ claim_va'[c] = claim_va[c]
  BY <1>1 DEF Insert
<1>2. ASSUME NEW w \in Workers, CommitPayment(w) \/ CommitBulk(w)
      PROVE  \E d \in Sources : Insert(w, d)
  BY <1>2 DEF CommitPayment, CommitBulk, Sources
<1>3. ASSUME NEW R, Resolve(R)
      PROVE  status'[c] # "absent" /\ items'[c] = items[c] /\ claim_va'[c] = claim_va[c]
  BY <1>3 DEF Resolve, MarkRows
<1>4. ASSUME NEW w \in Workers, ResolveWebhook(w) \/ FinishReconcile(w) PROVE \E R : Resolve(R)
  BY <1>4 DEF ResolveWebhook, StoreReference, FinishReconcile
<1>5. ASSUME UNCHANGED <<status, items, claim_va>>
      PROVE  status'[c] # "absent" /\ items'[c] = items[c] /\ claim_va'[c] = claim_va[c]
  BY <1>5
<1>6. CASE Environment
  BY <1>6, <1>5 DEF Environment, SendMoney, SquadAdvances, GrowStale, CreateVirtualAccount, claimVars
<1>7. ASSUME NEW w \in Workers, Step(w)
      PROVE  \/ CommitPayment(w) \/ CommitBulk(w) \/ ResolveWebhook(w) \/ FinishReconcile(w)
             \/ UNCHANGED <<status, items, claim_va>>
  BY <1>7 DEF Step, BeginPayment, BeginBulk, BeginOverdue, CommitOverdue, WebhookBadSignature,
     WebhookUnmatched, BeginWebhook, WebhookVerifyFails, StoreReference, BeginReconcile, ReadStaleBatches, Abort,
     Begin, claimVars
<1>8. CASE UNCHANGED vars
  BY <1>8, <1>5 DEF vars, claimVars
<1>. QED
  BY <1>1, <1>2, <1>3, <1>4, <1>5, <1>6, <1>7, <1>8 DEF Next

\* A transfer, once sent, keeps its destination, and Squad does not take back a success.
LEMMA TransfersStay ==
  ASSUME TypeOK, [Next]_vars, NEW t \in Transfers, squad[t] # "unsent"
  PROVE  /\ squad'[t] # "unsent" /\ sent_to'[t] = sent_to[t]
         /\ squad[t] = "SUCCESS" => squad'[t] = "SUCCESS"
<1>. USE DEF TypeOK
<1>1. ASSUME UNCHANGED bankVars
      PROVE  /\ squad'[t] # "unsent" /\ sent_to'[t] = sent_to[t]
             /\ squad[t] = "SUCCESS" => squad'[t] = "SUCCESS"
  BY <1>1 DEF bankVars
<1>2. ASSUME NEW u \in Transfers, SendMoney(u)
      PROVE  /\ squad'[t] # "unsent" /\ sent_to'[t] = sent_to[t]
             /\ squad[t] = "SUCCESS" => squad'[t] = "SUCCESS"
  BY <1>2 DEF SendMoney
<1>3. ASSUME NEW u \in Transfers, SquadAdvances(u)
      PROVE  /\ squad'[t] # "unsent" /\ sent_to'[t] = sent_to[t]
             /\ squad[t] = "SUCCESS" => squad'[t] = "SUCCESS"
  BY <1>3 DEF SquadAdvances, Answers
<1>4. CASE \/ \E c \in Sources : GrowStale(c)
           \/ \E v \in VAs : CreateVirtualAccount(v)
  BY <1>4, <1>1 DEF GrowStale, CreateVirtualAccount
<1>5. ASSUME NEW w \in Workers, Step(w) PROVE UNCHANGED bankVars
  <2>1. ASSUME CommitPayment(w) \/ CommitBulk(w) PROVE UNCHANGED bankVars
    BY <2>1 DEF CommitPayment, CommitBulk, Insert
  <2>2. ASSUME ResolveWebhook(w) \/ FinishReconcile(w) PROVE UNCHANGED bankVars
    BY <2>2 DEF ResolveWebhook, StoreReference, FinishReconcile, Resolve
  <2>. QED
    BY <1>5, <2>1, <2>2 DEF Step, BeginPayment, BeginBulk, BeginOverdue, CommitOverdue,
       WebhookBadSignature, WebhookUnmatched, BeginWebhook, WebhookVerifyFails, StoreReference, BeginReconcile,
       ReadStaleBatches, Abort, Begin
<1>6. CASE UNCHANGED vars
  BY <1>6, <1>1 DEF vars
<1>. QED
  BY <1>1, <1>2, <1>3, <1>4, <1>5, <1>6 DEF Next, Environment

\* Worker w commits what it decided from its reads.
Commits(w) ==
  CommitPayment(w) \/ CommitBulk(w) \/ CommitOverdue(w) \/ ResolveWebhook(w) \/ FinishReconcile(w)

\* A commit ends its worker's transaction.
Ends(w) == Commits(w) /\ work[w].op # "idle" /\ work' = [work EXCEPT ![w] = Idle]

\* The rows, the installments and the books change in four ways: a row is inserted,
\* a worker resolves rows it has read, each with the transfer it has read for it,
\* or the overdue job commits, and that worker's transaction is then over.
LEMMA OutcomeSteps ==
  ASSUME [Next]_vars
  PROVE  \/ UNCHANGED <<instVars, status, items, raw_ref, bookVars>>
         \/ \E w \in Workers : Ends(w) /\ CommitOverdue(w)
         \/ \E w \in Workers, d \in Sources :
              Ends(w) /\ work[w].op \in {"pay", "bulk"} /\ Insert(w, d)
         \/ \E w \in Workers : \E R \in SUBSET work[w].targets :
              Ends(w) /\ work[w].op \in {"webhook", "reconcile_batches"} /\ Resolve(R)
<1>1. CASE Environment
  BY <1>1 DEF Environment, SendMoney, SquadAdvances, GrowStale, CreateVirtualAccount, claimVars
<1>2. CASE UNCHANGED vars
  BY <1>2 DEF vars, claimVars
<1>3. ASSUME NEW w \in Workers, CommitPayment(w) \/ CommitBulk(w)
      PROVE  \E d \in Sources : Ends(w) /\ work[w].op \in {"pay", "bulk"} /\ Insert(w, d)
  BY <1>3 DEF CommitPayment, CommitBulk, Sources, Ends, Commits, Insert
<1>4. ASSUME NEW w \in Workers, ResolveWebhook(w) \/ FinishReconcile(w)
      PROVE  \E R \in SUBSET work[w].targets :
               Ends(w) /\ work[w].op \in {"webhook", "reconcile_batches"} /\ Resolve(R)
  <2>1. {p \in work[w].targets : squad[p[2]] \in Answers} \in SUBSET work[w].targets
    OBVIOUS
  <2>2. work[w].targets \in SUBSET work[w].targets
    OBVIOUS
  <2>3. /\ \/ Resolve(work[w].targets)
           \/ Resolve({p \in work[w].targets : squad[p[2]] \in Answers})
        /\ work[w].op \in {"webhook", "reconcile_batches"} /\ work' = [work EXCEPT ![w] = Idle]
    BY <1>4 DEF ResolveWebhook, StoreReference, FinishReconcile
  <2>4. Ends(w)
    BY <1>4, <2>3 DEF Ends, Commits
  <2>. QED
    BY <2>1, <2>2, <2>3, <2>4
<1>5. ASSUME NEW w \in Workers, Step(w)
      PROVE  \/ CommitPayment(w) \/ CommitBulk(w) \/ ResolveWebhook(w) \/ FinishReconcile(w)
             \/ CommitOverdue(w)
             \/ UNCHANGED <<instVars, status, items, raw_ref, bookVars>>
  BY <1>5 DEF Step, BeginPayment, BeginBulk, BeginOverdue, WebhookBadSignature,
     WebhookUnmatched, BeginWebhook, WebhookVerifyFails, StoreReference, BeginReconcile, ReadStaleBatches, Abort,
     Begin, claimVars
<1>6. ASSUME NEW w \in Workers, CommitOverdue(w) PROVE Ends(w)
  BY <1>6 DEF CommitOverdue, Ends, Commits
<1>. QED
  BY <1>1, <1>2, <1>3, <1>4, <1>5, <1>6 DEF Next

\* A transaction that begins holds what it has read.
LEMMA BeginSetsWork ==
  ASSUME TypeOK, NEW w \in Workers, NEW rec, Begin(w, rec)
  PROVE  work'[w] = rec
BY DEF Begin, TypeOK

\* A handler that has matched a delivery holds the row and the transfer, and knows
\* whether the event is new.
LEMMA MatchedWork ==
  ASSUME TypeOK, NEW w \in Workers, NEW e \in Events, Matched(w, e)
  PROVE  /\ work'[w].op = "webhook" /\ work'[w].key = e
         /\ work'[w].fresh <=> event[e] = "none"
         /\ \E c \in Sources : /\ status[c] = "initiated"
                               /\ event[e] = "none" => Fits(c, TransferOf[e])
                               /\ work'[w].targets = {<<c, TransferOf[e]>>}
<1>1. PICK c \in Sources :
        /\ status[c] = "initiated"
        /\ event[e] = "none" => Fits(c, TransferOf[e])
        /\ Begin(w, [Idle EXCEPT !.op = "webhook", !.key = e, !.fresh = (event[e] = "none"),
                                !.targets = {<<c, TransferOf[e]>>}])
  BY MatchedRow
<1>2. work'[w] = [Idle EXCEPT !.op = "webhook", !.key = e, !.fresh = (event[e] = "none"),
                              !.targets = {<<c, TransferOf[e]>>}]
  BY <1>1, BeginSetsWork
<1>3. /\ work'[w].op = "webhook" /\ work'[w].key = e
      /\ work'[w].fresh = (event[e] = "none")
      /\ work'[w].targets = {<<c, TransferOf[e]>>}
  BY <1>2 DEF Idle
<1>. QED
  BY <1>1, <1>3

\* A worker keeps what it works on, is done with it, or has just read something.
LEMMA WorkSteps ==
  ASSUME TypeOK, [Next]_vars, NEW v \in Workers
  PROVE  \/ work'[v] = work[v]
         \/ work'[v] = Idle
         \/ \E i \in Installments : BeginPayment(v, i)
         \/ \E S \in SUBSET Installments : BeginBulk(v, S) \/ BeginOverdue(v, S)
         \/ \E e \in Events : Matched(v, e)
         \/ BeginReconcile(v)
         \/ ReadStaleBatches(v)
<1>. USE DEF TypeOK
<1>1. CASE Environment
  BY <1>1 DEF Environment, SendMoney, SquadAdvances, GrowStale, CreateVirtualAccount
<1>2. CASE UNCHANGED vars
  BY <1>2 DEF vars
<1>3. ASSUME NEW w \in Workers, Step(w)
      PROVE  \/ work'[v] = work[v]
             \/ work'[v] = Idle
             \/ \E i \in Installments : BeginPayment(v, i)
             \/ \E S \in SUBSET Installments : BeginBulk(v, S) \/ BeginOverdue(v, S)
             \/ \E e \in Events : Matched(v, e)
             \/ BeginReconcile(v)
             \/ ReadStaleBatches(v)
  <2>1. CASE (\E i \in Installments : BeginPayment(w, i))
             \/ (\E S \in SUBSET Installments : BeginBulk(w, S) \/ BeginOverdue(w, S))
    BY <2>1 DEF BeginPayment, BeginBulk, BeginOverdue, Begin
  <2>2. CASE CommitPayment(w) \/ CommitBulk(w) \/ CommitOverdue(w)
    BY <2>2 DEF CommitPayment, CommitBulk, CommitOverdue, Insert
  <2>3. CASE \E e \in Events : AnsweredAtOnce(w, e)
    BY <2>3 DEF AnsweredAtOnce, WebhookBadSignature, WebhookUnmatched
  <2>4. CASE WebhookVerifyFails(w) \/ ResolveWebhook(w) \/ FinishReconcile(w) \/ Abort(w)
    BY <2>4 DEF WebhookVerifyFails, StoreReference, ResolveWebhook, FinishReconcile, Abort
  <2>5. CASE (\E e \in Events : Matched(w, e)) \/ BeginReconcile(w) \/ ReadStaleBatches(w)
    BY <2>5 DEF Matched, BeginWebhook, BeginReconcile, ReadStaleBatches, Begin
  <2>. QED
    BY <1>3, <2>1, <2>2, <2>3, <2>4, <2>5 DEF Step, AnsweredAtOnce, Matched
<1>. QED
  BY <1>1, <1>2, <1>3 DEF Next

-----------------------------------------------------------------------------
(* What rows and transfers are brought together.                           *)

\* Row c exists and Squad knows transfer t.
Known(c, t) == status[c] # "absent" /\ squad[t] # "unsent"

\* A reference is only ever stored on a row there is, of a transfer Squad knows.
RefsKnown == \A c \in Sources, t \in Transfers : tx_ref[c] = t => Known(c, t)

\* So are the transfers workers have read for rows; one for each row.
WorkKnown ==
  \A w \in Workers :
    /\ \A c \in Sources, t \in Transfers : <<c, t>> \in work[w].targets =>
         /\ Known(c, t)
         /\ work[w].op = "webhook" => t = TransferOf[work[w].key]
         /\ work[w].op = "reconcile" => c \in Payments
    /\ \A c \in Sources, t, u \in Transfers :
         <<c, t>> \in work[w].targets /\ <<c, u>> \in work[w].targets => t = u

\* Rows and transfers stay, and whether they fit does not change.
LEMMA KnownStays ==
  ASSUME TypeOK, [Next]_vars, NEW c \in Sources, NEW t \in Transfers, Known(c, t)
  PROVE  Known(c, t)' /\ Fits(c, t)' = Fits(c, t)
<1>1. status'[c] # "absent" /\ items'[c] = items[c] /\ claim_va'[c] = claim_va[c]
  BY RowsStay DEF Known
<1>2. squad'[t] # "unsent" /\ sent_to'[t] = sent_to[t]
  BY TransfersStay DEF Known
<1>3. Amount(c)' = Amount(c)
  BY <1>1 DEF Amount
<1>. QED
  BY <1>1, <1>2, <1>3 DEF Known, Fits

\* A step other than taking up an event or starting the reconciliation job leaves a
\* worker the targets it had, or none.
LEMMA TargetSteps ==
  ASSUME TypeOK, [Next]_vars, NEW w \in Workers
  PROVE  \/ work'[w] = work[w]
         \/ work'[w].targets = {}
         \/ \E e \in Events : Matched(w, e)
         \/ BeginReconcile(w)
         \/ ReadStaleBatches(w)
<1>1. work'[w] = Idle => work'[w].targets = {}
  BY DEF Idle
<1>2. ASSUME NEW i \in Installments, BeginPayment(w, i) PROVE work'[w].targets = {}
  BY <1>2, BeginSetsWork DEF BeginPayment, Idle
<1>3. ASSUME NEW S \in SUBSET Installments, BeginBulk(w, S) PROVE work'[w].targets = {}
  BY <1>3, BeginSetsWork DEF BeginBulk, Idle
<1>4. ASSUME NEW S \in SUBSET Installments, BeginOverdue(w, S) PROVE work'[w].targets = {}
  BY <1>4, BeginSetsWork DEF BeginOverdue, Idle
<1>. QED
  BY <1>1, <1>2, <1>3, <1>4, WorkSteps

\* What the reconciliation job reads: stored references of the rows of a table.
LEMMA StaleRefsStored ==
  ASSUME NEW T
  PROVE  \A c \in Sources, t \in Transfers : <<c, t>> \in StaleRefs(T) => tx_ref[c] = t /\ c \in T
BY DEF StaleRefs

\* The targets a worker holds after a step are known, if its targets and the stored
\* references were before it.
LEMMA WorkKnownStays ==
  ASSUME TypeOK, [Next]_vars, RefsKnown, WorkKnown
  PROVE  WorkKnown'
<1>. SUFFICES ASSUME NEW w \in Workers
              PROVE  /\ \A c \in Sources, t \in Transfers : <<c, t>> \in work'[w].targets =>
                          /\ Known(c, t)
                          /\ work'[w].op = "webhook" => t = TransferOf[work'[w].key]
                          /\ work'[w].op = "reconcile" => c \in Payments
                     /\ \A c \in Sources, t, u \in Transfers :
                          <<c, t>> \in work'[w].targets /\ <<c, u>> \in work'[w].targets => t = u
  BY KnownStays DEF WorkKnown
<1>1. CASE work'[w] = work[w]
  BY <1>1 DEF WorkKnown
<1>2. CASE work'[w].targets = {}
  BY <1>2
<1>3. ASSUME NEW e \in Events, Matched(w, e)
      PROVE  /\ \A c \in Sources, x \in Transfers : <<c, x>> \in work'[w].targets =>
                  /\ Known(c, x)
                  /\ work'[w].op = "webhook" => x = TransferOf[work'[w].key]
                  /\ work'[w].op = "reconcile" => c \in Payments
             /\ \A c \in Sources, x, u \in Transfers :
                  <<c, x>> \in work'[w].targets /\ <<c, u>> \in work'[w].targets => x = u
  <2>1. PICK c \in Sources :
          status[c] = "initiated" /\ work'[w].targets = {<<c, TransferOf[e]>>}
    BY <1>3, MatchedWork
  <2>2. Known(c, TransferOf[e])
    BY <1>3, <2>1, MatchedRow DEF Arrives, Known
  <2>3. work'[w].op = "webhook" /\ work'[w].key = e
    BY <1>3, MatchedWork
  <2>. QED
    BY <2>1, <2>2, <2>3
<1>4. \A T : \A c \in Sources, t \in Transfers :
        <<c, t>> \in StaleRefs(T) => Known(c, t) /\ tx_ref[c] = t /\ c \in T
  BY StaleRefsStored DEF RefsKnown
<1>5. CASE BeginReconcile(w)
  <2>1. work'[w].op = "reconcile" /\ work'[w].targets = StaleRefs(Payments)
    BY <1>5, BeginSetsWork DEF BeginReconcile, Idle
  <2>. QED
    BY <2>1, <1>4
<1>6. CASE ReadStaleBatches(w)
  <2>1. /\ work[w].op = "reconcile"
        /\ work'[w].op = "reconcile_batches"
        /\ work'[w].targets = work[w].targets \cup StaleRefs(Batches)
    BY <1>6 DEF ReadStaleBatches, Idle, TypeOK
  <2>2. \A c \in Sources, t \in Transfers :
          <<c, t>> \in StaleRefs(Batches) => Known(c, t) /\ tx_ref[c] = t /\ c \in Batches
    BY <1>4
  <2>3. ASSUME NEW c \in Sources, NEW t \in Transfers, <<c, t>> \in work'[w].targets
        PROVE  Known(c, t)
    BY <2>1, <2>2, <2>3 DEF WorkKnown
  <2>4. ASSUME NEW c \in Sources, NEW t \in Transfers, NEW u \in Transfers,
               <<c, t>> \in work'[w].targets, <<c, u>> \in work'[w].targets
        PROVE  t = u
    <3>1. \A x \in Transfers : <<c, x>> \in work[w].targets => c \notin Batches
      BY <2>1, ConstantsAssumption DEF WorkKnown
    <3>2. CASE <<c, t>> \in work[w].targets
      BY <2>1, <2>2, <2>4, <3>1, <3>2 DEF WorkKnown
    <3>3. CASE <<c, t>> \in StaleRefs(Batches)
      BY <2>1, <2>2, <2>4, <3>1, <3>3
    <3>. QED
      BY <2>1, <2>4, <3>2, <3>3
  <2>. QED
    BY <2>1, <2>3, <2>4
<1>. QED
  BY <1>1, <1>2, <1>3, <1>5, <1>6, TargetSteps

\* A reference a step stores is one of a worker's targets.
LEMMA StoredReference ==
  ASSUME TypeOK, [Next]_vars, NEW c \in Sources, NEW t \in Transfers,
         tx_ref'[c] = t, tx_ref[c] # t
  PROVE  \E w \in Workers : <<c, t>> \in work[w].targets
<1>1. ASSUME NEW w \in Workers, WebhookVerifyFails(w) \/ ResolveWebhook(w)
      PROVE  <<c, t>> \in work[w].targets
  BY <1>1 DEF WebhookVerifyFails, ResolveWebhook, StoreReference, TypeOK
<1>2. ASSUME NEW w \in Workers, Step(w)
      PROVE  UNCHANGED tx_ref \/ WebhookVerifyFails(w) \/ ResolveWebhook(w)
  <2>1. ASSUME CommitPayment(w) \/ CommitBulk(w) PROVE UNCHANGED tx_ref
    BY <2>1 DEF CommitPayment, CommitBulk, Insert
  <2>2. ASSUME FinishReconcile(w) PROVE UNCHANGED tx_ref
    BY <2>2 DEF FinishReconcile
  <2>. QED
    BY <1>2, <2>1, <2>2 DEF Step, BeginPayment, BeginBulk, BeginOverdue, CommitOverdue,
       WebhookBadSignature, WebhookUnmatched, BeginWebhook, BeginReconcile, ReadStaleBatches,
       Abort, Begin, claimVars
<1>3. Environment => UNCHANGED tx_ref
  BY DEF Environment, SendMoney, SquadAdvances, GrowStale, CreateVirtualAccount, claimVars
<1>4. UNCHANGED vars => UNCHANGED tx_ref
  BY DEF vars, claimVars
<1>. QED
  BY <1>1, <1>2, <1>3, <1>4 DEF Next

\* A reference stored by a step is known.
LEMMA RefsKnownStays ==
  ASSUME TypeOK, [Next]_vars, RefsKnown, WorkKnown
  PROVE  RefsKnown'
<1>. SUFFICES ASSUME NEW c \in Sources, NEW t \in Transfers, tx_ref'[c] = t
              PROVE  Known(c, t)
  BY KnownStays DEF RefsKnown
<1>. QED
  BY StoredReference DEF RefsKnown, WorkKnown

\* Whoever resolves rows, they are rows there are, each with one transfer Squad knows.
LEMMA AlwaysKnown == Spec => [](RefsKnown /\ WorkKnown)
<1>1. Init => RefsKnown /\ WorkKnown
  BY ConstantsAssumption DEF Init, Idle, RefsKnown, WorkKnown
<1>2. TypeOK /\ RefsKnown /\ WorkKnown /\ [Next]_vars => RefsKnown' /\ WorkKnown'
  BY RefsKnownStays, WorkKnownStays
<1>. QED
  BY <1>1, <1>2, TypeCorrect, PTL DEF Spec
-----------------------------------------------------------------------------
(* A success is backed by a confirmed transfer.                            *)

\* Transfer t fits row c, or a repeated delivery has brought them together.
Backed(c, t) == Fits(c, t) \/ <<c, t>> \in repeated

\* That is so of every reference stored,
RefsBacked == \A c \in Sources, t \in Transfers : tx_ref[c] = t => Backed(c, t)

\* of every target a worker holds,
WorkBacked ==
  \A w \in Workers, c \in Sources, t \in Transfers : <<c, t>> \in work[w].targets => Backed(c, t)

\* and of every row that has succeeded, whose transfer Squad confirms.
SuccessKnown ==
  \A c \in Sources : status[c] = "success" =>
    \E t \in Transfers : raw_ref[c] = t /\ squad[t] = "SUCCESS" /\ Backed(c, t)

\* The history is a variable more: it restricts nothing.
LEMMA DeliveriesImplement == SpecD => Spec
<1>1. InitD => Init
  BY DEF InitD
<1>2. [NextD]_varsD => [Next]_vars
  BY DEF NextD, varsD
<1>. QED
  BY <1>1, <1>2, PTL DEF SpecD, Spec

\* What is backed stays backed.
LEMMA BackedStays ==
  ASSUME TypeOK, [Next]_vars, NextD, NEW c \in Sources, NEW t \in Transfers, Known(c, t), Backed(c, t)
  PROVE  Backed(c, t)'
BY KnownStays DEF Backed, NextD

\* A target is backed: a first delivery states the transfer as it is, and what a repeated
\* one has matched enters the history.
LEMMA WorkBackedStays ==
  ASSUME TypeOK, NextD, RefsKnown, WorkKnown, RefsBacked, WorkBacked
  PROVE  WorkBacked'
<1>0. [Next]_vars
  BY DEF NextD
<1>. SUFFICES ASSUME NEW w \in Workers, NEW c \in Sources, NEW t \in Transfers,
                     <<c, t>> \in work'[w].targets
              PROVE  Backed(c, t)'
  BY DEF WorkBacked
<1>1. CASE <<c, t>> \in work[w].targets \/ tx_ref[c] = t
  BY <1>0, <1>1, BackedStays DEF WorkBacked, WorkKnown, RefsBacked, RefsKnown
<1>2. ASSUME NEW e \in Events, Matched(w, e) PROVE Backed(c, t)'
  <2>1. PICK d \in Sources :
          /\ status[d] = "initiated"
          /\ event[e] = "none" => Fits(d, TransferOf[e])
          /\ work'[w].targets = {<<d, TransferOf[e]>>}
    BY <1>2, MatchedWork
  <2>2. work'[w].op = "webhook" /\ (work'[w].fresh <=> event[e] = "none")
    BY <1>2, MatchedWork
  <2>3. c = d /\ t = TransferOf[e]
    BY <2>1
  <2>4. CASE event[e] = "none"
    <3>1. Known(c, t) /\ Fits(c, t)
      BY <1>2, <2>1, <2>3, <2>4, MatchedRow DEF Arrives, Known
    <3>. QED
      BY <1>0, <3>1, BackedStays DEF Backed
  <2>5. CASE event[e] # "none"
    <3>1. <<c, t>> \in MatchedAgain'
      BY <2>2, <2>5 DEF MatchedAgain
    <3>. QED
      BY <3>1 DEF NextD, Backed
  <2>. QED
    BY <2>4, <2>5
<1>3. CASE BeginReconcile(w)
  <2>1. work'[w].targets = StaleRefs(Payments)
    BY <1>3, BeginSetsWork DEF BeginReconcile, Idle
  <2>. QED
    BY <1>1, <2>1, StaleRefsStored
<1>4. CASE ReadStaleBatches(w)
  <2>1. work'[w].targets = work[w].targets \cup StaleRefs(Batches)
    BY <1>4 DEF ReadStaleBatches, TypeOK
  <2>. QED
    BY <1>1, <2>1, StaleRefsStored
<1>. QED
  BY <1>0, <1>1, <1>2, <1>3, <1>4, TargetSteps

\* A reference that is stored was a target.
LEMMA RefsBackedStays ==
  ASSUME TypeOK, NextD, RefsKnown, WorkKnown, RefsBacked, WorkBacked
  PROVE  RefsBacked'
<1>0. [Next]_vars
  BY DEF NextD
<1>. SUFFICES ASSUME NEW c \in Sources, NEW t \in Transfers, tx_ref'[c] = t
              PROVE  Backed(c, t)'
  BY DEF RefsBacked
<1>1. Known(c, t) /\ Backed(c, t)
  BY <1>0, StoredReference DEF RefsKnown, RefsBacked, WorkKnown, WorkBacked
<1>. QED
  BY <1>0, <1>1, BackedStays

\* A row that succeeds does so by the one transfer it is resolved with.
LEMMA SuccessKnownStays ==
  ASSUME TypeOK, NextD, WorkKnown, WorkBacked, SuccessKnown
  PROVE  SuccessKnown'
<1>0. [Next]_vars
  BY DEF NextD
<1>. SUFFICES ASSUME NEW c \in Sources, status'[c] = "success"
              PROVE  \E t \in Transfers : raw_ref'[c] = t /\ squad'[t] = "SUCCESS" /\ Backed(c, t)'
  BY DEF SuccessKnown
<1>1. ASSUME status[c] = "success", raw_ref'[c] = raw_ref[c]
      PROVE  \E t \in Transfers : raw_ref'[c] = t /\ squad'[t] = "SUCCESS" /\ Backed(c, t)'
  <2>1. PICK t \in Transfers : raw_ref[c] = t /\ squad[t] = "SUCCESS" /\ Backed(c, t)
    BY <1>1 DEF SuccessKnown
  <2>2. Known(c, t)
    BY <1>1, <2>1 DEF Known
  <2>. QED
    BY <1>0, <1>1, <2>1, <2>2, BackedStays, TransfersStay
<1>2. CASE UNCHANGED <<status, raw_ref>> \/ \E w \in Workers : CommitOverdue(w)
  BY <1>1, <1>2 DEF CommitOverdue, claimVars
<1>3. ASSUME NEW w \in Workers, NEW d \in Sources, Insert(w, d)
      PROVE  \E t \in Transfers : raw_ref'[c] = t /\ squad'[t] = "SUCCESS" /\ Backed(c, t)'
  BY <1>1, <1>3 DEF Insert, TypeOK
<1>4. ASSUME NEW w \in Workers, NEW R \in SUBSET work[w].targets, Resolve(R)
      PROVE  \E t \in Transfers : raw_ref'[c] = t /\ squad'[t] = "SUCCESS" /\ Backed(c, t)'
  <2>1. CASE c \in Won(R)
    <3>1. PICK t \in Transfers : <<c, t>> \in R /\ squad[t] = "SUCCESS"
      BY <2>1 DEF Won, Rows
    <3>2. \A u \in Transfers : <<c, u>> \in R => u = t
      BY <3>1 DEF WorkKnown
    <3>3. (CHOOSE u \in Transfers : <<c, u>> \in R) = t
      BY <3>1, <3>2
    <3>4. raw_ref'[c] = t
      BY <1>4, <2>1, <3>3 DEF Resolve, MarkRows
    <3>5. Known(c, t) /\ Backed(c, t)
      BY <3>1 DEF WorkKnown, WorkBacked
    <3>. QED
      BY <1>0, <3>1, <3>4, <3>5, BackedStays, TransfersStay DEF Known
  <2>2. CASE c \notin Won(R)
    BY <1>1, <1>4, <2>2 DEF Resolve, MarkRows
  <2>. QED
    BY <2>1, <2>2
<1>. QED
  BY <1>0, <1>2, <1>3, <1>4, OutcomeSteps

\* A payment or batch succeeds only on a transfer Squad confirms, of its amount and to
\* its account number unless a repeated delivery of a FAILED event has matched the two,
\* however many transactions overlap.
THEOREM SuccessBacked == SpecD => []SuccessIsBacked
<1>. DEFINE IInv == RefsBacked /\ WorkBacked /\ SuccessKnown
            Always == TypeOK /\ RefsKnown /\ WorkKnown
<1>1. InitD => IInv
  BY ConstantsAssumption DEF InitD, Init, Idle, RefsBacked, WorkBacked, SuccessKnown
<1>2. Always /\ IInv /\ [NextD]_varsD => IInv'
  <2>1. Always /\ IInv /\ NextD => IInv'
    BY RefsBackedStays, WorkBackedStays, SuccessKnownStays
  <2>2. IInv /\ UNCHANGED varsD => IInv'
    BY DEF varsD, vars, instVars, claimVars, bookVars, bankVars, RefsBacked, WorkBacked,
       SuccessKnown, Backed, Fits, Amount
  <2>. QED
    BY <2>1, <2>2
<1>3. IInv => SuccessIsBacked
  BY DEF SuccessKnown, Backed, SuccessIsBacked
<1>4. SpecD => []Always
  BY DeliveriesImplement, TypeCorrect, AlwaysKnown, PTL
<1>. QED
  BY <1>1, <1>2, <1>3, <1>4, PTL DEF SpecD
-----------------------------------------------------------------------------
(* Postings and settlements of a row go together.                          *)

\* A row that was never inserted has no postings and no settlement.
BlankRows ==
  \A c \in Sources : status[c] = "absent" =>
    payouts[c] = 0 /\ \A i \in Installments : postings[c][i] = 0

\* However transactions overlap, every installment of a row is posted as often as
\* the row's share is settled: a double resolution doubles both.
THEOREM SettlementMatchesPostings == Spec => []SettlementFollowsPostings
<1>. DEFINE IInv == BlankRows /\ SettlementFollowsPostings
<1>1. Init => IInv
  BY DEF Init, BlankRows, SettlementFollowsPostings
<1>2. TypeOK /\ WorkKnown /\ IInv /\ [Next]_vars => IInv'
  <2>. SUFFICES ASSUME TypeOK, WorkKnown, BlankRows, SettlementFollowsPostings, [Next]_vars
                PROVE  BlankRows' /\ SettlementFollowsPostings'
    OBVIOUS
  <2>1. CASE \/ UNCHANGED <<instVars, status, items, raw_ref, bookVars>>
             \/ \E w \in Workers : CommitOverdue(w)
    BY <2>1 DEF BlankRows, SettlementFollowsPostings, bookVars, claimVars, CommitOverdue
  <2>2. ASSUME NEW w \in Workers, NEW d \in Sources, Insert(w, d)
        PROVE  BlankRows' /\ SettlementFollowsPostings'
    <3>1. UNCHANGED <<postings, payouts>> /\ status[d] = "absent"
      BY <2>2 DEF Insert, bookVars
    <3>2. \A c \in Sources : c # d => status'[c] = status[c] /\ items'[c] = items[c]
      BY <2>2 DEF Insert, TypeOK
    <3>3. status'[d] = "initiated" /\ items'[d] \subseteq Installments
      BY <2>2 DEF Insert, TypeOK, Work
    <3>. QED
      BY <3>1, <3>2, <3>3 DEF BlankRows, SettlementFollowsPostings
  <2>3. ASSUME NEW w \in Workers, NEW R \in SUBSET work[w].targets, Resolve(R)
        PROVE  BlankRows' /\ SettlementFollowsPostings'
    <3>1. \A c \in Won(R) : c \in Sources /\ status[c] # "absent"
      BY DEF Won, Rows, WorkKnown, Known
    <3>2. items' = items /\ \A c \in Sources : items[c] \subseteq Installments
      BY <2>3 DEF Resolve, TypeOK
    <3>3. \A c \in Sources : status'[c] = "absent" => status[c] = "absent" /\ c \notin Won(R)
      BY <2>3, <3>1 DEF Resolve, MarkRows
    <3>4. \A c \in Sources, i \in Installments :
            postings'[c][i] = IF c \in Won(R) /\ i \in items[c] THEN postings[c][i] + 1
                              ELSE postings[c][i]
      BY <2>3 DEF Resolve, Post
    <3>5. \A c \in Sources :
            payouts'[c] = IF c \in Won(R) /\ items[c] \ Shareless # {} THEN payouts[c] + 1
                          ELSE payouts[c]
      BY <2>3 DEF Resolve, Settle
    <3>6. BlankRows'
      BY <3>3, <3>4, <3>5 DEF BlankRows
    <3>7. SettlementFollowsPostings'
      BY <3>2, <3>4, <3>5 DEF SettlementFollowsPostings
    <3>. QED
      BY <3>6, <3>7
  <2>. QED
    BY <2>1, <2>2, <2>3, OutcomeSteps
<1>3. IInv => SettlementFollowsPostings
  OBVIOUS
<1>. QED
  BY <1>1, <1>2, <1>3, TypeCorrect, AlwaysKnown, PTL DEF Spec

-----------------------------------------------------------------------------
(* Transactions that commit on current reads.                              *)

\* What the transaction of worker w has read of the rows it works on is still so.
ReadsAreCurrent(w) ==
  /\ work[w].op \in {"pay", "bulk"} =>
       \A i \in work[w].items : inst_status[i] \in Payable /\ ~InFlight(i)
  /\ work[w].op = "overdue" => \A i \in work[w].items : inst_status[i] = "due"
  /\ work[w].op \in {"webhook", "reconcile", "reconcile_batches"} =>
       \A c \in Sources, t \in Transfers : <<c, t>> \in work[w].targets => status[c] = "initiated"

\* The premise of the theorems below: no transaction commits after another one has
\* changed what it read, as if the rows it read were locked.
CommitIsCurrent == \A w \in Workers : Commits(w) => ReadsAreCurrent(w)

CommitsAreCurrent == [][CommitIsCurrent]_vars

\* One way to meet it: no two transactions are in progress at once.
NoOverlap == \A v, w \in Workers : work[v].op # "idle" /\ work[w].op # "idle" => v = w

\* One worker at most: every transaction ends before the next one reads.
Serial == \A v, w \in Workers : v = w

WorkCurrent == \A w \in Workers : ReadsAreCurrent(w)

\* A worker whose transaction ends by a commit has current reads.
LEMMA EndsCurrent ==
  ASSUME TypeOK, [CommitIsCurrent]_vars, NEW w \in Workers, Ends(w)
  PROVE  ReadsAreCurrent(w)
<1>1. work' # work
  BY DEF Ends, Idle, TypeOK
<1>. QED
  BY <1>1 DEF CommitIsCurrent, Ends, vars

\* A transaction that has just begun has read the tables as they are, and a commit
\* leaves no other transaction in progress.
LEMMA WorkCurrentStays ==
  ASSUME TypeOK, [Next]_vars, NoOverlap, WorkCurrent
  PROVE  WorkCurrent'
<1>1. ASSUME NEW w \in Workers, Ends(w) PROVE WorkCurrent'
  <2>1. \A v \in Workers : work'[v].op = "idle"
    BY <1>1 DEF Ends, NoOverlap, Idle, TypeOK
  <2>. QED
    BY <2>1 DEF WorkCurrent, ReadsAreCurrent
<1>2. CASE \E w \in Workers : Ends(w) /\ CommitOverdue(w)
  BY <1>1, <1>2
<1>3. CASE \E w \in Workers, d \in Sources :
             Ends(w) /\ work[w].op \in {"pay", "bulk"} /\ Insert(w, d)
  BY <1>1, <1>3
<1>4. CASE \E w \in Workers : \E R \in SUBSET work[w].targets :
             Ends(w) /\ work[w].op \in {"webhook", "reconcile_batches"} /\ Resolve(R)
  BY <1>1, <1>4
<1>5. CASE UNCHANGED <<instVars, status, items, raw_ref, bookVars>>
  <2>1. UNCHANGED <<inst_status, status, items>> /\ \A i \in Installments : InFlight(i)' = InFlight(i)
    BY <1>5 DEF instVars, InFlight
  <2>. SUFFICES ASSUME NEW w \in Workers
                PROVE  /\ work'[w].op \in {"pay", "bulk"} =>
                            \A i \in work'[w].items : inst_status[i] \in Payable /\ ~InFlight(i)
                       /\ work'[w].op = "overdue" =>
                            \A i \in work'[w].items : inst_status[i] = "due"
                       /\ work'[w].op \in {"webhook", "reconcile", "reconcile_batches"} =>
                            \A c \in Sources, t \in Transfers :
                              <<c, t>> \in work'[w].targets => status[c] = "initiated"
    <3>1. \A v \in Workers : work'[v] \in Work => work'[v].items \subseteq Installments
      BY DEF Work
    <3>2. TypeOK'
      BY TypeOKStays
    <3>. QED
      BY <2>1, <3>1, <3>2 DEF WorkCurrent, ReadsAreCurrent, TypeOK
  <2>2. CASE work'[w] = work[w]
    BY <2>2 DEF WorkCurrent, ReadsAreCurrent
  <2>3. CASE work'[w] = Idle
    BY <2>3 DEF Idle
  <2>4. ASSUME NEW i \in Installments, BeginPayment(w, i)
        PROVE  /\ inst_status[i] \in Payable /\ ~InFlight(i)
               /\ work'[w].op = "pay" /\ work'[w].items = {i} /\ work'[w].targets = {}
    BY <2>4, BeginSetsWork DEF BeginPayment, Idle
  <2>5. ASSUME NEW S \in SUBSET Installments, BeginBulk(w, S)
        PROVE  /\ \A i \in S : inst_status[i] \in Payable /\ ~InFlight(i)
               /\ work'[w].op = "bulk" /\ work'[w].items = S /\ work'[w].targets = {}
    BY <2>5, BeginSetsWork DEF BeginBulk, Idle
  <2>6. ASSUME NEW S \in SUBSET Installments, BeginOverdue(w, S)
        PROVE  /\ \A i \in S : inst_status[i] = "due"
               /\ work'[w].op = "overdue" /\ work'[w].items = S /\ work'[w].targets = {}
    BY <2>6, BeginSetsWork DEF BeginOverdue, Idle
  <2>7. ASSUME NEW e \in Events, Matched(w, e)
        PROVE  \E c \in Sources : /\ status[c] = "initiated" /\ work'[w].op = "webhook"
                                  /\ work'[w].targets = {<<c, TransferOf[e]>>}
    BY <2>7, MatchedWork
  <2>8. \A T : \A c \in Sources, t \in Transfers : <<c, t>> \in StaleRefs(T) => status[c] = "initiated"
    BY DEF StaleRefs
  <2>9. ASSUME BeginReconcile(w)
        PROVE  work'[w].targets = StaleRefs(Payments) /\ work'[w].op = "reconcile"
    BY <2>9, BeginSetsWork DEF BeginReconcile, Idle
  <2>10. ASSUME ReadStaleBatches(w)
         PROVE  /\ work'[w].targets = work[w].targets \cup StaleRefs(Batches)
                /\ work'[w].op = "reconcile_batches"
    BY <2>10 DEF ReadStaleBatches, Idle, TypeOK
  <2>11. CASE (\E i \in Installments : BeginPayment(w, i))
              \/ (\E S \in SUBSET Installments : BeginBulk(w, S) \/ BeginOverdue(w, S))
    BY <2>4, <2>5, <2>6, <2>11
  <2>12. CASE \E e \in Events : Matched(w, e)
    BY <2>7, <2>12
  <2>13. CASE BeginReconcile(w)
    BY <2>8, <2>9, <2>13
  <2>14. CASE ReadStaleBatches(w)
    <3>1. \A c \in Sources, t \in Transfers : <<c, t>> \in work[w].targets => status[c] = "initiated"
      BY <2>14 DEF WorkCurrent, ReadsAreCurrent, ReadStaleBatches
    <3>2. \A c \in Sources, t \in Transfers : <<c, t>> \in StaleRefs(Batches) => status[c] = "initiated"
      BY <2>8
    <3>. QED
      BY <2>10, <2>14, <3>1, <3>2
  <2>. QED
    BY <2>2, <2>3, <2>11, <2>12, <2>13, <2>14, WorkSteps
<1>. QED
  BY <1>2, <1>3, <1>4, <1>5, OutcomeSteps

\* Resolving rows that are still initiated: the rows that won are not the rows that
\* collected for an installment before, and no two of them collect one installment.
LEMMA ResolveKeepsClaims ==
  ASSUME TypeOK, OneClaim, PaidOnce, BooksMatchOutcomes,
         NEW R \in SUBSET (Sources \X Transfers), Resolve(R),
         \A c \in Sources, t \in Transfers : <<c, t>> \in R => status[c] = "initiated"
  PROVE  OneClaim' /\ PaidOnce' /\ BooksMatchOutcomes'
<1>. DEFINE W == Won(R)
<1>1. \A c \in W : c \in Sources /\ status[c] = "initiated"
  BY DEF Won, Rows
<1>2. \A c \in Lost(R) : c \in Sources /\ status[c] = "initiated"
  BY DEF Lost, Rows
<1>3. items' = items
  BY DEF Resolve
<1>4. \A c \in Sources :
        /\ status'[c] = "success" <=> (c \in W \/ status[c] = "success")
        /\ status'[c] = "initiated" => status[c] = "initiated" /\ c \notin W
  BY <1>1, <1>2 DEF Resolve, MarkRows
<1>5. \A i \in Installments :
        inst_status'[i] = IF \E c \in W : i \in items[c] THEN "paid" ELSE inst_status[i]
  BY DEF Resolve, PayInstallments
<1>6. ASSUME NEW i \in Installments, NEW c \in W, i \in items[c]
      PROVE  /\ \A d \in W : i \in items[d] => d = c
             /\ inst_status[i] # "paid" /\ payment_id[i] = None /\ item_of[i] = None
             /\ \A d \in Sources : status[d] = "success" => i \notin items[d]
  <2>1. InFlight(i) /\ \A d \in W : i \in items[d] => d = c
    BY <1>1, <1>6 DEF InFlight, OneClaim
  <2>2. inst_status[i] # "paid"
    BY <2>1 DEF OneClaim
  <2>3. payment_id[i] = None /\ item_of[i] = None
    BY <2>2 DEF PaidOnce
  <2>. QED
    BY <2>1, <2>2, <2>3, ConstantsAssumption DEF PaidOnce
<1>7. ASSUME NEW i \in Installments, NEW c \in W, i \in items[c]
      PROVE  /\ c \in Payments => payment_id'[i] = c /\ item_of'[i] = None
             /\ c \in Batches => payment_id'[i] = None /\ item_of'[i] = c
  <2>1. /\ payment_id'[i] \in Links(W \cap Payments, i, payment_id[i])
        /\ item_of'[i] \in Links(W \cap Batches, i, item_of[i])
    BY DEF Resolve, PayInstallments
  <2>2. ASSUME c \in Payments
        PROVE  {d \in W \cap Payments : i \in items[d]} = {c} /\ ~\E d \in W \cap Batches : i \in items[d]
    BY <2>2, <1>6, <1>7, ConstantsAssumption
  <2>3. ASSUME c \in Batches
        PROVE  {d \in W \cap Batches : i \in items[d]} = {c} /\ ~\E d \in W \cap Payments : i \in items[d]
    BY <2>3, <1>6, <1>7, ConstantsAssumption
  <2>. QED
    BY <1>6, <1>7, <2>1, <2>2, <2>3 DEF Links
<1>8. ASSUME NEW i \in Installments, ~\E c \in W : i \in items[c]
      PROVE  payment_id'[i] = payment_id[i] /\ item_of'[i] = item_of[i]
  BY <1>8 DEF Resolve, PayInstallments, Links
<1>9. OneClaim'
  <2>1. ASSUME NEW i \in Installments, NEW c \in Sources, NEW d \in Sources,
               status'[c] = "initiated", i \in items[c], status'[d] = "initiated", i \in items[d]
        PROVE  c = d
    BY <2>1, <1>4 DEF OneClaim
  <2>2. ASSUME NEW i \in Installments, inst_status'[i] = "paid",
               NEW d \in Sources, status'[d] = "initiated", i \in items[d]
        PROVE  FALSE
    <3>1. status[d] = "initiated" /\ d \notin W /\ InFlight(i)
      BY <2>2, <1>4 DEF InFlight
    <3>2. inst_status[i] # "paid"
      BY <3>1 DEF OneClaim
    <3>3. PICK c \in W : i \in items[c]
      BY <2>2, <3>2, <1>5
    <3>4. c = d
      BY <3>1, <3>3, <1>1, <2>2 DEF OneClaim
    <3>. QED
      BY <3>1, <3>3, <3>4
  <2>. QED
    BY <2>1, <2>2, <1>3 DEF OneClaim, InFlight
<1>10. PaidOnce'
  <2>. SUFFICES ASSUME NEW i \in Installments
                PROVE  /\ inst_status'[i] = "paid" <=> (payment_id'[i] # None \/ item_of'[i] # None)
                       /\ payment_id'[i] = None \/ item_of'[i] = None
                       /\ \A c \in Sources : status'[c] = "success" /\ i \in items[c]
                                               <=> c \in {payment_id'[i], item_of'[i]}
    BY <1>3 DEF PaidOnce
  <2>0. payment_id'[i] = None \/ item_of'[i] = None
    BY DEF Resolve, PayInstallments
  <2>1. ASSUME NEW c \in W, i \in items[c]
        PROVE  /\ inst_status'[i] = "paid" /\ (payment_id'[i] # None \/ item_of'[i] # None)
               /\ \A d \in Sources : status'[d] = "success" /\ i \in items[d] <=> d = c
               /\ \A d \in Sources : d \in {payment_id'[i], item_of'[i]} <=> d = c
    <3>1. c \in Sources /\ c # None
      BY <1>1, ConstantsAssumption
    <3>2. (payment_id'[i] = c /\ item_of'[i] = None) \/ (payment_id'[i] = None /\ item_of'[i] = c)
      BY <2>1, <3>1, <1>7 DEF Sources
    <3>3. inst_status'[i] = "paid"
      BY <2>1, <1>5
    <3>4. \A d \in Sources : status'[d] = "success" /\ i \in items[d] <=> d = c
      BY <2>1, <3>1, <1>4, <1>6
    <3>5. None \notin Sources
      BY ConstantsAssumption
    <3>. QED
      BY <3>1, <3>2, <3>3, <3>4, <3>5
  <2>2. ASSUME ~\E c \in W : i \in items[c]
        PROVE  /\ inst_status'[i] = "paid" <=> (payment_id'[i] # None \/ item_of'[i] # None)
               /\ \A c \in Sources : status'[c] = "success" /\ i \in items[c]
                                       <=> c \in {payment_id'[i], item_of'[i]}
    <3>1. inst_status'[i] = inst_status[i] /\ payment_id'[i] = payment_id[i] /\ item_of'[i] = item_of[i]
      BY <2>2, <1>5, <1>8
    <3>2. \A c \in Sources : i \in items[c] => (status'[c] = "success" <=> status[c] = "success")
      BY <2>2, <1>4
    <3>. QED
      BY <3>1, <3>2 DEF PaidOnce
  <2>. QED
    BY <2>0, <2>1, <2>2
<1>11. BooksMatchOutcomes'
  <2>1. \A c \in Sources, i \in Installments :
          postings'[c][i] = IF c \in W /\ i \in items[c] THEN postings[c][i] + 1 ELSE postings[c][i]
    BY DEF Resolve, Post
  <2>2. \A c \in Sources :
          payouts'[c] = IF c \in W /\ items[c] \ Shareless # {} THEN payouts[c] + 1 ELSE payouts[c]
    BY DEF Resolve, Settle
  <2>3. \A c \in Sources : c \in W => status[c] # "success" /\ status'[c] = "success"
    BY <1>1, <1>4
  <2>4. \A c \in Sources : c \notin W => (status'[c] = "success" <=> status[c] = "success")
    BY <1>4
  <2>. QED
    BY <1>3, <2>1, <2>2, <2>3, <2>4 DEF BooksMatchOutcomes
<1>. QED
  BY <1>9, <1>10, <1>11

\* Inserting a row for installments that are payable and not in flight.
LEMMA InsertKeepsClaims ==
  ASSUME TypeOK, OneClaim, PaidOnce, BooksMatchOutcomes,
         NEW w \in Workers, NEW c \in Sources, Insert(w, c),
         \A i \in work[w].items : inst_status[i] \in Payable /\ ~InFlight(i)
  PROVE  OneClaim' /\ PaidOnce' /\ BooksMatchOutcomes'
<1>1. /\ status[c] = "absent" /\ status'[c] = "initiated" /\ items'[c] = work[w].items
      /\ \A d \in Sources : d # c => status'[d] = status[d] /\ items'[d] = items[d]
      /\ UNCHANGED <<inst_status, payment_id, item_of, postings, payouts>>
  BY DEF Insert, TypeOK, instVars, bookVars
<1>2. OneClaim'
  <2>1. \A i \in work[w].items, d \in Sources : status[d] = "initiated" => i \notin items[d]
    BY DEF InFlight
  <2>2. \A i \in work[w].items : inst_status[i] # "paid"
    BY DEF Payable
  <2>. QED
    BY <1>1, <2>1, <2>2 DEF OneClaim, InFlight
<1>3. PaidOnce'
  BY <1>1 DEF PaidOnce
<1>4. BooksMatchOutcomes'
  BY <1>1 DEF BooksMatchOutcomes
<1>. QED
  BY <1>2, <1>3, <1>4

\* Flagging installments overdue that are still due.
LEMMA OverdueKeepsClaims ==
  ASSUME TypeOK, OneClaim, PaidOnce, BooksMatchOutcomes,
         NEW w \in Workers, CommitOverdue(w), \A i \in work[w].items : inst_status[i] = "due"
  PROVE  OneClaim' /\ PaidOnce' /\ BooksMatchOutcomes'
<1>1. /\ \A i \in Installments : inst_status'[i] = "paid" <=> inst_status[i] = "paid"
      /\ UNCHANGED <<payment_id, item_of, status, items, postings, payouts>>
  BY DEF CommitOverdue, TypeOK, claimVars, bookVars
<1>. QED
  BY <1>1 DEF OneClaim, InFlight, PaidOnce, BooksMatchOutcomes

\* A step that commits on current reads only keeps claims, links and books.
LEMMA ClaimsStay ==
  ASSUME TypeOK, [Next]_vars, [CommitIsCurrent]_vars, OneClaim, PaidOnce, BooksMatchOutcomes
  PROVE  OneClaim' /\ PaidOnce' /\ BooksMatchOutcomes'
<1>1. CASE UNCHANGED <<instVars, status, items, raw_ref, bookVars>>
  BY <1>1 DEF OneClaim, InFlight, PaidOnce, BooksMatchOutcomes, instVars, bookVars
<1>2. ASSUME NEW w \in Workers, Ends(w), CommitOverdue(w)
      PROVE  OneClaim' /\ PaidOnce' /\ BooksMatchOutcomes'
  <2>1. \A i \in work[w].items : inst_status[i] = "due"
    BY <1>2, EndsCurrent DEF CommitOverdue, ReadsAreCurrent
  <2>. QED
    BY <1>2, <2>1, OverdueKeepsClaims
<1>3. ASSUME NEW w \in Workers, NEW d \in Sources, Ends(w), work[w].op \in {"pay", "bulk"}, Insert(w, d)
      PROVE  OneClaim' /\ PaidOnce' /\ BooksMatchOutcomes'
  <2>1. \A i \in work[w].items : inst_status[i] \in Payable /\ ~InFlight(i)
    BY <1>3, EndsCurrent DEF ReadsAreCurrent
  <2>. QED
    BY <1>3, <2>1, InsertKeepsClaims
<1>4. ASSUME NEW w \in Workers, NEW R \in SUBSET work[w].targets,
             Ends(w), work[w].op \in {"webhook", "reconcile_batches"}, Resolve(R)
      PROVE  OneClaim' /\ PaidOnce' /\ BooksMatchOutcomes'
  <2>1. R \in SUBSET (Sources \X Transfers)
    BY DEF TypeOK, Work
  <2>2. \A c \in Sources, t \in Transfers : <<c, t>> \in R => status[c] = "initiated"
    BY <1>4, EndsCurrent DEF ReadsAreCurrent
  <2>. QED
    BY <1>4, <2>1, <2>2, ResolveKeepsClaims
<1>. QED
  BY <1>1, <1>2, <1>3, <1>4, OutcomeSteps

\* The strengthening behind the theorems below.
ClaimsInv == TypeOK /\ OneClaim /\ PaidOnce /\ BooksMatchOutcomes

\* It holds at first.
LEMMA InitClaims == Init => ClaimsInv
<1>1. Init => TypeOK
  BY IdleIsWork DEF Init, TypeOK, Payable
<1>2. Init => OneClaim /\ PaidOnce /\ BooksMatchOutcomes
  BY ConstantsAssumption DEF Init, OneClaim, InFlight, PaidOnce, BooksMatchOutcomes
<1>. QED
  BY <1>1, <1>2 DEF ClaimsInv

\* It holds throughout when commits are current.
LEMMA ClaimsInvariant == Spec /\ CommitsAreCurrent => []ClaimsInv
<1>1. ClaimsInv /\ [Next]_vars /\ [CommitIsCurrent]_vars => ClaimsInv'
  BY TypeOKStays, ClaimsStay DEF ClaimsInv
<1>. QED
  BY <1>1, InitClaims, PTL DEF Spec, CommitsAreCurrent

\* Commits are current when no two transactions are in progress at once, in whatever
\* processes they run.
THEOREM NoOverlapIsCurrent == Spec /\ []NoOverlap => CommitsAreCurrent
<1>1. Init => WorkCurrent
  BY DEF Init, Idle, WorkCurrent, ReadsAreCurrent
<1>2. TypeOK /\ WorkCurrent /\ NoOverlap /\ [Next]_vars => WorkCurrent'
  BY WorkCurrentStays
<1>3. WorkCurrent => [CommitIsCurrent]_vars
  BY DEF WorkCurrent, CommitIsCurrent
<1>. QED
  BY <1>1, <1>2, <1>3, TypeCorrect, PTL DEF Spec, CommitsAreCurrent

\* So they are in the run with one worker.
COROLLARY SerialIsCurrent == ASSUME Serial PROVE Spec => CommitsAreCurrent
<1>1. NoOverlap
  BY DEF Serial, NoOverlap
<1>. QED
  BY <1>1, NoOverlapIsCurrent, PTL

\* While commits are current, an installment is claimed by one row in flight at most,
\* and by none once it is paid.
THEOREM OneClaimAtATime == Spec /\ CommitsAreCurrent => []OneClaim
<1>1. ClaimsInv => OneClaim
  BY DEF ClaimsInv
<1>. QED
  BY <1>1, ClaimsInvariant, PTL

\* While commits are current, an installment is paid by exactly the row it is linked to.
THEOREM InstallmentPaidOnce == Spec /\ CommitsAreCurrent => []PaidOnce
<1>1. ClaimsInv => PaidOnce
  BY DEF ClaimsInv
<1>. QED
  BY <1>1, ClaimsInvariant, PTL

\* While commits are current, there is one posting group per installment and one
\* settlement per successful row, and none for any other row.
THEOREM BooksMatch == Spec /\ CommitsAreCurrent => []BooksMatchOutcomes
<1>1. ClaimsInv => BooksMatchOutcomes
  BY DEF ClaimsInv
<1>. QED
  BY <1>1, ClaimsInvariant, PTL

\* A step that commits on current reads only resolves no row again.
LEMMA OutcomesStay ==
  ASSUME TypeOK, [Next]_vars, [CommitIsCurrent]_vars
  PROVE  /\ \A c \in Sources : status[c] \in Terminal =>
              status'[c] = status[c] /\ raw_ref'[c] = raw_ref[c]
         /\ \A i \in Installments : inst_status[i] = "paid" => inst_status'[i] = "paid"
<1>. DEFINE Final == /\ \A c \in Sources : status[c] \in Terminal =>
                          status'[c] = status[c] /\ raw_ref'[c] = raw_ref[c]
                     /\ \A i \in Installments : inst_status[i] = "paid" => inst_status'[i] = "paid"
<1>1. CASE UNCHANGED <<instVars, status, items, raw_ref, bookVars>>
  BY <1>1 DEF instVars
<1>2. ASSUME NEW w \in Workers, Ends(w), CommitOverdue(w) PROVE Final
  BY <1>2, EndsCurrent DEF CommitOverdue, ReadsAreCurrent, claimVars, TypeOK
<1>3. ASSUME NEW w \in Workers, NEW d \in Sources, Insert(w, d) PROVE Final
  BY <1>3 DEF Insert, Terminal, instVars, TypeOK
<1>4. ASSUME NEW w \in Workers, NEW R \in SUBSET work[w].targets,
             Ends(w), work[w].op \in {"webhook", "reconcile_batches"}, Resolve(R)
      PROVE  Final
  <2>1. \A c \in Won(R) \cup Lost(R) : status[c] = "initiated"
    BY <1>4, EndsCurrent DEF Won, Lost, Rows, ReadsAreCurrent
  <2>. QED
    BY <1>4, <2>1 DEF Resolve, MarkRows, PayInstallments, Terminal
<1>. QED
  BY <1>1, <1>2, <1>3, <1>4, OutcomeSteps

\* While commits are current, an outcome is never changed and a paid installment stays paid.
THEOREM OutcomesFinal == Spec /\ CommitsAreCurrent => OutcomesAreFinal
<1>. DEFINE Final == /\ \A c \in Sources : status[c] \in Terminal =>
                          status'[c] = status[c] /\ raw_ref'[c] = raw_ref[c]
                     /\ \A i \in Installments : inst_status[i] = "paid" => inst_status'[i] = "paid"
<1>1. TypeOK /\ [Next]_vars /\ [CommitIsCurrent]_vars => [Final]_vars
  BY OutcomesStay
<1>. QED
  BY <1>1, TypeCorrect, PTL DEF Spec, CommitsAreCurrent, OutcomesAreFinal

-----------------------------------------------------------------------------
(* A processed event has decided a row.                                    *)

\* A webhook handler past its matching has one row for its event's transfer.
WebhookHasRow ==
  \A w \in Workers : work[w].op = "webhook" =>
    /\ work[w].key \in Events
    /\ \E c \in Sources : work[w].targets = {<<c, TransferOf[work[w].key]>>}

\* A step leaves it so, or ends the handler.
LEMMA WebhookHasRowStays ==
  ASSUME TypeOK, [Next]_vars, WebhookHasRow
  PROVE  WebhookHasRow'
<1>. SUFFICES ASSUME NEW w \in Workers, work'[w].op = "webhook"
              PROVE  /\ work'[w].key \in Events
                     /\ \E c \in Sources : work'[w].targets = {<<c, TransferOf[work'[w].key]>>}
  BY DEF WebhookHasRow
<1>1. CASE work'[w] = work[w]
  BY <1>1 DEF WebhookHasRow
<1>2. work'[w] # Idle
  BY DEF Idle
<1>3. ASSUME NEW i \in Installments, BeginPayment(w, i) PROVE FALSE
  BY <1>3, BeginSetsWork DEF BeginPayment, Idle
<1>4. ASSUME NEW S \in SUBSET Installments, BeginBulk(w, S) PROVE FALSE
  BY <1>4, BeginSetsWork DEF BeginBulk, Idle
<1>5. ASSUME NEW S \in SUBSET Installments, BeginOverdue(w, S) PROVE FALSE
  BY <1>5, BeginSetsWork DEF BeginOverdue, Idle
<1>6. ASSUME BeginReconcile(w) PROVE FALSE
  BY <1>6, BeginSetsWork DEF BeginReconcile, Idle
<1>7. ASSUME ReadStaleBatches(w) PROVE FALSE
  BY <1>7 DEF ReadStaleBatches, Idle, TypeOK
<1>8. ASSUME NEW e \in Events, Matched(w, e)
      PROVE  work'[w].key = e /\ \E c \in Sources : work'[w].targets = {<<c, TransferOf[e]>>}
  BY <1>8, MatchedWork
<1>. QED
  BY <1>1, <1>2, <1>3, <1>4, <1>5, <1>6, <1>7, <1>8, WorkSteps

\* An event becomes processed only when a handler resolves its row.
LEMMA EventSteps ==
  ASSUME TypeOK, [Next]_vars, NEW e \in Events, event'[e] = "processed", event[e] # "processed"
  PROVE  \E w \in Workers : ResolveWebhook(w) /\ work[w].key = e
<1>. USE DEF TypeOK
<1>1. ASSUME NEW w \in Workers, CommitPayment(w) \/ CommitBulk(w) PROVE FALSE
  BY <1>1 DEF CommitPayment, CommitBulk, Insert
<1>2. ASSUME NEW w \in Workers, ResolveWebhook(w) PROVE work[w].key = e
  BY <1>2 DEF ResolveWebhook, StoreReference
<1>3. ASSUME NEW w \in Workers, NEW f \in Events, AnsweredAtOnce(w, f) PROVE FALSE
  BY <1>3 DEF AnsweredAtOnce, WebhookBadSignature, WebhookUnmatched
<1>4. ASSUME NEW w \in Workers, WebhookVerifyFails(w) PROVE FALSE
  BY <1>4 DEF WebhookVerifyFails, StoreReference
<1>5. ASSUME NEW w \in Workers, FinishReconcile(w) PROVE FALSE
  BY <1>5 DEF FinishReconcile
<1>6. CASE UNCHANGED event
  BY <1>6
<1>7. ASSUME NEW w \in Workers, Step(w)
      PROVE  \/ UNCHANGED event \/ CommitPayment(w) \/ CommitBulk(w)
             \/ \E f \in Events : AnsweredAtOnce(w, f)
             \/ WebhookVerifyFails(w) \/ ResolveWebhook(w) \/ FinishReconcile(w)
  BY <1>7 DEF Step, AnsweredAtOnce, BeginPayment, BeginBulk, BeginOverdue, CommitOverdue, BeginWebhook,
     BeginReconcile, ReadStaleBatches, Abort, Begin
<1>8. Environment => UNCHANGED event
  BY DEF Environment, SendMoney, SquadAdvances, GrowStale, CreateVirtualAccount
<1>9. UNCHANGED vars => UNCHANGED event
  BY DEF vars
<1>. QED
  BY <1>1, <1>2, <1>3, <1>4, <1>5, <1>6, <1>7, <1>8, <1>9 DEF Next

\* Resolving one row by an answered transfer gives it an outcome and that transfer.
LEMMA WebhookDecides ==
  ASSUME TypeOK, WebhookHasRow, NEW w \in Workers, ResolveWebhook(w)
  PROVE  \E c \in Sources : raw_ref'[c] = TransferOf[work[w].key] /\ status'[c] \in Terminal
<1>. DEFINE t == TransferOf[work[w].key]
            R == work[w].targets
<1>1. work[w].op = "webhook" /\ squad[t] \in Answers /\ Resolve(R)
  BY DEF ResolveWebhook, StoreReference
<1>2. t \in Transfers
  BY <1>1, ConstantsAssumption DEF WebhookHasRow
<1>3. PICK c \in Sources : R = {<<c, t>>}
  BY <1>1 DEF WebhookHasRow
<1>4. c \in Won(R) \cup Lost(R)
  BY <1>1, <1>2, <1>3 DEF Won, Lost, Rows, Answers
<1>5. (CHOOSE u \in Transfers : <<c, u>> \in R) = t
  BY <1>2, <1>3
<1>6. raw_ref'[c] = t /\ status'[c] \in Terminal
  <2>. HIDE DEF t, R
  <2>. QED
    BY <1>1, <1>4, <1>5 DEF Resolve, MarkRows, Terminal
<1>. QED
  BY <1>6

\* While commits are current, an event marked processed has decided a row, which still
\* says so.
THEOREM ProcessedDecided == Spec /\ CommitsAreCurrent => []ProcessedDecidedARow
<1>. DEFINE IInv == WebhookHasRow /\ ProcessedDecidedARow
<1>1. Init => IInv
  BY DEF Init, Idle, WebhookHasRow, ProcessedDecidedARow
<1>2. TypeOK /\ IInv /\ [Next]_vars /\ [CommitIsCurrent]_vars => IInv'
  <2>. SUFFICES ASSUME TypeOK, WebhookHasRow, ProcessedDecidedARow,
                       [Next]_vars, [CommitIsCurrent]_vars
                PROVE  WebhookHasRow' /\ ProcessedDecidedARow'
    OBVIOUS
  <2>. SUFFICES ASSUME NEW e \in Events, event'[e] = "processed"
                PROVE  \E c \in Sources : raw_ref'[c] = TransferOf[e] /\ status'[c] \in Terminal
    BY WebhookHasRowStays DEF ProcessedDecidedARow
  <2>1. CASE event[e] = "processed"
    BY <2>1, OutcomesStay DEF ProcessedDecidedARow
  <2>2. CASE event[e] # "processed"
    BY <2>2, EventSteps, WebhookDecides
  <2>. QED
    BY <2>1, <2>2
<1>3. IInv => ProcessedDecidedARow
  OBVIOUS
<1>. QED
  BY <1>1, <1>2, <1>3, TypeCorrect, PTL DEF Spec, CommitsAreCurrent

-----------------------------------------------------------------------------
(* When a transfer can pay for a second row.                               *)

\* A transfer that is on some row, as its reference or its outcome, has had an event
\* taken up and not rejected.
RowsHaveEvents ==
  \A c \in Sources, t \in Transfers :
    tx_ref[c] = t \/ raw_ref[c] = t => \E e \in EventsOf(t) : event[e] \in {"failed", "processed"}

\* A handler's event is as it was when it was read, and so are the references a
\* reconciliation run works with.
ReferencesCurrent ==
  \A w \in Workers :
    /\ work[w].op = "webhook" => event[work[w].key] = IF work[w].fresh THEN "none" ELSE "failed"
    /\ work[w].op \in {"reconcile", "reconcile_batches"} =>
         \A c \in Sources, t \in Transfers : <<c, t>> \in work[w].targets => tx_ref[c] = t

\* Events and references are written by a delivery or by a worker that is then done.
LEMMA ReferenceSteps ==
  ASSUME TypeOK, [Next]_vars
  PROVE  \/ UNCHANGED <<tx_ref, raw_ref, event>>
         \/ \E w \in Workers, e \in Events : AnsweredAtOnce(w, e)
         \/ \E w \in Workers : /\ WebhookVerifyFails(w) \/ ResolveWebhook(w) \/ FinishReconcile(w)
                               /\ work[w].op # "idle" /\ work'[w] = Idle
<1>1. CASE Environment
  BY <1>1 DEF Environment, SendMoney, SquadAdvances, GrowStale, CreateVirtualAccount, claimVars
<1>2. CASE UNCHANGED vars
  BY <1>2 DEF vars, claimVars
<1>3. ASSUME NEW w \in Workers, CommitPayment(w) \/ CommitBulk(w)
      PROVE  UNCHANGED <<tx_ref, raw_ref, event>>
  BY <1>3 DEF CommitPayment, CommitBulk, Insert
<1>4. ASSUME NEW w \in Workers, WebhookVerifyFails(w) \/ ResolveWebhook(w) \/ FinishReconcile(w)
      PROVE  work[w].op # "idle" /\ work'[w] = Idle
  BY <1>4 DEF WebhookVerifyFails, ResolveWebhook, StoreReference, FinishReconcile, TypeOK
<1>5. ASSUME NEW w \in Workers, Step(w)
      PROVE  \/ UNCHANGED <<tx_ref, raw_ref, event>>
             \/ CommitPayment(w) \/ CommitBulk(w)
             \/ \E e \in Events : AnsweredAtOnce(w, e)
             \/ WebhookVerifyFails(w) \/ ResolveWebhook(w) \/ FinishReconcile(w)
  BY <1>5 DEF Step, AnsweredAtOnce, BeginPayment, BeginBulk, BeginOverdue, CommitOverdue, BeginWebhook,
     BeginReconcile, ReadStaleBatches, Abort, Begin, claimVars
<1>. QED
  BY <1>1, <1>2, <1>3, <1>4, <1>5 DEF Next

\* A transfer a resolution leaves on a row was on it, or is the one it was read with.
LEMMA ResolvedWith ==
  ASSUME NEW R, Resolve(R), NEW c \in Sources, NEW t \in Transfers, raw_ref'[c] = t
  PROVE  raw_ref[c] = t \/ <<c, t>> \in R
<1>1. CASE c \in Won(R) \cup Lost(R)
  <2>1. \E u \in Transfers : <<c, u>> \in R
    BY <1>1 DEF Won, Lost, Rows
  <2>2. <<c, CHOOSE u \in Transfers : <<c, u>> \in R>> \in R
    BY <2>1
  <2>. QED
    BY <1>1, <2>2 DEF Resolve, MarkRows
<1>. QED
  BY <1>1 DEF Resolve, MarkRows

\* Whatever is written on a row is of an event that has been taken up.
LEMMA RowsHaveEventsStay ==
  ASSUME TypeOK, [Next]_vars, WebhookHasRow, RowsHaveEvents, ReferencesCurrent
  PROVE  RowsHaveEvents'
<1>. USE DEF TypeOK
<1>1. CASE UNCHANGED <<tx_ref, raw_ref, event>>
  BY <1>1 DEF RowsHaveEvents, EventsOf
<1>2. ASSUME NEW w \in Workers, NEW f \in Events, AnsweredAtOnce(w, f) PROVE RowsHaveEvents'
  <2>1. /\ UNCHANGED <<tx_ref, raw_ref>>
        /\ \A e \in Events : event[e] \in {"failed", "processed"} => event'[e] \in {"failed", "processed"}
    BY <1>2 DEF AnsweredAtOnce, WebhookBadSignature, WebhookUnmatched, TakenUp, claimVars
  <2>. QED
    BY <2>1 DEF RowsHaveEvents, EventsOf
<1>3. ASSUME NEW w \in Workers, WebhookVerifyFails(w) \/ ResolveWebhook(w)
      PROVE  RowsHaveEvents'
  <2>0. work[w].op = "webhook" /\ work[w].key \in Events
    BY <1>3 DEF WebhookVerifyFails, ResolveWebhook, StoreReference, WebhookHasRow
  <2>. DEFINE f == work[w].key
              u == TransferOf[f]
  <2>1. /\ event'[f] \in {"failed", "processed"}
        /\ \A e \in Events : e # f => event'[e] = event[e]
    BY <1>3, <2>0 DEF WebhookVerifyFails, StoreReference, ResolveWebhook, ReferencesCurrent
  <2>2. \A c \in Sources : tx_ref'[c] = tx_ref[c] \/ tx_ref'[c] = u
    BY <1>3 DEF WebhookVerifyFails, ResolveWebhook, StoreReference
  <2>3. ASSUME NEW c \in Sources, NEW t \in Transfers, raw_ref'[c] = t
        PROVE  raw_ref[c] = t \/ t = u
    <3>1. CASE WebhookVerifyFails(w)
      BY <2>3, <3>1 DEF WebhookVerifyFails, StoreReference
    <3>2. CASE ResolveWebhook(w)
      <4>1. Resolve(work[w].targets) /\ (<<c, t>> \in work[w].targets => t = u)
        BY <2>0, <3>2 DEF ResolveWebhook, StoreReference, WebhookHasRow
      <4>. QED
        BY <2>3, <4>1, ResolvedWith
    <3>. QED
      BY <1>3, <3>1, <3>2
  <2>4. ASSUME NEW c \in Sources, NEW t \in Transfers, tx_ref'[c] = t \/ raw_ref'[c] = t
        PROVE  \E e \in EventsOf(t) : event'[e] \in {"failed", "processed"}
    <3>1. CASE t = u
      BY <2>0, <2>1, <3>1 DEF EventsOf
    <3>2. CASE t # u
      <4>1. PICK e \in EventsOf(t) : event[e] \in {"failed", "processed"}
        BY <2>2, <2>3, <2>4, <3>2 DEF RowsHaveEvents
      <4>2. e \in Events /\ e # f
        BY <3>2 DEF EventsOf
      <4>. QED
        BY <2>1, <4>1, <4>2
    <3>. QED
      BY <3>1, <3>2
  <2>. QED
    BY <2>4 DEF RowsHaveEvents, EventsOf
<1>4. ASSUME NEW w \in Workers, FinishReconcile(w) PROVE RowsHaveEvents'
  <2>1. \A c \in Sources, t \in Transfers :
          raw_ref'[c] = t => raw_ref[c] = t \/ <<c, t>> \in work[w].targets
    BY <1>4, ResolvedWith DEF FinishReconcile
  <2>2. /\ work[w].op = "reconcile_batches" /\ UNCHANGED <<tx_ref, event>>
    BY <1>4 DEF FinishReconcile
  <2>3. \A c \in Sources, t \in Transfers :
          tx_ref'[c] = t \/ raw_ref'[c] = t => tx_ref[c] = t \/ raw_ref[c] = t
    BY <2>1, <2>2 DEF ReferencesCurrent
  <2>4. \A t \in Transfers : EventsOf(t)' = EventsOf(t)
    BY DEF EventsOf
  <2>. QED
    BY <2>2, <2>3, <2>4 DEF RowsHaveEvents
<1>. QED
  BY <1>1, <1>2, <1>3, <1>4, ReferenceSteps

\* While transactions do not overlap, nobody writes what the one in progress has read;
\* deliveries that are answered at once respect the key of its event.
LEMMA ReferencesStayCurrent ==
  ASSUME TypeOK, [Next]_vars, NoOverlap, WebhookHasRow, ReferencesCurrent
  PROVE  ReferencesCurrent'
<1>. DEFINE Current(v) ==
       /\ work[v].op = "webhook" => event[work[v].key] = IF work[v].fresh THEN "none" ELSE "failed"
       /\ work[v].op \in {"reconcile", "reconcile_batches"} =>
            \A c \in Sources, t \in Transfers : <<c, t>> \in work[v].targets => tx_ref[c] = t
<1>. SUFFICES ASSUME NEW v \in Workers
              PROVE  Current(v)'
  BY DEF ReferencesCurrent
<1>0. Current(v)
  BY DEF ReferencesCurrent
<1>1. CASE work'[v] = work[v]
  <2>1. CASE UNCHANGED <<tx_ref, raw_ref, event>>
    BY <1>0, <1>1, <2>1
  <2>2. ASSUME NEW w \in Workers, NEW u \in Events, AnsweredAtOnce(w, u) PROVE Current(v)'
    <3>1. /\ UNCHANGED <<tx_ref, work>> /\ event[u] \in {"none", "failed"}
          /\ work[v].key = u => ~work[v].fresh
          /\ \/ event' = [event EXCEPT ![u] = "rejected"] /\ event[u] = "none"
             \/ event' = [event EXCEPT ![u] = "failed"]
      BY <2>2 DEF AnsweredAtOnce, WebhookBadSignature, WebhookUnmatched, TakenUp, Arrives,
         EventKeyHeld, claimVars
    <3>2. work[v].op = "webhook" => work[v].key \in Events
      BY DEF WebhookHasRow
    <3>. QED
      BY <1>0, <3>1, <3>2 DEF TypeOK
  <2>3. ASSUME NEW w \in Workers, work[w].op # "idle", work'[w] = Idle
        PROVE  Current(v)'
    <3>1. CASE work[v].op = "idle"
      BY <1>1, <3>1
    <3>2. work[v].op # "idle" => FALSE
      BY <1>1, <2>3 DEF NoOverlap, Idle
    <3>. QED
      BY <3>1, <3>2
  <2>. QED
    BY <2>1, <2>2, <2>3, ReferenceSteps
<1>2. CASE work'[v] = Idle
  BY <1>2 DEF Idle
<1>3. ASSUME NEW i \in Installments, BeginPayment(v, i) PROVE Current(v)'
  BY <1>3, BeginSetsWork DEF BeginPayment, Idle
<1>4. ASSUME NEW S \in SUBSET Installments, BeginBulk(v, S) PROVE Current(v)'
  BY <1>4, BeginSetsWork DEF BeginBulk, Idle
<1>5. ASSUME NEW S \in SUBSET Installments, BeginOverdue(v, S) PROVE Current(v)'
  BY <1>5, BeginSetsWork DEF BeginOverdue, Idle
<1>6. ASSUME NEW e \in Events, Matched(v, e) PROVE Current(v)'
  <2>1. /\ work'[v].op = "webhook" /\ work'[v].key = e
        /\ work'[v].fresh <=> event[e] = "none"
    BY <1>6, MatchedWork
  <2>2. UNCHANGED event /\ event[e] \in {"none", "failed"}
    BY <1>6, MatchedRow DEF Begin
  <2>. QED
    BY <2>1, <2>2
<1>7. ASSUME BeginReconcile(v) PROVE Current(v)'
  <2>1. work'[v] = [Idle EXCEPT !.op = "reconcile", !.targets = StaleRefs(Payments)]
    BY <1>7, BeginSetsWork DEF BeginReconcile
  <2>2. work'[v].op = "reconcile" /\ work'[v].targets = StaleRefs(Payments)
    BY <2>1 DEF Idle
  <2>3. UNCHANGED tx_ref
    BY <1>7 DEF BeginReconcile, Begin, claimVars
  <2>. QED
    BY <2>2, <2>3 DEF StaleRefs
<1>8. ASSUME ReadStaleBatches(v) PROVE Current(v)'
  <2>1. /\ work[v].op = "reconcile" /\ work'[v].op = "reconcile_batches"
        /\ work'[v].targets = work[v].targets \cup StaleRefs(Batches)
        /\ UNCHANGED tx_ref
    BY <1>8 DEF ReadStaleBatches, Idle, claimVars, TypeOK
  <2>. QED
    BY <1>0, <2>1 DEF StaleRefs
<1>. QED
  BY <1>1, <1>2, <1>3, <1>4, <1>5, <1>6, <1>7, <1>8, WorkSteps

\* How a step may let row c succeed by transfer t when t is on another row already.
ReusesTransfer(c, t) ==
  \/ tx_ref[c] = t
  \/ \E e \in EventsOf(t) : event[e] = "failed" /\ event'[e] = "processed"
  \/ \E e, f \in EventsOf(t) : /\ event[e] = "none" /\ event'[e] = "processed"
                                /\ event[f] \in {"failed", "processed"}

\* A row that succeeds by a transfer another row has succeeded by had that transfer as
\* its reference, or an event of the transfer is processed that had failed, or that
\* came after another one.
LEMMA SecondUse ==
  ASSUME TypeOK, [Next]_vars, WebhookHasRow, RowsHaveEvents, ReferencesCurrent,
         NEW c \in Sources, NEW d \in Sources, d # c, NEW t \in Transfers,
         status[c] # "success", status'[c] = "success", raw_ref'[c] = t, raw_ref'[d] = t
  PROVE  ReusesTransfer(c, t)
<1>1. ASSUME NEW R, Resolve(R) PROVE <<c, t>> \in R
  <2>1. c \in Won(R) /\ raw_ref' = [b \in Sources |->
          IF b \in Won(R) \cup Lost(R) THEN CHOOSE u \in Transfers : <<b, u>> \in R ELSE raw_ref[b]]
    BY <1>1 DEF Resolve, MarkRows
  <2>2. \E u \in Transfers : <<c, u>> \in R
    BY <2>1 DEF Won, Rows
  <2>. QED
    BY <2>1, <2>2
<1>2. ASSUME NEW w \in Workers, ResolveWebhook(w) PROVE ReusesTransfer(c, t)
  <2>1. /\ work[w].op = "webhook" /\ Resolve(work[w].targets)
        /\ event' = [event EXCEPT ![work[w].key] = "processed"]
    BY <1>2 DEF ResolveWebhook, StoreReference
  <2>2. PICK b \in Sources : work[w].targets = {<<b, TransferOf[work[w].key]>>}
    BY <2>1 DEF WebhookHasRow
  <2>3. b = c /\ TransferOf[work[w].key] = t
    BY <1>1, <2>1, <2>2
  <2>4. /\ work[w].key \in EventsOf(t) /\ event'[work[w].key] = "processed"
        /\ event[work[w].key] \in {"none", "failed"}
    BY <2>1, <2>3 DEF WebhookHasRow, ReferencesCurrent, EventsOf, TypeOK
  <2>5. raw_ref[d] = t
    <3>1. <<d, t>> \notin work[w].targets
      BY <2>2, <2>3
    <3>. QED
      BY <2>1, <3>1, ResolvedWith
  <2>6. PICK f \in EventsOf(t) : event[f] \in {"failed", "processed"}
    BY <2>5 DEF RowsHaveEvents
  <2>. QED
    BY <2>4, <2>6 DEF ReusesTransfer
<1>3. ASSUME NEW w \in Workers, FinishReconcile(w)
      PROVE  tx_ref[c] = t
  <2>1. /\ work[w].op = "reconcile_batches"
        /\ Resolve({p \in work[w].targets : squad[p[2]] \in Answers})
    BY <1>3 DEF FinishReconcile
  <2>. QED
    BY <1>1, <2>1 DEF ReferencesCurrent
<1>4. \E w \in Workers : ResolveWebhook(w) \/ FinishReconcile(w)
  <2>1. Environment => UNCHANGED status
    BY DEF Environment, SendMoney, SquadAdvances, GrowStale, CreateVirtualAccount, claimVars
  <2>2. UNCHANGED vars => UNCHANGED status
    BY DEF vars, claimVars
  <2>3. ASSUME NEW w \in Workers, CommitPayment(w) \/ CommitBulk(w) PROVE status'[c] # "success"
    BY <2>3 DEF CommitPayment, CommitBulk, Insert, TypeOK
  <2>4. ASSUME NEW w \in Workers, Step(w)
        PROVE  \/ UNCHANGED status \/ CommitPayment(w) \/ CommitBulk(w)
               \/ ResolveWebhook(w) \/ FinishReconcile(w)
    BY <2>4 DEF Step, BeginPayment, BeginBulk, BeginOverdue, CommitOverdue, BeginWebhook,
       WebhookBadSignature, WebhookUnmatched, WebhookVerifyFails, StoreReference, BeginReconcile,
       ReadStaleBatches, Abort, Begin, claimVars
  <2>. QED
    BY <2>1, <2>2, <2>3, <2>4 DEF Next
<1>. QED
  BY <1>2, <1>3, <1>4 DEF ReusesTransfer

\* While no two transactions overlap, a transfer pays for a second row only by a
\* reference left on it, by a repeated delivery of an event that had failed, or by a
\* delivery under a second transaction_type.
THEOREM ReusedOnlyIfMissed == Spec /\ []NoOverlap => TransferReusedOnlyIfMissed
<1>. DEFINE IInv == WebhookHasRow /\ RowsHaveEvents /\ ReferencesCurrent
            Reuse == \A c \in Sources : status[c] # "success" /\ status'[c] = "success" =>
              \A d \in Sources \ {c}, t \in Transfers :
                status'[d] = "success" /\ raw_ref'[c] = t /\ raw_ref'[d] = t
                => ReusesTransfer(c, t)
<1>1. Init => IInv
  BY ConstantsAssumption DEF Init, Idle, WebhookHasRow, RowsHaveEvents, ReferencesCurrent
<1>2. TypeOK /\ IInv /\ NoOverlap /\ [Next]_vars => IInv'
  BY WebhookHasRowStays, RowsHaveEventsStay, ReferencesStayCurrent
<1>3. TypeOK /\ IInv /\ [Next]_vars => [Reuse]_vars
  BY SecondUse
<1>. QED
  BY <1>1, <1>2, <1>3, TypeCorrect, PTL DEF Spec, TransferReusedOnlyIfMissed, ReusesTransfer

-----------------------------------------------------------------------------
(* Collection implements InstallmentClaims.                                *)

\* An installment's payer is the one row that collected it and succeeded.
PayerSucceeded ==
  \A i \in Installments :
    /\ PaidBy[i] = None <=> inst_status[i] # "paid"
    /\ \A c \in Sources : PaidBy[i] = c <=> status[c] = "success" /\ i \in items[c]

\* Links and outcomes say so.
LEMMA PaidByOne == ClaimsInv => PayerSucceeded
<1>. SUFFICES ASSUME ClaimsInv, NEW i \in Installments
              PROVE  /\ PaidBy[i] = None <=> inst_status[i] # "paid"
                     /\ \A c \in Sources : PaidBy[i] = c <=> status[c] = "success" /\ i \in items[c]
  BY DEF PayerSucceeded
<1>1. payment_id[i] \in Payments \cup {None} /\ item_of[i] \in Batches \cup {None}
  BY DEF ClaimsInv, TypeOK
<1>2. /\ inst_status[i] = "paid" <=> (payment_id[i] # None \/ item_of[i] # None)
      /\ payment_id[i] = None \/ item_of[i] = None
      /\ \A c \in Sources :
           status[c] = "success" /\ i \in items[c] <=> c \in {payment_id[i], item_of[i]}
  BY DEF ClaimsInv, PaidOnce
<1>3. None \notin Sources /\ Payments \cap Batches = {} /\ Sources = Payments \cup Batches
  BY ConstantsAssumption DEF Sources
<1>4. PaidBy[i] = IF inst_status[i] # "paid" THEN None
                  ELSE IF payment_id[i] # None THEN payment_id[i] ELSE item_of[i]
  BY DEF PaidBy
<1>. QED
  BY <1>1, <1>2, <1>3, <1>4

\* The initial states are initial states of the promise.
LEMMA InitImplements == Init => Claims!Init
BY DEF Init, Claims!Init, PaidBy

\* A new row for payable installments no row in flight collects is a claim.
LEMMA InsertImplements ==
  ASSUME ClaimsInv, NEW w \in Workers, NEW d \in Sources, Insert(w, d), work[w].op \in {"pay", "bulk"},
         ReadsAreCurrent(w)
  PROVE  Claims!Next
<1>. DEFINE S == work[w].items
<1>1. S \subseteq Installments
  BY DEF ClaimsInv, TypeOK, Work
<1>2. \A i \in S : inst_status[i] \in Payable /\ ~InFlight(i)
  BY DEF ReadsAreCurrent
<1>3. \A i \in S : Claims!Free(i)
  BY <1>1, <1>2, PaidByOne DEF PayerSucceeded, Claims!Free, InFlight, Payable
<1>4. UNCHANGED PaidBy
  BY DEF Insert, PaidBy, instVars
<1>5. /\ status[d] = "absent"
      /\ status' = [status EXCEPT ![d] = "initiated"]
      /\ items' = [items EXCEPT ![d] = S]
  BY DEF Insert
<1>6. Claims!Claim(d, S)
  BY <1>3, <1>4, <1>5 DEF Claims!Claim
<1>. QED
  BY <1>1, <1>6 DEF Claims!Next

\* Resolving rows that are still initiated decides them.
LEMMA ResolveImplements ==
  ASSUME ClaimsInv, ClaimsInv', NEW R \in SUBSET (Sources \X Transfers), Resolve(R),
         \A c \in Sources, t \in Transfers : <<c, t>> \in R => status[c] = "initiated"
  PROVE  Claims!Next
<1>. DEFINE W == Won(R)
            L == Lost(R) \ Won(R)
<1>0. ClaimsInv' => PayerSucceeded'
  BY PaidByOne, PTL
<1>1. W \in SUBSET Sources /\ L \in SUBSET Sources /\ W \cap L = {}
  BY DEF Won, Lost, Rows
<1>2. \A c \in W \cup L : status[c] = "initiated"
  BY DEF Won, Lost, Rows
<1>3. items' = items
  BY DEF Resolve
<1>4. status' = [c \in Sources |-> IF c \in W THEN "success"
                                   ELSE IF c \in L THEN "failed" ELSE status[c]]
  BY DEF Resolve, MarkRows
<1>5. ASSUME NEW i \in Installments
      PROVE  PaidBy'[i] = IF \E c \in W : i \in items[c] THEN CHOOSE c \in W : i \in items[c]
                          ELSE PaidBy[i]
  <2>1. \A c \in Sources : PaidBy'[i] = c <=> status'[c] = "success" /\ i \in items[c]
    BY <1>0, <1>3 DEF PayerSucceeded
  <2>2. ASSUME NEW c \in W, i \in items[c] PROVE PaidBy'[i] = c
    BY <1>1, <1>4, <2>1, <2>2
  <2>3. ASSUME ~\E c \in W : i \in items[c] PROVE PaidBy'[i] = PaidBy[i]
    BY <2>3 DEF PaidBy, Resolve, PayInstallments, Links
  <2>. QED
    BY <2>2, <2>3
<1>6. PaidBy' = [i \in Installments |->
        IF \E c \in W : i \in items[c] THEN CHOOSE c \in W : i \in items[c] ELSE PaidBy[i]]
  BY <1>5 DEF PaidBy
<1>7. Claims!Decide(W, L)
  BY <1>1, <1>2, <1>3, <1>4, <1>6 DEF Claims!Decide
<1>. QED
  BY <1>1, <1>7 DEF Claims!Next

\* While commits are current, Collection keeps the promise of InstallmentClaims.
THEOREM CollectionKeepsClaims == Spec /\ CommitsAreCurrent => KeepsClaims
<1>1. ASSUME ClaimsInv, ClaimsInv', [Next]_vars, [CommitIsCurrent]_vars
      PROVE  [Claims!Next]_<<status, items, PaidBy>>
  <2>1. CASE UNCHANGED <<instVars, status, items, raw_ref, bookVars>>
    BY <2>1 DEF instVars, PaidBy
  <2>2. ASSUME NEW w \in Workers, Ends(w), CommitOverdue(w)
        PROVE  UNCHANGED <<status, items, PaidBy>>
    <3>1. ReadsAreCurrent(w)
      BY <1>1, <2>2, EndsCurrent DEF ClaimsInv
    <3>2. /\ \A i \in Installments : inst_status'[i] = "paid" <=> inst_status[i] = "paid"
          /\ UNCHANGED <<payment_id, item_of, status, items>>
      BY <1>1, <2>2, <3>1 DEF CommitOverdue, ReadsAreCurrent, ClaimsInv, TypeOK, claimVars
    <3>. QED
      BY <3>2 DEF PaidBy
  <2>3. ASSUME NEW w \in Workers, NEW d \in Sources, Ends(w), work[w].op \in {"pay", "bulk"}, Insert(w, d)
        PROVE  Claims!Next
    BY <1>1, <2>3, EndsCurrent, InsertImplements DEF ClaimsInv
  <2>4. ASSUME NEW w \in Workers, NEW R \in SUBSET work[w].targets,
               Ends(w), work[w].op \in {"webhook", "reconcile_batches"}, Resolve(R)
        PROVE  Claims!Next
    <3>1. R \in SUBSET (Sources \X Transfers)
      BY <1>1 DEF ClaimsInv, TypeOK, Work
    <3>2. \A c \in Sources, t \in Transfers : <<c, t>> \in R => status[c] = "initiated"
      BY <1>1, <2>4, EndsCurrent DEF ClaimsInv, ReadsAreCurrent
    <3>. QED
      BY <1>1, <2>4, <3>1, <3>2, ResolveImplements
  <2>. QED
    BY <1>1, <2>1, <2>2, <2>3, <2>4, OutcomeSteps
<1>. QED
  BY <1>1, InitImplements, ClaimsInvariant, PTL
     DEF Spec, CommitsAreCurrent, KeepsClaims, Claims!Spec, Claims!vars
=============================================================================
