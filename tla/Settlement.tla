----------------------------- MODULE Settlement -----------------------------
(***************************************************************************)
(* Paying the insurer's share out of every collected payment or batch (its *)
(* source): the first attempt in the transaction that collects it, manual  *)
(* retries, and the transfer reconciliation job.                           *)
(*                                                                         *)
(* A payout row belongs to one Squad transfer reference, so rows are named *)
(* by references.  Squad acts on a transfer when it is initiated; the row  *)
(* appears when the transaction commits, which it may never do.  As in     *)
(* Collection, a handler reads in Begin, List and Read steps and writes    *)
(* when it commits; one worker means no overlapping transactions.          *)
(***************************************************************************)
EXTENDS Integers, FiniteSets

CONSTANTS
  Workers,      \* server and Celery processes
  Sources,      \* payments and batches whose collection succeeds
  Refs,         \* Squad transfer references, one per payout row
  None          \* SQL NULL

ASSUME NoneAssumption == None \notin Sources \cup Refs

VARIABLES
  bank_on_file, \* the insurer's settlement_bank_code, account number and name are set
  status,       \* settlement_payouts.status, "absent" if no row
  source,       \* settlement_payouts.source_type and source_id
  attempt,      \* settlement_payouts.attempt_number
  previous,     \* settlement_payouts.previous_attempt_id
  posted,       \* posting groups that clear INSURER_PAYABLE for the row
  remote,       \* Squad's transaction_status of each reference (external)
  work          \* what each worker has done and not yet committed

rowVars == <<status, source, attempt, previous, posted>>
vars == <<bank_on_file, rowVars, remote, work>>

RowStatus == {"pending", "success", "failed"}
Remote    == {"none", "pending", "success", "failed", "reversed"}

Idle == [op |-> "idle", ref |-> None, source |-> None, previous |-> None, sent |-> FALSE,
         listing |-> [r \in Refs |-> "none"], read |-> {}]

Work ==
  [op : {"idle", "attempt", "listed", "read"}, ref : Refs \cup {None},
   source : Sources \cup {None}, previous : Refs \cup {None}, sent : BOOLEAN,
   listing : [Refs -> Remote], read : SUBSET Refs]

TypeOK ==
  /\ bank_on_file \in BOOLEAN
  /\ status \in [Refs -> RowStatus \cup {"absent"}]
  /\ source \in [Refs -> Sources \cup {None}]
  /\ attempt \in [Refs -> Nat]
  /\ previous \in [Refs -> Refs \cup {None}]
  /\ posted \in [Refs -> Nat]
  /\ remote \in [Refs -> Remote]
  /\ work \in [Workers -> Work]

Init ==
  /\ bank_on_file = FALSE
  /\ status = [r \in Refs |-> "absent"]
  /\ source = [r \in Refs |-> None]
  /\ attempt = [r \in Refs |-> 0]
  /\ previous = [r \in Refs |-> None]
  /\ posted = [r \in Refs |-> 0]
  /\ remote = [r \in Refs |-> "none"]
  /\ work = [w \in Workers |-> Idle]

\* The insurer's bank details, once confirmed, can be replaced but not removed.
SetSettlementAccount ==
  /\ ~bank_on_file
  /\ bank_on_file' = TRUE
  /\ UNCHANGED <<rowVars, remote, work>>

\* A transfer settles, and a settled one may be reversed by the bank.
SquadAdvances(r) ==
  /\ \/ remote[r] = "pending" /\ \E a \in {"success", "failed"} : remote' = [remote EXCEPT ![r] = a]
     \/ remote[r] = "success" /\ remote' = [remote EXCEPT ![r] = "reversed"]
  /\ UNCHANGED <<bank_on_file, rowVars, work>>

-----------------------------------------------------------------------------
(* Attempts: settle_payment and retry_failed_settlement.                   *)

\* generate_squad_ref: a reference nobody has used.
Fresh(r) == status[r] = "absent" /\ remote[r] = "none" /\ \A v \in Workers : work[v].ref # r

\* Without bank details nothing is sent.  Otherwise Squad is asked to transfer; an
\* error is taken as a failure, whether or not Squad took the transfer on before it.
Initiate(w, s, p, r) ==
  /\ work[w].op = "idle"
  /\ Fresh(r)
  /\ \E sent \in BOOLEAN :
       /\ sent => bank_on_file
       /\ work' = [work EXCEPT ![w] = [Idle EXCEPT !.op = "attempt", !.ref = r, !.source = s,
                                                   !.previous = p, !.sent = sent]]
       /\ \/ bank_on_file /\ remote' = [remote EXCEPT ![r] = "pending"]
          \/ ~sent /\ UNCHANGED remote
  /\ UNCHANGED <<bank_on_file, rowVars>>

\* The source becomes successful in the same transaction, so it is settled again
\* only if that transaction did not commit.
BeginSettle(w, s, r) ==
  /\ \A q \in Refs : source[q] # s
  /\ Initiate(w, s, None, r)

BeginRetryAgain(w, p, r) ==
  /\ status[p] = "failed"
  /\ Initiate(w, source[p], p, r)

BeginRetryOpen(w, p, r) ==
  /\ status[p] \in {"failed", "pending"}
  /\ \A q \in Refs : previous[q] # p
  /\ Initiate(w, source[p], p, r)

BeginRetry(w, p, r) ==
  /\ status[p] = "failed"
  /\ \A q \in Refs : previous[q] # p
  /\ Initiate(w, source[p], p, r)

\* The status recorded for what Squad answers to the re-query.
Recorded(answer) ==
  IF answer = "success" THEN "success"
  ELSE IF answer \in {"failed", "reversed"} THEN "failed" ELSE "pending"

\* The row an attempt leaves.  A transfer that was accepted is re-queried at once;
\* a re-query that raises counts as pending.  Only success is posted to the ledger.
Record(w, postings) ==
  LET r == work[w].ref
      p == work[w].previous
      results == IF work[w].sent THEN {Recorded(remote[r]), "pending"} ELSE {"failed"}
  IN  /\ work[w].op = "attempt"
      /\ \E result \in results :
           /\ status' = [status EXCEPT ![r] = result]
           /\ posted' = [posted EXCEPT ![r] = postings[result]]
      /\ source' = [source EXCEPT ![r] = work[w].source]
      /\ previous' = [previous EXCEPT ![r] = p]
      /\ attempt' = [attempt EXCEPT ![r] = IF p = None THEN 1 ELSE attempt[p] + 1]
      /\ work' = [work EXCEPT ![w] = Idle]
      /\ UNCHANGED <<bank_on_file, remote>>

CommitAttemptPostsOpen(w) == Record(w, [pending |-> 1, success |-> 1, failed |-> 0])

CommitAttempt(w) == Record(w, [pending |-> 0, success |-> 1, failed |-> 0])

-----------------------------------------------------------------------------
(* reconcile_transfers.                                                    *)

\* All pages of Squad's payout list; an empty list ends the run.
ListTransfers(w) ==
  /\ work[w].op = "idle"
  /\ \E r \in Refs : remote[r] # "none"
  /\ work' = [work EXCEPT ![w] = [Idle EXCEPT !.op = "listed", !.listing = remote]]
  /\ UNCHANGED <<bank_on_file, rowVars, remote>>

ReadAnyPayout(w) ==
  /\ work[w].op = "listed"
  /\ work' = [work EXCEPT ![w] = [work[w] EXCEPT !.op = "read", !.read =
       {r \in Refs : work[w].listing[r] # "none" /\ status[r] # "absent"}]]
  /\ UNCHANGED <<bank_on_file, rowVars, remote>>

\* The listed payouts that are PENDING when they are read; a listed payout in a
\* terminal status is only audit-logged, whatever Squad says of it now.
ReadPayouts(w) ==
  /\ work[w].op = "listed"
  /\ work' = [work EXCEPT ![w] = [work[w] EXCEPT !.op = "read", !.read =
       {r \in Refs : work[w].listing[r] # "none" /\ status[r] = "pending"}]]
  /\ UNCHANGED <<bank_on_file, rowVars, remote>>

FinishSuccessOnly(w) ==
  /\ work[w].op = "read"
  /\ status' = [r \in Refs |->
       IF r \in work[w].read /\ work[w].listing[r] = "success" THEN "success" ELSE status[r]]
  /\ work' = [work EXCEPT ![w] = Idle]
  /\ UNCHANGED <<bank_on_file, source, attempt, previous, posted, remote>>

\* Anything listed but "success", a transfer still pending at Squad included,
\* makes the payout failed; a payout that becomes successful is not posted.
FinishReconcile(w) ==
  /\ work[w].op = "read"
  /\ status' = [r \in Refs |->
       IF r \notin work[w].read THEN status[r]
       ELSE IF work[w].listing[r] = "success" THEN "success" ELSE "failed"]
  /\ work' = [work EXCEPT ![w] = Idle]
  /\ UNCHANGED <<bank_on_file, source, attempt, previous, posted, remote>>

\* A rollback, after which Squad still has what was sent.
Abort(w) ==
  /\ work[w].op # "idle"
  /\ work' = [work EXCEPT ![w] = Idle]
  /\ UNCHANGED <<bank_on_file, rowVars, remote>>

-----------------------------------------------------------------------------
Step(w) ==
  \/ \E r \in Refs : \/ \E s \in Sources : BeginSettle(w, s, r)
                     \/ \E p \in Refs : BeginRetry(w, p, r)
  \/ CommitAttempt(w)
  \/ ListTransfers(w) \/ ReadPayouts(w) \/ FinishReconcile(w)
  \/ Abort(w)

Next ==
  \/ SetSettlementAccount
  \/ \E r \in Refs : SquadAdvances(r)
  \/ \E w \in Workers : Step(w)

Spec == Init /\ [][Next]_vars

\* Transactions end, and the beat schedule keeps running the reconciliation job,
\* which does not fail every time.
Fairness ==
  \A w \in Workers : /\ WF_vars(CommitAttempt(w) \/ Abort(w))
                     /\ SF_vars(ListTransfers(w))
                     /\ SF_vars(ReadPayouts(w))
                     /\ SF_vars(FinishReconcile(w))

FairSpec == Spec /\ Fairness

-----------------------------------------------------------------------------
(* Properties.                                                             *)

RowsOf(s) == {r \in Refs : source[r] = s}
Tails(s)  == {r \in RowsOf(s) : \A q \in Refs : previous[q] # r}

\* The attempts of a source form one chain: every retry follows the failed attempt
\* of the same source it was made for, an attempt is retried once at most, and only
\* one attempt of a source has not been retried.
RetriesFormAChain ==
  /\ \A r \in Refs : previous[r] # None =>
       /\ source[previous[r]] = source[r]
       /\ status[previous[r]] = "failed"
       /\ attempt[r] = attempt[previous[r]] + 1
       /\ \A q \in Refs : previous[q] = previous[r] => q = r
  /\ \A s \in Sources : \A q, r \in Tails(s) : q = r

\* At most one attempt of a source is recorded as paid out or still open.
OneLiveAttempt ==
  \A s \in Sources : \A q, r \in RowsOf(s) :
    status[q] \in {"pending", "success"} /\ status[r] \in {"pending", "success"} => q = r

\* The insurer's payable is cleared at most once for a source, and only for an
\* attempt recorded as paid out.
ClearedAtMostOnce ==
  /\ \A r \in Refs : posted[r] <= (IF status[r] = "success" THEN 1 ELSE 0)
  /\ \A s \in Sources : \A q, r \in RowsOf(s) : posted[q] > 0 /\ posted[r] > 0 => q = r

\* A payout recorded as paid out or failed keeps that status, and a row keeps its
\* source and its place in the chain.
RecordedOutcomesAreFinal ==
  [][\A r \in Refs :
       /\ status[r] \in {"success", "failed"} => status'[r] = status[r]
       /\ status[r] # "absent" => /\ source'[r] = source[r]
                                  /\ previous'[r] = previous[r]
                                  /\ attempt'[r] = attempt[r]]_vars

\* An attempt left open is closed by reconciliation.
OpenPayoutsAreClosed == \A r \in Refs : status[r] = "pending" ~> status[r] # "pending"

\* Squad pays a source's share to the insurer once.
InsurerPaidOnce ==
  \A s \in Sources : \A q, r \in RowsOf(s) :
    remote[q] = "success" /\ remote[r] = "success" => q = r

\* What a source's rows say of it, and the promise they keep.
Outcome ==
  [s \in Sources |->
    IF RowsOf(s) = {} THEN "unsettled"
    ELSE IF \E r \in RowsOf(s) : status[r] = "success" THEN "success"
    ELSE IF \E r \in RowsOf(s) : status[r] = "pending" THEN "pending" ELSE "failed"]

Lifecycle == INSTANCE PayoutLifecycle WITH outcome <- Outcome

KeepsLifecycle == Lifecycle!Spec
=============================================================================
