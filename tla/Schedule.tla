------------------------------ MODULE Schedule ------------------------------
(***************************************************************************)
(* The premium installments of policies: the first window of due dates,    *)
(* generated with the policy, and the daily top-up job that keeps as many  *)
(* installments unresolved as the window holds.                            *)
(*                                                                         *)
(* A policy is named by its reference number.  The job takes all policies  *)
(* in one transaction, and for each it counts in one query and looks up    *)
(* the latest due date in the next; nothing it reads is locked.  The       *)
(* unique key (policy, due date) is what a stale job runs into.            *)
(*                                                                         *)
(* Here an installment is resolved by a payment and stays so; the overdue  *)
(* job, which can undo that, is in Collection.                             *)
(***************************************************************************)
EXTENDS Integers, FiniteSets

CONSTANTS
  Requests,   \* server processes
  Jobs,       \* Celery processes that may run the top-up
  Policies,   \* reference numbers
  Starts,     \* start dates an insurer may choose
  Steps,      \* months between installments, one per premium frequency
  Window,     \* INSTALLMENT_WINDOW_SIZE
  MaxPaid,    \* bound on the installments of a policy that get paid
  None        \* SQL NULL

\* A date is its month, counted from January of the year 0, and its day.
Dates == [month : Nat, day : Nat]

Workers == Requests \cup Jobs

-----------------------------------------------------------------------------
(* The calendar.                                                           *)

\* calendar.monthrange
Length(month) ==
  LET year == month \div 12
      leap == year % 4 = 0 /\ (year % 100 # 0 \/ year % 400 = 0)
  IN  CASE month % 12 = 1 -> IF leap THEN 29 ELSE 28
        [] month % 12 \in {3, 5, 8, 10} -> 30
        [] OTHER -> 31

\* The same day of a later month, or the last one if the month is too short.
AddMonths(date, n) ==
  LET month == date.month + n
  IN  [month |-> month, day |-> IF date.day <= Length(month) THEN date.day ELSE Length(month)]

Before(a, b) == a.month < b.month \/ (a.month = b.month /\ a.day < b.day)

ASSUME ScheduleAssumption ==
  /\ Requests \cap Jobs = {}
  /\ IsFiniteSet(Jobs) /\ Jobs # {}
  /\ Starts \subseteq Dates /\ \A d \in Starts : d.day \in 1..Length(d.month)
  /\ Steps \subseteq Nat \ {0}
  /\ Window \in Nat \ {0}
  /\ MaxPaid \in Nat
  /\ None \notin Policies \cup [start : Starts, step : Steps]

-----------------------------------------------------------------------------
VARIABLES
  terms,  \* start_date and premium_frequency of each policies row, None if no row
  due,    \* due dates of a policy's premium_installments rows
  paid,   \* those that are resolved; the others are due or overdue
  work    \* what each worker has read or inserted and not yet committed

vars == <<terms, due, paid, work>>

Terms == [start : Starts, step : Steps]

Idle == [op |-> "idle", policy |-> None, terms |-> None, todo |-> {}, shortfall |-> 0, new |-> {}]

\* `new` holds the installments a job has inserted, each with its policy.
Work ==
  [op : {"idle", "create", "top_up", "counted"}, policy : Policies \cup {None},
   terms : Terms \cup {None}, todo : SUBSET Policies, shortfall : Nat,
   new : SUBSET (Policies \X Dates)]

TypeOK ==
  /\ terms \in [Policies -> Terms \cup {None}]
  /\ due \in [Policies -> SUBSET Dates]
  /\ paid \in [Policies -> SUBSET Dates]
  /\ work \in [Workers -> Work]

Init ==
  /\ terms = [p \in Policies |-> None]
  /\ due = [p \in Policies |-> {}]
  /\ paid = [p \in Policies |-> {}]
  /\ work = [w \in Workers |-> Idle]

Open(p) == due[p] \ paid[p]

Begin(w, rec) ==
  /\ work[w].op = "idle"
  /\ work' = [work EXCEPT ![w] = rec]
  /\ UNCHANGED <<terms, due, paid>>

-----------------------------------------------------------------------------
(* create_policy.                                                          *)

BeginCreate(w, p, t) ==
  /\ w \in Requests
  /\ terms[p] = None
  /\ Begin(w, [Idle EXCEPT !.op = "create", !.policy = p, !.terms = t])

\* _generate_due_dates: every date is reckoned from the start date.
FirstWindow(t) == {AddMonths(t.start, t.step * i) : i \in 0..Window - 1}

\* A reference number taken since then violates the unique index.
CommitCreate(w) ==
  LET p == work[w].policy
      t == work[w].terms
  IN  /\ work[w].op = "create"
      /\ terms[p] = None
      /\ terms' = [terms EXCEPT ![p] = t]
      /\ due' = [due EXCEPT ![p] = FirstWindow(t)]
      /\ work' = [work EXCEPT ![w] = Idle]
      /\ UNCHANGED paid

-----------------------------------------------------------------------------
\* The dates of policy p among pairs of a policy and a date.
Of(pairs, p) == {n[2] : n \in {m \in pairs : m[1] = p}}

\* A payment or a batch succeeds and resolves the installments it collected.
Collect(C) ==
  /\ C # {}
  /\ \A n \in C : n[2] \in Open(n[1])
  /\ paid' = [p \in Policies |-> paid[p] \cup Of(C, p)]
  /\ \A p \in Policies : Cardinality(paid'[p]) <= MaxPaid
  /\ UNCHANGED <<terms, due, work>>

-----------------------------------------------------------------------------
(* top_up_all_active_policies.                                             *)

BeginTopUp(w) ==
  /\ w \in Jobs
  /\ Begin(w, [Idle EXCEPT !.op = "top_up", !.todo = {p \in Policies : terms[p] # None}])

CountAll(w, p) ==
  LET shortfall == Window - Cardinality(due[p])
  IN  /\ work[w].op = "top_up" /\ p \in work[w].todo
      /\ work' = [work EXCEPT ![w] =
           IF shortfall <= 0 THEN [work[w] EXCEPT !.todo = @ \ {p}]
           ELSE [work[w] EXCEPT !.op = "counted", !.policy = p, !.shortfall = shortfall]]
      /\ UNCHANGED <<terms, due, paid>>

\* The first query of a policy; a full window needs no more.
CountOpen(w, p) ==
  LET shortfall == Window - Cardinality(Open(p))
  IN  /\ work[w].op = "top_up" /\ p \in work[w].todo
      /\ work' = [work EXCEPT ![w] =
           IF shortfall <= 0 THEN [work[w] EXCEPT !.todo = @ \ {p}]
           ELSE [work[w] EXCEPT !.op = "counted", !.policy = p, !.shortfall = shortfall]]
      /\ UNCHANGED <<terms, due, paid>>

\* The latest due date, the start date for a policy without installments.
Latest(p) ==
  IF due[p] = {} THEN terms[p].start
  ELSE CHOOSE d \in due[p] : \A e \in due[p] : ~Before(d, e)

InsertWindow(w) ==
  LET p == work[w].policy
  IN  /\ work[w].op = "counted"
      /\ work' = [work EXCEPT ![w] = [work[w] EXCEPT
           !.op = "top_up", !.policy = None, !.shortfall = 0, !.todo = @ \ {p},
           !.new = @ \cup {<<p, AddMonths(Latest(p), terms[p].step * i)>> : i \in 1..Window}]]
      /\ UNCHANGED <<terms, due, paid>>

\* The second query, and the rows inserted for what it answers: these dates are
\* reckoned from the latest one.
InsertMissing(w) ==
  LET p == work[w].policy
  IN  /\ work[w].op = "counted"
      /\ work' = [work EXCEPT ![w] = [work[w] EXCEPT
           !.op = "top_up", !.policy = None, !.shortfall = 0, !.todo = @ \ {p},
           !.new = @ \cup {<<p, AddMonths(Latest(p), terms[p].step * i)>> :
                             i \in 1..work[w].shortfall}]]
      /\ UNCHANGED <<terms, due, paid>>

\* A due date was inserted that the policy has got from another run since.
Collides(w) == \E n \in work[w].new : n[2] \in due[n[1]]

CommitTopUpSkipsKnown(w) ==
  /\ work[w].op = "top_up" /\ work[w].todo = {}
  /\ due' = [p \in Policies |-> due[p] \cup Of(work[w].new, p)]
  /\ work' = [work EXCEPT ![w] = Idle]
  /\ UNCHANGED <<terms, paid>>

\* That violates the unique key, and the whole run, all policies of it, rolls back.
CommitTopUp(w) ==
  /\ work[w].op = "top_up" /\ work[w].todo = {}
  /\ ~Collides(w)
  /\ due' = [p \in Policies |-> due[p] \cup Of(work[w].new, p)]
  /\ work' = [work EXCEPT ![w] = Idle]
  /\ UNCHANGED <<terms, paid>>

Abort(w) ==
  /\ work[w].op # "idle"
  /\ work' = [work EXCEPT ![w] = Idle]
  /\ UNCHANGED <<terms, due, paid>>

-----------------------------------------------------------------------------
Step(w) ==
  \/ \E p \in Policies, t \in Terms : BeginCreate(w, p, t)
  \/ CommitCreate(w)
  \/ BeginTopUp(w)
  \/ \E p \in Policies : CountOpen(w, p)
  \/ InsertMissing(w) \/ CommitTopUp(w) \/ Abort(w)

Next ==
  \/ \E C \in SUBSET UNION {{p} \X Open(p) : p \in Policies} : Collect(C)
  \/ \E w \in Workers : Step(w)

Spec == Init /\ [][Next]_vars

\* The beat schedule starts the job every day, and not every run fails of itself: again
\* and again some run commits or is stopped by a collision.
Fairness ==
  []<><<\E w \in Jobs : CommitTopUp(w) \/ (Collides(w) /\ Abort(w))>>_vars

FairSpec == Spec /\ Fairness

-----------------------------------------------------------------------------
(* Properties.                                                             *)

\* However runs of the job overlap, a policy has exactly one installment for every
\* period from its start date on: none is missing and none is there twice.
OneRowPerPeriod ==
  \A p \in Policies : terms[p] # None =>
    /\ terms[p].start \in due[p]
    /\ \A d, e \in due[p] : d.month = e.month => d = e
    /\ \A d \in due[p] : d = terms[p].start \/
         \E e \in due[p] : d.month = e.month + terms[p].step

\* As long as no two runs of the job overlap, whatever is paid or created meanwhile, a
\* policy never has more unresolved installments than the window holds.
Busy(w) == work[w].op # "idle"
OneRunAtATime == \A v, w \in Jobs : Busy(v) /\ Busy(w) => v = w
WindowHolds == \A p \in Policies : Cardinality(Open(p)) <= Window
WindowKept == []OneRunAtATime => []WindowHolds

\* Runs that do overlap may each fill the same gap, one after the other's rows, but that
\* is all: a policy never has more unresolved installments than one window for each
\* process that runs the job, however long they keep overlapping.
WindowBounded == \A p \in Policies : Cardinality(Open(p)) <= Window * Cardinality(Jobs)

\* Installments that get paid are replaced until the window is full again.
WindowRefilled ==
  \A p \in Policies :
    (terms[p] # None /\ Cardinality(Open(p)) < Window) ~> Cardinality(Open(p)) >= Window

=============================================================================
