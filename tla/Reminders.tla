------------------------------ MODULE Reminders ------------------------------
(***************************************************************************)
(* An insurer nudges its brokers about overdue installments.  A request    *)
(* inserts one reminder per installment and queues a Celery task for each  *)
(* as it goes; the answer and the commit come afterwards.  A worker marks  *)
(* a reminder as sent if it finds the row, and no task is ever retried.    *)
(*                                                                         *)
(* Payment of installments is Collection's; the overdue job is taken as    *)
(* one step here, its overlaps being Collection's too.                     *)
(***************************************************************************)
EXTENDS Naturals

CONSTANTS
  Installments,
  Clients,    \* pages and API clients of insurers, one request of each at a time
  Insurer,    \* the insurer of every installment and client
  Reminders,  \* numbered in the order they are inserted
  None

ASSUME RemindersAssumption ==
  /\ Reminders \subseteq Nat
  /\ Installments \cap Clients = {}
  /\ DOMAIN Insurer = Installments \cup Clients
  /\ None \notin Installments

VARIABLES
  status,  \* of an installment: due, overdue or paid
  age,     \* its due date is ahead, past, or past by more than the grace period
  offered, \* the client's page shows a number of overdue policies and a live button
  request, \* the client's request: none, answered, or what is running: one reminder or all
  todo,    \* installments it has yet to insert a reminder for
  rows,    \* reminders it has inserted
  about,   \* the installment of a reminder
  state,   \* of a reminder: none, inserted, queued or sent, or rolledback
  queue,   \* reminders with a task waiting at the broker
  missed,  \* reminders whose task ran before they were committed (history)
  died,    \* reminders whose task raised or ended with its worker (history)
  chased   \* reminders made by the button (history)

vars == <<status, age, offered, request, todo, rows, about, state, queue, missed, died, chased>>
installmentVars == <<status, age>>
requestVars == <<offered, request, todo, rows>>
reminderVars == <<about, state, queue, missed, died, chased>>

TypeOK ==
  /\ status \in [Installments -> {"due", "overdue", "paid"}]
  /\ age \in [Installments -> {"ahead", "past", "late"}]
  /\ offered \in [Clients -> BOOLEAN]
  /\ request \in [Clients -> {"none", "one", "all", "answered"}]
  /\ todo \in [Clients -> SUBSET Installments]
  /\ rows \in [Clients -> SUBSET Reminders]
  /\ about \in [Reminders -> Installments \cup {None}]
  /\ state \in [Reminders -> {"none", "inserted", "queued", "sent", "rolledback"}]
  /\ queue \subseteq Reminders /\ missed \subseteq Reminders
  /\ died \subseteq Reminders /\ chased \subseteq Reminders

Init ==
  /\ status = [i \in Installments |-> "due"]
  /\ age = [i \in Installments |-> "ahead"]
  /\ offered = [g \in Clients |-> FALSE]
  /\ request = [g \in Clients |-> "none"]
  /\ todo = [g \in Clients |-> {}]
  /\ rows = [g \in Clients |-> {}]
  /\ about = [r \in Reminders |-> None]
  /\ state = [r \in Reminders |-> "none"]
  /\ queue = {} /\ missed = {} /\ died = {} /\ chased = {}

-----------------------------------------------------------------------------
(* Installments.                                                           *)

DaysPass(i) ==
  /\ \/ age[i] = "ahead" /\ age' = [age EXCEPT ![i] = "past"]
     \/ age[i] = "past" /\ age' = [age EXCEPT ![i] = "late"]
  /\ UNCHANGED <<status, requestVars, reminderVars>>

FlagOverdue ==
  /\ status' = [i \in Installments |-> IF status[i] = "due" /\ age[i] # "ahead" THEN "overdue" ELSE status[i]]
  /\ status' # status
  /\ UNCHANGED <<age, requestVars, reminderVars>>

Pay(i) ==
  /\ status[i] # "paid"
  /\ status' = [status EXCEPT ![i] = "paid"]
  /\ UNCHANGED <<age, requestVars, reminderVars>>

-----------------------------------------------------------------------------
(* Requests.                                                               *)

Own(g) == {i \in Installments : Insurer[i] = Insurer[g]}

\* The same without the grace period.
ActionableAtOnce(g) == {i \in Own(g) : status[i] = "overdue"}

\* Overdue, and past the grace period.
Actionable(g) == {i \in Own(g) : status[i] = "overdue" /\ age[i] = "late"}

LoadPage(g) ==
  /\ offered' = [offered EXCEPT ![g] = Actionable(g) # {}]
  /\ offered' # offered
  /\ UNCHANGED <<installmentVars, request, todo, rows, reminderVars>>

Unused == {r \in Reminders : state[r] = "none"}

\* Bound: no request once every reminder has been used.
Start(g, kind, installments) ==
  /\ request[g] = "none" /\ Unused # {}
  /\ request' = [request EXCEPT ![g] = kind]
  /\ todo' = [todo EXCEPT ![g] = installments]
  /\ UNCHANGED <<installmentVars, offered, rows, reminderVars>>

\* The button: what it sends is looked up afresh.
SendAll(g) == offered[g] /\ Start(g, "all", Actionable(g))

\* POST /reminders for one installment, whatever its status.
SendOne(g) == \E i \in Own(g) : Start(g, "one", {i})

\* The next number to be used.
First(S) == {r \in S : \A q \in S : r <= q}

\* One turn of the loop that adds reminder r, about x, and queues tasks.
AddRow(g, i, r, x, tasks) ==
  /\ request[g] \in {"one", "all"} /\ i \in todo[g]
  /\ r \in First(Unused)
  /\ state' = [state EXCEPT ![r] = "inserted"]
  /\ about' = [about EXCEPT ![r] = x]
  /\ rows' = [rows EXCEPT ![g] = @ \cup {r}]
  /\ todo' = [todo EXCEPT ![g] = @ \ {i}]
  /\ queue' = queue \cup tasks
  /\ chased' = IF request[g] = "all" THEN chased \cup {r} ELSE chased
  /\ UNCHANGED <<installmentVars, offered, request, missed, died>>

\* The same, forgetting the task.
InsertOnly(g, i) == \E r \in Reminders : AddRow(g, i, r, i, {})

\* The row is flushed and its task queued, before the commit.
Insert(g, i) == \E r \in Reminders : AddRow(g, i, r, i, {r})

\* The answer goes out, and the page is loaded afresh.
Answer(g) ==
  /\ request[g] \in {"one", "all"} /\ todo[g] = {}
  /\ request' = [request EXCEPT ![g] = "answered"]
  /\ offered' = [offered EXCEPT ![g] = Actionable(g) # {}]
  /\ UNCHANGED <<installmentVars, todo, rows, reminderVars>>

\* The transaction ends with its rows in this state; tasks stay queued.
EndWith(g, outcome) ==
  /\ request' = [request EXCEPT ![g] = "none"]
  /\ todo' = [todo EXCEPT ![g] = {}]
  /\ rows' = [rows EXCEPT ![g] = {}]
  /\ state' = [r \in Reminders |-> IF r \in rows[g] THEN outcome ELSE state[r]]
  /\ UNCHANGED <<installmentVars, offered, about, queue, missed, died, chased>>

Commit(g) == request[g] = "answered" /\ EndWith(g, "queued")

\* A query, the broker, the commit or the process fails.
Abort(g) == request[g] # "none" /\ EndWith(g, "rolledback")

-----------------------------------------------------------------------------
(* Workers.  A task is acknowledged when taken and never retried.          *)

Take(r) ==
  /\ r \in queue
  /\ queue' = queue \ {r}
  /\ \/ state[r] = "queued" /\ state' = [state EXCEPT ![r] = "sent"] /\ UNCHANGED missed
     \/ state[r] # "queued" /\ missed' = missed \cup {r} /\ UNCHANGED state
  /\ UNCHANGED <<installmentVars, requestVars, about, died, chased>>

\* The task raises, or its worker ends.  Celery acknowledges a task when it is taken, and
\* this one has no retry: it does not come back in either case.
TaskDies(r) ==
  /\ r \in queue
  /\ queue' = queue \ {r}
  /\ died' = died \cup {r}
  /\ UNCHANGED <<installmentVars, requestVars, about, state, missed, chased>>

Worker(r) == Take(r) \/ TaskDies(r)

Next ==
  \/ FlagOverdue
  \/ \E i \in Installments : DaysPass(i) \/ Pay(i)
  \/ \E g \in Clients : \/ LoadPage(g) \/ SendAll(g) \/ SendOne(g)
                        \/ Answer(g) \/ Commit(g) \/ Abort(g)
  \/ \E g \in Clients : \E i \in Installments : Insert(g, i)
  \/ \E r \in Reminders : Worker(r)

Spec == Init /\ [][Next]_vars

\* Celery's workers go on taking tasks.
FairSpec == Spec /\ \A r \in Reminders : WF_vars(Worker(r))

-----------------------------------------------------------------------------
(* Properties.                                                             *)

\* The button never chases an installment that was not overdue past the
\* grace period when it was pressed, however stale the page, whatever is
\* paid meanwhile and whoever else is sending (POST /reminders/bulk).
ChasesOnlyLate ==
  \A r \in chased : age[about[r]] = "late" /\ status[about[r]] \in {"overdue", "paid"}

\* A committed reminder ends up sent unless its task ran too early, raised or
\* ended with its worker: there is no other way to lose one (POST /reminders,
\* send_reminder_email_task).
QueuedIsSent ==
  \A r \in Reminders : state[r] = "queued" ~> (state[r] = "sent" \/ r \in missed \cup died)
=============================================================================
