---------------------------- MODULE RemindersProofs ----------------------------
(***************************************************************************)
(* What the button chases is late, for any number of installments, clients *)
(* and reminders and however their requests overlap.                       *)
(***************************************************************************)
EXTENDS Reminders, TLAPS

\* What became late stays late, and a late installment is overdue or paid for ever.
Chaseable(i) == age[i] = "late" /\ status[i] \in {"overdue", "paid"}

\* What a press has yet to insert was chaseable when it looked.
ToDoIsLate == \A g \in Clients : request[g] = "all" => \A i \in todo[g] : Chaseable(i)

\* A number given to a reminder is not given again.
ChasedAreUsed == \A r \in chased : state[r] # "none" /\ about[r] \in Installments

RemindersInv == TypeOK /\ ToDoIsLate /\ ChasedAreUsed /\ ChasesOnlyLate

\* The row of a reminder, and what the request still has to do.
LEMMA InsertKeeps ==
  ASSUME RemindersInv, NEW g \in Clients, NEW i \in Installments, Insert(g, i)
  PROVE  RemindersInv'
<1> USE DEF RemindersInv
<1>1. PICK r \in Reminders : AddRow(g, i, r, i, {r}) BY DEF Insert
<1>2. r \notin chased BY <1>1 DEF AddRow, First, Unused, ChasedAreUsed
<1>3. TypeOK' BY <1>1 DEF TypeOK, AddRow, installmentVars
<1>4. ToDoIsLate' BY <1>1 DEF TypeOK, AddRow, installmentVars, ToDoIsLate, Chaseable
<1>5. ChasedAreUsed' BY <1>1 DEF TypeOK, AddRow, ChasedAreUsed
<1>6. ChasesOnlyLate'
  <2> SUFFICES ASSUME NEW q \in chased'
               PROVE  age[about'[q]] = "late" /\ status[about'[q]] \in {"overdue", "paid"}
    BY <1>1 DEF AddRow, installmentVars, ChasesOnlyLate
  <2>1. CASE q = r
    <3>1. request[g] = "all" BY <1>1, <1>2, <2>1 DEF AddRow
    <3>2. about'[q] = i BY <1>1, <2>1 DEF AddRow, TypeOK
    <3>3. Chaseable(i) BY <1>1, <3>1 DEF AddRow, ToDoIsLate
    <3> QED BY <3>2, <3>3 DEF Chaseable
  <2>2. CASE q \in chased /\ q # r
    BY <1>1, <2>2 DEF AddRow, TypeOK, ChasesOnlyLate
  <2> QED BY <1>1, <2>1, <2>2 DEF AddRow
<1> QED BY <1>3, <1>4, <1>5, <1>6

\* Installments only get older, overdue and paid.
LEMMA InstallmentsAge ==
  ASSUME RemindersInv,
         FlagOverdue \/ \E i \in Installments : DaysPass(i) \/ Pay(i)
  PROVE  RemindersInv'
<1> USE DEF RemindersInv
<1>1. UNCHANGED <<requestVars, reminderVars>> BY DEF FlagOverdue, DaysPass, Pay
<1>2. TypeOK' BY DEF TypeOK, FlagOverdue, DaysPass, Pay, requestVars, reminderVars
<1>3. \A x \in Installments : Chaseable(x) => Chaseable(x)'
  BY DEF FlagOverdue, DaysPass, Pay, TypeOK, Chaseable
<1>4. ToDoIsLate' BY <1>1, <1>3 DEF ToDoIsLate, TypeOK, requestVars
<1>5. ChasedAreUsed' BY <1>1 DEF ChasedAreUsed, reminderVars
<1>6. ChasesOnlyLate'
  <2> SUFFICES ASSUME NEW r \in chased PROVE Chaseable(about[r])'
    BY <1>1 DEF ChasesOnlyLate, Chaseable, reminderVars
  <2>1. Chaseable(about[r]) BY DEF ChasesOnlyLate, Chaseable
  <2>2. about[r] \in Installments BY DEF ChasedAreUsed
  <2> QED BY <1>1, <1>3, <2>1, <2>2 DEF reminderVars, Chaseable
<1> QED BY <1>2, <1>4, <1>5, <1>6

\* A press, or a request for one installment.
LEMMA SendKeeps ==
  ASSUME RemindersInv, NEW g \in Clients, SendAll(g) \/ SendOne(g)
  PROVE  RemindersInv'
<1> USE DEF RemindersInv
<1>1. CASE SendAll(g)
  <2>1. Start(g, "all", Actionable(g)) BY <1>1 DEF SendAll
  <2>2. Actionable(g) \subseteq Installments /\ \A i \in Actionable(g) : Chaseable(i)
    BY DEF Actionable, Own, Chaseable
  <2>3. TypeOK' BY <2>1, <2>2 DEF Start, TypeOK, installmentVars, reminderVars
  <2>4. ToDoIsLate'
    BY <2>1, <2>2 DEF Start, TypeOK, installmentVars, ToDoIsLate, Chaseable
  <2>5. ChasedAreUsed' /\ ChasesOnlyLate'
    BY <2>1 DEF Start, installmentVars, reminderVars, ChasedAreUsed, ChasesOnlyLate
  <2> QED BY <2>3, <2>4, <2>5
<1>2. CASE SendOne(g)
  <2>1. PICK i \in Installments : Start(g, "one", {i}) BY <1>2 DEF SendOne, Own
  <2>2. TypeOK' BY <2>1 DEF Start, TypeOK, installmentVars, reminderVars
  <2>3. ToDoIsLate' BY <2>1 DEF Start, TypeOK, installmentVars, ToDoIsLate, Chaseable
  <2>4. ChasedAreUsed' /\ ChasesOnlyLate'
    BY <2>1 DEF Start, installmentVars, reminderVars, ChasedAreUsed, ChasesOnlyLate
  <2> QED BY <2>2, <2>3, <2>4
<1> QED BY <1>1, <1>2

\* The rest of a request: the answer, the end, and a page loaded.
LEMMA RequestKeeps ==
  ASSUME RemindersInv, NEW g \in Clients, LoadPage(g) \/ Answer(g) \/ Commit(g) \/ Abort(g)
  PROVE  RemindersInv'
<1> USE DEF RemindersInv
<1>1. CASE LoadPage(g)
  BY <1>1 DEF LoadPage, installmentVars, reminderVars, TypeOK, ToDoIsLate, Chaseable,
              ChasedAreUsed, ChasesOnlyLate
<1>2. CASE Answer(g)
  <2>1. TypeOK' BY <1>2 DEF Answer, installmentVars, reminderVars, TypeOK
  <2>2. ToDoIsLate' BY <1>2 DEF Answer, installmentVars, TypeOK, ToDoIsLate, Chaseable
  <2>3. ChasedAreUsed' /\ ChasesOnlyLate'
    BY <1>2 DEF Answer, installmentVars, reminderVars, ChasedAreUsed, ChasesOnlyLate
  <2> QED BY <2>1, <2>2, <2>3
<1>3. ASSUME NEW o \in {"queued", "rolledback"}, EndWith(g, o) PROVE RemindersInv'
  <2>1. TypeOK' BY <1>3 DEF EndWith, installmentVars, TypeOK
  <2>2. ToDoIsLate' BY <1>3 DEF EndWith, installmentVars, TypeOK, ToDoIsLate, Chaseable
  <2>3. ChasedAreUsed' BY <1>3 DEF EndWith, TypeOK, ChasedAreUsed
  <2>4. ChasesOnlyLate' BY <1>3 DEF EndWith, installmentVars, ChasesOnlyLate
  <2> QED BY <2>1, <2>2, <2>3, <2>4
<1> QED BY <1>1, <1>2, <1>3 DEF Commit, Abort

\* A worker takes a task, or the task fails with it.
LEMMA WorkerKeeps ==
  ASSUME RemindersInv, NEW r \in Reminders, Worker(r)
  PROVE  RemindersInv'
<1> USE DEF RemindersInv
<1>1. UNCHANGED <<installmentVars, requestVars, about, chased>> BY DEF Worker, Take, TaskDies
<1>2. TypeOK' BY <1>1 DEF Worker, Take, TaskDies, TypeOK, installmentVars, requestVars
<1>3. ToDoIsLate' BY <1>1 DEF installmentVars, requestVars, ToDoIsLate, Chaseable
<1>4. ChasedAreUsed' BY <1>1 DEF Worker, Take, TaskDies, TypeOK, ChasedAreUsed
<1>5. ChasesOnlyLate' BY <1>1 DEF installmentVars, ChasesOnlyLate
<1> QED BY <1>2, <1>3, <1>4, <1>5

\* The first state: nothing sent, nobody asking.
LEMMA InitReminders == Init => RemindersInv
  BY DEF Init, RemindersInv, TypeOK, ToDoIsLate, ChasedAreUsed, ChasesOnlyLate

\* The invariant behind the theorems below.
THEOREM RemindersCorrect == Spec => []RemindersInv
<1>1. Init => RemindersInv BY InitReminders
<1>2. RemindersInv /\ [Next]_vars => RemindersInv'
  <2> SUFFICES ASSUME RemindersInv, [Next]_vars PROVE RemindersInv' OBVIOUS
  <2>1. CASE FlagOverdue \/ \E i \in Installments : DaysPass(i) \/ Pay(i)
    BY <2>1, InstallmentsAge
  <2>2. CASE \E g \in Clients : SendAll(g) \/ SendOne(g) BY <2>2, SendKeeps
  <2>3. CASE \E g \in Clients : LoadPage(g) \/ Answer(g) \/ Commit(g) \/ Abort(g)
    BY <2>3, RequestKeeps
  <2>4. CASE \E g \in Clients : \E i \in Installments : Insert(g, i) BY <2>4, InsertKeeps
  <2>5. CASE \E r \in Reminders : Worker(r) BY <2>5, WorkerKeeps
  <2>6. CASE UNCHANGED vars
    BY <2>6 DEF vars, RemindersInv, TypeOK, ToDoIsLate, Chaseable, ChasedAreUsed, ChasesOnlyLate
  <2> QED BY <2>1, <2>2, <2>3, <2>4, <2>5, <2>6 DEF Next
<1> QED BY <1>1, <1>2, PTL DEF Spec

\* Variables keep their types: every reminder is about an installment, whoever sends it.
THEOREM RemindersTypeCorrect == Spec => []TypeOK
<1>1. RemindersInv => TypeOK BY DEF RemindersInv
<1> QED BY <1>1, RemindersCorrect, PTL

\* The button chases only what was overdue past the grace period when it was pressed,
\* however stale the page and whatever is paid meanwhile.
THEOREM ButtonChasesOnlyLate == Spec => []ChasesOnlyLate
<1>1. RemindersInv => ChasesOnlyLate BY DEF RemindersInv
<1> QED BY <1>1, RemindersCorrect, PTL
===============================================================================
