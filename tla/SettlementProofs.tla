-------------------------- MODULE SettlementProofs --------------------------
(***************************************************************************)
(* What holds of Settlement for any number of sources and references.      *)
(***************************************************************************)
EXTENDS Settlement, TLAPS

\* A worker that does nothing, or has just begun an attempt, or has read payouts.
LEMMA WorkValues ==
  /\ Idle \in Work
  /\ \A r \in Refs, s \in Sources \cup {None}, p \in Refs \cup {None}, b \in BOOLEAN :
       [Idle EXCEPT !.op = "attempt", !.ref = r, !.source = s, !.previous = p, !.sent = b] \in Work
  /\ \A L \in [Refs -> Remote] : [Idle EXCEPT !.op = "listed", !.listing = L] \in Work
  /\ \A k \in Work, S \in SUBSET Refs : [k EXCEPT !.op = "read", !.read = S] \in Work
BY DEF Idle, Work, Remote

\* What Initiate writes keeps its type.
LEMMA InitiateType ==
  ASSUME TypeOK, NEW w \in Workers, NEW s \in Sources \cup {None}, NEW p \in Refs \cup {None},
         NEW r \in Refs, Initiate(w, s, p, r)
  PROVE  TypeOK'
<1>. USE DEF TypeOK
<1>1. work' \in [Workers -> Work]
  <2>1. PICK b \in BOOLEAN :
          work' = [work EXCEPT ![w] = [Idle EXCEPT !.op = "attempt", !.ref = r, !.source = s,
                                                   !.previous = p, !.sent = b]]
    BY DEF Initiate
  <2>. QED
    BY <2>1, WorkValues
<1>2. remote' \in [Refs -> Remote]
  BY DEF Initiate, Remote
<1>. QED
  BY <1>1, <1>2 DEF Initiate, rowVars

\* A step keeps the type of every variable.
LEMMA TypeOKStays ==
  ASSUME TypeOK, [Next]_vars
  PROVE  TypeOK'
<1>. USE DEF TypeOK
<1>1. CASE SetSettlementAccount
  BY <1>1 DEF SetSettlementAccount, rowVars
<1>2. ASSUME NEW r \in Refs, SquadAdvances(r) PROVE TypeOK'
  BY <1>2 DEF SquadAdvances, Remote, rowVars
<1>3. ASSUME NEW w \in Workers, NEW s \in Sources, NEW r \in Refs, BeginSettle(w, s, r) PROVE TypeOK'
  BY <1>3, InitiateType DEF BeginSettle
<1>4. ASSUME NEW w \in Workers, NEW p \in Refs, NEW r \in Refs, BeginRetry(w, p, r) PROVE TypeOK'
  <2>1. source[p] \in Sources \cup {None}
    OBVIOUS
  <2>. QED
    BY <1>4, <2>1, InitiateType DEF BeginRetry
<1>5. ASSUME NEW w \in Workers, CommitAttempt(w) PROVE TypeOK'
  <2>. DEFINE r == work[w].ref
              p == work[w].previous
  <2>1. r \in Refs \cup {None} /\ p \in Refs \cup {None} /\ work[w].source \in Sources \cup {None}
    BY DEF Work
  <2>2. PICK result \in {Recorded(remote[r]), "pending", "failed"} :
          /\ status' = [status EXCEPT ![r] = result]
          /\ posted' = [posted EXCEPT ![r] = [pending |-> 0, success |-> 1, failed |-> 0][result]]
    BY <1>5 DEF CommitAttempt, Record
  <2>3. result \in RowStatus
    BY DEF Recorded, RowStatus
  <2>4. [pending |-> 0, success |-> 1, failed |-> 0][result] \in Nat
    BY <2>3 DEF RowStatus
  <2>5. status' \in [Refs -> RowStatus \cup {"absent"}] /\ posted' \in [Refs -> Nat]
    BY <2>2, <2>3, <2>4
  <2>6. source' \in [Refs -> Sources \cup {None}] /\ previous' \in [Refs -> Refs \cup {None}]
    BY <1>5, <2>1 DEF CommitAttempt, Record
  <2>7. attempt' \in [Refs -> Nat]
    <3>1. (IF p = None THEN 1 ELSE attempt[p] + 1) \in Nat
      BY <2>1
    <3>. QED
      BY <1>5, <3>1 DEF CommitAttempt, Record
  <2>. QED
    BY <1>5, <2>5, <2>6, <2>7, WorkValues DEF CommitAttempt, Record
<1>6. ASSUME NEW w \in Workers, ListTransfers(w) PROVE TypeOK'
  BY <1>6, WorkValues DEF ListTransfers, rowVars
<1>7. ASSUME NEW w \in Workers, ReadPayouts(w) PROVE TypeOK'
  <2>1. {r \in Refs : work[w].listing[r] # "none" /\ status[r] = "pending"} \in SUBSET Refs
    OBVIOUS
  <2>. QED
    BY <1>7, <2>1, WorkValues DEF ReadPayouts, rowVars
<1>8. ASSUME NEW w \in Workers, FinishReconcile(w) PROVE TypeOK'
  BY <1>8, WorkValues DEF FinishReconcile, RowStatus
<1>9. ASSUME NEW w \in Workers, Abort(w) PROVE TypeOK'
  BY <1>9, WorkValues DEF Abort, rowVars
<1>10. CASE UNCHANGED vars
  BY <1>10 DEF vars, rowVars
<1>. QED
  BY <1>1, <1>2, <1>3, <1>4, <1>5, <1>6, <1>7, <1>8, <1>9, <1>10 DEF Next, Step

\* The initial state has the types.
LEMMA InitType == Init => TypeOK
<1>1. Idle \in Work
  BY WorkValues
<1>. SUFFICES ASSUME Init PROVE TypeOK
  OBVIOUS
<1>2. bank_on_file \in BOOLEAN
  BY DEF Init
<1>3. /\ status \in [Refs -> RowStatus \cup {"absent"}] /\ source \in [Refs -> Sources \cup {None}]
      /\ attempt \in [Refs -> Nat] /\ previous \in [Refs -> Refs \cup {None}]
      /\ posted \in [Refs -> Nat] /\ remote \in [Refs -> Remote]
  BY DEF Init, Remote
<1>4. work \in [Workers -> Work]
  BY <1>1 DEF Init
<1>. QED
  BY <1>2, <1>3, <1>4 DEF TypeOK

\* Every column keeps its type, whatever Squad answers.
THEOREM SettlementTypeCorrect == Spec => []TypeOK
BY InitType, TypeOKStays, PTL DEF Spec

-----------------------------------------------------------------------------
(* What holds however transactions overlap.                                *)

\* A row that was never inserted says nothing, and a row that was has a source.
BlankRows ==
  \A r \in Refs :
    /\ status[r] = "absent" => source[r] = None /\ previous[r] = None /\ posted[r] = 0
    /\ status[r] # "absent" => source[r] \in Sources

\* An attempt in progress has a reference of its own, no row yet, and the source of
\* the attempt it retries; the rows reconciliation has read are there.
WorkIsOwn ==
  \A w \in Workers :
    /\ work[w].op = "attempt" =>
         /\ work[w].ref \in Refs /\ status[work[w].ref] = "absent" /\ work[w].source \in Sources
         /\ work[w].previous # None => source[work[w].previous] = work[w].source
         /\ \A v \in Workers : v # w => work[v].ref # work[w].ref
    /\ work[w].op = "read" => \A r \in work[w].read : status[r] # "absent"

\* The inductive invariant they make with the types.
RowsInv == TypeOK /\ BlankRows /\ WorkIsOwn

\* What a worker holds that has just begun an attempt.
LEMMA Initiated ==
  ASSUME TypeOK, NEW w \in Workers, NEW s \in Sources \cup {None}, NEW p \in Refs \cup {None},
         NEW r \in Refs, Initiate(w, s, p, r)
  PROVE  /\ work'[w].op = "attempt" /\ work'[w].ref = r /\ work'[w].source = s
         /\ work'[w].previous = p
         /\ \A v \in Workers : v # w => work'[v] = work[v]
         /\ status[r] = "absent" /\ \A v \in Workers : work[v].ref # r
         /\ UNCHANGED rowVars
<1>1. PICK b \in BOOLEAN :
        work' = [work EXCEPT ![w] = [Idle EXCEPT !.op = "attempt", !.ref = r, !.source = s,
                                                 !.previous = p, !.sent = b]]
  BY DEF Initiate
<1>2. /\ work'[w] = [Idle EXCEPT !.op = "attempt", !.ref = r, !.source = s, !.previous = p, !.sent = b]
      /\ \A v \in Workers : v # w => work'[v] = work[v]
  BY <1>1 DEF TypeOK
<1>. QED
  BY <1>2 DEF Initiate, Fresh, Idle

\* A transaction begins an attempt, goes on, or ends.
LEMMA WorkSteps ==
  ASSUME TypeOK, [Next]_vars
  PROVE  \/ UNCHANGED <<rowVars, work>>
         \/ \E w \in Workers, r \in Refs : \/ \E s \in Sources : BeginSettle(w, s, r)
                                         \/ \E p \in Refs : BeginRetry(w, p, r)
         \/ \E w \in Workers :
              /\ UNCHANGED rowVars
              /\ \A v \in Workers : v # w => work'[v] = work[v]
              /\ \/ work'[w] = Idle
                 \/ work'[w].op = "listed" /\ work'[w].ref = None
                 \/ /\ work'[w].op = "read" /\ work'[w].ref = work[w].ref
                    /\ \A r \in work'[w].read : status[r] = "pending"
         \/ \E w \in Workers : CommitAttempt(w) \/ FinishReconcile(w)
<1>. USE DEF TypeOK
<1>1. ASSUME NEW w \in Workers, ListTransfers(w)
      PROVE  /\ UNCHANGED rowVars /\ work'[w].op = "listed" /\ work'[w].ref = None
             /\ \A v \in Workers : v # w => work'[v] = work[v]
  BY <1>1 DEF ListTransfers, Idle
<1>2. ASSUME NEW w \in Workers, ReadPayouts(w)
      PROVE  /\ UNCHANGED rowVars /\ work'[w].op = "read" /\ work'[w].ref = work[w].ref
             /\ \A r \in work'[w].read : status[r] = "pending"
             /\ \A v \in Workers : v # w => work'[v] = work[v]
  BY <1>2 DEF ReadPayouts, Work
<1>3. ASSUME NEW w \in Workers, Abort(w)
      PROVE  /\ UNCHANGED rowVars /\ work'[w] = Idle
             /\ \A v \in Workers : v # w => work'[v] = work[v]
  BY <1>3 DEF Abort
<1>4. CASE SetSettlementAccount \/ (\E r \in Refs : SquadAdvances(r)) \/ UNCHANGED vars
  BY <1>4 DEF SetSettlementAccount, SquadAdvances, vars
<1>. QED
  BY <1>1, <1>2, <1>3, <1>4 DEF Next, Step

\* A step writes no row, or records the attempt of a worker, or closes the payouts
\* a worker has read.
LEMMA RowSteps ==
  ASSUME [Next]_vars
  PROVE  \/ UNCHANGED rowVars
         \/ \E w \in Workers : CommitAttempt(w) \/ FinishReconcile(w)
BY DEF Next, Step, SetSettlementAccount, SquadAdvances, BeginSettle, BeginRetry, Initiate,
       ListTransfers, ReadPayouts, Abort, vars, rowVars

\* The row an attempt adds, and what it leaves alone.
LEMMA CommittedAttempt ==
  ASSUME RowsInv, NEW w \in Workers, CommitAttempt(w)
  PROVE  /\ work[w].op = "attempt" /\ work[w].ref \in Refs /\ status[work[w].ref] = "absent"
         /\ status'[work[w].ref] \in RowStatus
         /\ posted'[work[w].ref] = IF status'[work[w].ref] = "success" THEN 1 ELSE 0
         /\ source'[work[w].ref] = work[w].source /\ previous'[work[w].ref] = work[w].previous
         /\ attempt'[work[w].ref] = IF work[w].previous = None THEN 1
                                    ELSE attempt[work[w].previous] + 1
         /\ \A q \in Refs : q # work[w].ref =>
              /\ status'[q] = status[q] /\ posted'[q] = posted[q] /\ source'[q] = source[q]
              /\ previous'[q] = previous[q] /\ attempt'[q] = attempt[q]
         /\ work'[w] = Idle /\ \A v \in Workers : v # w => work'[v] = work[v]
<1>. DEFINE r == work[w].ref
<1>1. work[w].op = "attempt" /\ r \in Refs /\ status[r] = "absent"
  BY DEF RowsInv, WorkIsOwn, CommitAttempt, Record
<1>2. PICK result \in {Recorded(remote[r]), "pending", "failed"} :
        /\ status' = [status EXCEPT ![r] = result]
        /\ posted' = [posted EXCEPT ![r] = [pending |-> 0, success |-> 1, failed |-> 0][result]]
  BY DEF CommitAttempt, Record
<1>3. result \in RowStatus
  BY DEF Recorded, RowStatus
<1>4. [pending |-> 0, success |-> 1, failed |-> 0][result] = IF result = "success" THEN 1 ELSE 0
  BY <1>3 DEF RowStatus
<1>5. /\ source' = [source EXCEPT ![r] = work[w].source]
      /\ previous' = [previous EXCEPT ![r] = work[w].previous]
      /\ attempt' = [attempt EXCEPT ![r] = IF work[w].previous = None THEN 1
                                           ELSE attempt[work[w].previous] + 1]
      /\ work' = [work EXCEPT ![w] = Idle]
  BY DEF CommitAttempt, Record
<1>. QED
  BY <1>1, <1>2, <1>3, <1>4, <1>5 DEF RowsInv, TypeOK

\* The payouts reconciliation closes, and what it leaves alone: it changes rows it
\* has read and no others.
LEMMA FinishedReconcile ==
  ASSUME TypeOK, NEW w \in Workers, FinishReconcile(w)
  PROVE  /\ \A r \in Refs : status'[r] # status[r] =>
              r \in work[w].read /\ status'[r] \in {"success", "failed"}
         /\ UNCHANGED <<source, attempt, previous, posted>>
         /\ work[w].op = "read" /\ work'[w] = Idle
         /\ \A v \in Workers : v # w => work'[v] = work[v]
BY DEF FinishReconcile, TypeOK

\* An id that no payout uses yet keeps its blank columns.
LEMMA BlankRowsStay ==
  ASSUME RowsInv, [Next]_vars
  PROVE  BlankRows'
<1>1. CASE UNCHANGED rowVars
  BY <1>1 DEF RowsInv, BlankRows, rowVars
<1>2. ASSUME NEW w \in Workers, CommitAttempt(w) PROVE BlankRows'
  <2>1. work[w].source \in Sources
    BY <1>2, CommittedAttempt DEF RowsInv, WorkIsOwn
  <2>2. "absent" \notin RowStatus
    BY DEF RowStatus
  <2>. QED
    BY <1>2, <2>1, <2>2, CommittedAttempt DEF RowsInv, BlankRows
<1>3. ASSUME NEW w \in Workers, FinishReconcile(w) PROVE BlankRows'
  BY <1>3, FinishedReconcile DEF RowsInv, BlankRows, WorkIsOwn, TypeOK
<1>. QED
  BY <1>1, <1>2, <1>3, RowSteps

\* Beginning an attempt with a fresh reference leaves every attempt its own.
LEMMA InitiateKeepsOwn ==
  ASSUME RowsInv, NEW w \in Workers, NEW s \in Sources, NEW p \in Refs \cup {None}, NEW r \in Refs,
         Initiate(w, s, p, r), p # None => source[p] = s
  PROVE  WorkIsOwn'
<1>1. /\ work'[w].op = "attempt" /\ work'[w].ref = r /\ work'[w].source = s /\ work'[w].previous = p
      /\ \A v \in Workers : v # w => work'[v] = work[v]
      /\ status[r] = "absent" /\ \A v \in Workers : work[v].ref # r
      /\ UNCHANGED <<status, source>>
  BY Initiated DEF RowsInv, rowVars
<1>. QED
  BY <1>1 DEF RowsInv, WorkIsOwn

\* Whoever writes a row, an attempt in progress keeps its reference to itself.
LEMMA WorkStaysOwn ==
  ASSUME RowsInv, [Next]_vars
  PROVE  WorkIsOwn'
<1>1. TypeOK /\ BlankRows /\ WorkIsOwn /\ None \notin Refs /\ None \notin Sources
  BY NoneAssumption DEF RowsInv
<1>2. CASE UNCHANGED <<rowVars, work>>
  BY <1>1, <1>2 DEF WorkIsOwn, rowVars
<1>3. ASSUME NEW w \in Workers, NEW s \in Sources, NEW r \in Refs, BeginSettle(w, s, r)
      PROVE  WorkIsOwn'
  BY <1>3, InitiateKeepsOwn DEF BeginSettle
<1>4. ASSUME NEW w \in Workers, NEW p \in Refs, NEW r \in Refs, BeginRetry(w, p, r)
      PROVE  WorkIsOwn'
  <2>1. source[p] \in Sources
    BY <1>1, <1>4 DEF BeginRetry, BlankRows
  <2>. QED
    BY <1>4, <2>1, InitiateKeepsOwn DEF BeginRetry
<1>5. ASSUME NEW w \in Workers, UNCHANGED rowVars, \A v \in Workers : v # w => work'[v] = work[v],
             \/ work'[w] = Idle
             \/ work'[w].op = "listed" /\ work'[w].ref = None
             \/ /\ work'[w].op = "read" /\ work'[w].ref = work[w].ref
                /\ \A r \in work'[w].read : status[r] = "pending"
      PROVE  WorkIsOwn'
  <2>1. UNCHANGED <<status, source>>
    BY <1>5 DEF rowVars
  <2>. QED
    BY <1>1, <1>5, <2>1 DEF WorkIsOwn, Idle
<1>6. ASSUME NEW w \in Workers, CommitAttempt(w) PROVE WorkIsOwn'
  <2>. DEFINE r == work[w].ref
  <2>1. /\ work[w].op = "attempt" /\ r \in Refs /\ status[r] = "absent" /\ status'[r] # "absent"
        /\ \A q \in Refs : q # r => status'[q] = status[q] /\ source'[q] = source[q]
        /\ work'[w] = Idle /\ \A v \in Workers : v # w => work'[v] = work[v]
    BY <1>6, CommittedAttempt DEF RowStatus
  <2>2. source[r] = None
    BY <1>1, <2>1 DEF BlankRows
  <2>. SUFFICES ASSUME NEW v \in Workers
                PROVE  /\ work'[v].op = "attempt" =>
                            /\ work'[v].ref \in Refs /\ status'[work'[v].ref] = "absent"
                            /\ work'[v].source \in Sources
                            /\ work'[v].previous # None => source'[work'[v].previous] = work'[v].source
                            /\ \A x \in Workers : x # v => work'[x].ref # work'[v].ref
                       /\ work'[v].op = "read" => \A q \in work'[v].read : status'[q] # "absent"
    BY DEF WorkIsOwn
  <2>3. CASE v = w
    BY <2>1, <2>3 DEF Idle
  <2>4. CASE v # w
    <3>1. work'[v] = work[v] /\ work[v] \in Work
      BY <1>1, <2>1, <2>4 DEF TypeOK
    <3>2. ASSUME work[v].op = "attempt"
          PROVE  /\ work[v].ref \in Refs /\ work[v].ref # r /\ work[v].source \in Sources
                 /\ work[v].previous # None =>
                      /\ source[work[v].previous] = work[v].source
                      /\ work[v].previous \in Refs /\ work[v].previous # r
      BY <1>1, <2>1, <2>2, <2>4, <3>1, <3>2 DEF WorkIsOwn, Work
    <3>3. ASSUME work[v].op = "attempt", NEW x \in Workers, x # v PROVE work'[x].ref # work[v].ref
      BY <1>1, <2>1, <3>2, <3>3 DEF WorkIsOwn, Idle
    <3>4. work[v].op = "attempt" => status[work[v].ref] = "absent"
      BY <1>1 DEF WorkIsOwn
    <3>5. ASSUME work[v].op = "read", NEW q \in work[v].read PROVE status'[q] # "absent"
      <4>1. q \in Refs /\ status[q] # "absent"
        BY <1>1, <3>1, <3>5 DEF WorkIsOwn, Work
      <4>. QED
        BY <2>1, <4>1
    <3>. QED
      BY <2>1, <3>1, <3>2, <3>3, <3>4, <3>5
  <2>. QED
    BY <2>3, <2>4
<1>7. ASSUME NEW w \in Workers, FinishReconcile(w) PROVE WorkIsOwn'
  <2>1. /\ work[w].op = "read" /\ work'[w] = Idle
        /\ \A v \in Workers : v # w => work'[v] = work[v]
        /\ source' = source
        /\ \A r \in Refs : status'[r] # status[r] =>
             r \in work[w].read /\ status'[r] \in {"success", "failed"}
    BY <1>1, <1>7, FinishedReconcile
  <2>2. \A r \in Refs : status[r] = "absent" <=> status'[r] = "absent"
    BY <1>1, <2>1 DEF WorkIsOwn
  <2>3. \A v \in Workers : work[v] \in Work
    BY <1>1 DEF TypeOK
  <2>. QED
    BY <1>1, <2>1, <2>2, <2>3 DEF WorkIsOwn, Work, Idle
<1>. QED
  BY <1>1, <1>2, <1>3, <1>4, <1>5, <1>6, <1>7, WorkSteps

\* However transactions overlap, rows keep their columns and attempts their references.
LEMMA RowsInvariant == Spec => []RowsInv
<1>1. Init => RowsInv
  <2>1. Init => BlankRows /\ WorkIsOwn
    BY DEF Init, BlankRows, WorkIsOwn, Idle
  <2>. QED
    BY <2>1, InitType DEF RowsInv
<1>2. RowsInv /\ [Next]_vars => RowsInv'
  <2>. SUFFICES ASSUME RowsInv, [Next]_vars PROVE RowsInv'
    OBVIOUS
  <2>. QED
    BY TypeOKStays, BlankRowsStay, WorkStaysOwn DEF RowsInv
<1>. QED
  BY <1>1, <1>2, PTL DEF Spec

-----------------------------------------------------------------------------
(* Transactions that commit on current reads.                              *)

\* What the transaction of worker w has read is still so: an attempt is the first
\* of its source or retries a failed attempt nothing has retried, and what
\* reconciliation is about to close is open.
ReadsAreCurrent(w) ==
  /\ work[w].op = "attempt" =>
       /\ work[w].previous = None => \A q \in Refs : source[q] # work[w].source
       /\ work[w].previous # None => /\ status[work[w].previous] = "failed"
                                     /\ \A q \in Refs : previous[q] # work[w].previous
  /\ work[w].op = "read" => \A r \in work[w].read : status[r] = "pending"

\* The premise of the theorems below: no transaction commits after another one has
\* changed what it read, as if the rows it read were locked.
CommitIsCurrent ==
  \A w \in Workers : CommitAttempt(w) \/ FinishReconcile(w) => ReadsAreCurrent(w)

CommitsAreCurrent == [][CommitIsCurrent]_vars

\* One way to meet it: no two transactions are in progress at once.
NoOverlap == \A v, w \in Workers : work[v].op # "idle" /\ work[w].op # "idle" => v = w

\* One worker at most: every transaction ends before the next one begins.
Serial == \A v, w \in Workers : v = w

WorkCurrent == \A w \in Workers : ReadsAreCurrent(w)

\* A transaction that has just begun has read the rows as they are, and a commit
\* leaves no other transaction in progress.
LEMMA WorkCurrentStays ==
  ASSUME RowsInv, [Next]_vars, NoOverlap, WorkCurrent
  PROVE  WorkCurrent'
<1>1. TypeOK
  BY DEF RowsInv
<1>2. CASE UNCHANGED <<rowVars, work>>
  BY <1>2 DEF WorkCurrent, ReadsAreCurrent, rowVars
<1>3. ASSUME NEW w \in Workers, NEW s \in Sources, NEW r \in Refs, BeginSettle(w, s, r)
      PROVE  WorkCurrent'
  <2>1. /\ work'[w].op = "attempt" /\ work'[w].source = s /\ work'[w].previous = None
        /\ \A v \in Workers : v # w => work'[v] = work[v]
        /\ \A q \in Refs : source[q] # s
        /\ UNCHANGED <<status, source, previous>>
    BY <1>1, <1>3, Initiated DEF BeginSettle, rowVars
  <2>. QED
    BY <2>1 DEF WorkCurrent, ReadsAreCurrent
<1>4. ASSUME NEW w \in Workers, NEW p \in Refs, NEW r \in Refs, BeginRetry(w, p, r)
      PROVE  WorkCurrent'
  <2>1. source[p] \in Sources \cup {None} /\ p # None
    BY <1>1, NoneAssumption DEF TypeOK
  <2>2. /\ work'[w].op = "attempt" /\ work'[w].previous = p /\ status[p] = "failed"
        /\ \A v \in Workers : v # w => work'[v] = work[v]
        /\ \A q \in Refs : previous[q] # p
        /\ UNCHANGED <<status, source, previous>>
    BY <1>1, <1>4, <2>1, Initiated DEF BeginRetry, rowVars
  <2>. QED
    BY <2>1, <2>2 DEF WorkCurrent, ReadsAreCurrent
<1>5. ASSUME NEW w \in Workers, UNCHANGED rowVars, \A v \in Workers : v # w => work'[v] = work[v],
             \/ work'[w] = Idle
             \/ work'[w].op = "listed" /\ work'[w].ref = None
             \/ /\ work'[w].op = "read" /\ work'[w].ref = work[w].ref
                /\ \A r \in work'[w].read : status[r] = "pending"
      PROVE  WorkCurrent'
  <2>1. UNCHANGED <<status, source, previous>>
    BY <1>5 DEF rowVars
  <2>. QED
    BY <1>5, <2>1 DEF WorkCurrent, ReadsAreCurrent, Idle
<1>6. ASSUME NEW w \in Workers, CommitAttempt(w) \/ FinishReconcile(w) PROVE WorkCurrent'
  <2>1. /\ work[w].op # "idle" /\ work'[w] = Idle
        /\ \A v \in Workers : v # w => work'[v] = work[v]
    BY <1>1, <1>6, CommittedAttempt, FinishedReconcile
  <2>2. \A v \in Workers : work'[v].op = "idle"
    BY <2>1 DEF NoOverlap, Idle
  <2>. QED
    BY <2>2 DEF WorkCurrent, ReadsAreCurrent
<1>. QED
  BY <1>1, <1>2, <1>3, <1>4, <1>5, <1>6, WorkSteps

\* A committing worker has current reads.
LEMMA CommitsOnCurrent ==
  ASSUME TypeOK, [CommitIsCurrent]_vars, NEW w \in Workers, CommitAttempt(w) \/ FinishReconcile(w)
  PROVE  ReadsAreCurrent(w)
<1>1. work' # work
  BY DEF CommitAttempt, Record, FinishReconcile, Idle, TypeOK
<1>. QED
  BY <1>1 DEF CommitIsCurrent, vars

\* Recording an attempt extends the chain of its source at its end.
LEMMA ChainStays ==
  ASSUME RowsInv, RetriesFormAChain, [Next]_vars, [CommitIsCurrent]_vars
  PROVE  RetriesFormAChain'
<1>0. TypeOK /\ BlankRows /\ WorkIsOwn
  BY DEF RowsInv
<1>1. CASE UNCHANGED rowVars
  BY <1>1 DEF RetriesFormAChain, Tails, RowsOf, rowVars
<1>2. ASSUME NEW w \in Workers, FinishReconcile(w) PROVE RetriesFormAChain'
  <2>1. \A r \in Refs : status[r] = "failed" => status'[r] = "failed"
    BY <1>0, <1>2, FinishedReconcile, CommitsOnCurrent DEF ReadsAreCurrent
  <2>2. UNCHANGED <<source, attempt, previous>>
    BY <1>0, <1>2, FinishedReconcile
  <2>. QED
    BY <1>0, <2>1, <2>2 DEF RetriesFormAChain, Tails, RowsOf, TypeOK
<1>3. ASSUME NEW w \in Workers, CommitAttempt(w) PROVE RetriesFormAChain'
  <2>. DEFINE r == work[w].ref
              p == work[w].previous
  <2>1. /\ r \in Refs /\ status[r] = "absent" /\ source[r] = None /\ previous[r] = None
        /\ p \in Refs \cup {None}
    BY <1>0, <1>3, CommittedAttempt DEF BlankRows, TypeOK, Work
  <2>2. /\ work[w].source \in Sources
        /\ p = None => \A q \in Refs : source[q] # work[w].source
        /\ p # None => /\ status[p] = "failed" /\ source[p] = work[w].source
                       /\ \A q \in Refs : previous[q] # p
    BY <1>0, <1>3, CommitsOnCurrent DEF ReadsAreCurrent, WorkIsOwn, CommitAttempt, Record
  <2>3. \A q \in Refs : previous[q] # r
    BY <2>1, NoneAssumption DEF RetriesFormAChain
  <2>4. p # r
    BY <2>1, <2>2, NoneAssumption
  <2>5. ASSUME NEW q \in Refs, previous'[q] # None
        PROVE  /\ source'[previous'[q]] = source'[q]
               /\ status'[previous'[q]] = "failed"
               /\ attempt'[q] = attempt'[previous'[q]] + 1
               /\ \A x \in Refs : previous'[x] = previous'[q] => x = q
    <3>1. CASE q = r
      BY <1>3, <2>1, <2>2, <2>4, <2>5, <3>1, CommittedAttempt
    <3>2. CASE q # r
      <4>1. previous'[q] = previous[q] /\ previous[q] # None /\ previous[q] \in Refs /\ previous[q] # r
        BY <1>0, <1>3, <2>3, <2>5, <3>2, CommittedAttempt DEF TypeOK
      <4>2. previous[q] # p \/ p = None
        BY <2>2
      <4>3. /\ source[previous[q]] = source[q] /\ status[previous[q]] = "failed"
            /\ attempt[q] = attempt[previous[q]] + 1
            /\ \A x \in Refs : previous[x] = previous[q] => x = q
        BY <4>1 DEF RetriesFormAChain
      <4>. QED
        BY <1>3, <3>2, <4>1, <4>2, <4>3, CommittedAttempt
    <3>. QED
      BY <3>1, <3>2
  <2>6. ASSUME NEW s \in Sources, NEW q \in Refs, NEW x \in Refs,
               source'[q] = s, \A y \in Refs : previous'[y] # q,
               source'[x] = s, \A y \in Refs : previous'[y] # x
        PROVE  q = x
    <3>1. \A y \in Refs : y # r => source'[y] = source[y]
      BY <1>3, CommittedAttempt
    <3>2. source'[r] = work[w].source /\ previous'[r] = p
      BY <1>3, CommittedAttempt
    <3>3. \A y \in Refs : \A z \in Refs : previous[y] = z => previous'[y] = z
      BY <1>3, <2>1, NoneAssumption, CommittedAttempt
    <3>4. ASSUME NEW y \in Refs, y # r, source'[y] = s, \A z \in Refs : previous'[z] # y
          PROVE  y \in Tails(s)
      BY <3>1, <3>3, <3>4 DEF Tails, RowsOf
    <3>5. ASSUME NEW y \in Refs, y # r, y \in Tails(s), s = work[w].source
          PROVE  y = p
      <4>1. p # None
        BY <2>2, <3>5 DEF Tails, RowsOf
      <4>2. p \in Tails(s)
        BY <2>1, <2>2, <3>5, <4>1 DEF Tails, RowsOf
      <4>. QED
        BY <3>5, <4>2 DEF RetriesFormAChain
    <3>6. CASE q # r /\ x # r
      BY <2>6, <3>4, <3>6 DEF RetriesFormAChain
    <3>7. CASE q = r \/ x = r
      BY <2>1, <2>6, <3>2, <3>4, <3>5, <3>7
    <3>. QED
      BY <3>6, <3>7
  <2>. QED
    BY <2>5, <2>6 DEF RetriesFormAChain, Tails, RowsOf
<1>. QED
  BY <1>1, <1>2, <1>3, RowSteps

\* An attempt that is not failed has not been retried, so it is its source's last.
LEMMA ChainHasOneLiveAttempt ==
  ASSUME BlankRows, RetriesFormAChain
  PROVE  OneLiveAttempt
<1>. SUFFICES ASSUME NEW s \in Sources, NEW q \in RowsOf(s), NEW r \in RowsOf(s),
                     status[q] \in {"pending", "success"}, status[r] \in {"pending", "success"}
              PROVE  q = r
  BY DEF OneLiveAttempt
<1>1. q \in Tails(s) /\ r \in Tails(s)
  BY NoneAssumption DEF BlankRows, RetriesFormAChain, Tails, RowsOf
<1>. QED
  BY <1>1 DEF RetriesFormAChain

\* What the ledger holds for each attempt: one clearing for an attempt paid out at
\* most, none for any other.
PostedFollows == \A r \in Refs : posted[r] <= (IF status[r] = "success" THEN 1 ELSE 0)

\* No step posts for an attempt that is not recorded as paid out.
LEMMA PostedFollowsStays ==
  ASSUME RowsInv, PostedFollows, [Next]_vars, [CommitIsCurrent]_vars
  PROVE  PostedFollows'
<1>1. CASE UNCHANGED rowVars
  BY <1>1 DEF PostedFollows, rowVars
<1>2. ASSUME NEW w \in Workers, CommitAttempt(w) PROVE PostedFollows'
  BY <1>2, CommittedAttempt DEF PostedFollows
<1>3. ASSUME NEW w \in Workers, FinishReconcile(w) PROVE PostedFollows'
  <2>1. \A r \in Refs : status[r] = "success" => status'[r] = "success"
    BY <1>3, FinishedReconcile, CommitsOnCurrent DEF RowsInv, ReadsAreCurrent
  <2>2. posted' = posted /\ \A r \in Refs : posted[r] \in Nat
    BY <1>3, FinishedReconcile DEF RowsInv, TypeOK
  <2>. QED
    BY <2>1, <2>2 DEF PostedFollows
<1>. QED
  BY <1>1, <1>2, <1>3, RowSteps

\* Only an attempt recorded as paid out is posted, and a source has one live attempt.
LEMMA OneClearing ==
  ASSUME TypeOK, PostedFollows, OneLiveAttempt
  PROVE  ClearedAtMostOnce
<1>1. \A r \in Refs : posted[r] > 0 => status[r] = "success"
  BY DEF PostedFollows, TypeOK
<1>. QED
  BY <1>1 DEF ClearedAtMostOnce, PostedFollows, OneLiveAttempt, RowsOf

\* The inductive invariant of settlement while commits are current.
ChainInv == RowsInv /\ RetriesFormAChain /\ PostedFollows

\* It holds in every reachable state.
LEMMA ChainInvariant == Spec /\ CommitsAreCurrent => []ChainInv
<1>1. Init => RetriesFormAChain /\ PostedFollows
  BY NoneAssumption DEF Init, RetriesFormAChain, Tails, RowsOf, PostedFollows
<1>2. RowsInv /\ RetriesFormAChain /\ [Next]_vars /\ [CommitIsCurrent]_vars => RetriesFormAChain'
  BY ChainStays
<1>3. RowsInv /\ PostedFollows /\ [Next]_vars /\ [CommitIsCurrent]_vars => PostedFollows'
  BY PostedFollowsStays
<1>4. RowsInv /\ RetriesFormAChain /\ PostedFollows => ChainInv
  BY DEF ChainInv
<1>. QED
  BY <1>1, <1>2, <1>3, <1>4, RowsInvariant, PTL DEF Spec, CommitsAreCurrent

\* Commits are current when no two transactions are in progress at once, in whatever
\* processes they run.
THEOREM SettlementNoOverlapIsCurrent == Spec /\ []NoOverlap => CommitsAreCurrent
<1>1. Init => WorkCurrent
  BY DEF Init, WorkCurrent, ReadsAreCurrent, Idle
<1>2. RowsInv /\ WorkCurrent /\ NoOverlap /\ [Next]_vars => WorkCurrent'
  BY WorkCurrentStays
<1>3. WorkCurrent => [CommitIsCurrent]_vars
  BY DEF WorkCurrent, CommitIsCurrent
<1>. QED
  BY <1>1, <1>2, <1>3, RowsInvariant, PTL DEF Spec, CommitsAreCurrent

\* So they are in the run with one worker.
COROLLARY SettlementSerialIsCurrent == ASSUME Serial PROVE Spec => CommitsAreCurrent
<1>1. NoOverlap
  BY DEF Serial, NoOverlap
<1>. QED
  BY <1>1, SettlementNoOverlapIsCurrent, PTL

\* While commits are current the attempts of a source form one chain, each
\* retry following the failed attempt it was made for.
THEOREM AttemptsChain ==
  Spec /\ CommitsAreCurrent => []RetriesFormAChain
<1>1. ChainInv => RetriesFormAChain
  BY DEF ChainInv
<1>. QED
  BY <1>1, ChainInvariant, PTL

\* While commits are current a source never has two attempts open or paid out.
THEOREM OneAttemptLives ==
  Spec /\ CommitsAreCurrent => []OneLiveAttempt
<1>1. ChainInv => OneLiveAttempt
  BY ChainHasOneLiveAttempt DEF ChainInv, RowsInv
<1>. QED
  BY <1>1, ChainInvariant, PTL

\* While commits are current the insurer's payable is cleared once per source.
THEOREM PayableClearedOnce ==
  Spec /\ CommitsAreCurrent => []ClearedAtMostOnce
<1>1. ChainInv => ClearedAtMostOnce
  BY ChainHasOneLiveAttempt, OneClearing DEF ChainInv, RowsInv
<1>. QED
  BY <1>1, ChainInvariant, PTL

\* While commits are current no recorded outcome is rewritten.
THEOREM RecordedFinal ==
  Spec /\ CommitsAreCurrent => RecordedOutcomesAreFinal
<1>. DEFINE Keeps ==
       \A r \in Refs :
         /\ status[r] \in {"success", "failed"} => status'[r] = status[r]
         /\ status[r] # "absent" => /\ source'[r] = source[r]
                                    /\ previous'[r] = previous[r]
                                    /\ attempt'[r] = attempt[r]
<1>1. ASSUME RowsInv, [Next]_vars, [CommitIsCurrent]_vars PROVE [Keeps]_vars
  <2>2. CASE UNCHANGED rowVars
    BY <2>2 DEF rowVars
  <2>3. ASSUME NEW w \in Workers, CommitAttempt(w) PROVE Keeps
    BY <1>1, <2>3, CommittedAttempt
  <2>4. ASSUME NEW w \in Workers, FinishReconcile(w) PROVE Keeps
    BY <1>1, <2>4, FinishedReconcile, CommitsOnCurrent DEF RowsInv, ReadsAreCurrent
  <2>. QED
    BY <1>1, <2>2, <2>3, <2>4, RowSteps
<1>. QED
  BY <1>1, RowsInvariant, PTL DEF Spec, CommitsAreCurrent, RecordedOutcomesAreFinal

-----------------------------------------------------------------------------
(* Settlement implements PayoutLifecycle.                                  *)

\* A source is read off its rows: with none it is unsettled, with a live attempt
\* it is where that attempt is, and otherwise it failed.
LEMMA OutcomeOf ==
  ASSUME TypeOK, BlankRows, OneLiveAttempt, NEW s \in Sources
  PROVE  /\ Outcome[s] = "unsettled" <=> RowsOf(s) = {}
         /\ \A r \in RowsOf(s) : status[r] \in {"pending", "success"} => Outcome[s] = status[r]
         /\ (RowsOf(s) # {} /\ \A r \in RowsOf(s) : status[r] = "failed") => Outcome[s] = "failed"
         /\ \A r \in RowsOf(s) : status[r] \in RowStatus
         /\ Outcome[s] \in Lifecycle!Outcomes
<1>1. \A r \in RowsOf(s) : r \in Refs /\ status[r] \in RowStatus
  BY NoneAssumption DEF BlankRows, TypeOK, RowsOf
<1>. QED
  BY <1>1 DEF Outcome, Lifecycle!Outcomes, OneLiveAttempt, RowStatus

\* How Outcome reads the rows of every source, as a formula a step can prime.
OutcomeIsRead ==
  \A s \in Sources :
    /\ Outcome[s] = "unsettled" <=> RowsOf(s) = {}
    /\ \A r \in RowsOf(s) : status[r] \in {"pending", "success"} => Outcome[s] = status[r]
    /\ (RowsOf(s) # {} /\ \A r \in RowsOf(s) : status[r] = "failed") => Outcome[s] = "failed"
    /\ \A r \in RowsOf(s) : status[r] \in RowStatus

\* It holds wherever the inductive invariant does.
LEMMA ChainReads == ChainInv => OutcomeIsRead
BY OutcomeOf, ChainHasOneLiveAttempt DEF ChainInv, RowsInv, OutcomeIsRead

\* A source that is retried has failed: all its attempts have.
LEMMA RetriedHasFailed ==
  ASSUME ChainInv, NEW s \in Sources, NEW p \in Refs, source[p] = s, status[p] = "failed",
         \A q \in Refs : previous[q] # p
  PROVE  \A r \in RowsOf(s) : status[r] = "failed"
<1>. SUFFICES ASSUME NEW r \in RowsOf(s), status[r] # "failed" PROVE FALSE
  OBVIOUS
<1>1. p \in Tails(s)
  BY DEF Tails, RowsOf
<1>2. r \in Refs /\ r # None /\ \A q \in Refs : previous[q] # r
  BY NoneAssumption DEF ChainInv, RowsInv, BlankRows, RetriesFormAChain, RowsOf
<1>3. r \in Tails(s)
  BY <1>2 DEF Tails
<1>. QED
  BY <1>1, <1>3 DEF ChainInv, RetriesFormAChain

\* Recording an attempt is an attempt of its source, unsettled or failed before.
LEMMA AttemptImplements ==
  ASSUME ChainInv, OutcomeIsRead, OutcomeIsRead', NEW w \in Workers, CommitAttempt(w), ReadsAreCurrent(w)
  PROVE  Lifecycle!Next
<1>. PICK r, s, p : r = work[w].ref /\ s = work[w].source /\ p = work[w].previous
  OBVIOUS
<1>1. RowsInv /\ TypeOK /\ WorkIsOwn /\ BlankRows
  BY DEF ChainInv, RowsInv
<1>2. /\ r \in Refs /\ status[r] = "absent" /\ s \in Sources /\ source[r] = None
      /\ p \in Refs \cup {None}
      /\ p = None => \A q \in Refs : source[q] # s
      /\ p # None => /\ status[p] = "failed" /\ source[p] = s
                     /\ \A q \in Refs : previous[q] # p
  BY <1>1 DEF WorkIsOwn, ReadsAreCurrent, CommitAttempt, Record, BlankRows, TypeOK, Work
<1>3. /\ status'[r] \in RowStatus /\ source'[r] = s
      /\ \A q \in Refs : q # r => status'[q] = status[q] /\ source'[q] = source[q]
  BY <1>1, CommittedAttempt
<1>4. \A q \in RowsOf(s) : status[q] = "failed"
  BY <1>2, RetriedHasFailed DEF RowsOf
<1>5. Outcome[s] \in {"unsettled", "failed"}
  BY <1>2, <1>4 DEF OutcomeIsRead
<1>6. RowsOf(s)' = RowsOf(s) \cup {r} /\ \A x \in Sources : x # s => RowsOf(x)' = RowsOf(x)
  BY <1>2, <1>3, NoneAssumption DEF RowsOf
<1>7. r \in RowsOf(s)' /\ \A q \in RowsOf(s)' : q # r => status'[q] = "failed"
  <2>1. \A q \in RowsOf(s) : q \in Refs
    BY DEF RowsOf
  <2>. QED
    BY <1>3, <1>4, <1>6, <2>1
<1>8. Outcome'[s] = status'[r]
  <2>1. CASE status'[r] = "failed"
    BY <1>2, <1>7, <2>1 DEF OutcomeIsRead
  <2>2. CASE status'[r] # "failed"
    BY <1>2, <1>3, <1>7, <2>2 DEF OutcomeIsRead, RowStatus
  <2>. QED
    BY <2>1, <2>2
<1>9. ASSUME NEW x \in Sources, x # s PROVE Outcome'[x] = Outcome[x]
  <2>1. \A q \in RowsOf(x) : status'[q] = status[q]
    BY <1>2, <1>3, <1>9, NoneAssumption DEF RowsOf
  <2>. QED
    BY <1>6, <1>9, <2>1 DEF Outcome
<1>10. Outcome' = [Outcome EXCEPT ![s] = status'[r]]
  BY <1>2, <1>8, <1>9 DEF Outcome
<1>11. Lifecycle!Attempt(s)
  BY <1>3, <1>5, <1>10 DEF Lifecycle!Attempt, RowStatus
<1>. QED
  BY <1>2, <1>11 DEF Lifecycle!Next

\* A reconciliation run closes the sources whose open attempt it closes.
LEMMA ReconcileImplements ==
  ASSUME ChainInv, OutcomeIsRead, OutcomeIsRead', NEW w \in Workers, FinishReconcile(w), ReadsAreCurrent(w)
  PROVE  Lifecycle!Next
<1>. DEFINE S == {s \in Sources : Outcome'[s] # Outcome[s]}
<1>1. /\ \A r \in Refs : status'[r] # status[r] =>
           status[r] = "pending" /\ status'[r] \in {"success", "failed"}
      /\ source' = source
  BY FinishedReconcile DEF ChainInv, RowsInv, ReadsAreCurrent
<1>2. \A s \in Sources : RowsOf(s)' = RowsOf(s) /\ RowsOf(s) \subseteq Refs
  BY <1>1 DEF RowsOf
<1>3. ASSUME NEW s \in S
      PROVE  Outcome[s] = "pending" /\ Outcome'[s] \in {"failed", "success"}
  <2>1. PICK r \in RowsOf(s) : status'[r] # status[r]
    BY <1>2 DEF Outcome
  <2>2. r \in Refs /\ status[r] = "pending" /\ status'[r] \in {"success", "failed"}
    BY <1>1, <1>2, <2>1
  <2>3. Outcome[s] = "pending"
    BY <2>1, <2>2 DEF OutcomeIsRead
  <2>4. ASSUME NEW q \in RowsOf(s), q # r PROVE status'[q] = "failed"
    <3>1. q \in Refs /\ status[q] \in RowStatus
      BY <1>2 DEF OutcomeIsRead
    <3>2. status[q] \notin {"pending", "success"}
      BY <2>1, <2>2, <2>4, <3>1, ChainHasOneLiveAttempt DEF ChainInv, RowsInv, OneLiveAttempt
    <3>. QED
      BY <1>1, <3>1, <3>2 DEF RowStatus
  <2>5. CASE status'[r] = "success"
    BY <1>2, <2>1, <2>3, <2>5 DEF OutcomeIsRead
  <2>6. CASE status'[r] = "failed"
    BY <1>2, <2>1, <2>3, <2>4, <2>6 DEF OutcomeIsRead
  <2>. QED
    BY <2>2, <2>3, <2>5, <2>6
<1>4. Lifecycle!Close(S)
  <2>1. [s \in S |-> Outcome'[s]] \in [S -> {"failed", "success"}]
    BY <1>3
  <2>2. Outcome' = [s \in Sources |-> IF s \in S THEN [x \in S |-> Outcome'[x]][s] ELSE Outcome[s]]
    BY DEF Outcome
  <2>. QED
    BY <1>3, <2>1, <2>2 DEF Lifecycle!Close
<1>. QED
  BY <1>4 DEF Lifecycle!Next

\* While commits are current settlement keeps the lifecycle promised of every
\* source: no attempt while one is open or after one was paid out.
THEOREM SettlementKeepsLifecycle ==
  Spec /\ CommitsAreCurrent => KeepsLifecycle
<1>1. Init => Lifecycle!Init
  BY NoneAssumption DEF Init, Lifecycle!Init, Outcome, RowsOf
<1>2. ChainInv' => OutcomeIsRead'
  BY ChainReads, PTL
<1>3. ASSUME ChainInv, ChainInv', [Next]_vars, [CommitIsCurrent]_vars
      PROVE  [Lifecycle!Next]_Outcome
  <2>1. OutcomeIsRead /\ OutcomeIsRead'
    BY <1>2, <1>3, ChainReads
  <2>2. CASE UNCHANGED rowVars
    <3>1. Outcome' = Outcome
      BY <2>2 DEF rowVars, Outcome, RowsOf
    <3>. QED
      BY <3>1
  <2>3. ASSUME NEW w \in Workers, CommitAttempt(w) \/ FinishReconcile(w) PROVE ReadsAreCurrent(w)
    BY <1>3, <2>3, CommitsOnCurrent DEF ChainInv, RowsInv
  <2>. QED
    BY <1>3, <2>1, <2>2, <2>3, RowSteps, AttemptImplements, ReconcileImplements
<1>. QED
  BY <1>1, <1>3, ChainInvariant, PTL DEF Spec, CommitsAreCurrent, KeepsLifecycle, Lifecycle!Spec
=============================================================================
