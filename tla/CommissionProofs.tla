-------------------------- MODULE CommissionProofs --------------------------
(***************************************************************************)
(* What holds of Commission for any rates, rows, payments and number of    *)
(* overlapping transactions.                                               *)
(***************************************************************************)
EXTENDS Commission, TLAPS

(* The split.                                                              *)

\* A share is the largest number of whole kobo within its rate.
LEMMA ShareBounds ==
  ASSUME NEW g \in Nat, NEW b \in Nat
  PROVE  /\ Share(g, b) \in Nat
         /\ Share(g, b) * Whole <= g * b
         /\ g * b < Share(g, b) * Whole + Whole
<1>. DEFINE n == g * b
<1>1. n \in Nat
  OBVIOUS
<1>. HIDE DEF n
<1>2. /\ n \div 10000 \in Nat
      /\ (n \div 10000) * 10000 <= n
      /\ n < (n \div 10000) * 10000 + 10000
  BY <1>1
<1>. QED
  BY <1>2 DEF n, Share, Whole

\* The four shares of any gross amount at any rates within the whole are natural
\* numbers that sum exactly to it; the insurer has at least its proportional share
\* and at most three kobo more than that share rounded down.
THEOREM SplitExact ==
  ASSUME NEW g \in Nat, NEW r \in [gtbank : Bps, insureflow : Bps, broker : Bps],
         Total(r) <= Whole
  PROVE  /\ Split(g, r) \in Shares
         /\ Split(g, r).gtbank + Split(g, r).insureflow + Split(g, r).broker
              + Split(g, r).insurer = g
         /\ Split(g, r).insurer * Whole >= g * (Whole - Total(r))
         /\ Split(g, r).insurer <= Share(g, Whole - Total(r)) + 3
<1>. DEFINE a == r.gtbank
            b == r.insureflow
            c == r.broker
            d == Whole - Total(r)
            A == Share(g, a)
            B == Share(g, b)
            C == Share(g, c)
            D == Share(g, d)
<1>1. a \in Nat /\ b \in Nat /\ c \in Nat /\ d \in Nat /\ a + b + c + d = Whole
  <2>1. a \in 0..10000 /\ b \in 0..10000 /\ c \in 0..10000
    BY DEF Bps, Whole
  <2>2. d = 10000 - (a + b + c) /\ a + b + c <= 10000
    BY DEF Total, Whole
  <2>. HIDE DEF a, b, c, d
  <2>. QED
    BY <2>1, <2>2 DEF Whole
<1>2. g * a + g * b + g * c + g * d = g * Whole
  <2>. HIDE DEF a, b, c, d
  <2>. QED
    BY <1>1, SMTT(30) DEF Whole
<1>3. /\ A \in Nat /\ A * Whole <= g * a /\ g * a < A * Whole + Whole
      /\ B \in Nat /\ B * Whole <= g * b /\ g * b < B * Whole + Whole
      /\ C \in Nat /\ C * Whole <= g * c /\ g * c < C * Whole + Whole
      /\ D \in Nat /\ D * Whole <= g * d /\ g * d < D * Whole + Whole
  <2>. HIDE DEF a, b, c, d
  <2>. QED
    BY <1>1, ShareBounds
<1>. DEFINE s == D + (g - (A + B + C + D))
<1>4. Split(g, r) = [gtbank |-> A, insureflow |-> B, broker |-> C, insurer |-> s]
  BY DEF Split
<1>5. s \in Nat /\ A + B + C + s = g /\ s * Whole >= g * d /\ s <= D + 3
  <2>. DEFINE ga == g * a
              gb == g * b
              gc == g * c
              gd == g * d
  <2>1. ga \in Nat /\ gb \in Nat /\ gc \in Nat /\ gd \in Nat
    <3>. HIDE DEF a, b, c, d
    <3>. QED
      BY <1>1
  <2>. HIDE DEF A, B, C, D, ga, gb, gc, gd
  <2>2. ga + gb + gc + gd = g * 10000
    BY <1>2 DEF ga, gb, gc, gd, Whole
  <2>3. /\ A \in Nat /\ A * 10000 <= ga /\ ga < A * 10000 + 10000
        /\ B \in Nat /\ B * 10000 <= gb /\ gb < B * 10000 + 10000
        /\ C \in Nat /\ C * 10000 <= gc /\ gc < C * 10000 + 10000
        /\ D \in Nat /\ D * 10000 <= gd /\ gd < D * 10000 + 10000
    BY <1>3 DEF ga, gb, gc, gd, Whole
  <2>4. s \in Nat /\ A + B + C + s = g /\ s * 10000 >= gd /\ s <= D + 3
    BY <2>1, <2>2, <2>3
  <2>. QED
    BY <2>4 DEF gd, Whole
<1>. QED
  BY <1>3, <1>4, <1>5 DEF Shares

-----------------------------------------------------------------------------
(* The range of the variables.                                             *)

\* What a worker may hold after each of its steps.
LEMMA WorkValues ==
  ASSUME TypeOK, NEW w \in Workers
  PROVE  /\ Idle \in Work
         /\ \A k \in Keys, r \in RateSets, cur \in Configs \cup {None} :
              [Idle EXCEPT !.op = "set", !.key = k, !.rates = r, !.current = cur, !.now = clock] \in Work
         /\ \A b \in Brokers, i \in Insurers :
              [Idle EXCEPT !.op = "broker", !.now = clock, !.levels = <<b, i, Global>>] \in Work
         /\ \A c \in Configs : [work[w] EXCEPT !.op = "found", !.found = c] \in Work
         /\ \A op \in {"insurer", "global", "unresolved"} : [work[w] EXCEPT !.op = op] \in Work
<1>1. SeedRates \in RateSets /\ clock \in Nat /\ work[w] \in Work
  BY CommissionAssumption DEF TypeOK
<1>. QED
  BY <1>1 DEF Idle, Work, Keys

\* A step keeps the type of every variable.
LEMMA TypeOKStays == TypeOK /\ [Next]_vars => TypeOK'
<1>. SUFFICES ASSUME TypeOK, [Next]_vars
              PROVE  TypeOK'
  OBVIOUS
<1>1. CASE UNCHANGED vars
  BY <1>1 DEF vars, rowVars, TypeOK
<1>2. CASE Tick
  BY <1>2 DEF Tick, rowVars, TypeOK
<1>3. ASSUME NEW p \in Payments, Collect(p)
      PROVE  TypeOK'
  <2>1. locked[p] \in Configs /\ rates[locked[p]] \in RateSets /\ Gross[p] \in Nat
    BY <1>3, CommissionAssumption DEF Collect, TypeOK
  <2>2. Split(Gross[p], rates[locked[p]]) \in Shares
    BY <1>3, <2>1, SplitExact, CommissionAssumption DEF Collect, Postable
  <2>. QED
    BY <1>3, <2>2 DEF Collect, rowVars, TypeOK
<1>4. ASSUME NEW w \in Workers, NEW k \in Keys, NEW r \in RateSets, BeginSet(w, k, r)
      PROVE  TypeOK'
  <2>1. PICK cur \in Configs \cup {None} :
          Begin(w, [Idle EXCEPT !.op = "set", !.key = k, !.rates = r, !.current = cur, !.now = clock])
    BY <1>4 DEF BeginSet, Active
  <2>2. [Idle EXCEPT !.op = "set", !.key = k, !.rates = r, !.current = cur, !.now = clock] \in Work
    BY WorkValues
  <2>. QED
    BY <2>1, <2>2 DEF Begin, rowVars, TypeOK
<1>5. ASSUME NEW w \in Workers, NEW b \in Brokers, NEW i \in Insurers, BeginLock(w, b, i)
      PROVE  TypeOK'
  BY <1>5, WorkValues DEF BeginLock, Begin, rowVars, TypeOK
<1>6. ASSUME NEW w \in Workers, CommitSet(w)
      PROVE  TypeOK'
  <2>1. work[w].key \in Keys \cup {None} /\ work[w].rates \in RateSets /\ work[w].now \in Nat
    BY DEF TypeOK, Work
  <2>. QED
    BY <1>6, <2>1, WorkValues DEF CommitSet, TypeOK
<1>7. ASSUME NEW w \in Workers, ResolveLevel(w)
      PROVE  TypeOK'
  <2>1. \/ \E c \in Configs : work' = [work EXCEPT ![w] = [work[w] EXCEPT !.op = "found", !.found = c]]
        \/ \E op \in {"insurer", "global", "unresolved"} :
             work' = [work EXCEPT ![w] = [work[w] EXCEPT !.op = op]]
    BY <1>7 DEF ResolveLevel, Query, InForce
  <2>2. \A x \in Work : work' = [work EXCEPT ![w] = x] => work' \in [Workers -> Work]
    BY DEF TypeOK
  <2>3. work' \in [Workers -> Work]
    BY <2>1, <2>2, WorkValues
  <2>. QED
    BY <1>7, <2>3 DEF ResolveLevel, Query, rowVars, TypeOK
<1>8. ASSUME NEW w \in Workers, CommitLock(w)
      PROVE  TypeOK'
  <2>1. work[w].found \in Configs \cup {None}
    BY DEF TypeOK, Work
  <2>. QED
    BY <1>8, <2>1, WorkValues DEF CommitLock, rowVars, TypeOK
<1>9. ASSUME NEW w \in Workers, Abort(w)
      PROVE  TypeOK'
  BY <1>9, WorkValues DEF Abort, rowVars, TypeOK
<1>. QED
  BY <1>1, <1>2, <1>3, <1>4, <1>5, <1>6, <1>7, <1>8, <1>9 DEF Next, Step

\* The initial state has the types.
LEMMA InitType == Init => TypeOK
<1>. SUFFICES ASSUME Init
              PROVE  TypeOK
  OBVIOUS
<1>1. SeedRates \in RateSets /\ Global \in Keys
  BY CommissionAssumption DEF Keys
<1>2. Idle \in Work
  BY <1>1 DEF Idle, Work
<1>. QED
  BY <1>1, <1>2 DEF Init, TypeOK

\* Every column keeps its type; no share posted is ever negative.
THEOREM CommissionTypeCorrect == Spec => []TypeOK
<1>. QED
  BY InitType, TypeOKStays, PTL DEF Spec

-----------------------------------------------------------------------------
(* The history of the rows.                                                *)

\* Rows are dated in the past; what is not a row yet has not been closed.
RowsInTime ==
  \A c \in Configs :
    /\ key[c] # None => from[c] <= clock /\ (to[c] # None => to[c] <= clock)
    /\ key[c] = None => to[c] = None

SeedStands == key[Seed] = Global /\ from[Seed] = 0

\* HistoryIsTotal, at all moments and without what it implies of active rows.
HistoryTotal ==
  \A k \in Keys, m \in Nat :
    /\ \A c, d \in InForce(k, m) : c = d
    /\ (\E c \in Configs : key[c] = k /\ from[c] <= m) => InForce(k, m) # {}

\* What a worker has read is still a row, though perhaps no longer the active one.
WorkRead ==
  \A w \in Workers :
    /\ work[w].op = "set" =>
         /\ work[w].key \in Keys /\ work[w].now <= clock
         /\ work[w].current # None =>
              key[work[w].current] = work[w].key /\ from[work[w].current] <= work[w].now
    /\ work[w].op = "found" => work[w].found \in Configs /\ key[work[w].found] # None
    /\ work[w].levels[3] = Global

LockedStand ==
  \A p \in Payments :
    /\ locked[p] # None => key[locked[p]] # None
    /\ legs[p] # None => locked[p] # None

\* Only a rate change writes rows.
LEMMA RowSteps ==
  ASSUME [Next]_vars
  PROVE  (UNCHANGED rowVars /\ clock' \in {clock, clock + 1}) \/ \E w \in Workers : CommitSet(w)
BY DEF Next, Step, vars, rowVars, Tick, Collect, BeginSet, Begin, BeginLock, ResolveLevel, Query,
       CommitLock, Abort

\* A row that exists keeps its key, its rates and its time, and time does not go back.
LEMMA RowsStay ==
  ASSUME TypeOK, [Next]_vars
  PROVE  /\ clock <= clock' /\ clock' \in Nat
         /\ \A c \in Configs : key[c] # None =>
              key'[c] = key[c] /\ rates'[c] = rates[c] /\ from'[c] = from[c]
<1>1. CASE UNCHANGED rowVars /\ clock' \in {clock, clock + 1}
  BY <1>1 DEF rowVars, TypeOK
<1>2. ASSUME NEW w \in Workers, CommitSet(w)
      PROVE  /\ clock <= clock' /\ clock' \in Nat
             /\ \A c \in Configs : key[c] # None =>
                  key'[c] = key[c] /\ rates'[c] = rates[c] /\ from'[c] = from[c]
  <2>1. PICK c \in Configs : /\ key[c] = None
                             /\ key' = [key EXCEPT ![c] = work[w].key]
                             /\ rates' = [rates EXCEPT ![c] = work[w].rates]
                             /\ from' = [from EXCEPT ![c] = work[w].now]
    BY <1>2 DEF CommitSet
  <2>. QED
    BY <1>2, <2>1 DEF CommitSet, TypeOK
<1>. QED
  BY <1>1, <1>2, RowSteps

\* What can become of what a worker holds.
OwnStep(v) ==
  \/ work'[v] = work[v] \/ work'[v] = Idle
  \/ \E k \in Keys, r \in RateSets : BeginSet(v, k, r)
  \/ \E b \in Brokers, i \in Insurers : BeginLock(v, b, i)
  \/ ResolveLevel(v)

\* Every step is one of these for every worker.
LEMMA OwnSteps == ASSUME TypeOK, [Next]_vars, NEW v \in Workers PROVE OwnStep(v)
<1>1. CASE UNCHANGED vars \/ Tick \/ \E p \in Payments : Collect(p)
  BY <1>1 DEF vars, Tick, Collect, OwnStep
<1>2. ASSUME NEW w \in Workers, w # v, Step(w)
      PROVE  work'[v] = work[v]
  BY <1>2 DEF Step, BeginSet, Begin, BeginLock, ResolveLevel, Query, CommitSet, CommitLock, Abort, TypeOK
<1>3. CASE Step(v)
  <2>1. CASE CommitSet(v) \/ CommitLock(v) \/ Abort(v)
    BY <2>1 DEF CommitSet, CommitLock, Abort, TypeOK, OwnStep
  <2>. QED
    BY <1>3, <2>1 DEF Step, OwnStep
<1>. QED
  BY <1>1, <1>2, <1>3 DEF Next, OwnStep

\* What is read of rows stays true of them.
LEMMA WorkReadStays == TypeOK /\ RowsInTime /\ WorkRead /\ [Next]_vars => WorkRead'
<1>. SUFFICES ASSUME TypeOK, RowsInTime, WorkRead, [Next]_vars, NEW v \in Workers
              PROVE  WorkRead!(v)'
  BY DEF WorkRead
<1>. DEFINE Kept(x) == /\ x.op = "set" =>
                            /\ x.key \in Keys /\ x.now <= clock'
                            /\ x.current # None =>
                                 key'[x.current] = x.key /\ from'[x.current] <= x.now
                       /\ x.op = "found" => x.found \in Configs /\ key'[x.found] # None
                       /\ x.levels[3] = Global
<1>0. work[v] \in Work /\ work[v].now \in Nat /\ clock \in Nat
  BY DEF TypeOK, Work
<1>1. Kept(work[v])
  <2>1. work[v].op = "set" => work[v].now <= clock'
    BY <1>0, RowsStay DEF WorkRead
  <2>2. work[v].op = "set" /\ work[v].current # None =>
          key'[work[v].current] = work[v].key /\ from'[work[v].current] <= work[v].now
    <3>1. work[v].current # None => work[v].current \in Configs
      BY <1>0 DEF Work
    <3>. QED
      BY <3>1, RowsStay, CommissionAssumption DEF WorkRead
  <2>. QED
    BY <2>1, <2>2, RowsStay DEF WorkRead
<1>2. Kept(Idle)
  BY DEF Idle
<1>3. (work'[v] = work[v] \/ work'[v] = Idle) => Kept(work'[v])
  BY <1>1, <1>2
<1>4. CASE work'[v] = work[v] \/ work'[v] = Idle
  BY <1>3, <1>4
<1>5. ASSUME NEW k \in Keys, NEW r \in RateSets, BeginSet(v, k, r)
      PROVE  Kept(work'[v])
  <2>1. PICK cur \in Configs \cup {None} :
          /\ cur # None => cur \in Active(k)
          /\ Begin(v, [Idle EXCEPT !.op = "set", !.key = k, !.rates = r, !.current = cur, !.now = clock])
    BY <1>5 DEF BeginSet, Active
  <2>2. work'[v] = [Idle EXCEPT !.op = "set", !.key = k, !.rates = r, !.current = cur, !.now = clock]
    BY <2>1 DEF Begin, TypeOK
  <2>3. cur # None => key[cur] = k /\ from[cur] <= clock
    BY <2>1, CommissionAssumption DEF Active, RowsInTime
  <2>4. UNCHANGED <<clock, rowVars>>
    BY <2>1 DEF Begin
  <2>. QED
    BY <1>0, <2>2, <2>3, <2>4 DEF Idle, rowVars
<1>6. ASSUME NEW b \in Brokers, NEW i \in Insurers, BeginLock(v, b, i)
      PROVE  Kept(work'[v])
  <2>1. work'[v] = [Idle EXCEPT !.op = "broker", !.now = clock, !.levels = <<b, i, Global>>]
    BY <1>6 DEF BeginLock, Begin, TypeOK
  <2>. QED
    BY <2>1 DEF Idle
<1>7. ASSUME ResolveLevel(v)
      PROVE  Kept(work'[v])
  <2>1. UNCHANGED rowVars
    BY <1>7 DEF ResolveLevel, Query
  <2>2. CASE \E op \in {"insurer", "global", "unresolved"} : work'[v] = [work[v] EXCEPT !.op = op]
    BY <2>2, <1>0 DEF WorkRead, Work
  <2>3. ASSUME NEW c \in Configs, key[c] # None, work'[v] = [work[v] EXCEPT !.op = "found", !.found = c]
        PROVE  Kept(work'[v])
    BY <2>1, <2>3, <1>0 DEF WorkRead, Work, rowVars
  <2>4. \/ \E c \in Configs : /\ key[c] # None
                              /\ work'[v] = [work[v] EXCEPT !.op = "found", !.found = c]
        \/ \E op \in {"insurer", "global", "unresolved"} : work'[v] = [work[v] EXCEPT !.op = op]
    <3>1. \A n \in 1..3 : work[v].levels[n] # None
      BY <1>0, CommissionAssumption DEF Work
    <3>2. \A n \in 1..3 : \A m : \A c \in InForce(work[v].levels[n], m) : c \in Configs /\ key[c] # None
      BY <3>1 DEF InForce
    <3>3. PICK op \in {"broker", "insurer", "global"}, n \in 1..3,
               next \in {"insurer", "global", "unresolved"} : Query(v, op, n, next)
      BY <1>7 DEF ResolveLevel
    <3>4. \/ \E c \in InForce(work[v].levels[n], work[v].now) :
               work' = [work EXCEPT ![v] = [work[v] EXCEPT !.op = "found", !.found = c]]
          \/ work' = [work EXCEPT ![v] = [work[v] EXCEPT !.op = next]]
      BY <3>3 DEF Query
    <3>5. \A x : work' = [work EXCEPT ![v] = x] => work'[v] = x
      BY DEF TypeOK
    <3>. QED
      BY <3>2, <3>4, <3>5
  <2>. QED
    BY <2>2, <2>3, <2>4
<1>8. OwnStep(v)
  BY OwnSteps
<1>9. Kept(work'[v])
  BY <1>4, <1>5, <1>6, <1>7, <1>8 DEF OwnStep
<1>. QED
  BY <1>9

\* With rows dated in the past, a key that has rows has an active one.
LEMMA SomeActive ==
  ASSUME TypeOK, RowsInTime, HistoryTotal, NEW k \in Keys, NEW c \in Configs, key[c] = k
  PROVE  Active(k) # {}
<1>1. k # None /\ clock \in Nat
  BY CommissionAssumption DEF TypeOK
<1>2. PICK d \in Configs : d \in InForce(k, clock)
  BY <1>1 DEF HistoryTotal, RowsInTime, InForce
<1>3. to[d] = None
  BY <1>1, <1>2 DEF InForce, RowsInTime, TypeOK
<1>. QED
  BY <1>2, <1>3 DEF InForce, Active

\* A change splits the history of its key at its own time: before it nothing is
\* different, from it on the new row alone is in force.
LEMMA ChangeSplitsHistory ==
  ASSUME TypeOK, RowsInTime, HistoryTotal, WorkRead, NEW w \in Workers, CommitSet(w)
  PROVE  \E k0 \in Keys, n \in Nat, c \in Configs :
           /\ k0 = work[w].key /\ n = work[w].now /\ n <= clock
           /\ key[c] = None /\ from'[c] = n
           /\ key' = [key EXCEPT ![c] = k0]
           /\ \A k \in Keys, m \in Nat : k # k0 \/ m < n => InForce(k, m)' = InForce(k, m)
           /\ \A m \in Nat : m >= n => InForce(k0, m)' = {c}
<1>1. PICK k0 \in Keys, n \in Nat, a \in Configs \cup {None} :
        k0 = work[w].key /\ n = work[w].now /\ a = work[w].current /\ n <= clock
  BY DEF CommitSet, WorkRead, TypeOK, Work
<1>. clock \in Nat
  BY DEF TypeOK
<1>2. PICK c \in Configs : /\ key[c] = None
                           /\ key' = [key EXCEPT ![c] = k0]
                           /\ from' = [from EXCEPT ![c] = n]
  BY <1>1 DEF CommitSet
<1>3. to' = [x \in Configs |-> IF x = a THEN n ELSE to[x]] /\ Active(k0) \subseteq {a}
  BY <1>1 DEF CommitSet
<1>4. None \notin Keys /\ None \notin Nat /\ None \notin Configs
  BY CommissionAssumption
<1>5. a # None => a \in Configs /\ key[a] = k0 /\ from[a] <= n /\ to[a] = None /\ a # c
  <2>1. SUFFICES ASSUME a # None
                 PROVE  a \in Configs /\ key[a] = k0 /\ from[a] <= n /\ to[a] = None /\ a # c
    OBVIOUS
  <2>2. a \in Configs /\ key[a] = k0 /\ from[a] <= n
    BY <1>1, <2>1 DEF CommitSet, WorkRead
  <2>3. Active(k0) = {a}
    BY <1>1, <1>3, <2>2, SomeActive
  <2>. QED
    BY <1>1, <1>2, <1>4, <2>2, <2>3 DEF Active
<1>6. a = None => \A d \in Configs : key[d] # k0
  BY <1>1, <1>3, <1>4, SomeActive DEF Active
<1>7. to[c] = None
  BY <1>2 DEF RowsInTime
<1>8. ASSUME NEW k \in Keys, NEW m \in Nat, k # k0 \/ m < n
      PROVE  InForce(k, m)' = InForce(k, m)
  <2>1. ASSUME NEW d \in Configs
        PROVE  (key'[d] = k /\ from'[d] <= m /\ (to'[d] = None \/ m < to'[d]))
                 <=> (key[d] = k /\ from[d] <= m /\ (to[d] = None \/ m < to[d]))
    <3>1. CASE d = c
      BY <1>1, <1>2, <1>4, <1>8, <3>1 DEF TypeOK
    <3>2. CASE d = a
      BY <1>1, <1>2, <1>3, <1>4, <1>5, <1>8, <3>2 DEF TypeOK
    <3>3. CASE d # c /\ d # a
      BY <1>2, <1>3, <3>3 DEF TypeOK
    <3>. QED
      BY <3>1, <3>2, <3>3
  <2>. QED
    BY <2>1 DEF InForce
<1>9. ASSUME NEW m \in Nat, m >= n
      PROVE  InForce(k0, m)' = {c}
  <2>1. key'[c] = k0 /\ from'[c] <= m /\ to'[c] = None
    <3>1. key'[c] = k0
      BY <1>2 DEF TypeOK
    <3>2. from'[c] = n
      BY <1>2 DEF TypeOK
    <3>3. to'[c] = to[c]
      BY <1>3, <1>4, <1>5
    <3>. QED
      BY <1>7, <1>9, <3>1, <3>2, <3>3
  <2>2. ASSUME NEW d \in Configs, d # c, key'[d] = k0, from'[d] <= m
        PROVE  to'[d] # None /\ to'[d] <= m
    <3>1. key[d] = k0 /\ from[d] = from'[d]
      BY <1>2, <2>2 DEF TypeOK
    <3>2. CASE d = a
      BY <1>1, <1>3, <1>4, <1>9, <3>2
    <3>3. CASE d # a
      <4>1. to'[d] = to[d] /\ to[d] # None /\ to[d] \in Nat
        BY <1>3, <3>1, <3>3 DEF Active, TypeOK
      <4>2. a # None /\ a \in InForce(k0, m)
        BY <1>1, <1>5, <1>6, <1>9, <3>1 DEF InForce, TypeOK
      <4>3. d \notin InForce(k0, m)
        BY <1>1, <3>3, <4>2 DEF HistoryTotal
      <4>. QED
        BY <2>2, <3>1, <4>1, <4>3 DEF InForce
    <3>. QED
      BY <3>2, <3>3
  <2>3. ASSUME NEW d \in Configs
        PROVE  (key'[d] = k0 /\ from'[d] <= m /\ (to'[d] = None \/ m < to'[d])) <=> d = c
    <3>1. d # c /\ to'[d] # None => to'[d] \in Nat
      BY <1>1, <1>3, <1>4 DEF TypeOK
    <3>. QED
      BY <2>1, <2>2, <2>3, <3>1
  <2>. QED
    BY <2>3 DEF InForce
<1>10. from'[c] = n
  BY <1>2 DEF TypeOK
<1>. WITNESS k0 \in Keys, n \in Nat, c \in Configs
<1>. QED
  BY <1>1, <1>2, <1>8, <1>9, <1>10

\* The rows of a key go on covering time without a gap or an overlap.
LEMMA HistoryStays ==
  TypeOK /\ RowsInTime /\ HistoryTotal /\ WorkRead /\ [Next]_vars => HistoryTotal'
<1>. SUFFICES ASSUME TypeOK, RowsInTime, HistoryTotal, WorkRead, [Next]_vars
              PROVE  HistoryTotal'
  OBVIOUS
<1>1. CASE UNCHANGED rowVars
  BY <1>1 DEF rowVars, HistoryTotal, InForce
<1>2. ASSUME NEW w \in Workers, CommitSet(w)
      PROVE  HistoryTotal'
  <2>1. PICK k0 \in Keys, n \in Nat, c \in Configs :
          /\ key[c] = None /\ from'[c] = n
          /\ key' = [key EXCEPT ![c] = k0]
          /\ \A k \in Keys, m \in Nat : k # k0 \/ m < n => InForce(k, m)' = InForce(k, m)
          /\ \A m \in Nat : m >= n => InForce(k0, m)' = {c}
    BY <1>2, ChangeSplitsHistory
  <2>2. ASSUME NEW k \in Keys, NEW m \in Nat
        PROVE  /\ \A d, e \in InForce(k, m)' : d = e
               /\ (\E d \in Configs : key'[d] = k /\ from'[d] <= m) => InForce(k, m)' # {}
    <3>1. CASE k = k0 /\ m >= n
      BY <2>1, <3>1
    <3>2. CASE k # k0 \/ m < n
      <4>1. InForce(k, m)' = InForce(k, m)
        BY <2>1, <3>2
      <4>2. ASSUME NEW d \in Configs, key'[d] = k, from'[d] <= m
            PROVE  key[d] = k /\ from[d] <= m
        <5>1. d # c
          BY <2>1, <3>2, <4>2 DEF TypeOK
        <5>2. key[d] = k
          BY <2>1, <4>2, <5>1 DEF TypeOK
        <5>. QED
          BY <4>2, <5>2, RowsStay, CommissionAssumption
      <4>. QED
        BY <4>1, <4>2 DEF HistoryTotal
    <3>. QED
      BY <3>1, <3>2
  <2>. QED
    BY <2>2 DEF HistoryTotal
<1>. QED
  BY <1>1, <1>2, RowSteps

\* Rows go on being dated in the past, and the seed row stays where it is.
LEMMA RowsInTimeStays ==
  TypeOK /\ RowsInTime /\ SeedStands /\ WorkRead /\ [Next]_vars => RowsInTime' /\ SeedStands'
<1>. SUFFICES ASSUME TypeOK, RowsInTime, SeedStands, WorkRead, [Next]_vars
              PROVE  RowsInTime' /\ SeedStands'
  OBVIOUS
<1>. clock \in Nat
  BY DEF TypeOK
<1>1. SeedStands'
  BY RowsStay, CommissionAssumption DEF SeedStands, Keys
<1>2. CASE UNCHANGED rowVars /\ clock' \in {clock, clock + 1}
  <2>1. ASSUME NEW c \in Configs
        PROVE  RowsInTime!(c)'
    BY <1>2, <2>1 DEF RowsInTime, rowVars, TypeOK
  <2>. QED
    BY <1>1, <2>1 DEF RowsInTime
<1>3. ASSUME NEW w \in Workers, CommitSet(w)
      PROVE  RowsInTime'
  <2>1. PICK c \in Configs : /\ key[c] = None
                             /\ key' = [key EXCEPT ![c] = work[w].key]
                             /\ from' = [from EXCEPT ![c] = work[w].now]
    BY <1>3 DEF CommitSet
  <2>2. to' = [x \in Configs |-> IF x = work[w].current THEN work[w].now ELSE to[x]]
    BY <1>3 DEF CommitSet
  <2>3. /\ clock' = clock /\ work[w].now \in Nat /\ work[w].now <= clock /\ work[w].key # None
        /\ work[w].current # None => key[work[w].current] # None
    BY <1>3, CommissionAssumption DEF CommitSet, WorkRead, TypeOK, Work
  <2>4. ASSUME NEW d \in Configs
        PROVE  RowsInTime!(d)'
    <3>1. CASE d = c
      BY <2>1, <2>2, <2>3, <3>1, CommissionAssumption DEF RowsInTime, TypeOK
    <3>2. CASE d # c
      <4>1. key'[d] = key[d] /\ from'[d] = from[d]
        BY <2>1, <3>2 DEF TypeOK
      <4>2. CASE d = work[w].current
        BY <2>2, <2>3, <4>1, <4>2, CommissionAssumption DEF RowsInTime
      <4>3. CASE d # work[w].current
        BY <2>2, <2>3, <4>1, <4>3 DEF RowsInTime
      <4>. QED
        BY <4>2, <4>3
    <3>. QED
      BY <3>1, <3>2
  <2>. QED
    BY <2>4 DEF RowsInTime
<1>. QED
  BY <1>1, <1>2, <1>3, RowSteps

-----------------------------------------------------------------------------
(* What workers resolve, lock and post.                                    *)

\* A key that has rows has one in force; the global key has the seed row from the start.
LEMMA GlobalInForce ==
  ASSUME HistoryTotal, SeedStands, NEW m \in Nat
  PROVE  InForce(Global, m) # {}
BY CommissionAssumption DEF HistoryTotal, SeedStands, Keys

\* A search never gets past the global level.
LEMMA ResolvedStays ==
  TypeOK /\ SeedStands /\ HistoryTotal /\ WorkRead /\ AlwaysResolved /\ [Next]_vars => AlwaysResolved'
<1>. SUFFICES ASSUME TypeOK, SeedStands, HistoryTotal, WorkRead, AlwaysResolved, [Next]_vars,
                     NEW v \in Workers
              PROVE  work'[v].op # "unresolved"
  BY DEF AlwaysResolved
<1>1. work[v] \in Work /\ work[v].op # "unresolved"
  BY DEF TypeOK, AlwaysResolved
<1>2. \A x : work' = [work EXCEPT ![v] = x] => work'[v] = x
  BY DEF TypeOK
<1>3. CASE work'[v] = work[v] \/ work'[v] = Idle
  BY <1>1, <1>3 DEF Idle
<1>4. ASSUME NEW k \in Keys, NEW r \in RateSets, BeginSet(v, k, r)
      PROVE  work'[v].op # "unresolved"
  BY <1>2, <1>4 DEF BeginSet, Begin, Idle
<1>5. ASSUME NEW b \in Brokers, NEW i \in Insurers, BeginLock(v, b, i)
      PROVE  work'[v].op # "unresolved"
  BY <1>2, <1>5 DEF BeginLock, Begin, Idle
<1>6. CASE Query(v, "broker", 1, "insurer") \/ Query(v, "insurer", 2, "global")
  <2>1. PICK op \in {"found", "insurer", "global"} : work'[v].op = op
    BY <1>1, <1>2, <1>6 DEF Query, Work
  <2>. QED
    BY <2>1
<1>7. CASE Query(v, "global", 3, "unresolved")
  <2>1. InForce(work[v].levels[3], work[v].now) # {}
    BY <1>1, GlobalInForce DEF WorkRead, Work
  <2>2. PICK c : work' = [work EXCEPT ![v] = [work[v] EXCEPT !.op = "found", !.found = c]]
    BY <1>7, <2>1 DEF Query
  <2>. QED
    BY <1>1, <1>2, <2>2 DEF Work
<1>. QED
  BY <1>3, <1>4, <1>5, <1>6, <1>7, OwnSteps DEF OwnStep, ResolveLevel

\* A payment that holds a row keeps it; a new lock is on the row its worker found.
LEMMA LockSteps ==
  ASSUME TypeOK, WorkRead, LockedStand, [Next]_vars, NEW p \in Payments
  PROVE  /\ locked[p] # None => locked'[p] = locked[p]
         /\ locked'[p] # None => locked'[p] \in Configs /\ key'[locked'[p]] # None
         /\ legs'[p] = legs[p] \/ Collect(p)
<1>1. ASSUME NEW w \in Workers, CommitLock(w)
      PROVE  /\ locked[p] # None => locked'[p] = locked[p]
             /\ locked'[p] # None => locked'[p] \in Configs /\ key'[locked'[p]] # None
             /\ legs'[p] = legs[p]
  BY <1>1 DEF CommitLock, WorkRead, LockedStand, TypeOK, rowVars
<1>2. CASE locked' = locked
  <2>1. locked'[p] # None => locked'[p] \in Configs /\ key'[locked'[p]] # None
    BY <1>2, RowsStay, CommissionAssumption DEF LockedStand, TypeOK
  <2>2. legs'[p] = legs[p] \/ Collect(p)
    BY DEF Next, Step, vars, Tick, Collect, BeginSet, Begin, BeginLock, ResolveLevel, Query,
           CommitSet, CommitLock, Abort, TypeOK
  <2>. QED
    BY <1>2, <2>1, <2>2
<1>3. locked' = locked \/ \E w \in Workers : CommitLock(w)
  BY DEF Next, Step, vars, Tick, Collect, BeginSet, Begin, BeginLock, ResolveLevel, Query,
         CommitSet, Abort
<1>. QED
  BY <1>1, <1>2, <1>3

\* What is locked and posted stays backed by rows.
LEMMA LockedStandStays ==
  TypeOK /\ WorkRead /\ LockedStand /\ [Next]_vars => LockedStand'
<1>. SUFFICES ASSUME TypeOK, WorkRead, LockedStand, [Next]_vars, NEW p \in Payments
              PROVE  LockedStand!(p)'
  BY DEF LockedStand
<1>1. legs'[p] # None => locked'[p] # None
  BY LockSteps DEF LockedStand, Collect
<1>. QED
  BY <1>1, LockSteps

\* What was posted keeps agreeing with the row it was posted from.
LEMMA PostedStays ==
  TypeOK /\ WorkRead /\ LockedStand /\ PostedAtLockedRates /\ [Next]_vars => PostedAtLockedRates'
<1>. DEFINE Agrees(s, r, g) ==
              /\ s.gtbank + s.insureflow + s.broker + s.insurer = g
              /\ s.gtbank = Share(g, r.gtbank)
              /\ s.insureflow = Share(g, r.insureflow)
              /\ s.broker = Share(g, r.broker)
              /\ s.insurer * Whole >= g * (Whole - Total(r))
              /\ s.insurer <= Share(g, Whole - Total(r)) + 3
<1>. SUFFICES ASSUME TypeOK, WorkRead, LockedStand, PostedAtLockedRates, [Next]_vars,
                     NEW p \in Payments, legs'[p] # None
              PROVE  Agrees(legs'[p], rates'[locked'[p]], Gross[p])
  BY DEF PostedAtLockedRates, Share, Total
<1>1. CASE legs'[p] = legs[p]
  <2>1. locked'[p] = locked[p] /\ locked[p] \in Configs /\ key[locked[p]] # None
    BY <1>1, LockSteps DEF LockedStand, TypeOK
  <2>2. rates'[locked'[p]] = rates[locked[p]]
    BY <2>1, RowsStay
  <2>3. Agrees(legs[p], rates[locked[p]], Gross[p])
    BY <1>1 DEF PostedAtLockedRates
  <2>. QED
    BY <1>1, <2>2, <2>3
<1>2. CASE Collect(p)
  <2>. DEFINE r == rates[locked[p]]
  <2>1. r \in [gtbank : Bps, insureflow : Bps, broker : Bps] /\ Gross[p] \in Nat /\ Total(r) <= Whole
    BY <1>2, CommissionAssumption DEF Collect, TypeOK, Postable
  <2>2. legs'[p] = Split(Gross[p], r) /\ rates'[locked'[p]] = r
    BY <1>2 DEF Collect, TypeOK, rowVars
  <2>3. Agrees(Split(Gross[p], r), r, Gross[p])
    <3>. HIDE DEF r
    <3>1. /\ Split(Gross[p], r).gtbank = Share(Gross[p], r.gtbank)
          /\ Split(Gross[p], r).insureflow = Share(Gross[p], r.insureflow)
          /\ Split(Gross[p], r).broker = Share(Gross[p], r.broker)
      BY DEF Split
    <3>. QED
      BY <2>1, <3>1, SplitExact
  <2>. HIDE DEF Agrees
  <2>. QED
    BY <2>2, <2>3
<1>. QED
  BY <1>1, <1>2, LockSteps

-----------------------------------------------------------------------------
(* The invariant of the specification, and what follows from it.           *)

Inv ==
  /\ TypeOK
  /\ RowsInTime /\ SeedStands /\ HistoryTotal
  /\ WorkRead /\ AlwaysResolved
  /\ LockedStand /\ PostedAtLockedRates

\* The migration's seed row alone is a total history, and nobody has read or locked yet.
LEMMA InitInv == Init => Inv
<1>. SUFFICES ASSUME Init
              PROVE  Inv
  OBVIOUS
<1>1. TypeOK
  BY InitType
<1>2. RowsInTime /\ SeedStands
  BY CommissionAssumption DEF Init, RowsInTime, SeedStands
<1>3. \A k \in Keys, m \in Nat : InForce(k, m) = IF k = Global THEN {Seed} ELSE {}
  BY CommissionAssumption DEF Init, InForce
<1>4. HistoryTotal
  BY <1>3, CommissionAssumption DEF HistoryTotal, Init
<1>5. WorkRead /\ AlwaysResolved
  BY DEF Init, Idle, WorkRead, AlwaysResolved
<1>6. LockedStand /\ PostedAtLockedRates
  BY DEF Init, LockedStand, PostedAtLockedRates
<1>. QED
  BY <1>1, <1>2, <1>4, <1>5, <1>6 DEF Inv

\* Every step keeps the invariant.
LEMMA InvStays == Inv /\ [Next]_vars => Inv'
BY TypeOKStays, RowsInTimeStays, HistoryStays, WorkReadStays, ResolvedStays, LockedStandStays,
   PostedStays DEF Inv

\* The invariant holds throughout.
LEMMA InvAlways == Spec => []Inv
<1>. QED
  BY InitInv, InvStays, PTL DEF Spec

\* For every key, from its first row on, exactly one row is in force at every moment,
\* however many rate changes overlap.
THEOREM HistoryTotality == Spec => []HistoryIsTotal
<1>1. Inv => HistoryIsTotal
  <2>. SUFFICES ASSUME Inv, NEW k \in Keys
                PROVE  HistoryIsTotal!(k)
    BY DEF HistoryIsTotal
  <2>1. 0..MaxTime \subseteq Nat
    BY CommissionAssumption
  <2>2. ASSUME NEW c \in Active(k), NEW d \in Active(k)
        PROVE  c = d
    <3>1. clock \in Nat /\ c \in InForce(k, clock) /\ d \in InForce(k, clock)
      BY CommissionAssumption DEF Inv, TypeOK, RowsInTime, Active, InForce
    <3>. QED
      BY <3>1 DEF Inv, HistoryTotal
  <2>. QED
    BY <2>1, <2>2 DEF Inv, HistoryTotal
<1>. QED
  BY <1>1, InvAlways, PTL

\* No rate change alters which row was in force before its time, nor any row's rates.
THEOREM HistoryStability == Spec => HistoryIsStable
<1>. DEFINE Stable ==
       \A k \in Keys, m \in 0..MaxTime :
         (\A w \in Workers : work[w].op = "set" => m < work[w].now) =>
           /\ InForce(k, m)' = InForce(k, m)
           /\ \A c \in InForce(k, m) : rates'[c] = rates[c]
<1>1. Inv /\ [Next]_vars => Stable
  <2>. SUFFICES ASSUME Inv, [Next]_vars, NEW k \in Keys, NEW m \in 0..MaxTime,
                       \A w \in Workers : work[w].op = "set" => m < work[w].now
                PROVE  /\ InForce(k, m)' = InForce(k, m)
                       /\ \A c \in InForce(k, m) : rates'[c] = rates[c]
    OBVIOUS
  <2>1. m \in Nat
    BY CommissionAssumption
  <2>2. \A c \in InForce(k, m) : c \in Configs /\ key[c] # None
    BY CommissionAssumption DEF InForce
  <2>3. CASE UNCHANGED rowVars
    BY <2>3 DEF rowVars, InForce
  <2>4. ASSUME NEW w \in Workers, CommitSet(w)
        PROVE  InForce(k, m)' = InForce(k, m)
    <3>1. m < work[w].now
      BY <2>4 DEF CommitSet
    <3>. QED
      BY <2>1, <2>4, <3>1, ChangeSplitsHistory DEF Inv
  <2>. QED
    BY <2>2, <2>3, <2>4, RowSteps, RowsStay DEF Inv
<1>. QED
  BY <1>1, InvAlways, PTL DEF Spec, HistoryIsStable

\* Whatever is set between the queries of a search, it finds a row.
THEOREM Resolution == Spec => []AlwaysResolved
<1>1. Inv => AlwaysResolved
  BY DEF Inv
<1>. QED
  BY <1>1, InvAlways, PTL

\* Whatever is set after a payment was initiated, what is posted for it are the exact
\* shares of its gross amount at the rates it locked.
THEOREM PostedShares == Spec => []PostedAtLockedRates
<1>1. Inv => PostedAtLockedRates
  BY DEF Inv
<1>. QED
  BY <1>1, InvAlways, PTL
=============================================================================
