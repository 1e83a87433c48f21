--------------------------- MODULE ScheduleProofs ---------------------------
(***************************************************************************)
(* What holds of Schedule for any policies, terms, window and number of    *)
(* overlapping runs of the job.                                            *)
(***************************************************************************)
EXTENDS Schedule, FiniteSetTheorems, FunctionTheorems, TLAPS

(* Dates a whole number of periods apart.                                  *)

\* n dates after d, k months apart.
Series(d, k, n) == {AddMonths(d, k * i) : i \in 1..n}

IsLast(d, D) == d \in D /\ \A e \in D : e.month <= d.month

\* One date of every period from s to the last.
IsChain(D, s, k) ==
  /\ s \in D
  /\ \A d, e \in D : d.month = e.month => d = e
  /\ \A d \in D : d = s \/ \E e \in D : d.month = e.month + k
  /\ \E d \in D : IsLast(d, D)

\* The arithmetic of multiples the provers need.
LEMMA Multiples ==
  ASSUME NEW k \in Nat \ {0}
  PROVE  /\ k * 0 = 0 /\ k * 1 = k
         /\ \A i \in Nat : k * i \in Nat /\ k * (i + 1) = k * i + k
         /\ \A i, j \in Nat : i < j => k * i < k * j
<1>1. \A i \in Nat : k * i \in Nat /\ k * (i + 1) = k * i + k
  OBVIOUS
<1>2. ASSUME NEW i \in Nat, NEW j \in Nat, i < j
      PROVE  k * i < k * j
  <2>1. PICK m \in Nat : j = i + 1 + m
    <3>1. j - i - 1 \in Nat /\ j = i + 1 + (j - i - 1)
      BY <1>2
    <3>. QED
      BY <3>1
  <2>2. k * j = k * i + k + k * m
    BY <2>1
  <2>3. k * m \in Nat /\ k * i \in Nat
    OBVIOUS
  <2>. QED
    BY <2>2, <2>3
<1>. QED
  BY <1>1, <1>2

\* Adding months gives a date of the month asked for, and nothing changes a real date
\* to which none are added.
LEMMA AddMonthsIsDate ==
  ASSUME NEW d \in Dates, NEW n \in Nat
  PROVE  /\ AddMonths(d, n) \in Dates /\ AddMonths(d, n).month = d.month + n
         /\ d.day <= Length(d.month) => AddMonths(d, 0) = d
<1>1. d = [month |-> d.month, day |-> d.day] /\ d.month \in Nat /\ d.day \in Nat
  BY DEF Dates
<1>2. \A m \in Nat : Length(m) \in Nat
  BY DEF Length
<1>3. d.month + n \in Nat /\ d.month + 0 = d.month
  BY <1>1
<1>. QED
  BY <1>1, <1>2, <1>3 DEF AddMonths, Dates

\* The periods after the last date of a chain continue it.
LEMMA ChainExtends ==
  ASSUME NEW D \in SUBSET Dates, NEW s \in Dates, NEW k \in Nat \ {0}, NEW n \in Nat \ {0},
         IsChain(D, s, k), NEW d \in D, IsLast(d, D)
  PROVE  /\ IsChain(D \cup Series(d, k, n), s, k)
         /\ D \cup Series(d, k, n) \subseteq Dates
<1>. DEFINE m == [i \in Nat |-> k * i]
            f == [i \in Nat |-> AddMonths(d, m[i])]
            N == Series(d, k, n)
            E == D \cup N
<1>1. /\ m[1] = k
      /\ \A i \in Nat : m[i] \in Nat /\ m[i + 1] = m[i] + k
      /\ \A i, j \in Nat : i < j => m[i] < m[j]
  BY Multiples
<1>2. \A e \in N : \E i \in 1..n : e = f[i]
  BY DEF Series
<1>3. \A i \in 1..n : f[i] \in N
  BY DEF Series
<1>. HIDE DEF m
<1>4. \A i \in Nat : f[i] \in Dates /\ f[i].month = d.month + m[i]
  BY <1>1, AddMonthsIsDate
<1>. HIDE DEF f, N
<1>5. d.month \in Nat /\ \A e \in D : e.month \in Nat /\ e.month <= d.month
  BY DEF IsLast, Dates
<1>6. \A i \in 1..n : i \in Nat /\ m[i] \in Nat /\ m[i] >= k
  <2>. SUFFICES ASSUME NEW i \in 1..n
                PROVE  m[i] \in Nat /\ m[i] >= k
    OBVIOUS
  <2>1. i = 1 \/ 1 < i
    OBVIOUS
  <2>2. m[1] \in Nat /\ m[i] \in Nat /\ (1 < i => m[1] < m[i])
    BY <1>1
  <2>. QED
    BY <1>1, <2>1, <2>2
<1>7. \A i \in 1..n : f[i].month \in Nat /\ f[i].month > d.month
  BY <1>4, <1>5, <1>6
<1>8. \A i, j \in 1..n : i < j => f[i].month < f[j].month
  <2>. SUFFICES ASSUME NEW i \in 1..n, NEW j \in 1..n, i < j
                PROVE  f[i].month < f[j].month
    OBVIOUS
  <2>1. m[i] < m[j]
    BY <1>1, <1>6
  <2>. QED
    BY <1>4, <1>5, <1>6, <2>1
<1>9. E \subseteq Dates
  BY <1>2, <1>4
<1>10. \A a, b \in E : a.month = b.month => a = b
  <2>1. \A a \in D, b \in N : a.month # b.month
    BY <1>2, <1>5, <1>7
  <2>2. \A a, b \in N : a.month = b.month => a = b
    <3>. SUFFICES ASSUME NEW i \in 1..n, NEW j \in 1..n, f[i].month = f[j].month
                  PROVE  i = j
      BY <1>2
    <3>. QED
      BY <1>7, <1>8
  <2>. QED
    BY <2>1, <2>2 DEF IsChain
<1>11. \A a \in E : a = s \/ \E e \in E : a.month = e.month + k
  <2>1. ASSUME NEW i \in 1..n
        PROVE  \E e \in E : f[i].month = e.month + k
    <3>1. CASE i = 1
      BY <1>1, <1>4, <3>1
    <3>2. CASE i # 1
      <4>1. i - 1 \in 1..n /\ i - 1 \in Nat /\ (i - 1) + 1 = i
        BY <3>2
      <4>2. m[i] = m[i - 1] + k /\ m[i - 1] \in Nat
        <5>1. m[(i - 1) + 1] = m[i - 1] + k /\ m[i - 1] \in Nat
          BY <1>1, <4>1
        <5>. QED
          BY <4>1, <5>1
      <4>3. f[i].month = f[i - 1].month + k
        BY <1>4, <1>5, <4>1, <4>2
      <4>. QED
        BY <1>3, <4>1, <4>3
    <3>. QED
      BY <3>1, <3>2
  <2>. QED
    BY <1>2, <2>1 DEF IsChain
<1>12. IsLast(f[n], E)
  <2>1. n \in 1..n /\ \A i \in 1..n : i = n \/ i < n
    OBVIOUS
  <2>2. \A i \in 1..n : f[i].month <= f[n].month
    BY <1>7, <1>8, <2>1
  <2>3. \A e \in D : e.month <= f[n].month
    BY <1>5, <1>7, <2>1
  <2>. QED
    BY <1>2, <1>3, <2>1, <2>2, <2>3 DEF IsLast
<1>13. IsChain(E, s, k)
  BY <1>10, <1>11, <1>12 DEF IsChain, IsLast
<1>. QED
  BY <1>9, <1>13 DEF N

\* The first window of a policy is a chain.
LEMMA FirstChain ==
  ASSUME NEW t \in Terms
  PROVE  /\ FirstWindow(t) = {t.start} \cup Series(t.start, t.step, Window - 1)
         /\ FirstWindow(t) \subseteq Dates
         /\ IsChain(FirstWindow(t), t.start, t.step)
<1>1. t.start \in Dates /\ t.start.day <= Length(t.start.month) /\ t.step \in Nat \ {0}
  <2>1. t.start \in Starts /\ t.step \in Steps
    BY DEF Terms
  <2>2. t.start \in Dates /\ t.start.day \in 1..Length(t.start.month) /\ t.step \in Nat \ {0}
    BY <2>1, ScheduleAssumption
  <2>3. Length(t.start.month) \in Nat
    BY <2>2 DEF Length, Dates
  <2>. QED
    BY <2>2, <2>3
<1>2. AddMonths(t.start, t.step * 0) = t.start
  BY <1>1, AddMonthsIsDate, Multiples
<1>3. Window - 1 \in Nat /\ 0..Window - 1 = {0} \cup 1..Window - 1
  BY ScheduleAssumption
<1>4. FirstWindow(t) = {t.start} \cup Series(t.start, t.step, Window - 1)
  BY <1>2, <1>3 DEF FirstWindow, Series
<1>5. IsChain({t.start}, t.start, t.step) /\ IsLast(t.start, {t.start})
  BY <1>1 DEF IsChain, IsLast, Dates
<1>6. CASE Window - 1 = 0
  <2>1. Series(t.start, t.step, Window - 1) = {}
    BY <1>6 DEF Series
  <2>. QED
    BY <1>1, <1>4, <1>5, <2>1
<1>7. CASE Window - 1 # 0
  <2>1. Window - 1 \in Nat \ {0}
    BY <1>3, <1>7
  <2>2. t.start \in {t.start} /\ {t.start} \in SUBSET Dates
    BY <1>1
  <2>3. /\ IsChain({t.start} \cup Series(t.start, t.step, Window - 1), t.start, t.step)
        /\ {t.start} \cup Series(t.start, t.step, Window - 1) \subseteq Dates
    BY <1>1, <1>5, <2>1, <2>2, ChainExtends
  <2>. QED
    BY <1>4, <2>3
<1>. QED
  BY <1>6, <1>7

-----------------------------------------------------------------------------
(* The inductive invariant: the due dates of a policy are a chain, and what *)
(* a run has inserted for it continues the chain from its last date, or from *)
(* a date that was last until another run committed its successor.          *)

Chains ==
  \A p \in Policies : terms[p] # None => IsChain(due[p], terms[p].start, terms[p].step)

FiniteDue == \A p \in Policies : IsFiniteSet(due[p])

Continues(N, p) ==
  \E d \in due[p], n \in Nat \ {0} :
    /\ N = Series(d, terms[p].step, n)
    /\ IsLast(d, due[p]) \/ AddMonths(d, terms[p].step) \in due[p]

Running(w) == work[w].op \in {"top_up", "counted"}

Sound(w) ==
  /\ work[w].op = "create" => work[w].policy \in Policies /\ work[w].terms \in Terms
  /\ work[w].op = "counted" =>
       /\ work[w].policy \in work[w].todo
       /\ work[w].shortfall # 0 /\ work[w].shortfall <= Window
  /\ Running(w) => w \in Jobs
  /\ ~Running(w) => work[w].new = {}
  /\ \A p \in work[w].todo : terms[p] # None /\ Of(work[w].new, p) = {}
  /\ \A p \in Policies :
       Of(work[w].new, p) # {} => terms[p] # None /\ Continues(Of(work[w].new, p), p)

Inv == TypeOK /\ FiniteDue /\ Chains /\ \A w \in Workers : Sound(w)

\* Latest finds the last date of a chain.
LEMMA LatestIsLast ==
  ASSUME TypeOK, NEW p \in Policies, NEW s, NEW k, IsChain(due[p], s, k)
  PROVE  Latest(p) \in due[p] /\ IsLast(Latest(p), due[p])
<1>1. \A d \in due[p] : d.month \in Nat /\ d.day \in Nat
  BY DEF TypeOK, Dates
<1>2. PICK d \in due[p] : IsLast(d, due[p])
  BY DEF IsChain
<1>3. \A e \in due[p] : ~Before(d, e)
  <2>. SUFFICES ASSUME NEW e \in due[p]
                PROVE  ~Before(d, e)
    OBVIOUS
  <2>1. e.month <= d.month /\ (e.month = d.month => e = d)
    BY <1>2 DEF IsLast, IsChain
  <2>. QED
    BY <1>1, <2>1 DEF Before
<1>4. \E x \in due[p] : \A e \in due[p] : ~Before(x, e)
  BY <1>3
<1>5. Latest(p) \in due[p] /\ \A e \in due[p] : ~Before(Latest(p), e)
  BY <1>4 DEF Latest
<1>. QED
  BY <1>1, <1>5 DEF Before, IsLast

\* The dates of a policy among pairs.
LEMMA OfPairs ==
  ASSUME NEW p
  PROVE  /\ Of({}, p) = {}
         /\ \A A, B : Of(A \cup B, p) = Of(A, p) \cup Of(B, p)
         /\ \A A \in SUBSET (Policies \X Dates) : \A d : d \in Of(A, p) <=> <<p, d>> \in A
<1>1. Of({}, p) = {}
  BY DEF Of
<1>2. \A A, B : Of(A \cup B, p) = Of(A, p) \cup Of(B, p)
  BY DEF Of
<1>3. \A A \in SUBSET (Policies \X Dates) : \A d : d \in Of(A, p) <=> <<p, d>> \in A
  BY DEF Of
<1>. QED
  BY <1>1, <1>2, <1>3

\* What a worker that takes no step has read stays sound while terms stand and due
\* dates grow at the end.
LEMMA SoundKept ==
  ASSUME NEW v \in Workers, Sound(v), work'[v] = work[v], TypeOK,
         \A p \in Policies : terms[p] # None =>
           /\ terms'[p] = terms[p]
           /\ \/ due'[p] = due[p]
              \/ /\ due[p] \subseteq due'[p]
                 /\ \A d : IsLast(d, due[p]) => AddMonths(d, terms[p].step) \in due'[p]
  PROVE  Sound(v)'
<1>1. work[v].todo \subseteq Policies
  BY DEF TypeOK, Work
<1>2. ASSUME NEW p \in Policies, Of(work[v].new, p) # {}
      PROVE  terms'[p] # None /\ Continues(Of(work[v].new, p), p)'
  <2>1. terms[p] # None /\ Continues(Of(work[v].new, p), p)
    BY <1>2 DEF Sound
  <2>2. PICK d \in due[p], n \in Nat \ {0} :
          /\ Of(work[v].new, p) = Series(d, terms[p].step, n)
          /\ IsLast(d, due[p]) \/ AddMonths(d, terms[p].step) \in due[p]
    BY <2>1 DEF Continues
  <2>3. terms'[p] = terms[p] /\ d \in due'[p]
    BY <2>1
  <2>4. IsLast(d, due'[p]) \/ AddMonths(d, terms[p].step) \in due'[p]
    BY <2>1, <2>2
  <2>. QED
    BY <2>1, <2>2, <2>3, <2>4 DEF Continues
<1>. QED
  BY <1>1, <1>2 DEF Sound, Running

\* A worker whose transaction ended has nothing pending.
LEMMA IdleSound ==
  ASSUME NEW w \in Workers, work'[w] = Idle
  PROVE  Sound(w)'
  BY OfPairs DEF Sound, Running, Idle

\* The first state.
LEMMA InitInv == Init => Inv
<1>. SUFFICES ASSUME Init PROVE Inv
  OBVIOUS
<1>1. Idle \in Work
  BY DEF Idle, Work
<1>2. TypeOK
  BY <1>1 DEF Init, TypeOK
<1>3. Chains
  BY DEF Init, Chains
<1>4. \A w \in Workers : Sound(w)
  BY OfPairs DEF Init, Sound, Running, Idle
<1>. QED
  BY <1>2, <1>3, <1>4, FS_EmptySet DEF Inv, Init, FiniteDue

\* What InsertMissing inserts for a policy are the periods after its last date, as many
\* as its window is short.
LEMMA InsertsSeries ==
  ASSUME Inv, NEW w \in Workers, InsertMissing(w)
  PROVE  \E p \in Policies, n \in Nat \ {0}, d \in Dates :
           /\ work[w].policy = p /\ work[w].shortfall = n
           /\ terms[p] # None /\ d \in due[p] /\ IsLast(d, due[p])
           /\ work' = [work EXCEPT ![w] = work'[w]] /\ work'[w] \in Work
           /\ work'[w].op = "top_up" /\ work'[w].todo = work[w].todo \ {p}
           /\ \A q : Of(work'[w].new, q) =
                       IF q = p THEN Series(d, terms[p].step, n) ELSE Of(work[w].new, q)
<1>. USE DEF Inv
<1>1. work[w] \in Work /\ Sound(w)
  BY DEF TypeOK
<1>2. ASSUME NEW rec, work' = [work EXCEPT ![w] = rec]
      PROVE  work'[w] = rec
  BY <1>2 DEF TypeOK
<1>3. PICK p \in Policies, k, n \in Nat \ {0}, d \in Dates :
        /\ work[w].policy = p /\ work[w].shortfall = n
        /\ p \in work[w].todo /\ terms[p] # None /\ Of(work[w].new, p) = {}
        /\ k = terms[p].step /\ k \in Nat \ {0}
        /\ d = Latest(p) /\ d \in due[p] /\ IsLast(d, due[p])
  <2>1. work[w].policy \in work[w].todo /\ work[w].shortfall \in Nat \ {0}
    BY <1>1 DEF InsertMissing, Sound, Work
  <2>2. /\ work[w].policy \in Policies
        /\ terms[work[w].policy] # None /\ Of(work[w].new, work[w].policy) = {}
    BY <1>1, <2>1 DEF Sound, Work
  <2>3. terms[work[w].policy].step \in Nat \ {0}
    BY <2>2, ScheduleAssumption DEF TypeOK, Terms
  <2>4. IsChain(due[work[w].policy], terms[work[w].policy].start, terms[work[w].policy].step)
    BY <2>2 DEF Chains
  <2>5. /\ Latest(work[w].policy) \in due[work[w].policy]
        /\ IsLast(Latest(work[w].policy), due[work[w].policy])
    BY <2>2, <2>4, LatestIsLast
  <2>6. Latest(work[w].policy) \in Dates
    BY <2>2, <2>5 DEF TypeOK
  <2>. QED
    BY <2>1, <2>2, <2>3, <2>5, <2>6
<1>4. work'[w] = [work[w] EXCEPT !.op = "top_up", !.policy = None, !.shortfall = 0,
                    !.todo = @ \ {p}, !.new = @ \cup {<<p, e>> : e \in Series(d, k, n)}]
  <2>. DEFINE P == {<<work[w].policy,
                      AddMonths(Latest(work[w].policy), terms[work[w].policy].step * i)>> :
                      i \in 1..work[w].shortfall}
  <2>1. P = {<<p, e>> : e \in Series(d, k, n)}
    BY <1>3 DEF Series
  <2>2. work' = [work EXCEPT ![w] = [work[w] EXCEPT !.op = "top_up", !.policy = None,
           !.shortfall = 0, !.todo = @ \ {work[w].policy}, !.new = @ \cup P]]
    BY DEF InsertMissing
  <2>. HIDE DEF P
  <2>. QED
    BY <1>2, <1>3, <2>1, <2>2
<1>5. Series(d, k, n) \subseteq Dates
  <2>1. d \in Dates
    BY <1>3 DEF TypeOK
  <2>. QED
    BY <1>3, <2>1, AddMonthsIsDate, Multiples DEF Series
<1>6. work'[w] \in Work
  <2>1. work[w].new \cup {<<p, e>> : e \in Series(d, k, n)} \in SUBSET (Policies \X Dates)
    BY <1>1, <1>5 DEF Work
  <2>2. work'[w] = [op |-> "top_up", policy |-> None, terms |-> work[w].terms,
           todo |-> work[w].todo \ {p}, shortfall |-> 0,
           new |-> work[w].new \cup {<<p, e>> : e \in Series(d, k, n)}]
    BY <1>1, <1>4 DEF Work
  <2>3. work[w].terms \in Terms \cup {None} /\ work[w].todo \ {p} \subseteq Policies
    BY <1>1 DEF Work
  <2>. QED
    BY <2>1, <2>2, <2>3 DEF Work
<1>7. /\ work'[w].op = "top_up" /\ work'[w].todo = work[w].todo \ {p}
      /\ work'[w].new = work[w].new \cup {<<p, e>> : e \in Series(d, k, n)}
  BY <1>1, <1>4 DEF Work
<1>8. \A q : Of(work'[w].new, q) = IF q = p THEN Series(d, k, n) ELSE Of(work[w].new, q)
  <2>. TAKE q
  <2>1. Of(work'[w].new, q) = Of(work[w].new, q) \cup Of({<<p, e>> : e \in Series(d, k, n)}, q)
    <3>. DEFINE P == {<<p, e>> : e \in Series(d, k, n)}
    <3>1. work'[w].new = work[w].new \cup P
      BY <1>7
    <3>. HIDE DEF P
    <3>2. Of(work[w].new \cup P, q) = Of(work[w].new, q) \cup Of(P, q)
      BY OfPairs
    <3>3. Of(work'[w].new, q) = Of(work[w].new, q) \cup Of(P, q)
      BY <3>1, <3>2
    <3>. QED
      BY <3>3 DEF P
  <2>2. Of({<<p, e>> : e \in Series(d, k, n)}, q) = IF q = p THEN Series(d, k, n) ELSE {}
    <3>1. {<<p, e>> : e \in Series(d, k, n)} \in SUBSET (Policies \X Dates)
      BY <1>5
    <3>2. \A e : e \in Of({<<p, x>> : x \in Series(d, k, n)}, q)
                  <=> <<q, e>> \in {<<p, x>> : x \in Series(d, k, n)}
      BY <3>1, OfPairs
    <3>3. \A e : <<q, e>> \in {<<p, x>> : x \in Series(d, k, n)}
                  <=> q = p /\ e \in Series(d, k, n)
      OBVIOUS
    <3>. QED
      BY <3>2, <3>3
  <2>. QED
    BY <1>3, <2>1, <2>2
<1>9. work' = [work EXCEPT ![w] = work'[w]]
  BY <1>2 DEF InsertMissing
<1>. QED
  BY <1>3, <1>6, <1>7, <1>8, <1>9

\* What BeginCreate, BeginTopUp, CountOpen and InsertMissing leave in a worker's hands is
\* sound, and every other step of a transaction ends it.
LEMMA OwnSound ==
  ASSUME Inv, NEW w \in Workers,
         \/ \E p \in Policies, t \in Terms : BeginCreate(w, p, t)
         \/ BeginTopUp(w)
         \/ \E p \in Policies : CountOpen(w, p)
         \/ InsertMissing(w)
  PROVE  work'[w] \in Work /\ work' = [work EXCEPT ![w] = work'[w]] /\ Sound(w)'
<1>. USE DEF Inv
<1>0. Idle \in Work
  BY DEF Idle, Work
<1>1. work[w] \in Work /\ Sound(w) /\ DOMAIN work = Workers /\ UNCHANGED <<terms, due>>
  BY DEF TypeOK, BeginCreate, BeginTopUp, CountOpen, InsertMissing, Begin
<1>2. ASSUME NEW rec, work' = [work EXCEPT ![w] = rec]
      PROVE  work'[w] = rec
  BY <1>1, <1>2 DEF TypeOK
<1>3. CASE \E p \in Policies, t \in Terms : BeginCreate(w, p, t)
  <2>1. PICK p \in Policies, t \in Terms : BeginCreate(w, p, t)
    BY <1>3
  <2>2. work'[w] = [Idle EXCEPT !.op = "create", !.policy = p, !.terms = t]
    BY <1>2, <2>1 DEF BeginCreate, Begin
  <2>3. work'[w] \in Work
    BY <1>0, <2>2 DEF Work
  <2>4. Sound(w)'
    BY <2>2, OfPairs DEF Sound, Running, Idle
  <2>. QED
    BY <2>1, <2>2, <2>3, <2>4 DEF BeginCreate, Begin
<1>4. CASE BeginTopUp(w)
  <2>1. work'[w] = [Idle EXCEPT !.op = "top_up", !.todo = {p \in Policies : terms[p] # None}]
    BY <1>2, <1>4 DEF BeginTopUp, Begin
  <2>2. work'[w] \in Work
    BY <1>0, <2>1 DEF Work
  <2>3. Sound(w)'
    BY <1>1, <1>4, <2>1, OfPairs DEF Sound, Running, Idle, BeginTopUp
  <2>. QED
    BY <1>4, <2>1, <2>2, <2>3 DEF BeginTopUp, Begin
<1>5. CASE \E p \in Policies : CountOpen(w, p)
  <2>1. PICK p \in Policies : CountOpen(w, p)
    BY <1>5
  <2>. DEFINE s == Window - Cardinality(Open(p))
  <2>2. work[w].op = "top_up" /\ p \in work[w].todo /\ w \in Jobs
    BY <1>1, <2>1 DEF CountOpen, Sound, Running
  <2>3. CASE s <= 0
    <3>1. work'[w] = [work[w] EXCEPT !.todo = @ \ {p}]
      BY <1>2, <2>1, <2>3 DEF CountOpen
    <3>2. work'[w] \in Work
      BY <1>1, <3>1 DEF Work
    <3>3. Sound(w)'
      BY <1>1, <2>2, <3>1 DEF Sound, Running, Work, Continues
    <3>. QED
      BY <2>1, <2>3, <3>1, <3>2, <3>3 DEF CountOpen
  <2>4. CASE ~(s <= 0)
    <3>1. work'[w] = [work[w] EXCEPT !.op = "counted", !.policy = p, !.shortfall = s]
      BY <1>2, <2>1, <2>4 DEF CountOpen
    <3>2. s \in Nat \ {0} /\ s <= Window
      <4>1. IsFiniteSet(Open(p))
        BY FS_Subset DEF FiniteDue, Open
      <4>. QED
        BY <2>4, <4>1, FS_CardinalityType, ScheduleAssumption
    <3>3. work'[w] \in Work
      BY <1>1, <3>1, <3>2 DEF Work
    <3>4. Sound(w)'
      BY <1>1, <2>2, <3>1, <3>2 DEF Sound, Running, Work, Continues
    <3>. QED
      BY <2>1, <2>4, <3>1, <3>3, <3>4 DEF CountOpen
  <2>. QED
    BY <2>3, <2>4
<1>6. CASE InsertMissing(w)
  <2>1. PICK p \in Policies, n \in Nat \ {0}, d \in Dates :
          /\ work[w].policy = p /\ work[w].shortfall = n
          /\ terms[p] # None /\ d \in due[p] /\ IsLast(d, due[p])
          /\ work' = [work EXCEPT ![w] = work'[w]] /\ work'[w] \in Work
          /\ work'[w].op = "top_up" /\ work'[w].todo = work[w].todo \ {p}
          /\ \A q : Of(work'[w].new, q) =
                      IF q = p THEN Series(d, terms[p].step, n) ELSE Of(work[w].new, q)
    BY <1>6, InsertsSeries
  <2>2. Continues(Series(d, terms[p].step, n), p)'
    BY <1>1, <2>1 DEF Continues
  <2>3. ASSUME NEW q \in Policies, NEW M, Continues(M, q) PROVE Continues(M, q)'
    BY <1>1, <2>3 DEF Continues
  <2>4. w \in Jobs
    BY <1>1, <1>6 DEF Sound, Running, InsertMissing
  <2>5. ASSUME NEW q \in Policies, Of(work'[w].new, q) # {}
        PROVE  terms'[q] # None /\ Continues(Of(work[w].new, q), q)'
    <3>1. CASE q = p
      <4>1. PICK M : M = Series(d, terms[p].step, n)
        OBVIOUS
      <4>2. Continues(M, p)' /\ Of(work'[w].new, p) = M
        BY <1>1, <2>1, <2>2, <4>1
      <4>. QED
        BY <1>1, <2>1, <3>1, <4>2
    <3>2. CASE q # p
      <4>1. PICK M : M = Of(work[w].new, q)
        OBVIOUS
      <4>2. Of(work'[w].new, q) = M
        BY <2>1, <3>2, <4>1
      <4>3. terms[q] # None /\ Continues(M, q)
        BY <1>1, <2>5, <4>1, <4>2 DEF Sound
      <4>4. Continues(M, q)'
        BY <2>3, <4>3
      <4>. QED
        BY <1>1, <4>2, <4>3, <4>4
    <3>. QED
      BY <3>1, <3>2
  <2>6. \A q \in work'[w].todo : terms'[q] # None /\ Of(work'[w].new, q) = {}
    BY <1>1, <2>1 DEF Sound
  <2>7. Sound(w)'
    BY <2>1, <2>4, <2>5, <2>6 DEF Sound, Running
  <2>. QED
    BY <2>1, <2>7
<1>. QED
  BY <1>3, <1>4, <1>5, <1>6

\* The dates a commit adds continue the chain: had another run moved its end since they
\* were reckoned, the commit would collide.
LEMMA CommitContinues ==
  ASSUME Inv, NEW w \in Workers, CommitTopUp(w), NEW p \in Policies
  PROVE  \/ due'[p] = due[p]
         \/ \E d \in due[p], n \in Nat \ {0} :
              /\ terms[p] # None
              /\ due'[p] = due[p] \cup Series(d, terms[p].step, n)
              /\ IsLast(d, due[p])
              /\ AddMonths(d, terms[p].step) \in due'[p]
<1>. USE DEF Inv
<1>1. due'[p] = due[p] \cup Of(work[w].new, p)
  BY DEF CommitTopUp
<1>2. CASE Of(work[w].new, p) = {}
  BY <1>1, <1>2
<1>3. CASE Of(work[w].new, p) # {}
  <2>1. terms[p] # None /\ Continues(Of(work[w].new, p), p)
    BY <1>3 DEF Sound
  <2>2. PICK d \in due[p], n \in Nat \ {0} :
          /\ Of(work[w].new, p) = Series(d, terms[p].step, n)
          /\ IsLast(d, due[p]) \/ AddMonths(d, terms[p].step) \in due[p]
    BY <2>1 DEF Continues
  <2>3. AddMonths(d, terms[p].step) \in Of(work[w].new, p)
    <3>1. terms[p].step \in Nat \ {0}
      BY <2>1, ScheduleAssumption DEF TypeOK, Terms
    <3>2. 1 \in 1..n /\ terms[p].step * 1 = terms[p].step
      BY <3>1
    <3>. QED
      BY <2>2, <3>2 DEF Series
  <2>4. AddMonths(d, terms[p].step) \notin due[p]
    <3>1. PICK x \in work[w].new : x[1] = p /\ x[2] = AddMonths(d, terms[p].step)
      BY <2>3 DEF Of
    <3>. QED
      BY <3>1 DEF CommitTopUp, Collides
  <2>. QED
    BY <1>1, <2>1, <2>2, <2>3, <2>4
<1>. QED
  BY <1>2, <1>3

\* Installments of a series are finitely many, at most one for each number.
LEMMA SeriesFinite ==
  ASSUME NEW d, NEW k, NEW n \in Nat
  PROVE  IsFiniteSet(Series(d, k, n)) /\ Cardinality(Series(d, k, n)) <= n
<1>. DEFINE f == [i \in 1..n |-> AddMonths(d, k * i)]
<1>1. f \in Surjection(1..n, Series(d, k, n))
  BY DEF Surjection, Series
<1>2. IsFiniteSet(1..n) /\ Cardinality(1..n) = n
  BY FS_Interval
<1>. QED
  BY <1>1, <1>2, FS_Surjection

\* What every step does to terms and due dates.
LEMMA TableSteps ==
  ASSUME Inv, [Next]_vars, NEW p \in Policies
  PROVE  \/ terms'[p] = terms[p] /\ due'[p] = due[p]
         \/ terms[p] = None /\ \E t \in Terms : terms'[p] = t /\ due'[p] = FirstWindow(t)
         \/ /\ terms'[p] = terms[p] /\ terms[p] # None
            /\ \E d \in due[p], n \in Nat \ {0} :
                 /\ due'[p] = due[p] \cup Series(d, terms[p].step, n)
                 /\ IsLast(d, due[p])
                 /\ AddMonths(d, terms[p].step) \in due'[p]
<1>. USE DEF Inv
<1>1. CASE UNCHANGED <<terms, due>>
  BY <1>1
<1>2. ASSUME NEW w \in Workers, CommitCreate(w)
      PROVE  \/ terms'[p] = terms[p] /\ due'[p] = due[p]
             \/ /\ terms[p] = None
                /\ \E t \in Terms : terms'[p] = t /\ due'[p] = FirstWindow(t)
  <2>1. work[w].policy \in Policies /\ work[w].terms \in Terms
    BY <1>2 DEF CommitCreate, Sound
  <2>. QED
    BY <1>2, <2>1 DEF CommitCreate, TypeOK
<1>3. ASSUME NEW w \in Workers, CommitTopUp(w)
      PROVE  \/ terms'[p] = terms[p] /\ due'[p] = due[p]
             \/ /\ terms'[p] = terms[p] /\ terms[p] # None
                /\ \E d \in due[p], n \in Nat \ {0} :
                     /\ due'[p] = due[p] \cup Series(d, terms[p].step, n)
                     /\ IsLast(d, due[p])
                     /\ AddMonths(d, terms[p].step) \in due'[p]
  <2>1. terms' = terms
    BY <1>3 DEF CommitTopUp
  <2>. QED
    BY <1>3, <2>1, CommitContinues
<1>4. CASE \E w \in Workers : CommitCreate(w)
  BY <1>2, <1>4
<1>5. CASE \E w \in Workers : CommitTopUp(w)
  BY <1>3, <1>5
<1>. QED
  BY <1>1, <1>4, <1>5 DEF Next, Step, Begin, BeginCreate, BeginTopUp, CountOpen, InsertMissing,
     Collect, Abort, vars

\* Due dates stay finite chains of dates.
LEMMA TablesStay ==
  ASSUME Inv, [Next]_vars
  PROVE  /\ FiniteDue' /\ Chains'
         /\ terms' \in [Policies -> Terms \cup {None}] /\ due' \in [Policies -> SUBSET Dates]
<1>. USE DEF Inv
<1>1. terms' = [p \in Policies |-> terms'[p]] /\ due' = [p \in Policies |-> due'[p]]
  BY DEF TypeOK, Next, Step, Begin, BeginCreate, CommitCreate, BeginTopUp, CountOpen, InsertMissing,
     CommitTopUp, Collect, Abort, vars
<1>2. ASSUME NEW p \in Policies
      PROVE  /\ IsFiniteSet(due'[p])
             /\ terms'[p] # None => IsChain(due'[p], terms'[p].start, terms'[p].step)
             /\ terms'[p] \in Terms \cup {None} /\ due'[p] \in SUBSET Dates
  <2>1. /\ terms[p] \in Terms \cup {None} /\ due[p] \in SUBSET Dates /\ IsFiniteSet(due[p])
        /\ terms[p] # None => IsChain(due[p], terms[p].start, terms[p].step)
    BY DEF TypeOK, FiniteDue, Chains
  <2>2. CASE terms'[p] = terms[p] /\ due'[p] = due[p]
    BY <2>1, <2>2
  <2>3. ASSUME NEW t \in Terms, terms'[p] = t, due'[p] = FirstWindow(t)
        PROVE  IsFiniteSet(due'[p])
    <3>1. Window - 1 \in Nat
      BY ScheduleAssumption
    <3>2. IsFiniteSet(Series(t.start, t.step, Window - 1)) /\ IsFiniteSet({t.start})
      BY <3>1, SeriesFinite, FS_Singleton
    <3>3. IsFiniteSet({t.start} \cup Series(t.start, t.step, Window - 1))
      BY <3>2, FS_Union
    <3>. QED
      BY <2>3, <3>3, FirstChain
  <2>4. CASE terms[p] = None /\ \E t \in Terms : terms'[p] = t /\ due'[p] = FirstWindow(t)
    BY <2>3, <2>4, FirstChain
  <2>5. ASSUME NEW d \in due[p], NEW n \in Nat \ {0}, terms'[p] = terms[p], terms[p] # None,
               due'[p] = due[p] \cup Series(d, terms[p].step, n), IsLast(d, due[p])
        PROVE  /\ IsFiniteSet(due'[p]) /\ due'[p] \in SUBSET Dates
               /\ IsChain(due'[p], terms'[p].start, terms'[p].step)
    <3>1. terms[p].start \in Dates /\ terms[p].step \in Nat \ {0}
      BY <2>1, <2>5, ScheduleAssumption DEF Terms
    <3>2. IsFiniteSet(Series(d, terms[p].step, n))
      BY SeriesFinite
    <3>3. IsFiniteSet(due'[p])
      BY <2>1, <2>5, <3>2, FS_Union
    <3>4. /\ IsChain(due[p] \cup Series(d, terms[p].step, n), terms[p].start, terms[p].step)
          /\ due[p] \cup Series(d, terms[p].step, n) \subseteq Dates
      BY <2>1, <2>5, <3>1, ChainExtends
    <3>. QED
      BY <2>5, <3>3, <3>4
  <2>. QED
    BY <2>1, <2>2, <2>4, <2>5, TableSteps
<1>3. FiniteDue' /\ Chains'
  BY <1>2 DEF FiniteDue, Chains
<1>4. terms' \in [Policies -> Terms \cup {None}] /\ due' \in [Policies -> SUBSET Dates]
  BY <1>1, <1>2
<1>. QED
  BY <1>3, <1>4

\* Who acted is left with sound work, and the others' work is untouched.
LEMMA WorkStays ==
  ASSUME Inv, [Next]_vars
  PROVE  work' \in [Workers -> Work] /\ \A w \in Workers : Sound(w)'
<1>. USE DEF Inv
<1>0. work \in [Workers -> Work] /\ Idle \in Work
  BY DEF TypeOK, Idle, Work
<1>1. ASSUME NEW p \in Policies, terms[p] # None
      PROVE  /\ terms'[p] = terms[p]
             /\ \/ due'[p] = due[p]
                \/ /\ due[p] \subseteq due'[p]
                   /\ \A d : IsLast(d, due[p]) => AddMonths(d, terms[p].step) \in due'[p]
  <2>1. \A d, e : IsLast(d, due[p]) /\ IsLast(e, due[p]) => d = e
    <3>1. \A d, e \in due[p] : d.month = e.month => d = e
      BY <1>1 DEF Chains, IsChain
    <3>2. \A d \in due[p] : d.month \in Nat
      BY DEF TypeOK, Dates
    <3>. QED
      BY <3>1, <3>2 DEF IsLast
  <2>. QED
    BY <1>1, <2>1, TableSteps
<1>2. ASSUME NEW v \in Workers, work'[v] = work[v]
      PROVE  Sound(v)'
  BY <1>1, <1>2, SoundKept
<1>3. ASSUME NEW w \in Workers, NEW rec \in Work, work' = [work EXCEPT ![w] = rec],
             work'[w] = rec => Sound(w)'
      PROVE  work' \in [Workers -> Work] /\ \A v \in Workers : Sound(v)'
  <2>1. work' \in [Workers -> Work]
    BY <1>0, <1>3
  <2>2. ASSUME NEW v \in Workers
        PROVE  Sound(v)'
    <3>1. CASE v = w
      BY <1>0, <1>3, <3>1
    <3>2. CASE v # w
      <4>1. work'[v] = work[v]
        BY <1>0, <1>3, <3>2
      <4>. QED
        BY <1>2, <4>1
    <3>. QED
      BY <3>1, <3>2
  <2>. QED
    BY <2>1, <2>2
<1>4. CASE work' = work
  BY <1>0, <1>2, <1>4
<1>5. ASSUME NEW w \in Workers, work' = [work EXCEPT ![w] = Idle]
      PROVE  work' \in [Workers -> Work] /\ \A v \in Workers : Sound(v)'
  BY <1>0, <1>3, <1>5, IdleSound
<1>6. ASSUME NEW w \in Workers,
             \/ \E p \in Policies, t \in Terms : BeginCreate(w, p, t)
             \/ BeginTopUp(w)
             \/ \E p \in Policies : CountOpen(w, p)
             \/ InsertMissing(w)
      PROVE  work' \in [Workers -> Work] /\ \A v \in Workers : Sound(v)'
  BY <1>3, <1>6, OwnSound
<1>7. CASE UNCHANGED vars \/ \E C \in SUBSET UNION {{p} \X Open(p) : p \in Policies} : Collect(C)
  BY <1>4, <1>7 DEF vars, Collect
<1>8. CASE \E w \in Workers : Step(w)
  <2>1. PICK w \in Workers : Step(w)
    BY <1>8
  <2>2. CASE CommitCreate(w) \/ CommitTopUp(w) \/ Abort(w)
    BY <1>5, <2>2 DEF CommitCreate, CommitTopUp, Abort
  <2>. QED
    BY <1>6, <2>1, <2>2 DEF Step
<1>. QED
  BY <1>7, <1>8 DEF Next

\* What is paid was due.
LEMMA PaidStays ==
  ASSUME Inv, [Next]_vars
  PROVE  paid' \in [Policies -> SUBSET Dates]
<1>. USE DEF Inv
<1>1. CASE paid' = paid
  BY <1>1 DEF TypeOK
<1>2. ASSUME NEW C \in SUBSET UNION {{p} \X Open(p) : p \in Policies}, Collect(C)
      PROVE  paid' \in [Policies -> SUBSET Dates]
  <2>1. \A n \in C : n[2] \in Dates
    BY DEF Open, TypeOK
  <2>2. \A p \in Policies : Of(C, p) \subseteq Dates
    BY <2>1 DEF Of
  <2>. QED
    BY <1>2, <2>2 DEF Collect, TypeOK
<1>. QED
  BY <1>1, <1>2 DEF Next, Step, Begin, BeginCreate, CommitCreate, BeginTopUp, CountOpen, InsertMissing,
     CommitTopUp, Abort, vars

\* No step breaks the invariant.
LEMMA InvStays == Inv /\ [Next]_vars => Inv'
  BY TablesStay, WorkStays, PaidStays DEF Inv, TypeOK

\* The invariant holds at all times.
LEMMA InvAlways == Spec => []Inv
<1>. QED
  BY InitInv, InvStays, PTL DEF Spec

\* A top-up that goes on to its second query has counted a gap, between one installment and a
\* whole window, and the query finds a latest due date to reckon from: the start date that
\* top_up_policy_installments would fall back on is never needed, since a policy has its first
\* installments from the commit that made it.
GapsAreReal ==
  \A w \in Workers : work[w].op = "counted" =>
    /\ terms[work[w].policy] # None
    /\ \E d \in due[work[w].policy] : IsLast(d, due[work[w].policy])
    /\ work[w].shortfall \in 1..Window

\* Every column keeps its type, and what top_up_policy_installments counts and looks up is
\* never out of its range, for any window and any number of overlapping runs.
THEOREM TopUpsFillGaps == Spec => [](TypeOK /\ GapsAreReal)
<1>1. Inv => TypeOK /\ GapsAreReal
  <2>. SUFFICES ASSUME Inv, NEW w \in Workers, work[w].op = "counted"
                PROVE  /\ terms[work[w].policy] # None
                       /\ \E d \in due[work[w].policy] : IsLast(d, due[work[w].policy])
                       /\ work[w].shortfall \in 1..Window
    BY DEF Inv, GapsAreReal
  <2>1. work[w].policy \in work[w].todo /\ work[w].shortfall # 0 /\ work[w].shortfall <= Window
    BY DEF Inv, Sound
  <2>2. work[w].todo \subseteq Policies /\ work[w].shortfall \in Nat
    BY DEF Inv, TypeOK, Work
  <2>3. terms[work[w].policy] # None
    BY <2>1 DEF Inv, Sound
  <2>4. IsChain(due[work[w].policy], terms[work[w].policy].start, terms[work[w].policy].step)
    BY <2>1, <2>2, <2>3 DEF Inv, Chains
  <2>5. \E d \in due[work[w].policy] : IsLast(d, due[work[w].policy])
    BY <2>4 DEF IsChain
  <2>. QED
    BY <2>1, <2>2, <2>3, <2>5, ScheduleAssumption
<1>. QED
  BY <1>1, InvAlways, PTL

\* However many runs of top_up_all_active_policies overlap, a policy has exactly one
\* installment for every period from its start date on.
THEOREM OnePerPeriod == Spec => []OneRowPerPeriod
<1>1. Inv => OneRowPerPeriod
  BY DEF Inv, Chains, IsChain, OneRowPerPeriod
<1>. QED
  BY <1>1, InvAlways, PTL

-----------------------------------------------------------------------------
(* The window while runs of the job do not overlap: there is room for       *)
(* everything a run has counted or inserted.                                *)

Size(S) == Cardinality(S)

Room ==
  \A w \in Workers, p \in Policies :
    /\ Size(Open(p)) + Size(Of(work[w].new, p)) <= Window
    /\ work[w].op = "counted" /\ work[w].policy = p => Size(Open(p)) + work[w].shortfall <= Window

Counted ==
  /\ \A p \in Policies : IsFiniteSet(Open(p)) /\ Size(Open(p)) \in Nat
  /\ \A w \in Workers, p \in Policies :
       IsFiniteSet(Of(work[w].new, p)) /\ Size(Of(work[w].new, p)) \in Nat

\* All the sets counted are finite.
LEMMA Counts == Inv => Counted
<1>. SUFFICES ASSUME Inv PROVE Counted
  OBVIOUS
<1>1. ASSUME NEW p \in Policies
      PROVE  IsFiniteSet(Open(p)) /\ Size(Open(p)) \in Nat
  BY FS_Subset, FS_CardinalityType DEF Inv, FiniteDue, Open, Size
<1>2. ASSUME NEW w \in Workers, NEW p \in Policies
      PROVE  IsFiniteSet(Of(work[w].new, p)) /\ Size(Of(work[w].new, p)) \in Nat
  <2>1. CASE Of(work[w].new, p) = {}
    BY <2>1, FS_EmptySet DEF Size
  <2>2. CASE Of(work[w].new, p) # {}
    <3>1. PICK d \in due[p], n \in Nat \ {0} : Of(work[w].new, p) = Series(d, terms[p].step, n)
      <4>1. Continues(Of(work[w].new, p), p)
        BY <2>2 DEF Inv, Sound
      <4>. QED
        BY <4>1 DEF Continues
    <3>2. IsFiniteSet(Of(work[w].new, p))
      BY <3>1, SeriesFinite
    <3>. QED
      BY <3>2, FS_CardinalityType DEF Size
  <2>. QED
    BY <2>1, <2>2
<1>. QED
  BY <1>1, <1>2 DEF Counted

\* A step that opens no installment leaves room for what a worker already has.
LEMMA RoomKept ==
  ASSUME Inv, Inv', Room, NEW v \in Workers, NEW p \in Policies, work'[v] = work[v],
         Open(p)' \subseteq Open(p)
  PROVE  /\ Size(Open(p)') + Size(Of(work'[v].new, p)) <= Window
         /\ work'[v].op = "counted" /\ work'[v].policy = p =>
              Size(Open(p)') + work'[v].shortfall <= Window
<1>1. Size(Open(p)') <= Size(Open(p)) /\ Size(Open(p)') \in Nat /\ Size(Open(p)) \in Nat
  <2>1. IsFiniteSet(Open(p)) /\ Size(Open(p)) \in Nat
    BY Counts DEF Counted
  <2>2. IsFiniteSet(Open(p)') /\ Cardinality(Open(p)') <= Cardinality(Open(p))
    BY <2>1, FS_Subset
  <2>. QED
    BY <2>1, <2>2, FS_CardinalityType DEF Size
<1>2. Size(Of(work[v].new, p)) \in Nat /\ work[v].shortfall \in Nat
  BY Counts DEF Counted, Inv, TypeOK, Work
<1>3. Window \in Nat
  BY ScheduleAssumption
<1>. QED
  BY <1>1, <1>2, <1>3 DEF Room

\* At first there is room.
LEMMA InitRoom == Init => Room
<1>. SUFFICES ASSUME Init, NEW w \in Workers, NEW p \in Policies
              PROVE  /\ Size(Open(p)) + Size(Of(work[w].new, p)) <= Window
                     /\ work[w].op # "counted"
  BY DEF Room
<1>1. Open(p) = {} /\ work[w] = Idle
  BY DEF Init, Open
<1>2. Of(work[w].new, p) = {}
  BY <1>1, OfPairs DEF Idle
<1>3. Size({}) = 0
  BY FS_EmptySet DEF Size
<1>4. Window \in Nat /\ work[w].op = "idle"
  BY <1>1, ScheduleAssumption DEF Idle
<1>. QED
  BY <1>1, <1>2, <1>3, <1>4

\* What CountOpen and InsertMissing take is what the window has room for.
LEMMA OwnRoom ==
  ASSUME Inv, Inv', Room, NEW w \in Workers, NEW p \in Policies,
         UNCHANGED <<due, paid>>,
         \/ \E q \in Policies : CountOpen(w, q)
         \/ InsertMissing(w)
  PROVE  /\ Size(Open(p)) + Size(Of(work'[w].new, p)) <= Window
         /\ work'[w].op = "counted" /\ work'[w].policy = p =>
              Size(Open(p)) + work'[w].shortfall <= Window
<1>1. /\ Size(Open(p)) \in Nat /\ Window \in Nat /\ work[w] \in Work
      /\ Size(Of(work[w].new, p)) \in Nat
      /\ Size(Open(p)) + Size(Of(work[w].new, p)) <= Window
  BY Counts, ScheduleAssumption DEF Counted, Room, Inv, TypeOK
<1>2. ASSUME NEW q \in Policies, CountOpen(w, q)
      PROVE  /\ work'[w].new = work[w].new
             /\ work'[w].op = "counted" /\ work'[w].policy = p =>
                  work'[w].shortfall = Window - Size(Open(p))
  <2>1. ASSUME NEW rec, work' = [work EXCEPT ![w] = rec]
        PROVE  work'[w] = rec
    BY <2>1 DEF Inv, TypeOK
  <2>. DEFINE s == Window - Cardinality(Open(q))
  <2>2. CASE s <= 0
    <3>1. work'[w] = [work[w] EXCEPT !.todo = @ \ {q}]
      BY <1>2, <2>1, <2>2 DEF CountOpen
    <3>. QED
      BY <1>1, <1>2, <3>1 DEF Work, CountOpen
  <2>3. CASE ~(s <= 0)
    <3>1. work'[w] = [work[w] EXCEPT !.op = "counted", !.policy = q, !.shortfall = s]
      BY <1>2, <2>1, <2>3 DEF CountOpen
    <3>. QED
      BY <1>1, <3>1 DEF Work, Size
  <2>. QED
    BY <2>2, <2>3
<1>3. CASE \E q \in Policies : CountOpen(w, q)
  <2>1. PICK q \in Policies : CountOpen(w, q)
    BY <1>3
  <2>. QED
    BY <1>1, <1>2, <2>1
<1>4. CASE InsertMissing(w)
  <2>1. PICK q \in Policies, n \in Nat \ {0}, d \in Dates :
          /\ work[w].policy = q /\ work[w].shortfall = n /\ work'[w].op = "top_up"
          /\ Of(work'[w].new, p) = IF p = q THEN Series(d, terms[q].step, n)
                                   ELSE Of(work[w].new, p)
    BY <1>4, InsertsSeries
  <2>2. CASE p = q
    <3>1. Size(Open(p)) + n <= Window
      BY <1>4, <2>1, <2>2 DEF Room, InsertMissing
    <3>2. IsFiniteSet(Series(d, terms[q].step, n)) /\ Size(Series(d, terms[q].step, n)) <= n
      BY SeriesFinite DEF Size
    <3>3. Size(Series(d, terms[q].step, n)) \in Nat
      BY <3>2, FS_CardinalityType DEF Size
    <3>. QED
      BY <1>1, <2>1, <2>2, <3>1, <3>2, <3>3
  <2>3. CASE p # q
    BY <1>1, <2>1, <2>3
  <2>. QED
    BY <2>2, <2>3
<1>. QED
  BY <1>3, <1>4

\* A commit fills at most the room that was left: no other run has anything pending.
LEMMA CommitRoom ==
  ASSUME Inv, Inv', Room, OneRunAtATime, NEW w \in Workers, CommitTopUp(w)
  PROVE  Room'
<1>. SUFFICES ASSUME NEW v \in Workers, NEW p \in Policies
              PROVE  /\ Size(Open(p)') + Size(Of(work'[v].new, p)) <= Window
                     /\ work'[v].op # "counted"
  BY DEF Room
<1>1. Size(Open(p)') <= Window /\ Size(Open(p)') \in Nat
  <2>1. Open(p)' \subseteq Open(p) \cup Of(work[w].new, p)
    BY DEF CommitTopUp, Open
  <2>2. /\ IsFiniteSet(Open(p)) /\ IsFiniteSet(Of(work[w].new, p))
        /\ Size(Open(p)) \in Nat /\ Size(Of(work[w].new, p)) \in Nat
    BY Counts DEF Counted
  <2>3. /\ IsFiniteSet(Open(p) \cup Of(work[w].new, p))
        /\ Cardinality(Open(p) \cup Of(work[w].new, p)) =
             Cardinality(Open(p)) + Cardinality(Of(work[w].new, p))
               - Cardinality(Open(p) \cap Of(work[w].new, p))
    BY <2>2, FS_Union
  <2>4. Cardinality(Open(p) \cap Of(work[w].new, p)) \in Nat
    BY <2>2, FS_Subset, FS_CardinalityType
  <2>5. /\ IsFiniteSet(Open(p)')
        /\ Cardinality(Open(p)') <= Cardinality(Open(p) \cup Of(work[w].new, p))
    BY <2>1, <2>3, FS_Subset
  <2>6. Cardinality(Open(p)') \in Nat
    BY <2>5, FS_CardinalityType
  <2>7. Size(Open(p)) + Size(Of(work[w].new, p)) <= Window /\ Window \in Nat
    BY ScheduleAssumption DEF Room
  <2>. QED
    BY <2>2, <2>3, <2>4, <2>5, <2>6, <2>7 DEF Size
<1>2. work'[v].new = {} /\ work'[v].op # "counted"
  <2>1. CASE v = w
    BY <2>1 DEF CommitTopUp, Inv, TypeOK, Idle
  <2>2. CASE v # w
    <3>1. work'[v] = work[v]
      BY <2>2 DEF CommitTopUp, Inv, TypeOK
    <3>2. ~Running(v)
      BY <2>2 DEF Inv, Sound, Running, OneRunAtATime, Busy, CommitTopUp
    <3>. QED
      BY <3>1, <3>2 DEF Inv, Sound, Running
  <2>. QED
    BY <2>1, <2>2
<1>3. Of(work'[v].new, p) = {} /\ Size({}) = 0 /\ Window \in Nat
  BY <1>2, OfPairs, FS_EmptySet, ScheduleAssumption DEF Size
<1>. QED
  BY <1>1, <1>2, <1>3

\* CommitCreate opens at most a window of installments.
LEMMA CreateFills ==
  ASSUME Inv, NEW w \in Workers, CommitCreate(w), NEW p \in Policies, p = work[w].policy
  PROVE  Size(Open(p)') <= Window /\ Size(Open(p)') \in Nat
<1>. DEFINE t == work[w].terms
<1>1. work[w].policy \in Policies /\ work[w].terms \in Terms /\ terms[work[w].policy] = None
  BY DEF Inv, Sound, CommitCreate
<1>2. Open(p)' \subseteq FirstWindow(t)
  BY <1>1 DEF CommitCreate, Open, Inv, TypeOK
<1>3. FirstWindow(t) = {t.start} \cup Series(t.start, t.step, Window - 1)
  BY <1>1, FirstChain
<1>4. /\ IsFiniteSet(Series(t.start, t.step, Window - 1))
     /\ Cardinality(Series(t.start, t.step, Window - 1)) <= Window - 1
     /\ Window \in Nat
  BY ScheduleAssumption, SeriesFinite
<1>5. /\ IsFiniteSet(FirstWindow(t))
     /\ Cardinality(FirstWindow(t)) <= Cardinality(Series(t.start, t.step, Window - 1)) + 1
     /\ Cardinality(Series(t.start, t.step, Window - 1)) \in Nat
  <2>. DEFINE S == Series(t.start, t.step, Window - 1)
  <2>. HIDE DEF S
  <2>1. IsFiniteSet(S) /\ Cardinality(S) \in Nat /\ FirstWindow(t) = S \cup {t.start}
    BY <1>3, <1>4, FS_CardinalityType DEF S
  <2>2. /\ IsFiniteSet(S \cup {t.start})
        /\ Cardinality(S \cup {t.start}) = IF t.start \in S THEN Cardinality(S)
                                          ELSE Cardinality(S) + 1
    BY <2>1, FS_AddElement
  <2>. QED
    BY <2>1, <2>2 DEF S
<1>6. Cardinality(FirstWindow(t)) <= Window /\ Cardinality(FirstWindow(t)) \in Nat
  BY <1>4, <1>5, FS_CardinalityType
<1>7. IsFiniteSet(Open(p)') /\ Cardinality(Open(p)') <= Cardinality(FirstWindow(t))
  BY <1>2, <1>5, FS_Subset
<1>. QED
  BY <1>4, <1>6, <1>7, FS_CardinalityType DEF Size

\* A new policy's window is full and nothing is pending for it.
LEMMA CreateRoom ==
  ASSUME Inv, Inv', Room, NEW w \in Workers, CommitCreate(w)
  PROVE  Room'
<1>. SUFFICES ASSUME NEW v \in Workers, NEW p \in Policies
              PROVE  /\ Size(Open(p)') + Size(Of(work'[v].new, p)) <= Window
                     /\ work'[v].op = "counted" /\ work'[v].policy = p =>
                          Size(Open(p)') + work'[v].shortfall <= Window
  BY DEF Room
<1>. DEFINE q == work[w].policy
<1>1. work[w].policy \in Policies /\ work[w].terms \in Terms /\ terms[work[w].policy] = None
  BY DEF Inv, Sound, CommitCreate
<1>0. Size({}) = 0 /\ Window \in Nat
  BY ScheduleAssumption, FS_EmptySet DEF Size
<1>2. work'[w] = Idle
  BY DEF CommitCreate, Inv, TypeOK
<1>3. Size(Open(p)') <= Window /\ Size(Open(p)') \in Nat
  <2>1. CASE p = q
    BY <2>1, CreateFills
  <2>2. CASE p # q
    <3>1. Open(p)' = Open(p)
      BY <1>1, <2>2 DEF CommitCreate, Open, Inv, TypeOK
    <3>2. /\ Size(Open(p)) \in Nat /\ Size(Of(work[w].new, p)) \in Nat /\ Window \in Nat
          /\ Size(Open(p)) + Size(Of(work[w].new, p)) <= Window
      BY Counts, ScheduleAssumption DEF Counted, Room
    <3>. QED
      BY <3>1, <3>2
  <2>. QED
    BY <2>1, <2>2
<1>4. CASE v # w
  <2>1. work'[v] = work[v]
    BY <1>4 DEF CommitCreate, Inv, TypeOK
  <2>2. CASE p = q
    <3>1. Of(work[v].new, p) = {} /\ ~(work[v].op = "counted" /\ work[v].policy = p)
      BY <1>1, <2>2 DEF Inv, Sound
    <3>. QED
      BY <1>3, <1>0, <2>1, <3>1
  <2>3. CASE p # q
    <3>1. Open(p)' \subseteq Open(p)
      BY <1>1, <2>3 DEF CommitCreate, Open, Inv, TypeOK
    <3>. QED
      BY <2>1, <3>1, RoomKept
  <2>. QED
    BY <2>2, <2>3
<1>5. CASE v = w
  <2>0. work'[v].new = {} /\ work'[v].op = "idle"
    BY <1>2, <1>5 DEF Idle
  <2>1. Of(work'[v].new, p) = {} /\ work'[v].op # "counted"
    BY <2>0, OfPairs
  <2>. QED
    BY <1>0, <1>3, <2>1
<1>. QED
  BY <1>4, <1>5

\* No step uses more than the room there is, while runs do not overlap.
LEMMA RoomStays ==
  ASSUME Inv, Inv', Room, OneRunAtATime, [Next]_vars
  PROVE  Room'
<1>1. ASSUME NEW v \in Workers, NEW p \in Policies, work'[v] = work[v], Open(p)' \subseteq Open(p)
      PROVE  /\ Size(Open(p)') + Size(Of(work'[v].new, p)) <= Window
             /\ work'[v].op = "counted" /\ work'[v].policy = p =>
                  Size(Open(p)') + work'[v].shortfall <= Window
  BY <1>1, RoomKept
<1>2. CASE UNCHANGED vars
  <2>1. \A p \in Policies : Open(p)' \subseteq Open(p)
    BY <1>2 DEF Open, vars
  <2>. QED
    BY <1>1, <1>2, <2>1 DEF Room, vars
<1>3. ASSUME NEW C \in SUBSET UNION {{p} \X Open(p) : p \in Policies}, Collect(C)
      PROVE  Room'
  <2>1. \A p \in Policies : Open(p)' \subseteq Open(p)
    BY <1>3 DEF Open, Collect
  <2>. QED
    BY <1>1, <1>3, <2>1 DEF Room, Collect
<1>4. ASSUME NEW w \in Workers, UNCHANGED <<due, paid>>, work' = [work EXCEPT ![w] = work'[w]],
             \A p \in Policies :
               /\ Size(Open(p)) + Size(Of(work'[w].new, p)) <= Window
               /\ work'[w].op = "counted" /\ work'[w].policy = p =>
                    Size(Open(p)) + work'[w].shortfall <= Window
      PROVE  Room'
  <2>. SUFFICES ASSUME NEW v \in Workers, NEW p \in Policies
                PROVE  /\ Size(Open(p)') + Size(Of(work'[v].new, p)) <= Window
                       /\ work'[v].op = "counted" /\ work'[v].policy = p =>
                            Size(Open(p)') + work'[v].shortfall <= Window
    BY DEF Room
  <2>1. Open(p)' = Open(p)
    BY <1>4 DEF Open
  <2>2. CASE v = w
    BY <1>4, <2>1, <2>2
  <2>3. CASE v # w
    <3>1. work'[v] = work[v]
      BY <1>4, <2>3 DEF Inv, TypeOK
    <3>. QED
      BY <1>1, <2>1, <3>1
  <2>. QED
    BY <2>2, <2>3
<1>5. ASSUME NEW w \in Workers, UNCHANGED <<due, paid>>, work' = [work EXCEPT ![w] = work'[w]],
             work'[w].new = {}, work'[w].op # "counted"
      PROVE  Room'
  <2>1. ASSUME NEW p \in Policies
        PROVE  Size(Open(p)) + Size(Of(work'[w].new, p)) <= Window
    <3>1. Of(work'[w].new, p) = {} /\ Size({}) = 0
      BY <1>5, OfPairs, FS_EmptySet DEF Size
    <3>2. /\ Size(Open(p)) \in Nat /\ Size(Of(work[w].new, p)) \in Nat /\ Window \in Nat
          /\ Size(Open(p)) + Size(Of(work[w].new, p)) <= Window
      BY Counts, ScheduleAssumption DEF Counted, Room
    <3>. QED
      BY <3>1, <3>2
  <2>. QED
    BY <1>4, <1>5, <2>1
<1>6. ASSUME NEW w \in Workers, Step(w)
      PROVE  Room'
  <2>1. ASSUME NEW rec, work' = [work EXCEPT ![w] = rec]
        PROVE  work'[w] = rec
    BY <2>1 DEF Inv, TypeOK
  <2>2. CASE \E p \in Policies, t \in Terms : BeginCreate(w, p, t)
    <3>1. PICK p \in Policies, t \in Terms : BeginCreate(w, p, t)
      BY <2>2
    <3>2. work'[w] = [Idle EXCEPT !.op = "create", !.policy = p, !.terms = t]
      BY <2>1, <3>1 DEF BeginCreate, Begin
    <3>8. work'[w].new = {} /\ work'[w].op # "counted"
      BY <3>2 DEF Idle
    <3>9. UNCHANGED <<due, paid>> /\ work' = [work EXCEPT ![w] = work'[w]]
      BY <2>1, <3>1 DEF BeginCreate, Begin
    <3>. QED
      BY <1>5, <3>8, <3>9
  <2>3. CASE BeginTopUp(w)
    <3>1. work'[w] = [Idle EXCEPT !.op = "top_up", !.todo = {p \in Policies : terms[p] # None}]
      BY <2>1, <2>3 DEF BeginTopUp, Begin
    <3>8. work'[w].new = {} /\ work'[w].op # "counted"
      BY <3>1 DEF Idle
    <3>9. UNCHANGED <<due, paid>> /\ work' = [work EXCEPT ![w] = work'[w]]
      BY <2>1, <2>3 DEF BeginTopUp, Begin
    <3>. QED
      BY <1>5, <3>8, <3>9
  <2>4. CASE Abort(w)
    <3>1. work'[w] = Idle
      BY <2>1, <2>4 DEF Abort
    <3>8. work'[w].new = {} /\ work'[w].op # "counted"
      BY <3>1 DEF Idle
    <3>9. UNCHANGED <<due, paid>> /\ work' = [work EXCEPT ![w] = work'[w]]
      BY <2>1, <2>4 DEF Abort
    <3>. QED
      BY <1>5, <3>8, <3>9
  <2>5. CASE InsertMissing(w) \/ \E p \in Policies : CountOpen(w, p)
    <3>1. UNCHANGED <<due, paid>> /\ work' = [work EXCEPT ![w] = work'[w]]
      BY <2>1, <2>5 DEF InsertMissing, CountOpen
    <3>. QED
      BY <1>4, <2>5, <3>1, OwnRoom
  <2>. QED
    BY <1>6, <2>2, <2>3, <2>4, <2>5, CommitRoom, CreateRoom DEF Step
<1>. QED
  BY <1>2, <1>3, <1>6 DEF Next

\* As long as no two runs of top_up_all_active_policies overlap, whatever payments and
\* new policies do meanwhile, no policy has more unresolved installments than the window.
THEOREM WindowNeverOverfull == Spec => WindowKept
<1>0. Inv' => Counted'
  BY Counts, PTL
<1>1. Init => WindowHolds
  <2>. SUFFICES ASSUME Init, NEW p \in Policies
                PROVE  Cardinality(Open(p)) <= Window
    BY DEF WindowHolds
  <2>1. Open(p) = {} /\ Cardinality({}) = 0 /\ Window \in Nat
    BY FS_EmptySet, ScheduleAssumption DEF Init, Open
  <2>. QED
    BY <2>1
<1>2. Inv /\ Inv' /\ Room' /\ WindowHolds /\ [Next]_vars => WindowHolds'
  <2>. SUFFICES ASSUME Inv, Inv', Room', WindowHolds, [Next]_vars, NEW p \in Policies
                PROVE  Cardinality(Open(p)') <= Window
    BY DEF WindowHolds
  <2>1. ASSUME NEW w \in Workers
        PROVE  Cardinality(Open(p)') <= Window
    <3>1. /\ Size(Open(p)') \in Nat /\ Size(Of(work'[w].new, p)) \in Nat /\ Window \in Nat
          /\ Size(Open(p)') + Size(Of(work'[w].new, p)) <= Window
      <4>1. Size(Open(p)') \in Nat /\ Size(Of(work'[w].new, p)) \in Nat
        BY <1>0 DEF Counted
      <4>. QED
        BY <4>1, ScheduleAssumption DEF Room
    <3>. QED
      BY <3>1 DEF Size
  <2>2. CASE Workers = {}
    <3>1. Open(p)' \subseteq Open(p)
      BY <2>2 DEF Next, Collect, Open, vars
    <3>2. IsFiniteSet(Open(p)) /\ Cardinality(Open(p)) <= Window
      BY Counts DEF Counted, WindowHolds
    <3>3. IsFiniteSet(Open(p)') /\ Cardinality(Open(p)') <= Cardinality(Open(p))
      BY <3>1, <3>2, FS_Subset
    <3>. QED
      BY <3>2, <3>3, FS_CardinalityType, ScheduleAssumption
  <2>. QED
    BY <2>1, <2>2
<1>3. Inv /\ Inv' /\ Room /\ OneRunAtATime /\ [Next]_vars => Room'
  BY RoomStays
<1>. QED
  BY <1>1, <1>2, <1>3, InitRoom, InvAlways, PTL DEF Spec, WindowKept

-----------------------------------------------------------------------------
(* The window while runs overlap: what the runs have counted or inserted    *)
(* and what is open are no more than a window for every process, because a  *)
(* run counts only what its own window lacks and holds no more than that.   *)

\* The pairs of a member of A and one of the values S holds for it.
Pairs(S, A) == {x \in A \X UNION {S[v] : v \in A} : x[2] \in S[x[1]]}

\* Members that hold at most m values each hold m for each of them together.
LEMMA PairsFit ==
  ASSUME NEW A, IsFiniteSet(A), NEW m \in Nat, NEW S,
         \A v \in A : IsFiniteSet(S[v]) /\ Cardinality(S[v]) <= m
  PROVE  IsFiniteSet(Pairs(S, A)) /\ Cardinality(Pairs(S, A)) <= Cardinality(A) * m
<1>1. PICK B : B = 1..m /\ IsFiniteSet(B) /\ Cardinality(B) = m
  BY FS_Interval
<1>2. ASSUME NEW v \in A
      PROVE  \E f \in [S[v] -> B] : \A a, b \in S[v] : f[a] = f[b] => a = b
  <2>1. PICK n \in Nat : ExistsBijection(1..n, S[v])
    BY FS_NatBijection
  <2>2. Cardinality(S[v]) = n /\ n <= m
    BY <2>1, FS_CountingElements
  <2>3. PICK f \in Bijection(S[v], 1..n) : TRUE
    BY <2>1, Fun_ExistsBijSymmetric, Fun_ExistsBij
  <2>4. f \in [S[v] -> 1..n] /\ \A a, b \in S[v] : f[a] = f[b] => a = b
    BY Fun_BijectionProperties
  <2>5. 1..n \subseteq B
    BY <1>1, <2>2
  <2>. QED
    BY <2>4, <2>5
<1>. DEFINE Numbering(v, f) == f \in [S[v] -> B] /\ \A a, b \in S[v] : f[a] = f[b] => a = b
            g == [v \in A |-> CHOOSE f : Numbering(v, f)]
            h == [x \in Pairs(S, A) |-> <<x[1], g[x[1]][x[2]]>>]
<1>3. \A v \in A : Numbering(v, g[v])
  <2>1. \A v \in A : \E f : Numbering(v, f)
    BY <1>2
  <2>. HIDE DEF Numbering
  <2>. QED
    BY <2>1
<1>. HIDE DEF g
<1>4. \A x \in Pairs(S, A) : x = <<x[1], x[2]>> /\ x[1] \in A /\ x[2] \in S[x[1]]
  BY DEF Pairs
<1>5. h \in [Pairs(S, A) -> A \X B]
  <2>. SUFFICES ASSUME NEW x \in Pairs(S, A)
                PROVE  <<x[1], g[x[1]][x[2]]>> \in A \X B
    OBVIOUS
  <2>1. x[1] \in A /\ x[2] \in S[x[1]]
    BY <1>4
  <2>2. g[x[1]] \in [S[x[1]] -> B]
    BY <1>3, <2>1
  <2>. QED
    BY <2>1, <2>2
<1>6. ASSUME NEW x \in Pairs(S, A), NEW y \in Pairs(S, A), h[x] = h[y]
      PROVE  x = y
  <2>1. x[1] = y[1] /\ g[x[1]][x[2]] = g[y[1]][y[2]]
    BY <1>6
  <2>2. x[2] = y[2]
    BY <1>3, <1>4, <2>1
  <2>. QED
    BY <1>4, <2>1, <2>2
<1>7. h \in Injection(Pairs(S, A), A \X B)
  BY <1>5, <1>6, Fun_IsInj
<1>8. IsFiniteSet(A \X B) /\ Cardinality(A \X B) = Cardinality(A) * m
  BY <1>1, FS_Product
<1>. QED
  BY <1>7, <1>8, FS_Injection

\* What one member holds and what the others hold.
LEMMA PairsSplit ==
  ASSUME NEW A, IsFiniteSet(A), NEW m \in Nat, NEW S, NEW w \in A,
         \A v \in A : IsFiniteSet(S[v]) /\ Cardinality(S[v]) <= m
  PROVE  /\ Cardinality(S[w]) \in Nat /\ Cardinality(Pairs(S, A \ {w})) \in Nat
         /\ Cardinality(Pairs(S, A)) = Cardinality(Pairs(S, A \ {w})) + Cardinality(S[w])
         /\ Cardinality(Pairs(S, A \ {w})) + m <= m * Cardinality(A)
<1>. DEFINE O == Pairs(S, A \ {w})
            P == {w} \X S[w]
<1>1. IsFiniteSet(A \ {w}) /\ Cardinality(A \ {w}) = Cardinality(A) - 1 /\ Cardinality(A) \in Nat
  BY FS_RemoveElement, FS_CardinalityType
<1>2. IsFiniteSet(O) /\ Cardinality(O) <= Cardinality(A \ {w}) * m /\ Cardinality(O) \in Nat
  <2>1. IsFiniteSet(O) /\ Cardinality(O) <= Cardinality(A \ {w}) * m
    BY <1>1, PairsFit
  <2>. QED
    BY <2>1, FS_CardinalityType
<1>3. IsFiniteSet(P) /\ Cardinality(P) = Cardinality(S[w]) /\ Cardinality(S[w]) \in Nat
  <2>1. IsFiniteSet({w}) /\ Cardinality({w}) = 1
    BY FS_Singleton
  <2>2. IsFiniteSet(S[w]) /\ Cardinality(S[w]) \in Nat
    BY FS_CardinalityType
  <2>. QED
    BY <2>1, <2>2, FS_Product
<1>4. Pairs(S, A) = O \cup P /\ O \cap P = {}
  BY DEF Pairs
<1>5. Cardinality(O \cup P) = Cardinality(O) + Cardinality(P)
  <2>1. Cardinality(O \cap P) = 0
    BY <1>4, FS_EmptySet
  <2>2. Cardinality(O \cup P) = Cardinality(O) + Cardinality(P) - Cardinality(O \cap P)
    BY <1>2, <1>3, FS_Union
  <2>. HIDE DEF O, P
  <2>. QED
    BY <1>2, <1>3, <2>1, <2>2
<1>6. Cardinality(A \ {w}) * m + m = m * Cardinality(A)
  <2>1. \A k \in Nat : (k - 1) * m + m = m * k
    OBVIOUS
  <2>. QED
    BY <1>1, <2>1
<1>7. Cardinality(O) + m <= m * Cardinality(A)
  <2>1. \A k \in Nat, j \in Int : k <= j => k + m <= j + m
    OBVIOUS
  <2>2. Cardinality(A \ {w}) * m \in Int
    BY <1>1
  <2>. QED
    BY <1>2, <1>6, <2>1, <2>2
<1>. QED
  BY <1>2, <1>3, <1>4, <1>5, <1>7

\* One member's holding changes: within its own share, or by no more than is given up for it.
LEMMA OneMoves ==
  ASSUME NEW A, IsFiniteSet(A), NEW m \in Nat, NEW w \in A, NEW S, NEW T,
         \A v \in A : IsFiniteSet(S[v]) /\ Cardinality(S[v]) <= m,
         IsFiniteSet(T[w]) /\ Cardinality(T[w]) <= m, \A v \in A \ {w} : T[v] = S[v],
         NEW a \in Nat, NEW b \in Nat, a + Cardinality(Pairs(S, A)) <= m * Cardinality(A),
         b + Cardinality(T[w]) <= m \/ b + Cardinality(T[w]) <= a + Cardinality(S[w])
  PROVE  b + Cardinality(Pairs(T, A)) <= m * Cardinality(A)
<1>1. \A v \in A : IsFiniteSet(T[v]) /\ Cardinality(T[v]) <= m
  OBVIOUS
<1>2. Pairs(T, A \ {w}) = Pairs(S, A \ {w})
  <2>1. {T[v] : v \in A \ {w}} = {S[v] : v \in A \ {w}}
    OBVIOUS
  <2>. QED
    BY <2>1 DEF Pairs
<1>3. /\ Cardinality(S[w]) \in Nat /\ Cardinality(Pairs(S, A \ {w})) \in Nat
      /\ Cardinality(Pairs(S, A)) = Cardinality(Pairs(S, A \ {w})) + Cardinality(S[w])
      /\ Cardinality(Pairs(S, A \ {w})) + m <= m * Cardinality(A)
  BY PairsSplit
<1>4. /\ Cardinality(T[w]) \in Nat
      /\ Cardinality(Pairs(T, A)) = Cardinality(Pairs(S, A \ {w})) + Cardinality(T[w])
  BY <1>1, <1>2, PairsSplit
<1>5. m * Cardinality(A) \in Nat
  BY FS_CardinalityType
<1>. QED
  BY <1>3, <1>4, <1>5

-----------------------------------------------------------------------------
\* What a run means to add to a policy: numbers until it inserts, then dates.
Pending(w, p) ==
  IF work[w].op = "counted" /\ work[w].policy = p THEN 1..work[w].shortfall
  ELSE Of(work[w].new, p)

Held(p) == [w \in Jobs |-> Pending(w, p)]

Fits(S) == IsFiniteSet(S) /\ Cardinality(S) <= Window

Shares ==
  \A p \in Policies :
    /\ \A w \in Jobs : Fits(Pending(w, p))
    /\ Size(Open(p)) + Size(Pairs(Held(p), Jobs)) <= Window * Cardinality(Jobs)

\* One process's part of a policy changes: what it holds and what is open stay within a
\* window, or within what they were.
Moves(w, p) ==
  /\ \A v \in Jobs \ {w} : Pending(v, p)' = Pending(v, p)
  /\ Fits(Pending(w, p)')
  /\ \/ Size(Open(p)') + Size(Pending(w, p)') <= Window
     \/ Size(Open(p)') + Size(Pending(w, p)') <= Size(Open(p)) + Size(Pending(w, p))

\* At first nothing is open or pending.
LEMMA InitShares == Init => Shares
<1>. SUFFICES ASSUME Init, NEW p \in Policies
              PROVE  /\ \A w \in Jobs : Fits(Pending(w, p))
                     /\ Size(Open(p)) + Size(Pairs(Held(p), Jobs)) <= Window * Cardinality(Jobs)
  BY DEF Shares
<1>1. Open(p) = {}
  BY DEF Init, Open
<1>2. \A w \in Jobs : Pending(w, p) = {}
  BY OfPairs DEF Init, Pending, Idle, Workers
<1>3. Pairs(Held(p), Jobs) = {}
  BY <1>2 DEF Pairs, Held
<1>4. IsFiniteSet({}) /\ Cardinality({}) = 0
  BY FS_EmptySet
<1>5. Window * Cardinality(Jobs) \in Nat /\ Window \in Nat
  BY ScheduleAssumption, FS_CardinalityType
<1>. QED
  BY <1>1, <1>2, <1>3, <1>4, <1>5 DEF Fits, Size

\* The shares stand when every policy changes by one process's move.
LEMMA SharesMove ==
  ASSUME Inv, Inv', Shares, \A p \in Policies : \E w \in Jobs : Moves(w, p)
  PROVE  Shares'
<1>. SUFFICES ASSUME NEW p \in Policies
              PROVE  /\ \A v \in Jobs : Fits(Pending(v, p)')
                     /\ Size(Open(p)') + Size(Pairs(Held(p)', Jobs)) <= Window * Cardinality(Jobs)
  BY DEF Shares
<1>1. PICK w \in Jobs : Moves(w, p)
  OBVIOUS
<1>. DEFINE S == Held(p)
            T == Held(p)'
<1>2. \A v \in Jobs : S[v] = Pending(v, p) /\ T[v] = Pending(v, p)'
  BY DEF Held
<1>3. \A v \in Jobs : Fits(Pending(v, p)')
  <2>1. \A v \in Jobs : v # w => Pending(v, p)' = Pending(v, p)
    BY <1>1 DEF Moves
  <2>2. Fits(Pending(w, p)') /\ \A v \in Jobs : Fits(Pending(v, p))
    BY <1>1 DEF Moves, Shares
  <2>. QED
    BY <2>1, <2>2
<1>4. Size(Open(p)) \in Nat /\ Size(Open(p)') \in Nat
  <2>1. Inv' => Counted'
    BY Counts, PTL
  <2>. QED
    BY <2>1, Counts DEF Counted
<1>5. IsFiniteSet(Jobs) /\ Window \in Nat
  BY ScheduleAssumption
<1>6. \A v \in Jobs : IsFiniteSet(S[v]) /\ Cardinality(S[v]) <= Window
  BY <1>2 DEF Shares, Fits
<1>7. IsFiniteSet(T[w]) /\ Cardinality(T[w]) <= Window /\ \A v \in Jobs \ {w} : T[v] = S[v]
  BY <1>1, <1>2, <1>3 DEF Fits, Moves
<1>8. Size(Open(p)) + Cardinality(Pairs(S, Jobs)) <= Window * Cardinality(Jobs)
  BY DEF Shares, Size
<1>9. \/ Size(Open(p)') + Cardinality(T[w]) <= Window
      \/ Size(Open(p)') + Cardinality(T[w]) <= Size(Open(p)) + Cardinality(S[w])
  BY <1>1, <1>2 DEF Moves, Size
<1>. HIDE DEF S, T
<1>10. Size(Open(p)') + Cardinality(Pairs(T, Jobs)) <= Window * Cardinality(Jobs)
  BY <1>4, <1>5, <1>6, <1>7, <1>8, <1>9, OneMoves
<1>. QED
  BY <1>3, <1>10 DEF T, Size

\* A worker that takes no step keeps what is pending, and so does every process when a
\* worker that runs no job acts.
LEMMA PendingKept ==
  ASSUME NEW v, NEW p, work'[v] = work[v]
  PROVE  Pending(v, p)' = Pending(v, p)
  BY DEF Pending

\* A step that opens nothing moves no process more than another may.
LEMMA Rests ==
  ASSUME Inv, Inv', Shares, NEW p \in Policies, Open(p)' \subseteq Open(p), NEW w \in Jobs,
         \A v \in Jobs \ {w} : work'[v] = work[v], Pending(w, p)' \in {Pending(w, p), {}}
  PROVE  Moves(w, p)
<1>1. \A v \in Jobs \ {w} : Pending(v, p)' = Pending(v, p)
  BY PendingKept
<1>2. Size(Open(p)') <= Size(Open(p)) /\ Size(Open(p)') \in Nat /\ Size(Open(p)) \in Nat
  <2>1. IsFiniteSet(Open(p)) /\ Size(Open(p)) \in Nat
    BY Counts DEF Counted
  <2>2. IsFiniteSet(Open(p)') /\ Cardinality(Open(p)') <= Cardinality(Open(p))
    BY <2>1, FS_Subset
  <2>. QED
    BY <2>1, <2>2, FS_CardinalityType DEF Size
<1>3. Fits(Pending(w, p)) /\ Size(Pending(w, p)) \in Nat
  BY FS_CardinalityType DEF Shares, Fits, Size
<1>4. Fits({}) /\ Size({}) = 0
  BY FS_EmptySet, ScheduleAssumption DEF Fits, Size
<1>. QED
  BY <1>1, <1>2, <1>3, <1>4 DEF Moves

\* CountOpen takes for a policy what its window lacks, however much others hold for it.
LEMMA CountMoves ==
  ASSUME Inv, Inv', Shares, NEW w \in Jobs, NEW q \in Policies, CountOpen(w, q), NEW p \in Policies
  PROVE  Moves(w, p)
<1>. DEFINE s == Window - Cardinality(Open(q))
<1>1. /\ work \in [Workers -> Work] /\ w \in Workers /\ work[w] \in Work /\ Open(p)' = Open(p)
      /\ \A v \in Jobs \ {w} : work'[v] = work[v]
  BY DEF Inv, TypeOK, Workers, CountOpen, Open
<1>2. Pending(w, p) = Of(work[w].new, p) /\ work[w].op = "top_up" /\ Of(work[w].new, q) = {}
  BY <1>1 DEF Pending, CountOpen, Inv, Sound
<1>3. CASE s <= 0
  <2>1. work'[w] = [work[w] EXCEPT !.todo = @ \ {q}]
    BY <1>1, <1>3 DEF CountOpen
  <2>2. work'[w].new = work[w].new /\ work'[w].op = "top_up"
    BY <1>1, <1>2, <2>1 DEF Work
  <2>3. Pending(w, p)' = Pending(w, p)
    BY <1>2, <2>2 DEF Pending
  <2>. QED
    BY <1>1, <2>3, Rests
<1>4. CASE ~(s <= 0)
  <2>1. work'[w] = [work[w] EXCEPT !.op = "counted", !.policy = q, !.shortfall = s]
    BY <1>1, <1>4 DEF CountOpen
  <2>2. /\ work'[w].new = work[w].new /\ work'[w].op = "counted" /\ work'[w].policy = q
        /\ work'[w].shortfall = s
    BY <1>1, <2>1 DEF Work
  <2>3. CASE p # q
    <3>1. Pending(w, p)' = Pending(w, p)
      BY <1>2, <2>2, <2>3 DEF Pending
    <3>. QED
      BY <1>1, <3>1, Rests
  <2>4. CASE p = q
    <3>1. Pending(w, p)' = 1..s
      BY <2>2, <2>4 DEF Pending
    <3>2. Cardinality(Open(q)) \in Nat /\ Window \in Nat
      BY Counts, ScheduleAssumption DEF Counted, Size
    <3>3. IsFiniteSet(1..s) /\ Cardinality(1..s) = s
      BY <1>4, <3>2, FS_Interval
    <3>4. Fits(Pending(w, p)') /\ Size(Open(p)') + Size(Pending(w, p)') <= Window
      BY <1>1, <2>4, <3>1, <3>2, <3>3 DEF Fits, Size
    <3>. QED
      BY <1>1, <3>4, PendingKept DEF Moves
  <2>. QED
    BY <2>3, <2>4
<1>. QED
  BY <1>3, <1>4

\* InsertMissing inserts no more than it counted.
LEMMA InsertMoves ==
  ASSUME Inv, Inv', Shares, NEW w \in Jobs, InsertMissing(w), NEW p \in Policies
  PROVE  Moves(w, p)
<1>1. /\ work \in [Workers -> Work] /\ w \in Workers /\ Open(p)' = Open(p)
      /\ \A v \in Jobs \ {w} : work'[v] = work[v]
  BY DEF Inv, TypeOK, Workers, InsertMissing, Open
<1>2. PICK q \in Policies, n \in Nat \ {0}, d \in Dates :
        /\ work[w].policy = q /\ work[w].shortfall = n /\ work'[w].op = "top_up"
        /\ Of(work'[w].new, p) = IF p = q THEN Series(d, terms[q].step, n)
                                 ELSE Of(work[w].new, p)
  BY <1>1, InsertsSeries
<1>3. Pending(w, p)' = Of(work'[w].new, p)
  BY <1>2 DEF Pending
<1>4. CASE p # q
  <2>1. Pending(w, p)' = Pending(w, p)
    BY <1>2, <1>3, <1>4 DEF Pending
  <2>. QED
    BY <1>1, <2>1, Rests
<1>5. CASE p = q
  <2>1. Pending(w, p) = 1..n
    BY <1>2, <1>5 DEF Pending, InsertMissing
  <2>2. IsFiniteSet(1..n) /\ Cardinality(1..n) = n
    BY FS_Interval
  <2>3. n <= Window /\ Size(Pending(w, p)) = n
    BY <2>1, <2>2 DEF Shares, Fits, Size
  <2>4. PICK S : S = Series(d, terms[q].step, n)
    OBVIOUS
  <2>5. IsFiniteSet(S) /\ Cardinality(S) <= n /\ Cardinality(S) \in Nat
    BY <2>4, SeriesFinite, FS_CardinalityType
  <2>6. Pending(w, p)' = S
    BY <1>2, <1>3, <1>5, <2>4
  <2>7. Size(Open(p)) \in Nat /\ Window \in Nat
    BY Counts, ScheduleAssumption DEF Counted
  <2>8. Fits(Pending(w, p)')
    BY <2>3, <2>5, <2>6, <2>7 DEF Fits
  <2>9. Size(Open(p)') + Size(Pending(w, p)') <= Size(Open(p)) + Size(Pending(w, p))
    BY <1>1, <2>3, <2>5, <2>6, <2>7 DEF Size
  <2>. QED
    BY <1>1, <2>8, <2>9, PendingKept DEF Moves
<1>. QED
  BY <1>4, <1>5

\* A commit opens what it held.
LEMMA CommitMoves ==
  ASSUME Inv, Inv', Shares, NEW w \in Jobs, CommitTopUp(w), NEW p \in Policies
  PROVE  Moves(w, p)
<1>1. /\ work \in [Workers -> Work] /\ w \in Workers
      /\ \A v \in Jobs \ {w} : work'[v] = work[v]
      /\ work'[w] = Idle /\ work[w].op = "top_up"
  BY DEF Inv, TypeOK, Workers, CommitTopUp
<1>2. Pending(w, p) = Of(work[w].new, p)
  BY <1>1 DEF Pending
<1>3. Pending(w, p)' = {}
  BY <1>1, OfPairs DEF Pending, Idle
<1>4. Open(p)' \subseteq Open(p) \cup Pending(w, p)
  BY <1>2 DEF CommitTopUp, Open
<1>5. /\ IsFiniteSet(Open(p)) /\ Cardinality(Open(p)) \in Nat
      /\ IsFiniteSet(Pending(w, p)) /\ Cardinality(Pending(w, p)) \in Nat
  BY Counts, FS_CardinalityType DEF Counted, Shares, Fits, Size
<1>. DEFINE S == Open(p)
            T == Pending(w, p)
<1>6. /\ IsFiniteSet(S \cup T) /\ Cardinality(S \cup T) \in Nat
      /\ Cardinality(S \cup T) <= Cardinality(S) + Cardinality(T)
  <2>. HIDE DEF S, T
  <2>1. IsFiniteSet(S) /\ Cardinality(S) \in Nat /\ IsFiniteSet(T) /\ Cardinality(T) \in Nat
    BY <1>5 DEF S, T
  <2>2. /\ IsFiniteSet(S \cup T)
        /\ Cardinality(S \cup T) = Cardinality(S) + Cardinality(T) - Cardinality(S \cap T)
    BY <2>1, FS_Union
  <2>3. Cardinality(S \cap T) \in Nat
    <3>1. S \cap T \subseteq S
      OBVIOUS
    <3>. QED
      BY <2>1, <3>1, FS_Subset, FS_CardinalityType
  <2>4. Cardinality(S \cup T) \in Nat
    BY <2>2, FS_CardinalityType
  <2>. QED
    BY <2>1, <2>2, <2>3, <2>4
<1>7. Cardinality(Open(p)') \in Nat /\ Cardinality(Open(p)') <= Cardinality(S \cup T)
  BY <1>4, <1>6, FS_Subset, FS_CardinalityType
<1>8. Fits({}) /\ Size({}) = 0
  BY FS_EmptySet, ScheduleAssumption DEF Fits, Size
<1>9. Size(Open(p)') + Size({}) <= Size(Open(p)) + Size(Pending(w, p))
  BY <1>5, <1>6, <1>7, <1>8 DEF Size
<1>. QED
  BY <1>1, <1>3, <1>8, <1>9, PendingKept DEF Moves

\* A new policy has nothing pending, and what it opens is one window.
LEMMA CreateMoves ==
  ASSUME Inv, Inv', Shares, NEW w \in Workers, CommitCreate(w), NEW p \in Policies
  PROVE  \E v \in Jobs : Moves(v, p)
<1>1. PICK j \in Jobs : w \in Jobs => j = w
  BY ScheduleAssumption
<1>2. /\ work \in [Workers -> Work] /\ Jobs \subseteq Workers /\ work'[w] = Idle
      /\ \A v \in Workers \ {w} : work'[v] = work[v]
      /\ work[w].policy \in Policies /\ terms[work[w].policy] = None /\ work[w].op = "create"
  BY DEF Inv, TypeOK, Workers, CommitCreate, Sound
<1>3. \A v \in Jobs \ {j} : work'[v] = work[v]
  BY <1>1, <1>2
<1>4. Pending(j, p)' \in {Pending(j, p), {}}
  <2>1. CASE j = w
    <3>1. work'[j].new = {} /\ work'[j].op = "idle"
      BY <1>2, <2>1 DEF Idle
    <3>. QED
      BY <3>1, OfPairs DEF Pending
  <2>2. CASE j # w
    BY <1>2, <2>2, PendingKept
  <2>. QED
    BY <2>1, <2>2
<1>5. CASE p # work[w].policy
  <2>1. Open(p)' \subseteq Open(p)
    BY <1>2, <1>5 DEF CommitCreate, Open, Inv, TypeOK
  <2>. QED
    BY <1>3, <1>4, <2>1, Rests
<1>6. CASE p = work[w].policy
  <2>1. Size(Open(p)') <= Window /\ Size(Open(p)') \in Nat
    BY <1>6, CreateFills
  <2>2. Pending(j, p) = {}
    <3>1. Of(work[j].new, p) = {} /\ ~(work[j].op = "counted" /\ work[j].policy = p)
      BY <1>2, <1>6 DEF Inv, Sound
    <3>. QED
      BY <3>1 DEF Pending
  <2>3. Fits({}) /\ Size({}) = 0 /\ Window \in Nat
    BY FS_EmptySet, ScheduleAssumption DEF Fits, Size
  <2>4. Pending(j, p)' = {}
    BY <1>4, <2>2
  <2>. QED
    BY <1>3, <2>1, <2>3, <2>4, PendingKept DEF Moves
<1>. QED
  BY <1>5, <1>6

\* Every step is one process's move for every policy.
LEMMA SharesStay ==
  ASSUME Inv, Inv', Shares, [Next]_vars
  PROVE  Shares'
<1>. SUFFICES ASSUME NEW p \in Policies
              PROVE  \E w \in Jobs : Moves(w, p)
  BY SharesMove
<1>1. PICK j \in Jobs : TRUE
  BY ScheduleAssumption
<1>2. CASE work' = work /\ Open(p)' \subseteq Open(p)
  BY <1>1, <1>2, PendingKept, Rests
<1>3. CASE UNCHANGED vars \/ \E C \in SUBSET UNION {{q} \X Open(q) : q \in Policies} : Collect(C)
  <2>1. work' = work /\ Open(p)' \subseteq Open(p)
    BY <1>3 DEF vars, Collect, Open
  <2>. QED
    BY <1>2, <2>1
<1>4. ASSUME NEW w \in Workers, NEW rec, work' = [work EXCEPT ![w] = rec], UNCHANGED <<due, paid>>,
             rec.op # "counted", rec.new = {}
      PROVE  \E v \in Jobs : Moves(v, p)
  <2>1. PICK v \in Jobs : w \in Jobs => v = w
    BY ScheduleAssumption
  <2>2. /\ \A u \in Jobs \ {v} : work'[u] = work[u]
        /\ work'[v] = IF v = w THEN rec ELSE work[v]
    BY <1>4, <2>1 DEF Inv, TypeOK, Workers
  <2>3. Pending(v, p)' \in {Pending(v, p), {}}
    <3>1. CASE v = w
      BY <1>4, <2>2, <3>1, OfPairs DEF Pending
    <3>2. CASE v # w
      BY <2>2, <3>2, PendingKept
    <3>. QED
      BY <3>1, <3>2
  <2>4. Open(p)' \subseteq Open(p)
    BY <1>4 DEF Open
  <2>. QED
    BY <2>2, <2>3, <2>4, Rests
<1>5. ASSUME NEW w \in Workers, Step(w)
      PROVE  \E v \in Jobs : Moves(v, p)
  <2>1. CASE \E q \in Policies, t \in Terms : BeginCreate(w, q, t)
    <3>1. PICK q \in Policies, t \in Terms : BeginCreate(w, q, t)
      BY <2>1
    <3>2. PICK rec : rec = [Idle EXCEPT !.op = "create", !.policy = q, !.terms = t]
      OBVIOUS
    <3>3. rec.op # "counted" /\ rec.new = {}
      BY <3>2 DEF Idle
    <3>4. work' = [work EXCEPT ![w] = rec] /\ UNCHANGED <<due, paid>>
      BY <3>1, <3>2 DEF BeginCreate, Begin
    <3>. QED
      BY <1>4, <3>3, <3>4
  <2>2. CASE BeginTopUp(w)
    <3>1. PICK rec : rec = [Idle EXCEPT !.op = "top_up", !.todo = {q \in Policies : terms[q] # None}]
      OBVIOUS
    <3>2. rec.op # "counted" /\ rec.new = {}
      BY <3>1 DEF Idle
    <3>3. work' = [work EXCEPT ![w] = rec] /\ UNCHANGED <<due, paid>>
      BY <2>2, <3>1 DEF BeginTopUp, Begin
    <3>. QED
      BY <1>4, <3>2, <3>3
  <2>3. CASE Abort(w)
    <3>1. Idle.op # "counted" /\ Idle.new = {}
      BY DEF Idle
    <3>. QED
      BY <1>4, <2>3, <3>1 DEF Abort
  <2>4. CASE InsertMissing(w) \/ CommitTopUp(w) \/ \E q \in Policies : CountOpen(w, q)
    <3>1. w \in Jobs
      BY <2>4 DEF Inv, Sound, Running, InsertMissing, CommitTopUp, CountOpen
    <3>. QED
      BY <2>4, <3>1, CountMoves, InsertMoves, CommitMoves
  <2>. QED
    BY <1>5, <2>1, <2>2, <2>3, <2>4, CreateMoves DEF Step
<1>. QED
  BY <1>3, <1>5 DEF Next

\* However many runs of top_up_all_active_policies overlap, and for however long, a policy
\* never has more unresolved installments than a window for each process that runs the job.
THEOREM OverlapOverfillsByWindows == Spec => []WindowBounded
<1>1. Inv /\ Shares => WindowBounded
  <2>. SUFFICES ASSUME Inv, Shares, NEW p \in Policies
                PROVE  Cardinality(Open(p)) <= Window * Cardinality(Jobs)
    BY DEF WindowBounded
  <2>1. Cardinality(Open(p)) \in Nat
    BY Counts DEF Counted, Size
  <2>2. Cardinality(Pairs(Held(p), Jobs)) \in Nat
    <3>1. \A v \in Jobs : IsFiniteSet(Held(p)[v]) /\ Cardinality(Held(p)[v]) <= Window
      BY DEF Shares, Fits, Held
    <3>2. IsFiniteSet(Jobs) /\ Window \in Nat
      BY ScheduleAssumption
    <3>3. IsFiniteSet(Pairs(Held(p), Jobs))
      BY <3>1, <3>2, PairsFit
    <3>. QED
      BY <3>3, FS_CardinalityType
  <2>3. Window * Cardinality(Jobs) \in Nat
    BY ScheduleAssumption, FS_CardinalityType
  <2>. QED
    BY <2>1, <2>2, <2>3 DEF Shares, Size
<1>2. Inv /\ Inv' /\ Shares /\ [Next]_vars => Shares'
  BY SharesStay
<1>. QED
  BY <1>1, <1>2, InitShares, InvAlways, PTL DEF Spec
=============================================================================
