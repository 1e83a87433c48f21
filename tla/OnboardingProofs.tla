--------------------------- MODULE OnboardingProofs ---------------------------
(***************************************************************************)
(* What holds of Onboarding for any number of organizations and of         *)
(* requests in progress.                                                   *)
(***************************************************************************)
EXTENDS Onboarding, TLAPS

(* What a request has decided when it has just read its rows. *)

Deciding(w) ==
  \E o \in Orgs :
    /\ db[<<"status", o>>] = "pending"
    /\ reads[w] = {<<"status", o>>}
    /\ <<"status", o>> \in DOMAIN writes[w]
    /\ DOMAIN writes[w] \subseteq {<<"status", o>>} \cup {<<"va", b>> : b \in Brokers \cap {o}}
    /\ writes[w][<<"status", o>>] \in {"approved", "rejected"}
    /\ <<"va", o>> \in DOMAIN writes[w] => writes[w][<<"va", o>>] = TRUE
    /\ o \in Brokers /\ writes[w][<<"status", o>>] = "approved" /\ db[<<"kyb", o>>]
         => <<"va", o>> \in DOMAIN writes[w] \/ db[<<"va", o>>]

Provisioning(w) ==
  \E b \in Brokers :
    /\ reads[w] = {<<"kyb", b>>}
    /\ DOMAIN writes[w] \subseteq {<<"kyb", b>>, <<"va", b>>}
    /\ \A c \in DOMAIN writes[w] : writes[w][c] = TRUE
    /\ <<"va", b>> \in DOMAIN writes[w] \/ db[<<"va", b>>]

Assigning(w) ==
  \E p \in Pairs, r \in Rows :
    /\ r \in RowsOf(p)
    /\ AreApproved(p)
    /\ reads[w] = {"assignment"} \X RowsOf(p)
    /\ DOMAIN writes[w] \subseteq {<<"assignment", r>>}
    /\ \A c \in DOMAIN writes[w] : writes[w][c] = "active"
    /\ db[<<"assignment", r>>] # "absent" \/ \A q \in RowsOf(p) : db[<<"assignment", q>>] = "absent"

Unassigning(w) ==
  \E p \in Pairs, r \in Rows :
    /\ r \in RowsOf(p)
    /\ db[<<"assignment", r>>] = "active"
    /\ reads[w] = {<<"assignment", r>>}
    /\ DOMAIN writes[w] \subseteq {<<"assignment", r>>}
    /\ \A c \in DOMAIN writes[w] : writes[w][c] = "inactive"

EnteringPolicy(w) ==
  \E p \in Pairs, r \in Rows :
    /\ r \in RowsOf(p)
    /\ db[<<"assignment", r>>] = "active"
    /\ reads[w] = {<<"assignment", r>>}
    /\ DOMAIN writes[w] \subseteq {<<"policy", p>>}
    /\ \A c \in DOMAIN writes[w] : writes[w][c] = TRUE

Grouping(w) ==
  \E i \in Insurers, parent \in Insurers \cup {None} :
    /\ reads[w] = {"parent"} \X Insurers
    /\ DOMAIN writes[w] \subseteq {<<"parent", i>>}
    /\ \A c \in DOMAIN writes[w] : writes[w][c] = parent
    /\ parent # None => parent # i /\ db[<<"parent", parent>>] = None /\ ~HasChildren(i)

Paying(w) ==
  \E i \in Insurers, account \in Confirmed :
    /\ reads[w] = {<<"bank", i>>, <<"number", i>>}
    /\ DOMAIN writes[w] \subseteq {<<"bank", i>>, <<"number", i>>}
    /\ IF <<"bank", i>> \in DOMAIN writes[w] THEN writes[w][<<"bank", i>>] = account[1]
                                           ELSE db[<<"bank", i>>] = account[1]
    /\ IF <<"number", i>> \in DOMAIN writes[w] THEN writes[w][<<"number", i>>] = account[2]
                                             ELSE db[<<"number", i>>] = account[2]

Intent(w) ==
  \/ Deciding(w) \/ Provisioning(w) \/ Assigning(w) \/ Unassigning(w)
  \/ EnteringPolicy(w) \/ Grouping(w) \/ Paying(w)

\* A request begins at worker w: nothing is written yet.
Begins(w) ==
  /\ UNCHANGED <<db, stale, raced>>
  /\ DOMAIN writes' = Workers
  /\ reads' \in [Workers -> SUBSET Cells]
  /\ \A v \in Workers \ {w} : writes'[v] = writes[v] /\ reads'[v] = reads[v]
  /\ Intent(w)'

-----------------------------------------------------------------------------

\* The cells of the tables, by column.
LEMMA CellsByColumn ==
  /\ \A o \in Orgs : <<"status", o>> \in Cells
  /\ \A i \in Insurers :
       <<"parent", i>> \in Cells /\ <<"bank", i>> \in Cells /\ <<"number", i>> \in Cells
  /\ \A b \in Brokers : <<"kyb", b>> \in Cells /\ <<"va", b>> \in Cells
  /\ \A r \in Rows : <<"assignment", r>> \in Cells
  /\ \A p \in Pairs : <<"policy", p>> \in Cells
BY DEF Cells

\* What a request reads is cells.
LEMMA ReadCells ==
  /\ \A c \in Cells : {c} \in SUBSET Cells
  /\ {"parent"} \X Insurers \in SUBSET Cells
  /\ \A p \in Pairs : {"assignment"} \X RowsOf(p) \in SUBSET Cells
  /\ \A i \in Insurers : /\ {"bank", "number"} \X {i} = {<<"bank", i>>, <<"number", i>>}
                         /\ {"bank", "number"} \X {i} \in SUBSET Cells
<1>1. \A p \in Pairs : {"assignment"} \X RowsOf(p) \in SUBSET Cells
  <2>1. ASSUME NEW p \in Pairs PROVE {"assignment"} \X RowsOf(p) \in SUBSET Cells
    <3>1. RowsOf(p) \subseteq Rows
      BY DEF RowsOf, Rows
    <3>. QED
      BY <3>1 DEF Cells
  <2>. QED
    BY <2>1
<1>2. \A i \in Insurers : /\ {"bank", "number"} \X {i} = {<<"bank", i>>, <<"number", i>>}
                          /\ {"bank", "number"} \X {i} \in SUBSET Cells
  BY DEF Cells
<1>3. {"parent"} \X Insurers \in SUBSET Cells
  BY DEF Cells
<1>. QED
  BY <1>1, <1>2, <1>3

\* The rows of a pair are rows.
LEMMA RowsOfPair ==
  ASSUME NEW p \in Pairs
  PROVE  RowsOf(p) \subseteq Rows
BY DEF RowsOf, Rows

\* What Begin leaves and what it changes.
Begun(w, R, changes) ==
  /\ UNCHANGED <<db, stale, raced>>
  /\ DOMAIN writes' = Workers
  /\ reads' \in [Workers -> SUBSET Cells]
  /\ \A v \in Workers \ {w} : writes'[v] = writes[v] /\ reads'[v] = reads[v]
  /\ reads'[w] = R
  /\ DOMAIN writes'[w] = {c \in DOMAIN changes : changes[c] # db[c]}
  /\ \A c \in DOMAIN writes'[w] : writes'[w][c] = changes[c]

\* Begin does that, if the request reads cells.
LEMMA BeginEffect ==
  ASSUME TypeOK, NEW w \in Workers, NEW R, \A c \in R : c \in Cells, NEW changes,
         Begin(w, R, changes)
  PROVE  Begun(w, R, changes)
BY DEF Begin, TypeOK, Begun

\* Every step begins a request with one of the seven intents, ends one, registers an
\* organization, or changes nothing.
LEMMA StepKinds ==
  ASSUME TypeOK, [Next]_vars
  PROVE  \/ UNCHANGED vars
         \/ \E o \in Orgs, kyb \in BOOLEAN : Onboard(o, kyb)
         \/ \E w \in Workers : Commit(w) \/ Fail(w) \/ Begins(w)
<1>. USE CellsByColumn
<1>1. ASSUME NEW w \in Workers, NEW o \in Orgs, NEW verdict \in {"approved", "rejected"},
             Decide(w, o, verdict), o \in Insurers \/ verdict = "rejected"
      PROVE  Begins(w)
  <2>. DEFINE ch == Only(<<"status", o>>, verdict)
  <2>1. DOMAIN ch = {<<"status", o>>} /\ ch[<<"status", o>>] = verdict
    BY DEF Only
  <2>2. db[<<"status", o>>] = "pending" /\ Begin(w, {<<"status", o>>}, ch)
    BY <1>1 DEF Decide
  <2>. HIDE DEF ch
  <2>0. Begun(w, {<<"status", o>>}, ch)
    BY <2>2, BeginEffect
  <2>3. DOMAIN writes'[w] = {<<"status", o>>} /\ writes'[w][<<"status", o>>] = verdict
    BY <2>0, <2>1, <2>2 DEF Begun
  <2>4. o \in Brokers => verdict = "rejected"
    BY <1>1, OnboardingAssumption
  <2>5. Deciding(w)'
    BY <2>0, <2>2, <2>3, <2>4 DEF Deciding, Begun
  <2>. QED
    BY <2>0, <2>5 DEF Begins, Intent, Begun
<1>2. ASSUME NEW w \in Workers, NEW b \in Brokers, ApproveBroker(w, b) PROVE Begins(w)
  <2>. DEFINE D  == {<<"status", b>>} \cup {v \in {<<"va", b>>} : db[<<"kyb", b>>]}
              ch == [c \in D |-> IF c[1] = "status" THEN "approved" ELSE TRUE]
  <2>1. b \in Orgs
    BY DEF Orgs
  <2>2. /\ DOMAIN ch = D /\ ch[<<"status", b>>] = "approved"
        /\ <<"va", b>> \in D => ch[<<"va", b>>] = TRUE
    OBVIOUS
  <2>3. db[<<"status", b>>] = "pending" /\ Begin(w, {<<"status", b>>}, ch)
    BY <1>2 DEF ApproveBroker
  <2>. HIDE DEF ch
  <2>0. Begun(w, {<<"status", b>>}, ch)
    BY <2>1, <2>3, BeginEffect
  <2>4. /\ DOMAIN writes'[w] = {c \in D : ch[c] # db[c]}
        /\ \A c \in DOMAIN writes'[w] : writes'[w][c] = ch[c]
        /\ db' = db /\ reads'[w] = {<<"status", b>>}
    BY <2>0, <2>2 DEF Begun
  <2>5. <<"status", b>> \in DOMAIN writes'[w] /\ writes'[w][<<"status", b>>] = "approved"
    BY <2>2, <2>3, <2>4
  <2>6. <<"va", b>> \in DOMAIN writes'[w] => writes'[w][<<"va", b>>] = TRUE
    BY <2>2, <2>4
  <2>7. db[<<"kyb", b>>] => <<"va", b>> \in DOMAIN writes'[w] \/ db[<<"va", b>>]
    BY <2>2, <2>4 DEF TypeOK, Values
  <2>8. DOMAIN writes'[w] \subseteq {<<"status", b>>} \cup {<<"va", c>> : c \in Brokers \cap {b}}
    BY <2>4
  <2>9. Deciding(w)'
    BY <2>1, <2>3, <2>4, <2>5, <2>6, <2>7, <2>8 DEF Deciding
  <2>. QED
    BY <2>0, <2>9 DEF Begins, Intent, Begun
<1>3. ASSUME NEW w \in Workers, NEW b \in Brokers, NEW given \in BOOLEAN,
             CreateVirtualAccount(w, b, given)
      PROVE  Begins(w)
  <2>. DEFINE ch == [c \in {"kyb", "va"} \X {b} |-> TRUE]
  <2>1. DOMAIN ch = {<<"kyb", b>>, <<"va", b>>} /\ \A c \in DOMAIN ch : ch[c] = TRUE
    OBVIOUS
  <2>2. Begin(w, {<<"kyb", b>>}, ch)
    BY <1>3 DEF CreateVirtualAccount
  <2>. HIDE DEF ch
  <2>0. Begun(w, {<<"kyb", b>>}, ch)
    BY <2>2, BeginEffect
  <2>3. /\ DOMAIN writes'[w] = {c \in DOMAIN ch : ch[c] # db[c]}
        /\ \A c \in DOMAIN writes'[w] : writes'[w][c] = ch[c]
        /\ db' = db /\ reads'[w] = {<<"kyb", b>>}
    BY <2>0 DEF Begun
  <2>4. <<"va", b>> \in DOMAIN writes'[w] \/ db[<<"va", b>>]
    BY <2>1, <2>3 DEF TypeOK, Values
  <2>5. Provisioning(w)'
    BY <2>1, <2>3, <2>4 DEF Provisioning
  <2>. QED
    BY <2>0, <2>5 DEF Begins, Intent, Begun
<1>4. ASSUME NEW w \in Workers, NEW p \in Pairs, Assign(w, p) PROVE Begins(w)
  <2>1. PICK r \in RowsOf(p) :
          /\ \/ db[<<"assignment", r>>] = "inactive"
             \/ \A q \in RowsOf(p) : db[<<"assignment", q>>] = "absent"
          /\ Begin(w, {"assignment"} \X RowsOf(p), Only(<<"assignment", r>>, "active"))
    BY <1>4 DEF Assign
  <2>. DEFINE R  == {"assignment"} \X RowsOf(p)
              ch == Only(<<"assignment", r>>, "active")
  <2>2. DOMAIN ch = {<<"assignment", r>>} /\ ch[<<"assignment", r>>] = "active"
    BY DEF Only
  <2>3. r \in Rows
    BY RowsOfPair
  <2>0. Begun(w, R, ch)
    <3>1. \A c \in R : c \in Cells
      BY ReadCells
    <3>2. Begin(w, R, ch)
      BY <2>1
    <3>. HIDE DEF ch, R
    <3>. QED
      BY <3>1, <3>2, BeginEffect
  <2>4. /\ DOMAIN writes'[w] \subseteq {<<"assignment", r>>}
        /\ \A c \in DOMAIN writes'[w] : writes'[w][c] = "active"
        /\ db' = db /\ reads'[w] = R
    <3>. HIDE DEF ch, R
    <3>. QED
      BY <2>0, <2>2 DEF Begun
  <2>5. AreApproved(p)
    BY <1>4 DEF Assign
  <2>6. Assigning(w)'
    BY <2>1, <2>3, <2>4, <2>5 DEF Assigning, AreApproved
  <2>. QED
    BY <2>0, <2>6 DEF Begins, Intent, Begun
<1>5. ASSUME NEW w \in Workers, NEW p \in Pairs, Unassign(w, p) PROVE Begins(w)
  <2>1. PICK r \in RowsOf(p) :
          /\ db[<<"assignment", r>>] = "active"
          /\ Begin(w, {<<"assignment", r>>}, Only(<<"assignment", r>>, "inactive"))
    BY <1>5 DEF Unassign
  <2>2. r \in Rows
    BY RowsOfPair
  <2>. DEFINE ch == Only(<<"assignment", r>>, "inactive")
  <2>0. Begun(w, {<<"assignment", r>>}, ch)
    <3>. HIDE DEF ch
    <3>. QED
      BY <2>1, <2>2, BeginEffect DEF ch
  <2>3. /\ DOMAIN writes'[w] \subseteq {<<"assignment", r>>}
        /\ \A c \in DOMAIN writes'[w] : writes'[w][c] = "inactive"
        /\ db' = db /\ reads'[w] = {<<"assignment", r>>}
    BY <2>0 DEF Begun, Only
  <2>4. Unassigning(w)'
    BY <2>1, <2>2, <2>3 DEF Unassigning
  <2>. QED
    BY <2>0, <2>4 DEF Begins, Intent, Begun
<1>6. ASSUME NEW w \in Workers, NEW p \in Pairs, CreatePolicy(w, p) PROVE Begins(w)
  <2>1. PICK r \in RowsOf(p) :
          /\ db[<<"assignment", r>>] = "active"
          /\ Begin(w, {<<"assignment", r>>}, Only(<<"policy", p>>, TRUE))
    BY <1>6 DEF CreatePolicy
  <2>2. r \in Rows
    BY RowsOfPair
  <2>. DEFINE ch == Only(<<"policy", p>>, TRUE)
  <2>0. Begun(w, {<<"assignment", r>>}, ch)
    <3>. HIDE DEF ch
    <3>. QED
      BY <2>1, <2>2, BeginEffect DEF ch
  <2>3. /\ DOMAIN writes'[w] \subseteq {<<"policy", p>>}
        /\ \A c \in DOMAIN writes'[w] : writes'[w][c] = TRUE
        /\ db' = db /\ reads'[w] = {<<"assignment", r>>}
    BY <2>0 DEF Begun, Only
  <2>4. EnteringPolicy(w)'
    BY <2>1, <2>2, <2>3 DEF EnteringPolicy
  <2>. QED
    BY <2>0, <2>4 DEF Begins, Intent, Begun
<1>7. ASSUME NEW w \in Workers, NEW i \in Insurers, NEW parent \in Insurers \cup {None},
             SetParent(w, i, parent)
      PROVE  Begins(w)
  <2>1. /\ Begin(w, {"parent"} \X Insurers, Only(<<"parent", i>>, parent))
        /\ parent # None => parent # i /\ db[<<"parent", parent>>] = None /\ ~HasChildren(i)
    BY <1>7 DEF SetParent
  <2>. DEFINE R  == {"parent"} \X Insurers
              ch == Only(<<"parent", i>>, parent)
  <2>0. Begun(w, R, ch)
    <3>1. \A c \in R : c \in Cells
      BY ReadCells
    <3>2. Begin(w, R, ch)
      BY <2>1
    <3>. HIDE DEF ch, R
    <3>. QED
      BY <3>1, <3>2, BeginEffect
  <2>3. /\ DOMAIN writes'[w] \subseteq {<<"parent", i>>}
        /\ \A c \in DOMAIN writes'[w] : writes'[w][c] = parent
        /\ db' = db /\ reads'[w] = {"parent"} \X Insurers
    BY <2>0 DEF Begun, Only
  <2>4. Grouping(w)'
    BY <2>1, <2>3 DEF Grouping, HasChildren
  <2>. QED
    BY <2>0, <2>4 DEF Begins, Intent, Begun
<1>8. ASSUME NEW w \in Workers, NEW i \in Insurers, NEW account \in Banks \X Numbers,
             SetSettlementAccount(w, i, account)
      PROVE  Begins(w)
  <2>. DEFINE R  == {"bank", "number"} \X {i}
              ch == [c \in R |-> account[IF c[1] = "bank" THEN 1 ELSE 2]]
  <2>1. R = {<<"bank", i>>, <<"number", i>>} /\ \A c \in R : c \in Cells
    BY ReadCells
  <2>5. /\ DOMAIN ch = R
        /\ ch[<<"bank", i>>] = account[1] /\ ch[<<"number", i>>] = account[2]
    BY <2>1
  <2>2. Begin(w, R, ch) /\ account \in Confirmed
    BY <1>8 DEF SetSettlementAccount
  <2>. HIDE DEF ch, R
  <2>0. Begun(w, R, ch)
    BY <2>1, <2>2, BeginEffect
  <2>3. /\ DOMAIN writes'[w] = {c \in R : ch[c] # db[c]}
        /\ \A c \in DOMAIN writes'[w] : writes'[w][c] = ch[c]
        /\ db' = db /\ reads'[w] = R
    BY <2>0, <2>5 DEF Begun
  <2>4. Paying(w)'
    BY <2>1, <2>2, <2>3, <2>5 DEF Paying
  <2>. QED
    BY <2>0, <2>4 DEF Begins, Intent, Begun
<1>. QED
  BY <1>1, <1>2, <1>3, <1>4, <1>5, <1>6, <1>7, <1>8
  DEF Next, RejectOrg, ApproveInsurer, Orgs, vars

\* What a commit does to the data and to the other requests.
LEMMA CommitEffect ==
  ASSUME TypeOK, NEW w \in Workers, Commit(w)
  PROVE  /\ DOMAIN db' = Cells
         /\ \A c \in Cells : db'[c] = IF c \in DOMAIN writes[w] THEN writes[w][c] ELSE db[c]
         /\ raced \subseteq raced'
         /\ stale[w] => \A c \in DOMAIN writes[w] : c[1] \in raced'
         /\ DOMAIN writes' = Workers /\ DOMAIN writes'[w] = {}
         /\ reads' \in [Workers -> SUBSET Cells] /\ stale' \in [Workers -> BOOLEAN]
         /\ \A v \in Workers \ {w} :
              /\ writes'[v] = writes[v] /\ reads'[v] = reads[v]
              /\ ~stale'[v] => ~stale[v] /\ reads[v] \cap DOMAIN writes[w] = {}
BY DEF Commit, End, NoWrites, TypeOK

\* A request that fails leaves everything else alone.
LEMMA FailEffect ==
  ASSUME TypeOK, NEW w \in Workers, Fail(w)
  PROVE  /\ UNCHANGED <<db, raced>>
         /\ DOMAIN writes' = Workers /\ DOMAIN writes'[w] = {}
         /\ reads' \in [Workers -> SUBSET Cells] /\ stale' \in [Workers -> BOOLEAN]
         /\ \A v \in Workers \ {w} :
              writes'[v] = writes[v] /\ reads'[v] = reads[v] /\ stale'[v] = stale[v]
BY DEF Fail, End, NoWrites, TypeOK

\* The values of each column.
LEMMA ValuesByColumn ==
  /\ Values("status") = {"absent", "pending", "approved", "rejected"}
  /\ Values("parent") = Insurers \cup {None}
  /\ Values("bank") = Banks \cup {None}
  /\ Values("number") = Numbers \cup {None}
  /\ Values("assignment") = {"absent", "active", "inactive"}
  /\ Values("kyb") = BOOLEAN /\ Values("va") = BOOLEAN /\ Values("policy") = BOOLEAN
BY DEF Values

WritesTyped(w) ==
  /\ DOMAIN writes[w] \subseteq Cells
  /\ \A c \in DOMAIN writes[w] : writes[w][c] \in Values(c[1])

IntentsAreTyped == \A w \in Workers : Intent(w) => WritesTyped(w)

\* A request writes values of its columns.
LEMMA IntentTyped == IntentsAreTyped
<1>. SUFFICES ASSUME NEW w \in Workers, Intent(w) PROVE WritesTyped(w)
  BY DEF IntentsAreTyped
<1>. USE CellsByColumn, ValuesByColumn DEF WritesTyped
<1>1. CASE Deciding(w)
  <2>1. PICK o \in Orgs :
          /\ DOMAIN writes[w] \subseteq {<<"status", o>>} \cup {<<"va", b>> : b \in Brokers \cap {o}}
          /\ writes[w][<<"status", o>>] \in {"approved", "rejected"}
          /\ <<"va", o>> \in DOMAIN writes[w] => writes[w][<<"va", o>>] = TRUE
    BY <1>1 DEF Deciding
  <2>2. ASSUME NEW c \in DOMAIN writes[w] PROVE c \in Cells /\ writes[w][c] \in Values(c[1])
    <3>1. CASE c = <<"status", o>>
      <4>1. c[1] = "status" /\ writes[w][c] \in Values("status")
        BY <2>1, <3>1
      <4>. QED
        BY <3>1, <4>1
    <3>2. CASE c = <<"va", o>> /\ o \in Brokers
      <4>1. c[1] = "va" /\ writes[w][c] = TRUE
        BY <2>1, <2>2, <3>2
      <4>. QED
        BY <3>2, <4>1
    <3>. QED
      BY <2>1, <2>2, <3>1, <3>2
  <2>. QED
    BY <2>2
<1>2. CASE Provisioning(w)
  <2>1. PICK b \in Brokers :
          /\ DOMAIN writes[w] \subseteq {<<"kyb", b>>, <<"va", b>>}
          /\ \A c \in DOMAIN writes[w] : writes[w][c] = TRUE
    BY <1>2 DEF Provisioning
  <2>2. ASSUME NEW c \in DOMAIN writes[w] PROVE c \in Cells /\ writes[w][c] \in Values(c[1])
    <3>1. writes[w][c] = TRUE
      BY <2>1, <2>2
    <3>2. CASE c = <<"kyb", b>>
      <4>1. Values(c[1]) = BOOLEAN
        BY <3>2
      <4>. QED
        BY <3>1, <3>2, <4>1
    <3>3. CASE c = <<"va", b>>
      <4>1. Values(c[1]) = BOOLEAN
        BY <3>3
      <4>. QED
        BY <3>1, <3>3, <4>1
    <3>. QED
      BY <2>1, <2>2, <3>2, <3>3
  <2>. QED
    BY <2>2
<1>3. CASE Assigning(w)
  BY <1>3 DEF Assigning
<1>4. CASE Unassigning(w)
  BY <1>4 DEF Unassigning
<1>5. CASE EnteringPolicy(w)
  <2>1. PICK p \in Pairs :
          /\ DOMAIN writes[w] \subseteq {<<"policy", p>>}
          /\ \A c \in DOMAIN writes[w] : writes[w][c] = TRUE
    BY <1>5 DEF EnteringPolicy
  <2>2. ASSUME NEW c \in DOMAIN writes[w] PROVE c \in Cells /\ writes[w][c] \in Values(c[1])
    <3>1. c \in Cells /\ Values(c[1]) = BOOLEAN /\ writes[w][c] = TRUE
      BY <2>1, <2>2
    <3>. QED
      BY <3>1
  <2>. QED
    BY <2>2
<1>6. CASE Grouping(w)
  <2>1. PICK i \in Insurers, parent \in Insurers \cup {None} :
          /\ DOMAIN writes[w] \subseteq {<<"parent", i>>}
          /\ \A c \in DOMAIN writes[w] : writes[w][c] = parent
    BY <1>6 DEF Grouping
  <2>2. ASSUME NEW c \in DOMAIN writes[w] PROVE c \in Cells /\ writes[w][c] \in Values(c[1])
    <3>1. c = <<"parent", i>>
      BY <2>1, <2>2
    <3>2. c \in Cells /\ Values(c[1]) = Insurers \cup {None}
      BY <3>1
    <3>3. writes[w][c] = parent
      BY <2>1, <2>2
    <3>. QED
      BY <3>2, <3>3
  <2>. QED
    BY <2>2
<1>7. CASE Paying(w)
  <2>1. PICK i \in Insurers, account \in Confirmed :
          /\ DOMAIN writes[w] \subseteq {<<"bank", i>>, <<"number", i>>}
          /\ <<"bank", i>> \in DOMAIN writes[w] => writes[w][<<"bank", i>>] = account[1]
          /\ <<"number", i>> \in DOMAIN writes[w] => writes[w][<<"number", i>>] = account[2]
    BY <1>7 DEF Paying
  <2>2. account[1] \in Banks /\ account[2] \in Numbers
    BY OnboardingAssumption
  <2>3. ASSUME NEW c \in DOMAIN writes[w] PROVE c \in Cells /\ writes[w][c] \in Values(c[1])
    <3>1. CASE c = <<"bank", i>>
      BY <2>1, <2>2, <2>3, <3>1
    <3>2. CASE c = <<"number", i>>
      BY <2>1, <2>2, <2>3, <3>2
    <3>. QED
      BY <2>1, <2>3, <3>1, <3>2
  <2>. QED
    BY <2>3
<1>. QED
  BY <1>1, <1>2, <1>3, <1>4, <1>5, <1>6, <1>7 DEF Intent

\* The initial state is of the type.
LEMMA TypeOKInit == Init => TypeOK
<1>. SUFFICES ASSUME Init PROVE TypeOK
  OBVIOUS
<1>1. \A c \in Cells : Blank(c[1]) \in Values(c[1])
  BY DEF Cells, Blank, Values
<1>. QED
  BY <1>1 DEF Init, TypeOK, NoWrites

\* A step keeps the type of every variable.
LEMMA TypeOKStays ==
  ASSUME TypeOK, [Next]_vars
  PROVE  TypeOK'
<1>1. CASE UNCHANGED vars
  BY <1>1 DEF vars, TypeOK
<1>2. ASSUME NEW o \in Orgs, NEW kyb \in BOOLEAN, Onboard(o, kyb) PROVE TypeOK'
  <2>1. \A c \in Cells : db'[c] \in Values(c[1])
    <3>1. ASSUME NEW c \in Cells PROVE db'[c] \in Values(c[1])
      <4>1. CASE c = <<"status", o>>
        BY <1>2, <4>1, ValuesByColumn DEF Onboard
      <4>2. CASE kyb /\ c = <<"kyb", o>>
        <5>1. db'[c] = TRUE /\ Values(c[1]) = BOOLEAN
          BY <1>2, <4>2, ValuesByColumn DEF Onboard
        <5>. QED
          BY <5>1
      <4>3. CASE c # <<"status", o>> /\ ~(kyb /\ c = <<"kyb", o>>)
        <5>1. db'[c] = db[c]
          BY <1>2, <4>3 DEF Onboard
        <5>. QED
          BY <5>1 DEF TypeOK
      <4>. QED
        BY <4>1, <4>2, <4>3
    <3>. QED
      BY <3>1
  <2>. QED
    BY <1>2, <2>1 DEF Onboard, TypeOK
<1>3. ASSUME NEW w \in Workers, Commit(w) PROVE TypeOK'
  <2>1. \A c \in Cells : db'[c] \in Values(c[1])
    BY <1>3, CommitEffect DEF TypeOK
  <2>2. raced' \subseteq {c[1] : c \in Cells}
    BY <1>3 DEF Commit, TypeOK
  <2>3. \A v \in Workers : /\ DOMAIN writes'[v] \subseteq Cells
                          /\ \A c \in DOMAIN writes'[v] : writes'[v][c] \in Values(c[1])
    <3>. TAKE v \in Workers
    <3>1. CASE v = w
      BY <1>3, <3>1, CommitEffect
    <3>2. CASE v # w
      <4>1. writes'[v] = writes[v]
        BY <1>3, <3>2, CommitEffect
      <4>. QED
        BY <4>1 DEF TypeOK
    <3>. QED
      BY <3>1, <3>2
  <2>. QED
    BY <1>3, <2>1, <2>2, <2>3, CommitEffect DEF TypeOK
<1>4. ASSUME NEW w \in Workers, Fail(w) PROVE TypeOK'
  <2>1. \A v \in Workers : /\ DOMAIN writes'[v] \subseteq Cells
                          /\ \A c \in DOMAIN writes'[v] : writes'[v][c] \in Values(c[1])
    <3>. TAKE v \in Workers
    <3>1. CASE v = w
      BY <1>4, <3>1, FailEffect
    <3>2. CASE v # w
      <4>1. writes'[v] = writes[v]
        BY <1>4, <3>2, FailEffect
      <4>. QED
        BY <4>1 DEF TypeOK
    <3>. QED
      BY <3>1, <3>2
  <2>. QED
    BY <1>4, <2>1, FailEffect DEF TypeOK
<1>5. ASSUME NEW w \in Workers, Begins(w) PROVE TypeOK'
  <2>1. \A v \in Workers : /\ DOMAIN writes'[v] \subseteq Cells
                          /\ \A c \in DOMAIN writes'[v] : writes'[v][c] \in Values(c[1])
    <3>. TAKE v \in Workers
    <3>1. CASE v = w
      <4>1. Intent(v)'
        BY <1>5, <3>1 DEF Begins
      <4>2. IntentsAreTyped'
        BY IntentTyped, PTL
      <4>. QED
        BY <4>1, <4>2 DEF IntentsAreTyped, WritesTyped
    <3>2. CASE v # w
      <4>1. writes'[v] = writes[v]
        BY <1>5, <3>2 DEF Begins
      <4>. QED
        BY <4>1 DEF TypeOK
    <3>. QED
      BY <3>1, <3>2
  <2>. QED
    BY <1>5, <2>1 DEF Begins, TypeOK
<1>. QED
  BY <1>1, <1>2, <1>3, <1>4, <1>5, StepKinds

\* Every reachable state is of the type: each cell of the tables, and each pending write,
\* holds a value of its column (models/broker.py, insurance_company.py,
\* broker_insurer_assignment.py).
THEOREM TypeCorrect == Spec => []TypeOK
<1>1. TypeOK /\ [Next]_vars => TypeOK'
  BY TypeOKStays
<1>. QED
  BY <1>1, TypeOKInit, PTL DEF Spec

-----------------------------------------------------------------------------
(* A registration changes neither the columns that only commits write nor  *)
(* the status of an organization that awaits its decision: what a request  *)
(* has read of these is still there while it is not stale.                 *)

Tracked == {"parent", "bank", "number", "assignment", "policy", "va"}

\* The status of an organization the admin has not decided on is as it was.
Undecided(c) == c[1] = "status" /\ db[c] = "pending"

\* Worker w's request goes on; unless it is stale, its cells are as it read them.
Kept(w) ==
  /\ writes'[w] = writes[w] /\ reads'[w] = reads[w]
  /\ ~stale'[w] => ~stale[w] /\ \A c \in reads[w] : c[1] \in Tracked \/ Undecided(c) => db'[c] = db[c]

\* Worker w commits.
Committed(w) ==
  /\ \A c \in Cells : db'[c] = IF c \in DOMAIN writes[w] THEN writes[w][c] ELSE db[c]
  /\ stale[w] => \A c \in DOMAIN writes[w] : c[1] \in raced'

\* At most organizations that are new get a status and a BVN.
Registered ==
  /\ \A c \in Cells : c[1] \in Tracked \/ Undecided(c) => db'[c] = db[c]
  /\ \A o \in Orgs : db[<<"status", o>>] # "absent" => db'[<<"status", o>>] = db[<<"status", o>>]
  /\ \A o \in Orgs : db[<<"status", o>>] = "absent" => db'[<<"status", o>>] \in {"absent", "pending"}
  /\ \A b \in Brokers : db[<<"status", b>>] # "absent" => db'[<<"kyb", b>>] = db[<<"kyb", b>>]

\* A registration does that, and is no change of a request.
LEMMA OnboardEffect ==
  ASSUME TypeOK, NEW o \in Orgs, NEW kyb \in BOOLEAN, Onboard(o, kyb)
  PROVE  UNCHANGED <<reads, writes, stale, raced>> /\ Registered
<1>1. ASSUME NEW c \in Cells, c[1] \in Tracked \/ Undecided(c) PROVE db'[c] = db[c]
  <2>1. c # <<"status", o>>
    <3>1. <<"status", o>>[1] = "status"
      OBVIOUS
    <3>. QED
      BY <1>1, <3>1 DEF Tracked, Undecided, Onboard
  <2>2. c # <<"kyb", o>>
    <3>1. <<"kyb", o>>[1] = "kyb"
      OBVIOUS
    <3>. QED
      BY <1>1, <3>1 DEF Tracked, Undecided
  <2>. QED
    BY <2>1, <2>2 DEF Onboard
<1>2. \A n \in Orgs : IF n = o THEN db[<<"status", n>>] = "absent" /\ db'[<<"status", n>>] = "pending"
                               ELSE db'[<<"status", n>>] = db[<<"status", n>>]
  BY CellsByColumn DEF Onboard
<1>3. \A b \in Brokers : b # o => db'[<<"kyb", b>>] = db[<<"kyb", b>>]
  BY CellsByColumn DEF Onboard
<1>. QED
  BY <1>1, <1>2, <1>3 DEF Onboard, Registered, Orgs

\* What the cells of an insurer hold.
LEMMA InsurerCells ==
  ASSUME TypeOK, NEW i \in Insurers
  PROVE  /\ db[<<"parent", i>>] \in Insurers \cup {None}
         /\ db[<<"bank", i>>] \in Banks \cup {None}
         /\ db[<<"number", i>>] \in Numbers \cup {None}
<1>1. \A column \in {"parent", "bank", "number"} :
        LET c == <<column, i>> IN c \in Cells /\ c[1] = column
  BY DEF Cells
<1>2. \A column \in {"parent", "bank", "number"} : db[<<column, i>>] \in Values(column)
  BY <1>1 DEF TypeOK
<1>. QED
  BY <1>2, ValuesByColumn

\* A step keeps a request, ends it or begins it.
LEMMA RequestSteps ==
  ASSUME TypeOK, [Next]_vars, NEW v \in Workers
  PROVE  Kept(v) \/ DOMAIN writes'[v] = {} \/ Intent(v)'
<1>1. CASE UNCHANGED vars
  BY <1>1 DEF vars, Kept
<1>2. ASSUME NEW o \in Orgs, NEW kyb \in BOOLEAN, Onboard(o, kyb) PROVE Kept(v)
  <2>1. reads[v] \subseteq Cells
    BY DEF TypeOK
  <2>. QED
    BY <1>2, <2>1, OnboardEffect DEF Kept, Registered
<1>3. ASSUME NEW w \in Workers, Commit(w) PROVE Kept(v) \/ DOMAIN writes'[v] = {}
  <2>1. CASE v = w
    BY <1>3, <2>1, CommitEffect
  <2>2. CASE v # w
    <3>1. /\ writes'[v] = writes[v] /\ reads'[v] = reads[v]
          /\ ~stale'[v] => ~stale[v] /\ reads[v] \cap DOMAIN writes[w] = {}
          /\ \A c \in Cells : db'[c] = IF c \in DOMAIN writes[w] THEN writes[w][c] ELSE db[c]
      BY <1>3, <2>2, CommitEffect
    <3>2. reads[v] \subseteq Cells
      BY DEF TypeOK
    <3>. QED
      BY <3>1, <3>2 DEF Kept
  <2>. QED
    BY <2>1, <2>2
<1>4. ASSUME NEW w \in Workers, Fail(w) PROVE Kept(v) \/ DOMAIN writes'[v] = {}
  <2>1. CASE v = w
    BY <1>4, <2>1, FailEffect
  <2>2. CASE v # w
    BY <1>4, <2>2, FailEffect DEF Kept
  <2>. QED
    BY <2>1, <2>2
<1>5. ASSUME NEW w \in Workers, Begins(w) PROVE Kept(v) \/ Intent(v)'
  <2>1. ASSUME v = w PROVE Intent(v)'
    <3>1. Intent(w)'
      BY <1>5 DEF Begins
    <3>. QED
      BY <2>1, <3>1
  <2>2. CASE v # w
    BY <1>5, <2>2 DEF Begins, Kept
  <2>. QED
    BY <2>1, <2>2
<1>. QED
  BY <1>1, <1>2, <1>3, <1>4, <1>5, StepKinds

\* A step changes no more than a registration does, or is a commit.
LEMMA DataSteps ==
  ASSUME TypeOK, [Next]_vars
  PROVE  /\ raced \subseteq raced'
         /\ Registered \/ \E w \in Workers : Commit(w) /\ Committed(w)
<1>1. CASE UNCHANGED vars
  BY <1>1 DEF vars, Registered
<1>2. ASSUME NEW o \in Orgs, NEW kyb \in BOOLEAN, Onboard(o, kyb)
      PROVE  raced' = raced /\ Registered
  BY <1>2, OnboardEffect
<1>3. ASSUME NEW w \in Workers, Commit(w) PROVE raced \subseteq raced' /\ Committed(w)
  BY <1>3, CommitEffect DEF Committed
<1>4. ASSUME NEW w \in Workers, Fail(w) \/ Begins(w) PROVE UNCHANGED <<db, raced>>
  BY <1>4, FailEffect DEF Begins
<1>. QED
  BY <1>1, <1>2, <1>3, <1>4, StepKinds DEF Registered

-----------------------------------------------------------------------------
(* The hierarchy.  A request that sets a parent has seen every company's   *)
(* parent: while it is not stale, what it decided still holds.             *)

\* Company i may get this parent.
MayHaveParent(i, parent) ==
  parent # None => /\ parent \in Insurers \ {i} /\ db[<<"parent", parent>>] = None
                   /\ \A k \in Insurers : db[<<"parent", k>>] # i

GroupingHolds(w) ==
  \A i \in Insurers : <<"parent", i>> \in DOMAIN writes[w] =>
    /\ DOMAIN writes[w] = {<<"parent", i>>}
    /\ {"parent"} \X Insurers \subseteq reads[w]
    /\ ~stale[w] => MayHaveParent(i, writes[w][<<"parent", i>>])

HierarchyInv == DepthOne /\ \A w \in Workers : GroupingHolds(w)

\* It holds at first, when nobody has a parent.
LEMMA HierarchyInit == Init => HierarchyInv
BY CellsByColumn DEF Init, HierarchyInv, DepthOne, GroupingHolds, Blank, NoWrites

\* A commit leaves groups of depth one.
LEMMA DepthCommit ==
  ASSUME TypeOK, TypeOK', HierarchyInv, raced \subseteq raced', NEW w \in Workers, Committed(w)
  PROVE  DepthOne'
<1>. USE CellsByColumn
<1>. SUFFICES ASSUME "parent" \notin raced', NEW j \in Insurers, db'[<<"parent", j>>] # None
              PROVE  db'[<<"parent", db'[<<"parent", j>>]>>] = None
  BY DEF DepthOne
<1>1. \A k \in Insurers : db[<<"parent", k>>] # None =>
        /\ db[<<"parent", k>>] \in Insurers
        /\ db[<<"parent", db[<<"parent", k>>]>>] = None
  BY InsurerCells DEF HierarchyInv, DepthOne
<1>2. CASE \A k \in Insurers : <<"parent", k>> \notin DOMAIN writes[w]
  <2>1. \A k \in Insurers : db'[<<"parent", k>>] = db[<<"parent", k>>]
    BY <1>2 DEF Committed
  <2>. QED
    BY <1>1, <2>1
<1>3. ASSUME NEW i \in Insurers, <<"parent", i>> \in DOMAIN writes[w]
      PROVE  db'[<<"parent", db'[<<"parent", j>>]>>] = None
  <2>. DEFINE p == writes[w][<<"parent", i>>]
  <2>1. ~stale[w]
    BY <1>3 DEF Committed
  <2>2. DOMAIN writes[w] = {<<"parent", i>>} /\ MayHaveParent(i, p)
    BY <1>3, <2>1 DEF HierarchyInv, GroupingHolds
  <2>3. /\ db'[<<"parent", i>>] = p
        /\ \A k \in Insurers \ {i} : db'[<<"parent", k>>] = db[<<"parent", k>>]
    BY <2>2 DEF Committed
  <2>. QED
    BY <1>1, <2>2, <2>3 DEF MayHaveParent
<1>. QED
  BY <1>2, <1>3

GroupingsBegin == \A w \in Workers : Intent(w) => GroupingHolds(w)

\* A request that has just begun satisfies it.
LEMMA GroupingBegins == GroupingsBegin
<1>. SUFFICES ASSUME NEW w \in Workers, Intent(w), NEW i \in Insurers,
                     <<"parent", i>> \in DOMAIN writes[w]
              PROVE  /\ DOMAIN writes[w] = {<<"parent", i>>}
                     /\ {"parent"} \X Insurers \subseteq reads[w]
                     /\ MayHaveParent(i, writes[w][<<"parent", i>>])
  BY DEF GroupingHolds, GroupingsBegin
<1>1. Grouping(w)
  BY DEF Intent, Deciding, Provisioning, Assigning, Unassigning, EnteringPolicy, Paying
<1>. QED
  BY <1>1 DEF Grouping, MayHaveParent, HasChildren

\* Every step keeps it.
LEMMA HierarchyStays ==
  ASSUME TypeOK, HierarchyInv, [Next]_vars
  PROVE  HierarchyInv'
<1>. USE CellsByColumn
<1>1. DepthOne'
  <2>1. CASE Registered
    <3>1. \A k \in Insurers : /\ db'[<<"parent", k>>] = db[<<"parent", k>>]
                              /\ db[<<"parent", k>>] \in Insurers \cup {None}
      BY <2>1, InsurerCells DEF Tracked, Registered
    <3>. QED
      BY <3>1, DataSteps DEF HierarchyInv, DepthOne
  <2>2. CASE \E w \in Workers : Committed(w)
    BY <2>2, DataSteps, TypeOKStays, DepthCommit
  <2>. QED
    BY <2>1, <2>2, DataSteps
<1>2. ASSUME NEW v \in Workers PROVE GroupingHolds(v)'
  <2>1. CASE Kept(v)
    <3>1. GroupingHolds(v)
      BY DEF HierarchyInv
    <3>2. ASSUME NEW i \in Insurers, <<"parent", i>> \in DOMAIN writes[v], ~stale'[v]
          PROVE  MayHaveParent(i, writes[v][<<"parent", i>>])'
      <4>1. \A k \in Insurers : <<"parent", k>> \in reads[v]
        BY <3>1, <3>2 DEF GroupingHolds
      <4>2. \A k \in Insurers : db'[<<"parent", k>>] = db[<<"parent", k>>]
        BY <2>1, <3>2, <4>1 DEF Kept, Tracked
      <4>3. MayHaveParent(i, writes[v][<<"parent", i>>]) /\ writes'[v] = writes[v]
        BY <2>1, <3>1, <3>2 DEF GroupingHolds, Kept
      <4>. QED
        BY <4>2, <4>3 DEF MayHaveParent
    <3>. QED
      BY <2>1, <3>1, <3>2 DEF GroupingHolds, Kept
  <2>2. CASE DOMAIN writes'[v] = {}
    BY <2>2 DEF GroupingHolds
  <2>3. CASE Intent(v)'
    <3>1. GroupingsBegin'
      BY GroupingBegins, PTL
    <3>. QED
      BY <2>3, <3>1 DEF GroupingsBegin
  <2>. QED
    BY <2>1, <2>2, <2>3, RequestSteps
<1>. QED
  BY <1>1, <1>2 DEF HierarchyInv

\* Groups of companies have depth one as long as no overlapping requests have changed the
\* hierarchy (set_insurance_company_parent of onboarding_service.py).
THEOREM DepthStaysOne == Spec => []DepthOne
<1>1. TypeOK /\ HierarchyInv /\ [Next]_vars => HierarchyInv'
  BY HierarchyStays
<1>. QED
  BY <1>1, HierarchyInit, TypeCorrect, PTL DEF Spec, HierarchyInv

-----------------------------------------------------------------------------
(* Settlement accounts.  A request that changes one has read both columns: *)
(* what it writes and what it leaves are the confirmed pair.               *)

Confirms(w, i, account) ==
  /\ IF <<"bank", i>> \in DOMAIN writes[w] THEN writes[w][<<"bank", i>>] = account[1]
                                         ELSE db[<<"bank", i>>] = account[1]
  /\ IF <<"number", i>> \in DOMAIN writes[w] THEN writes[w][<<"number", i>>] = account[2]
                                           ELSE db[<<"number", i>>] = account[2]

PayingHolds(w) ==
  \A i \in Insurers : <<"bank", i>> \in DOMAIN writes[w] \/ <<"number", i>> \in DOMAIN writes[w] =>
    /\ <<"bank", i>> \in reads[w] /\ <<"number", i>> \in reads[w]
    /\ ~stale[w] => \E account \in Confirmed : Confirms(w, i, account)

AccountInv == SettlementAccountIsConfirmed /\ \A w \in Workers : PayingHolds(w)

\* It holds at first, when nobody has an account.
LEMMA AccountInit == Init => AccountInv
<1>1. Blank("bank") = None /\ Blank("number") = None
  BY DEF Blank
<1>2. Init => \A i \in Insurers : db[<<"bank", i>>] = None /\ db[<<"number", i>>] = None
  BY <1>1, CellsByColumn DEF Init
<1>. QED
  BY <1>2 DEF Init, AccountInv, SettlementAccountIsConfirmed, PayingHolds, NoWrites

\* A commit leaves confirmed accounts.
LEMMA AccountCommit ==
  ASSUME TypeOK, AccountInv, raced \subseteq raced', NEW w \in Workers, Committed(w)
  PROVE  SettlementAccountIsConfirmed'
<1>. USE CellsByColumn
<1>. SUFFICES ASSUME raced' \cap {"bank", "number"} = {}, NEW i \in Insurers
              PROVE  \/ <<db'[<<"bank", i>>], db'[<<"number", i>>]>> \in Confirmed
                     \/ db'[<<"bank", i>>] = None /\ db'[<<"number", i>>] = None
  BY DEF SettlementAccountIsConfirmed
<1>1. CASE <<"bank", i>> \notin DOMAIN writes[w] /\ <<"number", i>> \notin DOMAIN writes[w]
  BY <1>1 DEF Committed, AccountInv, SettlementAccountIsConfirmed
<1>2. CASE <<"bank", i>> \in DOMAIN writes[w] \/ <<"number", i>> \in DOMAIN writes[w]
  <2>1. ~stale[w]
    BY <1>2 DEF Committed
  <2>2. PICK account \in Confirmed : Confirms(w, i, account)
    BY <1>2, <2>1 DEF AccountInv, PayingHolds
  <2>3. db'[<<"bank", i>>] = account[1] /\ db'[<<"number", i>>] = account[2]
    BY <2>2 DEF Confirms, Committed
  <2>4. account = <<account[1], account[2]>>
    BY OnboardingAssumption
  <2>. QED
    BY <2>3, <2>4
<1>. QED
  BY <1>1, <1>2

PayingsBegin == \A w \in Workers : Intent(w) => PayingHolds(w)

\* A request that has just begun satisfies it.
LEMMA PayingBegins == PayingsBegin
<1>. SUFFICES ASSUME NEW w \in Workers, Intent(w), NEW i \in Insurers,
                     <<"bank", i>> \in DOMAIN writes[w] \/ <<"number", i>> \in DOMAIN writes[w]
              PROVE  /\ <<"bank", i>> \in reads[w] /\ <<"number", i>> \in reads[w]
                     /\ \E account \in Confirmed : Confirms(w, i, account)
  BY DEF PayingHolds, PayingsBegin
<1>1. Paying(w)
  BY DEF Intent, Deciding, Provisioning, Assigning, Unassigning, EnteringPolicy, Grouping
<1>. QED
  BY <1>1 DEF Paying, Confirms

\* Every step keeps it.
LEMMA AccountStays ==
  ASSUME TypeOK, AccountInv, [Next]_vars
  PROVE  AccountInv'
<1>. USE CellsByColumn
<1>1. SettlementAccountIsConfirmed'
  <2>1. CASE Registered
    <3>1. \A i \in Insurers : /\ db'[<<"bank", i>>] = db[<<"bank", i>>]
                              /\ db'[<<"number", i>>] = db[<<"number", i>>]
      BY <2>1 DEF Tracked, Registered
    <3>. QED
      BY <3>1, DataSteps DEF AccountInv, SettlementAccountIsConfirmed
  <2>2. CASE \E w \in Workers : Committed(w)
    BY <2>2, DataSteps, AccountCommit
  <2>. QED
    BY <2>1, <2>2, DataSteps
<1>2. ASSUME NEW v \in Workers PROVE PayingHolds(v)'
  <2>1. CASE Kept(v)
    <3>1. PayingHolds(v)
      BY DEF AccountInv
    <3>2. ASSUME NEW i \in Insurers, ~stale'[v],
                 <<"bank", i>> \in DOMAIN writes[v] \/ <<"number", i>> \in DOMAIN writes[v]
          PROVE  \E account \in Confirmed : Confirms(v, i, account)'
      <4>1. /\ db'[<<"bank", i>>] = db[<<"bank", i>>] /\ db'[<<"number", i>>] = db[<<"number", i>>]
            /\ ~stale[v] /\ writes'[v] = writes[v]
        BY <2>1, <3>1, <3>2 DEF Kept, PayingHolds, Tracked
      <4>2. PICK account \in Confirmed : Confirms(v, i, account)
        BY <3>1, <3>2, <4>1 DEF PayingHolds
      <4>. QED
        BY <4>1, <4>2 DEF Confirms
    <3>. QED
      BY <2>1, <3>1, <3>2 DEF PayingHolds, Kept
  <2>2. CASE DOMAIN writes'[v] = {}
    BY <2>2 DEF PayingHolds
  <2>3. CASE Intent(v)'
    <3>1. PayingsBegin'
      BY PayingBegins, PTL
    <3>. QED
      BY <2>3, <3>1 DEF PayingsBegin
  <2>. QED
    BY <2>1, <2>2, <2>3, RequestSteps
<1>. QED
  BY <1>1, <1>2 DEF AccountInv

\* An insurer's bank and number are a pair Squad's lookup confirmed, as long as no
\* overlapping requests have changed one account (set_settlement_account of
\* onboarding_service.py).
THEOREM AccountsStayConfirmed == Spec => []SettlementAccountIsConfirmed
<1>1. TypeOK /\ AccountInv /\ [Next]_vars => AccountInv'
  BY AccountStays
<1>. QED
  BY <1>1, AccountInit, TypeCorrect, PTL DEF Spec, AccountInv

-----------------------------------------------------------------------------
(* Assignment rows.  A first assignment has seen that its pair has no row; *)
(* every other one writes to a row there is.                               *)

Exists(r) == db[<<"assignment", r>>] # "absent"

AssigningHolds(w) ==
  \A r \in Rows : <<"assignment", r>> \in DOMAIN writes[w] =>
    /\ DOMAIN writes[w] = {<<"assignment", r>>}
    /\ <<"assignment", r>> \in reads[w]
    /\ ~stale[w] =>
         \/ Exists(r)
         \/ \E p \in Pairs : /\ r \in RowsOf(p)
                             /\ {"assignment"} \X RowsOf(p) \subseteq reads[w]
                             /\ \A q \in RowsOf(p) : ~Exists(q)

RowsInv == OneRowPerPair /\ \A w \in Workers : AssigningHolds(w)

\* It holds at first, when there are no rows.
LEMMA RowsInit == Init => RowsInv
<1>1. \A p \in Pairs : RowsOf(p) \subseteq Rows
  BY RowsOfPair
<1>. QED
  BY <1>1, CellsByColumn
  DEF Init, RowsInv, OneRowPerPair, AssigningHolds, Blank, NoWrites

\* A commit leaves one row per pair.
LEMMA RowsCommit ==
  ASSUME TypeOK, RowsInv, raced \subseteq raced', NEW w \in Workers, Committed(w)
  PROVE  OneRowPerPair'
<1>. USE CellsByColumn
<1>. SUFFICES ASSUME "assignment" \notin raced', NEW p \in Pairs,
                     NEW q \in RowsOf(p), NEW r \in RowsOf(p), Exists(q)', Exists(r)', q # r
              PROVE  FALSE
  BY DEF OneRowPerPair, Exists
<1>1. q \in Rows /\ r \in Rows
  BY RowsOfPair
<1>2. ~(Exists(q) /\ Exists(r))
  BY DEF RowsInv, OneRowPerPair, Exists
<1>3. ASSUME NEW n \in {q, r}, ~Exists(n), NEW m \in {q, r}, m # n PROVE FALSE
  <2>1. n \in Rows /\ m \in Rows /\ Exists(n)' /\ Exists(m)'
    BY <1>1, <1>3
  <2>2. <<"assignment", n>> \in DOMAIN writes[w]
    BY <1>3, <2>1 DEF Committed, Exists
  <2>3. ~stale[w]
    BY <2>1, <2>2 DEF Committed
  <2>4. PICK s \in Pairs : n \in RowsOf(s) /\ \A k \in RowsOf(s) : ~Exists(k)
    BY <1>3, <2>1, <2>2, <2>3 DEF RowsInv, AssigningHolds
  <2>5. s = p
    BY <1>3, <2>4 DEF RowsOf
  <2>6. ~Exists(m)
    BY <1>3, <2>4, <2>5
  <2>7. <<"assignment", m>> \in DOMAIN writes[w]
    BY <2>1, <2>6 DEF Committed, Exists
  <2>8. DOMAIN writes[w] = {<<"assignment", n>>}
    BY <2>1, <2>2 DEF RowsInv, AssigningHolds
  <2>. QED
    BY <1>3, <2>7, <2>8
<1>. QED
  BY <1>2, <1>3

AssigningsBegin == \A w \in Workers : Intent(w) => AssigningHolds(w)

\* A request that has just begun satisfies it.
LEMMA AssigningBegins == AssigningsBegin
<1>. SUFFICES ASSUME NEW w \in Workers, Intent(w), NEW r \in Rows,
                     <<"assignment", r>> \in DOMAIN writes[w]
              PROVE  /\ DOMAIN writes[w] = {<<"assignment", r>>}
                     /\ <<"assignment", r>> \in reads[w]
                     /\ \/ Exists(r)
                        \/ \E p \in Pairs : /\ r \in RowsOf(p)
                                            /\ {"assignment"} \X RowsOf(p) \subseteq reads[w]
                                            /\ \A q \in RowsOf(p) : ~Exists(q)
  BY DEF AssigningHolds, AssigningsBegin
<1>1. Assigning(w) \/ Unassigning(w)
  BY DEF Intent, Deciding, Provisioning, EnteringPolicy, Grouping, Paying
<1>2. CASE Assigning(w)
  <2>1. PICK p \in Pairs, n \in Rows :
          /\ n \in RowsOf(p)
          /\ reads[w] = {"assignment"} \X RowsOf(p)
          /\ DOMAIN writes[w] \subseteq {<<"assignment", n>>}
          /\ Exists(n) \/ \A q \in RowsOf(p) : ~Exists(q)
    BY <1>2 DEF Assigning, Exists
  <2>2. n = r
    BY <2>1
  <2>. QED
    BY <2>1, <2>2
<1>3. CASE Unassigning(w)
  BY <1>3 DEF Unassigning, Exists
<1>. QED
  BY <1>1, <1>2, <1>3

\* Every step keeps it.
LEMMA RowsStay ==
  ASSUME TypeOK, RowsInv, [Next]_vars
  PROVE  RowsInv'
<1>. USE CellsByColumn
<1>1. OneRowPerPair'
  <2>1. CASE Registered
    <3>1. \A r \in Rows : db'[<<"assignment", r>>] = db[<<"assignment", r>>]
      BY <2>1 DEF Tracked, Registered
    <3>2. \A p \in Pairs : RowsOf(p) \subseteq Rows
      BY RowsOfPair
    <3>. QED
      BY <3>1, <3>2, DataSteps DEF RowsInv, OneRowPerPair
  <2>2. CASE \E w \in Workers : Committed(w)
    BY <2>2, DataSteps, RowsCommit
  <2>. QED
    BY <2>1, <2>2, DataSteps
<1>2. ASSUME NEW v \in Workers PROVE AssigningHolds(v)'
  <2>1. CASE Kept(v)
    <3>1. AssigningHolds(v)
      BY DEF RowsInv
    <3>2. ASSUME NEW r \in Rows, ~stale'[v], <<"assignment", r>> \in DOMAIN writes[v]
          PROVE  \/ Exists(r)'
                 \/ \E p \in Pairs : /\ r \in RowsOf(p)
                                     /\ {"assignment"} \X RowsOf(p) \subseteq reads'[v]
                                     /\ \A q \in RowsOf(p) : ~Exists(q)'
      <4>1. ~stale[v] /\ reads'[v] = reads[v]
        BY <2>1, <3>2 DEF Kept
      <4>2. \A q \in Rows : <<"assignment", q>> \in reads[v] => Exists(q)' = Exists(q)
        BY <2>1, <3>2 DEF Kept, Tracked, Exists
      <4>3. CASE Exists(r)
        BY <3>1, <3>2, <4>2, <4>3 DEF AssigningHolds
      <4>4. CASE \E p \in Pairs : /\ r \in RowsOf(p)
                                  /\ {"assignment"} \X RowsOf(p) \subseteq reads[v]
                                  /\ \A q \in RowsOf(p) : ~Exists(q)
        <5>1. PICK p \in Pairs : /\ r \in RowsOf(p)
                                 /\ {"assignment"} \X RowsOf(p) \subseteq reads[v]
                                 /\ \A q \in RowsOf(p) : ~Exists(q)
          BY <4>4
        <5>2. \A q \in RowsOf(p) : q \in Rows /\ <<"assignment", q>> \in reads[v]
          BY <5>1, RowsOfPair
        <5>. QED
          BY <4>1, <4>2, <5>1, <5>2
      <4>. QED
        BY <3>1, <3>2, <4>1, <4>3, <4>4 DEF AssigningHolds
    <3>. QED
      BY <2>1, <3>1, <3>2 DEF AssigningHolds, Kept
  <2>2. CASE DOMAIN writes'[v] = {}
    BY <2>2 DEF AssigningHolds
  <2>3. CASE Intent(v)'
    <3>1. AssigningsBegin'
      BY AssigningBegins, PTL
    <3>. QED
      BY <2>3, <3>1 DEF AssigningsBegin
  <2>. QED
    BY <2>1, <2>2, <2>3, RequestSteps
<1>. QED
  BY <1>1, <1>2 DEF RowsInv

\* A pair has one assignment row as long as no two first assignments overlapped
\* (assign_insurer_to_broker of onboarding_service.py).
THEOREM PairsKeepOneRow == Spec => []OneRowPerPair
<1>1. TypeOK /\ RowsInv /\ [Next]_vars => RowsInv'
  BY RowsStay
<1>. QED
  BY <1>1, RowsInit, TypeCorrect, PTL DEF Spec, RowsInv

-----------------------------------------------------------------------------
(* Virtual accounts.  No cell a request rests on is needed here: an        *)
(* account, once there, stays, and a BVN comes with one unless the broker  *)
(* is new.                                                                 *)

HasKyb(b)     == db[<<"kyb", b>>] = TRUE
HasAccount(b) == db[<<"va", b>>] = TRUE
WillHaveAccount(w, b) == <<"va", b>> \in DOMAIN writes[w] \/ HasAccount(b)

ProvisioningHolds(w) ==
  \A b \in Brokers :
    /\ <<"va", b>> \in DOMAIN writes[w] => writes[w][<<"va", b>>] = TRUE
    /\ <<"kyb", b>> \in DOMAIN writes[w] => WillHaveAccount(w, b)
    /\ <<"status", b>> \in DOMAIN writes[w] =>
         /\ db[<<"status", b>>] # "absent"
         /\ writes[w][<<"status", b>>] # "absent"
         /\ writes[w][<<"status", b>>] = "approved" /\ HasKyb(b) => WillHaveAccount(w, b)

ApprovedHasAccount ==
  \A b \in Brokers : db[<<"status", b>>] = "approved" /\ HasKyb(b) => HasAccount(b)

AccountsInv == ApprovedHasAccount /\ \A w \in Workers : ProvisioningHolds(w)

\* The invariant's form of the property.
LEMMA AccountsForm == TypeOK => (ApprovedHasAccount <=> ApprovedWithKybHasAccount)
<1>1. ASSUME TypeOK, NEW b \in Brokers PROVE db[<<"kyb", b>>] \in BOOLEAN /\ db[<<"va", b>>] \in BOOLEAN
  <2>1. \A column \in {"kyb", "va"} : LET c == <<column, b>> IN c \in Cells /\ c[1] = column
    BY DEF Cells
  <2>. QED
    BY <1>1, <2>1, ValuesByColumn DEF TypeOK
<1>2. TypeOK => \A b \in Brokers : HasKyb(b) = db[<<"kyb", b>>] /\ HasAccount(b) = db[<<"va", b>>]
  BY <1>1 DEF HasKyb, HasAccount
<1>. QED
  BY <1>2 DEF ApprovedHasAccount, ApprovedWithKybHasAccount

\* It holds at first, when no organization is there.
LEMMA AccountsInit == Init => AccountsInv
<1>1. Blank("status") = "absent"
  BY DEF Blank
<1>2. Init => \A b \in Brokers : db[<<"status", b>>] = "absent"
  BY <1>1, CellsByColumn DEF Init, Orgs
<1>. QED
  BY <1>2 DEF Init, AccountsInv, ApprovedHasAccount, ProvisioningHolds, NoWrites

ProvisioningsBegin == \A w \in Workers : Intent(w) => ProvisioningHolds(w)

\* A request that has just begun satisfies it.
LEMMA ProvisioningBegins == TypeOK => ProvisioningsBegin
<1>. SUFFICES ASSUME TypeOK, NEW w \in Workers, Intent(w), NEW b \in Brokers
              PROVE  /\ <<"va", b>> \in DOMAIN writes[w] => writes[w][<<"va", b>>] = TRUE
                     /\ <<"kyb", b>> \in DOMAIN writes[w] => WillHaveAccount(w, b)
                     /\ <<"status", b>> \in DOMAIN writes[w] =>
                          /\ db[<<"status", b>>] # "absent"
                          /\ writes[w][<<"status", b>>] # "absent"
                          /\ writes[w][<<"status", b>>] = "approved" /\ HasKyb(b)
                               => WillHaveAccount(w, b)
  BY DEF ProvisioningHolds, ProvisioningsBegin
<1>1. CASE Deciding(w)
  <2>1. PICK o \in Orgs :
    /\ db[<<"status", o>>] = "pending"
    /\ DOMAIN writes[w] \subseteq {<<"status", o>>} \cup {<<"va", n>> : n \in Brokers \cap {o}}
    /\ writes[w][<<"status", o>>] \in {"approved", "rejected"}
    /\ <<"va", o>> \in DOMAIN writes[w] => writes[w][<<"va", o>>] = TRUE
    /\ o \in Brokers /\ writes[w][<<"status", o>>] = "approved" /\ db[<<"kyb", o>>]
         => <<"va", o>> \in DOMAIN writes[w] \/ db[<<"va", o>>]
    BY <1>1 DEF Deciding
  <2>2. <<"kyb", b>> \notin DOMAIN writes[w]
    BY <2>1
  <2>3. <<"va", b>> \in DOMAIN writes[w] => b = o
    BY <2>1
  <2>4. <<"status", b>> \in DOMAIN writes[w] => b = o
    BY <2>1
  <2>5. writes[w][<<"status", b>>] = "approved" /\ HasKyb(b) /\ b = o => WillHaveAccount(w, b)
    <3>1. db[<<"va", b>>] \in BOOLEAN
      <4>1. LET c == <<"va", b>> IN c \in Cells /\ c[1] = "va"
        BY CellsByColumn
      <4>. QED
        BY <4>1, ValuesByColumn DEF TypeOK
    <3>. QED
      BY <2>1, <3>1 DEF HasKyb, HasAccount, WillHaveAccount
  <2>. QED
    BY <2>1, <2>2, <2>3, <2>4, <2>5
<1>2. CASE Provisioning(w)
  <2>1. PICK n \in Brokers :
          /\ DOMAIN writes[w] \subseteq {<<"kyb", n>>, <<"va", n>>}
          /\ \A c \in DOMAIN writes[w] : writes[w][c] = TRUE
          /\ <<"va", n>> \in DOMAIN writes[w] \/ db[<<"va", n>>]
    BY <1>2 DEF Provisioning
  <2>2. <<"status", b>> \notin DOMAIN writes[w]
    BY <2>1
  <2>3. <<"kyb", b>> \in DOMAIN writes[w] => WillHaveAccount(w, b)
    <3>1. db[<<"va", b>>] \in BOOLEAN
      <4>1. LET c == <<"va", b>> IN c \in Cells /\ c[1] = "va"
        BY CellsByColumn
      <4>. QED
        BY <4>1, ValuesByColumn DEF TypeOK
    <3>2. <<"kyb", b>> \in DOMAIN writes[w] => b = n
      BY <2>1
    <3>. QED
      BY <2>1, <3>1, <3>2 DEF HasAccount, WillHaveAccount
  <2>. QED
    BY <2>1, <2>2, <2>3
<1>3. CASE Assigning(w) \/ Unassigning(w) \/ EnteringPolicy(w) \/ Grouping(w) \/ Paying(w)
  <2>1. \A column \in {"va", "kyb", "status"} : <<column, b>> \notin DOMAIN writes[w]
    BY <1>3 DEF Assigning, Unassigning, EnteringPolicy, Grouping, Paying
  <2>. QED
    BY <2>1
<1>. QED
  BY <1>1, <1>2, <1>3 DEF Intent

\* What a step does to a broker: an account stays, a status does not vanish, and a BVN
\* that is new comes with an account or to a broker that is pending.
Progresses(b) ==
  /\ HasAccount(b) => HasAccount(b)'
  /\ db[<<"status", b>>] # "absent" => db'[<<"status", b>>] # "absent"
  /\ HasKyb(b)' => HasKyb(b) \/ HasAccount(b)' \/ db[<<"status", b>>] = "absent"
  /\ db'[<<"status", b>>] = "approved" /\ HasKyb(b)' => HasAccount(b)'

\* Every step does that.
LEMMA BrokersProgress ==
  ASSUME TypeOK, AccountsInv, [Next]_vars, NEW b \in Brokers
  PROVE  Progresses(b)
<1>. USE CellsByColumn
<1>0. b \in Orgs
  BY DEF Orgs
<1>1. CASE Registered
  <2>1. HasAccount(b)' = HasAccount(b)
    <3>1. LET c == <<"va", b>> IN c \in Cells /\ c[1] = "va"
      OBVIOUS
    <3>. QED
      BY <1>1, <3>1 DEF Registered, Tracked, HasAccount
  <2>2. db[<<"status", b>>] # "absent" => HasKyb(b)' = HasKyb(b)
    BY <1>1 DEF Registered, HasKyb
  <2>3. /\ db[<<"status", b>>] # "absent" => db'[<<"status", b>>] = db[<<"status", b>>]
        /\ db[<<"status", b>>] = "absent" => db'[<<"status", b>>] # "approved"
    BY <1>0, <1>1 DEF Registered
  <2>. QED
    BY <2>1, <2>2, <2>3 DEF Progresses, AccountsInv, ApprovedHasAccount
<1>2. ASSUME NEW w \in Workers, Committed(w) PROVE Progresses(b)
  <2>. USE <1>0, <1>2 DEF Committed
  <2>1. ProvisioningHolds(w)
    BY DEF AccountsInv
  <2>2. WillHaveAccount(w, b) => HasAccount(b)'
    BY <2>1 DEF ProvisioningHolds, WillHaveAccount, HasAccount
  <2>3. <<"kyb", b>> \notin DOMAIN writes[w] => HasKyb(b)' = HasKyb(b)
    BY DEF HasKyb
  <2>4. HasKyb(b)' => HasKyb(b) \/ HasAccount(b)'
    BY <2>1, <2>2, <2>3 DEF ProvisioningHolds
  <2>5. db[<<"status", b>>] # "absent" => db'[<<"status", b>>] # "absent"
    BY <2>1 DEF ProvisioningHolds
  <2>6. HasAccount(b) => HasAccount(b)'
    BY <2>2 DEF WillHaveAccount
  <2>7. CASE <<"status", b>> \in DOMAIN writes[w]
    <3>1. db'[<<"status", b>>] = writes[w][<<"status", b>>]
      BY <2>7
    <3>. QED
      BY <2>1, <2>2, <2>4, <2>5, <2>6, <2>7, <3>1 DEF Progresses, ProvisioningHolds
  <2>8. CASE <<"status", b>> \notin DOMAIN writes[w]
    <3>1. db'[<<"status", b>>] = db[<<"status", b>>]
      BY <2>8
    <3>. QED
      BY <2>4, <2>5, <2>6, <3>1 DEF Progresses, AccountsInv, ApprovedHasAccount
  <2>. QED
    BY <2>7, <2>8
<1>. QED
  BY <1>1, <1>2, DataSteps

\* Every step keeps it.
LEMMA AccountsStay ==
  ASSUME TypeOK, AccountsInv, [Next]_vars
  PROVE  AccountsInv'
<1>1. ApprovedHasAccount'
  BY BrokersProgress DEF Progresses, ApprovedHasAccount
<1>2. ASSUME NEW v \in Workers PROVE ProvisioningHolds(v)'
  <2>1. CASE Kept(v)
    <3>. SUFFICES ASSUME NEW b \in Brokers
                  PROVE
            /\ <<"va", b>> \in DOMAIN writes'[v] => writes'[v][<<"va", b>>] = TRUE
            /\ <<"kyb", b>> \in DOMAIN writes'[v] => WillHaveAccount(v, b)'
            /\ <<"status", b>> \in DOMAIN writes'[v] =>
                 /\ db'[<<"status", b>>] # "absent"
                 /\ writes'[v][<<"status", b>>] # "absent"
                 /\ writes'[v][<<"status", b>>] = "approved" /\ HasKyb(b)' => WillHaveAccount(v, b)'
      BY DEF ProvisioningHolds
    <3>1. ProvisioningHolds(v) /\ writes'[v] = writes[v]
      BY <2>1 DEF AccountsInv, Kept
    <3>2. Progresses(b)
      BY BrokersProgress
    <3>3. /\ WillHaveAccount(v, b) => WillHaveAccount(v, b)'
          /\ HasAccount(b)' => WillHaveAccount(v, b)'
      BY <3>1, <3>2 DEF WillHaveAccount, Progresses
    <3>. QED
      BY <3>1, <3>2, <3>3 DEF ProvisioningHolds, Progresses
  <2>2. CASE DOMAIN writes'[v] = {}
    BY <2>2 DEF ProvisioningHolds
  <2>3. CASE Intent(v)'
    <3>1. TypeOK' => ProvisioningsBegin'
      BY ProvisioningBegins, PTL
    <3>. QED
      BY <2>3, <3>1, TypeOKStays DEF ProvisioningsBegin
  <2>. QED
    BY <2>1, <2>2, <2>3, RequestSteps
<1>. QED
  BY <1>1, <1>2 DEF AccountsInv

\* An approved broker whose BVN and phone number are on file has a virtual account,
\* whatever overlaps (approve_broker and create_virtual_account of onboarding_service.py).
THEOREM ApprovedBrokersHaveAccounts == Spec => []ApprovedWithKybHasAccount
<1>1. TypeOK /\ AccountsInv /\ [Next]_vars => AccountsInv'
  BY AccountsStay
<1>2. TypeOK /\ AccountsInv => ApprovedWithKybHasAccount
  BY AccountsForm DEF AccountsInv
<1>. QED
  BY <1>1, <1>2, AccountsInit, TypeCorrect, PTL DEF Spec

-----------------------------------------------------------------------------
(* Approved parties.  Unless decisions overlap, an approval is final, so   *)
(* what a request saw approved still is when it commits.                   *)

\* The pair has an assignment or a policy.
Related(p) == db[<<"policy", p>>] = TRUE \/ \E r \in RowsOf(p) : Exists(r)

DecidingHolds(w) ==
  \A o \in Orgs : <<"status", o>> \in DOMAIN writes[w] =>
    <<"status", o>> \in reads[w] /\ (~stale[w] => db[<<"status", o>>] = "pending")

RelatingHolds(w) ==
  "status" \notin raced =>
    \A p \in Pairs :
      \/ AreApproved(p)
      \/ <<"policy", p>> \notin DOMAIN writes[w]
           /\ \A r \in RowsOf(p) : <<"assignment", r>> \notin DOMAIN writes[w]

RelatedAreApproved == "status" \notin raced => \A p \in Pairs : Related(p) => AreApproved(p)

ApprovalInv ==
  RelatedAreApproved /\ \A w \in Workers : DecidingHolds(w) /\ RelatingHolds(w)

\* The invariant's form of the property.
LEMMA ApprovalForm == TypeOK => (RelatedAreApproved <=> AssignedAreApproved)
<1>1. ASSUME TypeOK, NEW p \in Pairs PROVE db[<<"policy", p>>] \in BOOLEAN
  <2>1. LET c == <<"policy", p>> IN c \in Cells /\ c[1] = "policy"
    BY CellsByColumn
  <2>. QED
    BY <1>1, <2>1, ValuesByColumn DEF TypeOK
<1>2. TypeOK => \A p \in Pairs :
        Related(p) <=> (db[<<"policy", p>>] \/ \E r \in RowsOf(p) : db[<<"assignment", r>>] # "absent")
  BY <1>1 DEF Related, Exists
<1>. QED
  BY <1>2 DEF RelatedAreApproved, AssignedAreApproved

\* It holds at first, when nobody is related.
LEMMA ApprovalInit == Init => ApprovalInv
<1>1. Blank("assignment") = "absent" /\ Blank("policy") = FALSE
  BY DEF Blank
<1>2. Init => \A p \in Pairs : db[<<"policy", p>>] = FALSE /\ \A r \in RowsOf(p) : ~Exists(r)
  <2>1. ASSUME Init, NEW p \in Pairs, NEW r \in RowsOf(p) PROVE ~Exists(r)
    BY <1>1, <2>1, CellsByColumn, RowsOfPair DEF Init, Exists
  <2>2. ASSUME Init, NEW p \in Pairs PROVE db[<<"policy", p>>] = FALSE
    <3>1. LET c == <<"policy", p>> IN c \in Cells /\ c[1] = "policy"
      BY CellsByColumn
    <3>. QED
      BY <1>1, <2>2, <3>1 DEF Init
  <2>. QED
    BY <2>1, <2>2
<1>3. Init => \A p \in Pairs : ~Related(p)
  BY <1>2 DEF Related
<1>. QED
  BY <1>3 DEF Init, ApprovalInv, RelatedAreApproved, DecidingHolds, RelatingHolds, NoWrites

\* An approval is final unless decisions overlapped.
LEMMA ApprovalIsFinal ==
  ASSUME TypeOK, ApprovalInv, [Next]_vars, "status" \notin raced', NEW p \in Pairs, AreApproved(p)
  PROVE  AreApproved(p)'
<1>1. ASSUME NEW o \in Orgs, db[<<"status", o>>] = "approved" PROVE db'[<<"status", o>>] = "approved"
  <2>1. CASE Registered
    BY <1>1, <2>1 DEF Registered
  <2>2. ASSUME NEW w \in Workers, Committed(w) PROVE db'[<<"status", o>>] = "approved"
    <3>1. <<"status", o>> \notin DOMAIN writes[w]
      BY <1>1, <2>2 DEF Committed, ApprovalInv, DecidingHolds
    <3>. QED
      BY <1>1, <2>2, <3>1, CellsByColumn DEF Committed
  <2>. QED
    BY <2>1, <2>2, DataSteps
<1>2. p[1] \in Orgs /\ p[2] \in Orgs
  BY DEF Pairs, Orgs
<1>. QED
  BY <1>1, <1>2 DEF AreApproved

\* A step relates approved parties only.
LEMMA RelatedStep ==
  ASSUME TypeOK, ApprovalInv, [Next]_vars
  PROVE  RelatedAreApproved'
<1>. SUFFICES ASSUME "status" \notin raced', NEW p \in Pairs, Related(p)'
              PROVE  AreApproved(p)'
  BY DEF RelatedAreApproved
<1>0. "status" \notin raced
  BY DataSteps
<1>1. CASE Registered
  <2>1. LET c == <<"policy", p>> IN c \in Cells /\ c[1] \in Tracked
    BY CellsByColumn DEF Tracked
  <2>2. \A r \in RowsOf(p) : LET c == <<"assignment", r>> IN c \in Cells /\ c[1] \in Tracked
    BY CellsByColumn, RowsOfPair DEF Tracked
  <2>3. Related(p)
    BY <1>1, <2>1, <2>2 DEF Registered, Related, Exists
  <2>. QED
    BY <1>0, <2>3, ApprovalIsFinal DEF ApprovalInv, RelatedAreApproved
<1>2. ASSUME NEW w \in Workers, Committed(w) PROVE AreApproved(p)
  <2>1. CASE Related(p)
    BY <1>0, <2>1 DEF ApprovalInv, RelatedAreApproved
  <2>2. CASE ~Related(p)
    <3>1. <<"policy", p>> \in Cells /\ \A r \in RowsOf(p) : <<"assignment", r>> \in Cells
      BY CellsByColumn, RowsOfPair
    <3>2. \/ <<"policy", p>> \in DOMAIN writes[w]
          \/ \E r \in RowsOf(p) : <<"assignment", r>> \in DOMAIN writes[w]
      BY <1>2, <2>2, <3>1 DEF Committed, Related, Exists
    <3>. QED
      BY <1>0, <3>2 DEF ApprovalInv, RelatingHolds
  <2>. QED
    BY <2>1, <2>2
<1>. QED
  BY <1>1, <1>2, DataSteps, ApprovalIsFinal

RelatingsBegin ==
  \A w \in Workers : Intent(w) => DecidingHolds(w) /\ (RelatedAreApproved => RelatingHolds(w))

\* A request that has just begun satisfies it.
LEMMA RelatingBegins == RelatingsBegin
<1>. SUFFICES ASSUME NEW w \in Workers, Intent(w)
              PROVE  DecidingHolds(w) /\ (RelatedAreApproved => RelatingHolds(w))
  BY DEF RelatingsBegin
<1>1. DecidingHolds(w)
  <2>. SUFFICES ASSUME NEW o \in Orgs, <<"status", o>> \in DOMAIN writes[w]
                PROVE  <<"status", o>> \in reads[w] /\ db[<<"status", o>>] = "pending"
    BY DEF DecidingHolds
  <2>1. Deciding(w)
    BY DEF Intent, Provisioning, Assigning, Unassigning, EnteringPolicy, Grouping, Paying
  <2>. QED
    BY <2>1 DEF Deciding
<1>2. ASSUME RelatedAreApproved, "status" \notin raced, NEW p \in Pairs,
             \/ <<"policy", p>> \in DOMAIN writes[w]
             \/ \E r \in RowsOf(p) : <<"assignment", r>> \in DOMAIN writes[w]
      PROVE  AreApproved(p)
  <2>1. Assigning(w) \/ Unassigning(w) \/ EnteringPolicy(w)
    BY <1>2 DEF Intent, Deciding, Provisioning, Grouping, Paying
  <2>2. CASE Assigning(w)
    <3>1. PICK q \in Pairs, n \in Rows : /\ n \in RowsOf(q) /\ AreApproved(q)
                                         /\ DOMAIN writes[w] \subseteq {<<"assignment", n>>}
      BY <2>2 DEF Assigning
    <3>2. n \in RowsOf(p)
      BY <1>2, <3>1
    <3>3. q = p
      BY <3>1, <3>2 DEF RowsOf
    <3>. QED
      BY <3>1, <3>3
  <2>3. CASE Unassigning(w)
    <3>1. PICK q \in Pairs, n \in Rows : /\ n \in RowsOf(q) /\ Exists(n)
                                         /\ DOMAIN writes[w] \subseteq {<<"assignment", n>>}
      BY <2>3 DEF Unassigning, Exists
    <3>2. n \in RowsOf(p)
      BY <1>2, <3>1
    <3>. QED
      BY <1>2, <3>1, <3>2 DEF RelatedAreApproved, Related
  <2>4. CASE EnteringPolicy(w)
    <3>1. PICK q \in Pairs, n \in Rows : /\ n \in RowsOf(q) /\ Exists(n)
                                         /\ DOMAIN writes[w] \subseteq {<<"policy", q>>}
      BY <2>4 DEF EnteringPolicy, Exists
    <3>2. q = p
      BY <1>2, <3>1
    <3>. QED
      BY <1>2, <3>1, <3>2 DEF RelatedAreApproved, Related
  <2>. QED
    BY <2>1, <2>2, <2>3, <2>4
<1>3. RelatedAreApproved => RelatingHolds(w)
  BY <1>2 DEF RelatingHolds
<1>. QED
  BY <1>1, <1>3

\* Every step keeps it.
LEMMA ApprovalStays ==
  ASSUME TypeOK, ApprovalInv, [Next]_vars
  PROVE  ApprovalInv'
<1>1. RelatedAreApproved'
  BY RelatedStep
<1>2. ASSUME NEW v \in Workers PROVE DecidingHolds(v)' /\ RelatingHolds(v)'
  <2>1. CASE Kept(v)
    <3>1. DecidingHolds(v) /\ RelatingHolds(v)
      BY DEF ApprovalInv
    <3>2. DecidingHolds(v)'
      <4>. SUFFICES ASSUME NEW o \in Orgs, <<"status", o>> \in DOMAIN writes[v]
                    PROVE  /\ <<"status", o>> \in reads[v]
                           /\ ~stale'[v] => db'[<<"status", o>>] = "pending"
        BY <2>1 DEF DecidingHolds, Kept
      <4>. DEFINE c == <<"status", o>>
      <4>1. c \in reads[v] /\ (~stale[v] => db[c] = "pending") /\ c[1] = "status"
        BY <3>1 DEF DecidingHolds
      <4>2. ~stale[v] => Undecided(c)
        BY <4>1 DEF Undecided
      <4>. HIDE DEF c
      <4>3. ~stale'[v] => db'[c] = "pending"
        BY <2>1, <4>1, <4>2 DEF Kept
      <4>. QED
        BY <4>1, <4>3 DEF c
    <3>3. RelatingHolds(v)'
      <4>. SUFFICES ASSUME "status" \notin raced', NEW p \in Pairs
                    PROVE  \/ AreApproved(p)'
                           \/ /\ <<"policy", p>> \notin DOMAIN writes'[v]
                              /\ \A r \in RowsOf(p) : <<"assignment", r>> \notin DOMAIN writes'[v]
        BY DEF RelatingHolds, RowsOf
      <4>1. "status" \notin raced /\ writes'[v] = writes[v]
        BY <2>1, DataSteps DEF Kept
      <4>. QED
        BY <3>1, <4>1, ApprovalIsFinal DEF RelatingHolds
    <3>. QED
      BY <3>2, <3>3
  <2>2. CASE DOMAIN writes'[v] = {}
    BY <2>2 DEF DecidingHolds, RelatingHolds
  <2>3. CASE Intent(v)'
    <3>1. RelatingsBegin'
      BY RelatingBegins, PTL
    <3>. QED
      BY <1>1, <2>3, <3>1 DEF RelatingsBegin
  <2>. QED
    BY <2>1, <2>2, <2>3, RequestSteps
<1>. QED
  BY <1>1, <1>2 DEF ApprovalInv

\* Assigned brokers and insurers, and the parties of a policy, are approved organizations
\* as long as no overlapping decisions have changed a status (assign_insurer_to_broker,
\* approve_broker and reject of onboarding_service.py).
THEOREM AssignedStayApproved == Spec => []AssignedAreApproved
<1>1. TypeOK /\ ApprovalInv /\ [Next]_vars => ApprovalInv'
  BY ApprovalStays
<1>2. TypeOK /\ ApprovalInv => AssignedAreApproved
  BY ApprovalForm DEF ApprovalInv
<1>. QED
  BY <1>1, <1>2, ApprovalInit, TypeCorrect, PTL DEF Spec
=============================================================================
