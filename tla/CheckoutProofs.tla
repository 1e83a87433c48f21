---------------------------- MODULE CheckoutProofs ----------------------------
(***************************************************************************)
(* One key makes one payment, answers name what was asked for, and a retry *)
(* never pays twice: for any number of tabs, keys, calls and payments.     *)
(***************************************************************************)
EXTENDS Checkout, FiniteSetTheorems, SequenceTheorems, TLAPS

\* The variables the proofs are about.
ledger == <<stored, call, ledgerVars, status, items, key_of>>

Typed ==
  /\ stored \in [Tabs -> [Scopes -> Keys \cup {None}]]
  /\ call \in [Calls -> Call]
  /\ request_hash \in [Keys -> Seq(Installments)]
  /\ resource_id \in [Keys -> Payments \cup {None}]
  /\ status \in [Payments -> {"absent", "initiated", "success", "failed"}]
  /\ items \in [Payments -> SUBSET Installments]
  /\ key_of \in [Payments -> Keys \cup {None}]

\* A selection is a list of installments, and so is what is submitted of it.
Selections == selected \in [Tabs -> Seq(Installments)]

Asking(c) == call[c].state \notin {"unused", "refused"}
Answered(c) == call[c].state \in {"replied", "done", "lost"}

\* A call belongs to a scope of a tab, and carries the key kept there.
CallsAreKeyed ==
  \A c \in Calls : Asking(c) =>
    /\ call[c].tab \in Tabs /\ call[c].scope \in Scopes /\ call[c].key \in Keys
    /\ stored[call[c].tab][call[c].scope] = call[c].key

\* Only answered calls name a payment.
AnswersName ==
  \A c \in Calls : IF Answered(c) THEN call[c].payment \in Payments ELSE call[c].payment = None

\* A key is held by one transaction, and then has no row yet.
OneHolder ==
  /\ \A c, d \in Calls : InTransaction(c) /\ InTransaction(d) /\ call[c].key = call[d].key => c = d
  /\ \A c \in Calls : InTransaction(c) => resource_id[call[c].key] = None

\* The payment of an answer not yet committed is its own.
AnswersAreFresh ==
  \A c \in Calls : call[c].state = "replied" =>
    /\ status[call[c].payment] = "absent"
    /\ \A d \in Calls : d # c => call[d].payment # call[c].payment

\* Every payment was some call's answer.
PaymentsWereAnswered ==
  \A p \in Payments : status[p] # "absent" => \E c \in Calls : call[c].payment = p

\* A stored answer is that of the payment made for the stored body.
StoredAnswersAreTrue ==
  \A k \in Keys : LET p == resource_id[k] IN
    p # None => status[p] # "absent" /\ key_of[p] = k /\ items[p] = ToSet(request_hash[k])

\* A payment carries the key of every call it was the answer of.
AnswersShareKeys ==
  \A c \in Calls : LET p == call[c].payment IN
    p # None => (status[p] = "absent" \/ key_of[p] = call[c].key)

CallInv == Typed /\ CallsAreKeyed /\ AnswersName
HolderInv == OneHolder /\ AnswersAreFresh /\ PaymentsWereAnswered
LedgerInv == StoredAnswersAreTrue /\ AnswersShareKeys /\ OnePaymentPerKey /\ AnsweredForWhatWasAsked
CheckoutInv == Selections /\ CallInv /\ HolderInv /\ LedgerInv

-----------------------------------------------------------------------------
(* Selections and what is submitted of them.                               *)

\* A listing of a set is a sequence of its members.
LEMMA ListingIsSeq ==
  ASSUME NEW S, NEW T \in SUBSET S, IsFiniteSet(T), NEW s \in [1..Cardinality(T) -> T]
  PROVE  s \in Seq(S)
<1>1. Cardinality(T) \in Nat BY FS_CardinalityType
<1>2. \A n \in Nat : s \in [1..n -> T] => s \in Seq(T) BY SeqDef
<1>3. s \in Seq(T) BY <1>1, <1>2
<1> QED BY <1>3, SeqMonotonic

\* The body of a request names installments.
LEMMA SubmissionIsBody ==
  ASSUME Selections, NEW t \in Tabs, NEW scope \in Scopes, NEW b \in Submission(t, scope)
  PROVE  b \in Seq(Installments)
<1>1. CASE scope.kind = "bulk"
  <2> DEFINE Ticked(s) == {i \in ToSet(selected[t]) : rows[t][i] = s}
  <2>1. ToSet(selected[t]) \subseteq Installments BY DEF Selections, ToSet
  <2>2. /\ Ticked("hidden") \in SUBSET Installments /\ Ticked("due") \in SUBSET Installments
        /\ IsFiniteSet(Ticked("hidden")) /\ IsFiniteSet(Ticked("due"))
    BY <2>1, FS_Subset, CheckoutAssumption
  <2>3. b \in Submitted(t) BY <1>1 DEF Submission
  <2> DEFINE Chosen(i, j) == \E m, n \in DOMAIN selected[t] :
                              m < n /\ selected[t][m] = i /\ selected[t][n] = j
             H == {s \in [1..Cardinality(Ticked("hidden")) -> Ticked("hidden")] :
                     \A m, n \in DOMAIN s : m < n => Chosen(s[m], s[n])}
             V == {s \in [1..Cardinality(Ticked("due")) -> Ticked("due")] :
                     \A m, n \in DOMAIN s : m < n => s[m] < s[n]}
  <2>4. Submitted(t) = {hidden \o visible : hidden \in H, visible \in V} BY DEF Submitted, Listed
  <2>5. \A s \in H \cup V : s \in Seq(Installments)
    <3>1. /\ \A s \in H : s \in [1..Cardinality(Ticked("hidden")) -> Ticked("hidden")]
          /\ \A s \in V : s \in [1..Cardinality(Ticked("due")) -> Ticked("due")]
      OBVIOUS
    <3> HIDE DEF Ticked, H, V
    <3> QED BY <2>2, <3>1, ListingIsSeq
  <2> HIDE DEF H, V
  <2>6. PICK hidden \in H, visible \in V : b = hidden \o visible BY <2>3, <2>4
  <2> QED BY <2>5, <2>6
<1>2. CASE scope.kind # "bulk"
  <2>1. PICK i \in scope.ids : b = <<i>> BY <1>2 DEF Submission
  <2>2. i \in Installments BY DEF Scopes
  <2> QED BY <2>1, <2>2
<1> QED BY <1>1, <1>2

\* An upload selects installments: each row it matches names one.
LEMMA UploadSelects ==
  ASSUME Selections, NEW t \in Tabs, NEW file \in Files, UploadFile(t, file)
  PROVE  Selections'
<1>1. PICK hits \in Matched(file) : selected' = [selected EXCEPT ![t] =
        [n \in 1..Min({Len(hits), MaxItems}) |->
           CHOOSE i \in Installments : RefOf[i] = file[hits[n]]]]
  BY DEF UploadFile
<1> DEFINE M == {n \in DOMAIN file : IsMatched(file, n)}
           count == Min({Len(hits), MaxItems})
           e(n) == CHOOSE i \in Installments : RefOf[i] = file[hits[n]]
<1>2. hits \in [1..Cardinality(M) -> M] BY DEF Matched, Listed
<1>3. IsFiniteSet(M) /\ M \in SUBSET Nat
  <2>1. file \in Seq(References) BY CheckoutAssumption
  <2>2. DOMAIN file = 1..Len(file) /\ Len(file) \in Nat BY <2>1
  <2>3. IsFiniteSet(1..Len(file)) /\ M \subseteq 1..Len(file) BY <2>2, FS_Interval
  <2> QED BY <2>2, <2>3, FS_Subset
<1>4. hits \in Seq(Nat) /\ Len(hits) = Cardinality(M) /\ Len(hits) \in Nat
  <2> HIDE DEF M
  <2>1. Cardinality(M) \in Nat BY <1>3, FS_CardinalityType
  <2>2. hits \in Seq(Nat) BY <1>2, <1>3, ListingIsSeq
  <2>3. DOMAIN hits = 1..Cardinality(M) /\ DOMAIN hits = 1..Len(hits) /\ Len(hits) \in Nat
    BY <1>2, <2>2, LenProperties
  <2> QED BY <2>1, <2>2, <2>3
<1>5. count \in Nat /\ count <= Len(hits)
  <2>1. MaxItems \in Nat BY CheckoutAssumption
  <2>2. \E x \in {Len(hits), MaxItems} : \A y \in {Len(hits), MaxItems} : x <= y BY <1>4, <2>1
  <2>3. count \in {Len(hits), MaxItems} /\ \A y \in {Len(hits), MaxItems} : count <= y
    BY <2>2 DEF Min
  <2> QED BY <1>4, <2>1, <2>3
<1>6. \A n \in 1..count : e(n) \in Installments
  <2> SUFFICES ASSUME NEW n \in 1..count PROVE e(n) \in Installments OBVIOUS
  <2>1. hits[n] \in M
    <3> HIDE DEF M, count
    <3> QED BY <1>2, <1>4, <1>5
  <2>2. \E i \in Installments : RefOf[i] = file[hits[n]] BY <2>1 DEF IsMatched, Named
  <2> QED BY <2>2
<1>7. [n \in 1..count |-> e(n)] \in Seq(Installments)
  <2> HIDE DEF count, e
  <2>1. [n \in 1..count |-> e(n)] \in [1..count -> Installments] BY <1>6
  <2> QED BY <1>5, <2>1, SeqDef
<1> QED BY <1>1, <1>7 DEF Selections

\* Selections stay lists of installments.
LEMMA SelectionsKept ==
  ASSUME Selections, [Next]_vars
  PROVE  Selections'
<1>1. CASE UNCHANGED selected BY <1>1 DEF Selections
<1>2. ASSUME NEW t \in Tabs, NEW b \in Seq(Installments), selected' = [selected EXCEPT ![t] = b]
      PROVE  Selections'
  BY <1>2 DEF Selections
<1>3. ASSUME NEW t \in Tabs, NEW i \in Installments, Toggle(t, i)
      PROVE  Selections'
  <2>1. selected[t] \in Seq(Installments) BY DEF Selections
  <2>2. Append(selected[t], i) \in Seq(Installments) BY <2>1
  <2>3. \A n \in DOMAIN selected[t] : RemoveAt(selected[t], n) \in Seq(Installments)
    BY <2>1 DEF RemoveAt
  <2>4. \E b \in Seq(Installments) : selected' = [selected EXCEPT ![t] = b]
    BY <1>3, <2>2, <2>3 DEF Toggle
  <2> QED BY <1>2, <2>4
<1>4. ASSUME NEW t \in Tabs, OpenList(t) \/ TakeAnswer(t)
      PROVE  Selections'
  <2>1. <<>> \in Seq(Installments) BY EmptySeq
  <2>2. selected' = [selected EXCEPT ![t] = <<>>] \/ UNCHANGED selected
    BY <1>4 DEF OpenList, TakeAnswer
  <2> QED BY <1>1, <1>2, <2>1, <2>2
<1>5. ASSUME NEW t \in Tabs, User(t) \/ TakeAnswer(t) \/ Poll(t)
      PROVE  Selections'
  <2>1. CASE (\E f \in Filters : ChooseFilter(t, f)) \/ (\E s \in Scopes : PressPay(t, s))
              \/ ReloadPayment(t) \/ Poll(t)
    BY <1>1, <2>1 DEF ChooseFilter, PressPay, ReloadPayment, Poll
  <2> QED BY <1>3, <1>4, <1>5, <2>1, UploadSelects DEF User
<1>6. ASSUME NEW c \in Calls, Serve(c) \/ RateLimit(c)
      PROVE  UNCHANGED selected
  BY <1>6 DEF Serve, RateLimit, Claim, Replay, Reply, Commit, Abort, CallEnters, CallRefused, tabVars
<1>7. CASE UNCHANGED vars \/ (\E p \in Payments, o \in Terminal : Outcome(p, o))
           \/ (\E i \in Contested : PaidElsewhere(i))
  BY <1>1, <1>7 DEF vars, Outcome, PaidElsewhere, tabVars
<1> QED BY <1>1, <1>5, <1>6, <1>7 DEF Next

-----------------------------------------------------------------------------
(* What a step does to one call and its rows.                              *)

Others(c) == \A d \in Calls : d # c => call'[d] = call[d]
Same(c) ==
  /\ call'[c].tab = call[c].tab /\ call'[c].scope = call[c].scope
  /\ call'[c].key = call[c].key /\ call'[c].body = call[c].body
Moves(c, from, to) ==
  /\ call[c].state = from /\ call'[c].state = to
  /\ Others(c) /\ Same(c)

Pressed(c) ==
  /\ call[c].state = "unused" /\ Others(c)
  /\ call'[c].state = "sent" /\ call'[c].payment = None
  /\ call'[c].tab \in Tabs /\ call'[c].scope \in Scopes /\ call'[c].key \in Keys
  /\ stored'[call'[c].tab][call'[c].scope] = call'[c].key
  /\ \A t \in Tabs, s \in Scopes : stored[t][s] # None => stored'[t][s] = stored[t][s]
  /\ UNCHANGED <<ledgerVars, status, items, key_of>>

Opened(c) ==
  /\ Moves(c, "sent", "open") /\ call'[c].payment = call[c].payment
  /\ ~Held(call[c].key) /\ resource_id[call[c].key] = None
  /\ UNCHANGED <<stored, ledgerVars, status, items, key_of>>

Refused(c) ==
  /\ call[c].state \in {"sent", "open"} /\ Others(c)
  /\ call'[c].state = "refused" /\ call'[c].payment = None
  /\ UNCHANGED <<stored, ledgerVars, status, items, key_of>>

Replayed(c) ==
  /\ Moves(c, "sent", "done")
  /\ resource_id[call[c].key] # None /\ call'[c].payment = resource_id[call[c].key]
  /\ request_hash[call[c].key] = call[c].body
  /\ UNCHANGED <<stored, ledgerVars, status, items, key_of>>

Replied(c) ==
  /\ Moves(c, "open", "replied") /\ call'[c].payment \in Payments
  /\ \A d \in Calls : call[d].payment # call'[c].payment
  /\ UNCHANGED <<stored, ledgerVars, status, items, key_of>>

Lost(c) ==
  /\ Moves(c, "replied", "lost") /\ call'[c].payment = call[c].payment
  /\ UNCHANGED <<stored, ledgerVars, status, items, key_of>>

Committed(c) ==
  LET p == call[c].payment
      k == call[c].key
  IN  /\ Moves(c, "replied", "done") /\ call'[c].payment = p
      /\ p \in Payments => status'[p] = "initiated" /\ items'[p] = ToSet(call[c].body) /\ key_of'[p] = k
      /\ \A q \in Payments : q # p => status'[q] = status[q] /\ items'[q] = items[q] /\ key_of'[q] = key_of[q]
      /\ k \in Keys => request_hash'[k] = call[c].body /\ resource_id'[k] = p
      /\ \A j \in Keys : j # k => request_hash'[j] = request_hash[j] /\ resource_id'[j] = resource_id[j]
      /\ UNCHANGED stored

Decided(p) ==
  /\ status[p] = "initiated" /\ status'[p] \in Terminal
  /\ \A q \in Payments : q # p => status'[q] = status[q]
  /\ UNCHANGED <<stored, call, ledgerVars, items, key_of>>

Kinds ==
  \/ UNCHANGED ledger
  \/ \E c \in Calls : \/ Pressed(c) \/ Opened(c) \/ Refused(c) \/ Replayed(c)
                      \/ Replied(c) \/ Lost(c) \/ Committed(c)
  \/ \E p \in Payments : Decided(p)

\* None is no number, so neither a key nor a payment.
LEMMA NoneIsNeither == None \notin Keys /\ None \notin Payments /\ None \notin Calls
  BY CheckoutAssumption DEF CheckoutAssumption

\* The function of calls after one of them is replaced.
LEMMA CallReplaced ==
  ASSUME call \in [Calls -> Call], NEW c \in Calls, NEW r \in Call,
         call' = [call EXCEPT ![c] = r]
  PROVE  call' \in [Calls -> Call] /\ call'[c] = r /\ Others(c)
  BY DEF Others

\* The same when only its state changes.
LEMMA CallMoved ==
  ASSUME call \in [Calls -> Call], NEW c \in Calls,
         NEW s \in {"unused", "sent", "open", "replied", "done", "lost", "refused"},
         call' = [call EXCEPT ![c].state = s]
  PROVE  /\ call' \in [Calls -> Call]
         /\ Moves(c, call[c].state, s) /\ call'[c].payment = call[c].payment
  <1> DEFINE r == [call[c] EXCEPT !.state = s]
  <1>1. r \in Call BY DEF Call
  <1>2. call' = [call EXCEPT ![c] = r] OBVIOUS
  <1>3. call' \in [Calls -> Call] /\ call'[c] = r /\ Others(c) BY <1>1, <1>2, CallReplaced
  <1>4. /\ r.state = s /\ r.tab = call[c].tab /\ r.scope = call[c].scope
        /\ r.key = call[c].key /\ r.body = call[c].body /\ r.payment = call[c].payment
    BY DEF Call
  <1> QED BY <1>3, <1>4 DEF Moves, Same

-----------------------------------------------------------------------------
(* Every step is of one of these kinds, and keeps the types.               *)

\* A press is a call with the key kept for its scope.
LEMMA PressStep ==
  ASSUME Typed, Selections, NEW t \in Tabs, NEW scope \in Scopes, PressPay(t, scope)
  PROVE  Typed' /\ \E c \in Calls : Pressed(c)
<1>1. PICK k \in KeyFor(t, scope), c \in First({d \in Calls : call[d].state = "unused"}),
           body \in Submission(t, scope) \ {<<>>} :
        /\ stored' = [stored EXCEPT ![t] = [@ EXCEPT ![scope] = k]]
        /\ call' = [call EXCEPT ![c] =
             [state |-> "sent", tab |-> t, scope |-> scope, key |-> k,
              body |-> body, payment |-> None]]
  BY DEF PressPay
<1>2. c \in Calls /\ call[c].state = "unused" BY <1>1 DEF First
<1>3. k \in Keys /\ (stored[t][scope] # None => k = stored[t][scope])
  <2>1. CASE stored[t][scope] # None BY <1>1, <2>1 DEF KeyFor, Typed
  <2>2. CASE stored[t][scope] = None BY <1>1, <2>2 DEF KeyFor, NewKey, First
  <2> QED BY <2>1, <2>2
<1>4. body \in Seq(Installments) BY <1>1, SubmissionIsBody
<1> DEFINE r == [state |-> "sent", tab |-> t, scope |-> scope, key |-> k, body |-> body,
                 payment |-> None]
<1>5. r \in Call BY <1>3, <1>4 DEF Call
<1>6. call \in [Calls -> Call] BY DEF Typed
<1>7. call' \in [Calls -> Call] /\ call'[c] = r /\ Others(c)
  <2> HIDE DEF r
  <2>1. call' = [call EXCEPT ![c] = r] BY <1>1 DEF r
  <2> QED BY <1>2, <1>5, <1>6, <2>1, CallReplaced
<1>8. UNCHANGED <<ledgerVars, status, items, key_of>> BY DEF PressPay, dataVars
<1>9. /\ stored' \in [Tabs -> [Scopes -> Keys \cup {None}]]
      /\ stored'[t][scope] = k
      /\ \A u \in Tabs, s \in Scopes : stored[u][s] # None => stored'[u][s] = stored[u][s]
  BY <1>1, <1>3 DEF Typed
<1>10. Typed' BY <1>7, <1>8, <1>9 DEF Typed, ledgerVars
<1>11. Pressed(c) BY <1>2, <1>3, <1>7, <1>8, <1>9 DEF Pressed
<1> QED BY <1>2, <1>10, <1>11

\* A step that replaces one call and touches nothing else.
LEMMA OneCallTyped ==
  ASSUME Typed, call' \in [Calls -> Call],
         UNCHANGED <<stored, ledgerVars, status, items, key_of>>
  PROVE  Typed'
  BY DEF Typed, ledgerVars

\* An error answer.
LEMMA RefusalStep ==
  ASSUME Typed, NEW c \in Calls, call[c].state \in {"sent", "open"}, CallRefused(c)
  PROVE  Typed' /\ Refused(c)
<1> DEFINE r == [state |-> "refused", tab |-> None, scope |-> None, key |-> None,
                 body |-> <<>>, payment |-> None]
<1>1. call' = [call EXCEPT ![c] = r]
  <2>1. r = [NoCall EXCEPT !.state = "refused"] BY DEF NoCall
  <2> QED BY <2>1 DEF CallRefused
<1>2. r \in Call BY DEF Call, Typed
<1>3. call \in [Calls -> Call] BY DEF Typed
<1>4. call' \in [Calls -> Call] /\ call'[c] = r /\ Others(c)
  <2> HIDE DEF r
  <2> QED BY <1>1, <1>2, <1>3, CallReplaced
<1>5. UNCHANGED <<stored, ledgerVars, status, items, key_of>>
  BY DEF CallRefused, tabVars, dataVars
<1> QED BY <1>4, <1>5, OneCallTyped DEF Refused

\* The claim of a new key.
LEMMA ClaimStep ==
  ASSUME Typed, NEW c \in Calls, Claim(c)
  PROVE  Typed' /\ (Opened(c) \/ Refused(c))
<1>1. CASE CallRefused(c) BY <1>1, RefusalStep DEF Claim
<1>2. CASE CallEnters(c, "open")
  <2>1. call \in [Calls -> Call] BY DEF Typed
  <2>2. call' = [call EXCEPT ![c].state = "open"] BY <1>2 DEF CallEnters
  <2>3. /\ call' \in [Calls -> Call]
        /\ Moves(c, call[c].state, "open") /\ call'[c].payment = call[c].payment
    BY <2>1, <2>2, CallMoved
  <2>4. UNCHANGED <<stored, ledgerVars, status, items, key_of>>
    BY <1>2 DEF CallEnters, tabVars, dataVars
  <2> QED BY <2>3, <2>4, OneCallTyped DEF Claim, Opened
<1> QED BY <1>1, <1>2 DEF Claim

\* The replay of a stored answer.
LEMMA ReplayStep ==
  ASSUME Typed, NEW c \in Calls, Replay(c), CallsAreKeyed
  PROVE  Typed' /\ (Replayed(c) \/ Refused(c))
<1> DEFINE k == call[c].key
<1>1. CASE request_hash[k] # call[c].body BY <1>1, RefusalStep DEF Replay
<1>2. CASE request_hash[k] = call[c].body
  <2>1. /\ call[c].state = "sent" /\ resource_id[k] # None
        /\ call' = [call EXCEPT ![c].state = "done", ![c].payment = resource_id[k]]
        /\ UNCHANGED <<stored, ledgerVars, status, items, key_of>>
    BY <1>2 DEF Replay, tabVars, dataVars
  <2>2. k \in Keys BY <2>1 DEF CallsAreKeyed, Asking
  <2> DEFINE r == [call[c] EXCEPT !.state = "done", !.payment = resource_id[k]]
  <2>3. call[c] \in Call /\ resource_id[k] \in Payments \cup {None}
    BY <2>2 DEF Typed
  <2>4. r \in Call BY <2>3 DEF Call
  <2>5. call' = [call EXCEPT ![c] = r] BY <2>1 DEF Typed
  <2>6. /\ r.state = "done" /\ r.tab = call[c].tab /\ r.scope = call[c].scope
        /\ r.key = call[c].key /\ r.body = call[c].body /\ r.payment = resource_id[k]
    BY <2>3 DEF Call
  <2>7. call' \in [Calls -> Call] /\ call'[c] = r /\ Others(c)
    <3> HIDE DEF r
    <3> QED BY <2>4, <2>5, CallReplaced DEF Typed
  <2>8. Replayed(c)
    <3> HIDE DEF r
    <3> QED BY <1>2, <2>1, <2>6, <2>7 DEF Replayed, Moves, Same
  <2> QED BY <2>1, <2>7, <2>8, OneCallTyped
<1> QED BY <1>1, <1>2

\* The answer of a new payment.
LEMMA ReplyStep ==
  ASSUME Typed, NEW c \in Calls, Reply(c)
  PROVE  Typed' /\ Replied(c)
<1>1. PICK p \in First({q \in Payments : \A d \in Calls : call[d].payment # q}) :
        call' = [call EXCEPT ![c].state = "replied", ![c].payment = p]
  BY DEF Reply
<1>2. p \in Payments /\ \A d \in Calls : call[d].payment # p BY <1>1 DEF First
<1> DEFINE r == [call[c] EXCEPT !.state = "replied", !.payment = p]
<1>3. call[c] \in Call BY DEF Typed
<1>4. r \in Call BY <1>2, <1>3 DEF Call
<1>5. call' = [call EXCEPT ![c] = r] BY <1>1 DEF Typed
<1>6. /\ r.state = "replied" /\ r.tab = call[c].tab /\ r.scope = call[c].scope
      /\ r.key = call[c].key /\ r.body = call[c].body /\ r.payment = p
  BY <1>3 DEF Call
<1>7. call' \in [Calls -> Call] /\ call'[c] = r /\ Others(c)
  <2> HIDE DEF r
  <2> QED BY <1>4, <1>5, CallReplaced DEF Typed
<1>8. call[c].state = "open" /\ UNCHANGED <<stored, ledgerVars, status, items, key_of>>
  BY DEF Reply, tabVars, dataVars
<1>9. Replied(c)
  <2> HIDE DEF r
  <2> QED BY <1>2, <1>6, <1>7, <1>8 DEF Replied, Moves, Same
<1> QED BY <1>7, <1>8, <1>9, OneCallTyped

\* The commit of a payment and its stored answer.
LEMMA CommitStep ==
  ASSUME Typed, NEW c \in Calls, Commit(c)
  PROVE  Typed' /\ Committed(c)
<1> DEFINE p == call[c].payment
           k == call[c].key
<1>1. /\ call[c].state = "replied"
      /\ status' = [status EXCEPT ![p] = "initiated"]
      /\ items' = [items EXCEPT ![p] = ToSet(call[c].body)]
      /\ key_of' = [key_of EXCEPT ![p] = k]
      /\ request_hash' = [request_hash EXCEPT ![k] = call[c].body]
      /\ resource_id' = [resource_id EXCEPT ![k] = p]
      /\ call' = [call EXCEPT ![c].state = "done"]
      /\ UNCHANGED stored
  BY DEF Commit, tabVars
<1>2. call[c] \in Call /\ call \in [Calls -> Call] BY DEF Typed
<1>3. call[c].body \in Seq(Installments) /\ p \in Payments \cup {None} /\ k \in Keys \cup {None}
  BY <1>2 DEF Call
<1>4. /\ call' \in [Calls -> Call]
      /\ Moves(c, call[c].state, "done") /\ call'[c].payment = call[c].payment
  BY <1>1, <1>2, CallMoved
<1>5. Typed'
  <2>1. ToSet(call[c].body) \subseteq Installments BY <1>3 DEF ToSet
  <2>2. items' \in [Payments -> SUBSET Installments] BY <1>1, <2>1 DEF Typed
  <2>3. /\ status' \in [Payments -> {"absent", "initiated", "success", "failed"}]
        /\ key_of' \in [Payments -> Keys \cup {None}]
        /\ request_hash' \in [Keys -> Seq(Installments)]
        /\ resource_id' \in [Keys -> Payments \cup {None}]
    BY <1>1, <1>3 DEF Typed
  <2> QED BY <1>1, <1>4, <2>2, <2>3 DEF Typed
<1>6. Committed(c) BY <1>1, <1>4 DEF Committed, Typed
<1> QED BY <1>5, <1>6 DEF Typed

\* The end of a transaction by a rollback.
LEMMA AbortStep ==
  ASSUME Typed, NEW c \in Calls, Abort(c)
  PROVE  Typed' /\ (Refused(c) \/ Lost(c))
<1>1. CASE call[c].state = "open" /\ CallRefused(c) BY <1>1, RefusalStep
<1>2. CASE call[c].state = "replied" /\ CallEnters(c, "lost")
  <2>1. call \in [Calls -> Call] BY DEF Typed
  <2>2. call' = [call EXCEPT ![c].state = "lost"] BY <1>2 DEF CallEnters
  <2>3. /\ call' \in [Calls -> Call]
        /\ Moves(c, call[c].state, "lost") /\ call'[c].payment = call[c].payment
    BY <2>1, <2>2, CallMoved
  <2>4. UNCHANGED <<stored, ledgerVars, status, items, key_of>>
    BY <1>2 DEF CallEnters, tabVars, dataVars
  <2> QED BY <1>2, <2>3, <2>4, OneCallTyped DEF Lost
<1> QED BY <1>1, <1>2 DEF Abort

\* The outcome of a payment.
LEMMA OutcomeStep ==
  ASSUME Typed, NEW p \in Payments, NEW o \in Terminal, Outcome(p, o)
  PROVE  Typed' /\ Decided(p)
<1>1. /\ status[p] = "initiated" /\ status' = [status EXCEPT ![p] = o]
      /\ UNCHANGED <<stored, call, ledgerVars, items, key_of>>
  BY DEF Outcome, tabVars
<1>2. Typed' BY <1>1 DEF Typed, Terminal, ledgerVars
<1>3. Decided(p) BY <1>1 DEF Typed, Terminal, Decided
<1> QED BY <1>2, <1>3 DEF Typed

\* Steps that touch neither keys nor calls nor rows.
LEMMA QuietStep == ASSUME Typed, UNCHANGED ledger PROVE Typed'
  BY DEF Typed, Typed, ledger, ledgerVars

\* Each step is of a kind.
LEMMA StepKinds ==
  ASSUME Typed, Selections, CallsAreKeyed, [Next]_vars
  PROVE  Typed' /\ Kinds
<1>1. CASE UNCHANGED ledger BY <1>1, QuietStep DEF Kinds
<1>2. CASE \E t \in Tabs, scope \in Scopes : PressPay(t, scope) BY <1>2, PressStep DEF Kinds
<1>3. ASSUME NEW c \in Calls, Serve(c) \/ RateLimit(c) PROVE Typed' /\ Kinds
  <2>1. CASE RateLimit(c) BY <2>1, RefusalStep DEF RateLimit, Kinds
  <2>2. CASE Claim(c) BY <2>2, ClaimStep DEF Kinds
  <2>3. CASE Replay(c) BY <2>3, ReplayStep DEF Kinds
  <2>4. CASE Reply(c) BY <2>4, ReplyStep DEF Kinds
  <2>5. CASE Commit(c) BY <2>5, CommitStep DEF Kinds
  <2>6. CASE Abort(c) BY <2>6, AbortStep DEF Kinds
  <2> QED BY <1>3, <2>1, <2>2, <2>3, <2>4, <2>5, <2>6 DEF Serve
<1>4. CASE \E p \in Payments, o \in Terminal : Outcome(p, o) BY <1>4, OutcomeStep DEF Kinds
<1>5. CASE \E i \in Contested : PaidElsewhere(i)
  BY <1>1, <1>5 DEF PaidElsewhere, tabVars, ledger, ledgerVars
<1>6. CASE \E t \in Tabs : User(t) \/ TakeAnswer(t) \/ Poll(t)
  <2> PICK t \in Tabs : User(t) \/ TakeAnswer(t) \/ Poll(t) BY <1>6
  <2>1. CASE \E f \in Filters : ChooseFilter(t, f)
    BY <1>1, <2>1 DEF ChooseFilter, dataVars, ledger, ledgerVars
  <2>2. CASE OpenList(t) BY <1>1, <2>2 DEF OpenList, dataVars, ledger, ledgerVars
  <2>3. CASE \E i \in Installments : Toggle(t, i)
    BY <1>1, <2>3 DEF Toggle, dataVars, ledger, ledgerVars
  <2>4. CASE \E f \in Files : UploadFile(t, f)
    BY <1>1, <2>4 DEF UploadFile, dataVars, ledger, ledgerVars
  <2>5. CASE ReloadPayment(t) BY <1>1, <2>5 DEF ReloadPayment, dataVars, ledger, ledgerVars
  <2>6. CASE TakeAnswer(t) BY <1>1, <2>6 DEF TakeAnswer, dataVars, ledger, ledgerVars
  <2>7. CASE Poll(t) BY <1>1, <2>7 DEF Poll, dataVars, ledger, ledgerVars
  <2> QED BY <1>2, <2>1, <2>2, <2>3, <2>4, <2>5, <2>6, <2>7 DEF User
<1>7. CASE UNCHANGED vars BY <1>1, <1>7 DEF vars, tabVars, dataVars, ledger, ledgerVars
<1> QED BY <1>3, <1>4, <1>5, <1>6, <1>7 DEF Next

-----------------------------------------------------------------------------
(* The parts of the invariant, one at a time.                              *)

\* What the types say of calls, payments and keys.
LEMMA Types ==
  ASSUME Typed
  PROVE  /\ \A c \in Calls : call[c].payment \in Payments \cup {None}
         /\ \A c \in Calls : call[c].key \in Keys \cup {None}
         /\ \A k \in Keys : resource_id[k] \in Payments \cup {None}
         /\ \A p \in Payments : key_of[p] \in Keys \cup {None}
<1>1. \A c \in Calls : call[c] \in Call BY DEF Typed
<1>2. ASSUME NEW c \in Calls PROVE call[c].payment \in Payments \cup {None} /\ call[c].key \in Keys \cup {None}
  BY <1>1 DEF Call
<1>3. /\ \A k \in Keys : resource_id[k] \in Payments \cup {None}
      /\ \A p \in Payments : key_of[p] \in Keys \cup {None}
  BY DEF Typed
<1> QED BY <1>2, <1>3

\* A call keeps the key of its scope, and names a payment once it is answered.
LEMMA CallInvKept ==
  ASSUME CheckoutInv, Kinds
  PROVE  CallsAreKeyed' /\ AnswersName'
<1> USE DEF CheckoutInv, CallInv
<1>1. CASE UNCHANGED ledger BY <1>1 DEF ledger, CallsAreKeyed, AnswersName, Asking, Answered
<1>2. CASE \E p \in Payments : Decided(p)
  BY <1>2 DEF Decided, CallsAreKeyed, AnswersName, Asking, Answered
<1>3. ASSUME NEW c \in Calls, Pressed(c) PROVE CallsAreKeyed' /\ AnswersName'
  BY <1>3, NoneIsNeither DEF Pressed, Others, CallsAreKeyed, AnswersName, Asking, Answered
<1>4. ASSUME NEW c \in Calls, Opened(c) \/ Replied(c) \/ Lost(c) \/ Committed(c)
      PROVE  CallsAreKeyed' /\ AnswersName'
  BY <1>4 DEF Opened, Replied, Lost, Committed, Moves, Same, Others,
              CallsAreKeyed, AnswersName, Asking, Answered
<1>5. ASSUME NEW c \in Calls, Refused(c) PROVE CallsAreKeyed' /\ AnswersName'
  BY <1>5 DEF Refused, Others, CallsAreKeyed, AnswersName, Asking, Answered
<1>6. ASSUME NEW c \in Calls, Replayed(c) PROVE CallsAreKeyed' /\ AnswersName'
  <2>1. call[c].key \in Keys BY <1>6 DEF Replayed, Moves, CallsAreKeyed, Asking
  <2>2. resource_id[call[c].key] \in Payments BY <1>6, <2>1, Types DEF Replayed
  <2> QED BY <1>6, <2>2 DEF Replayed, Moves, Same, Others, CallsAreKeyed, AnswersName,
                            Asking, Answered
<1> QED BY <1>1, <1>2, <1>3, <1>4, <1>5, <1>6 DEF Kinds

\* A key stays with one transaction.
LEMMA OneHolderKept ==
  ASSUME CheckoutInv, Kinds
  PROVE  OneHolder'
<1> USE DEF CheckoutInv, HolderInv
<1>1. CASE UNCHANGED ledger BY <1>1 DEF ledger, ledgerVars, OneHolder, InTransaction
<1>2. CASE \E p \in Payments : Decided(p)
  BY <1>2 DEF Decided, ledgerVars, OneHolder, InTransaction
<1>3. ASSUME NEW c \in Calls, Pressed(c) \/ Refused(c) PROVE OneHolder'
  BY <1>3 DEF Pressed, Refused, Others, ledgerVars, OneHolder, InTransaction
<1>4. ASSUME NEW c \in Calls, Opened(c) PROVE OneHolder'
  BY <1>4 DEF Opened, Moves, Same, Others, Held, ledgerVars, OneHolder, InTransaction
<1>5. ASSUME NEW c \in Calls, Replayed(c) \/ Replied(c) \/ Lost(c) PROVE OneHolder'
  BY <1>5 DEF Replayed, Replied, Lost, Moves, Same, Others, ledgerVars, OneHolder, InTransaction
<1>6. ASSUME NEW c \in Calls, Committed(c) PROVE OneHolder'
  <2>1. \A d \in Calls : InTransaction(d) => call[d].key \in Keys
    BY DEF CallInv, CallsAreKeyed, Asking, InTransaction
  <2> QED BY <1>6, <2>1 DEF Committed, Moves, Same, Others, OneHolder, InTransaction
<1> QED BY <1>1, <1>2, <1>3, <1>4, <1>5, <1>6 DEF Kinds

\* An id not yet given to a call has no row.
LEMMA UnnamedIsAbsent ==
  ASSUME CheckoutInv, NEW p \in Payments, \A d \in Calls : call[d].payment # p
  PROVE  status[p] = "absent"
  BY DEF CheckoutInv, HolderInv, PaymentsWereAnswered

\* The answer of an open transaction stays its own.
LEMMA AnswersAreFreshKept ==
  ASSUME CheckoutInv, Kinds
  PROVE  AnswersAreFresh'
<1> USE DEF CheckoutInv, HolderInv
<1>a. \A d \in Calls : call[d].state = "replied" => call[d].payment \in Payments
  BY DEF CallInv, AnswersName, Answered
<1>1. CASE UNCHANGED ledger BY <1>1 DEF ledger, AnswersAreFresh
<1>2. CASE \E p \in Payments : Decided(p) BY <1>2, <1>a DEF Decided, AnswersAreFresh
<1>3. ASSUME NEW c \in Calls, Pressed(c) \/ Refused(c) PROVE AnswersAreFresh'
  BY <1>3, <1>a, NoneIsNeither DEF Pressed, Refused, Others, AnswersAreFresh
<1>4. ASSUME NEW c \in Calls, Opened(c) \/ Lost(c) PROVE AnswersAreFresh'
  BY <1>4 DEF Opened, Lost, Moves, Others, AnswersAreFresh
<1>5. ASSUME NEW c \in Calls, Replied(c) PROVE AnswersAreFresh'
  <2>1. status[call'[c].payment] = "absent" BY <1>5, UnnamedIsAbsent DEF Replied
  <2> QED BY <1>5, <2>1 DEF Replied, Moves, Others, AnswersAreFresh
<1>6. ASSUME NEW c \in Calls, Replayed(c) PROVE AnswersAreFresh'
  <2>1. call[c].key \in Keys BY <1>6 DEF CallInv, Replayed, Moves, CallsAreKeyed, Asking
  <2>2. status[call'[c].payment] # "absent"
    BY <1>6, <2>1 DEF LedgerInv, StoredAnswersAreTrue, Replayed
  <2> QED BY <1>6, <2>2 DEF Replayed, Moves, Others, AnswersAreFresh
<1>7. ASSUME NEW c \in Calls, Committed(c) PROVE AnswersAreFresh'
  BY <1>7, <1>a DEF Committed, Moves, Others, AnswersAreFresh
<1> QED BY <1>1, <1>2, <1>3, <1>4, <1>5, <1>6, <1>7 DEF Kinds

\* No answered call forgets its payment.
LEMMA PaymentsWereAnsweredKept ==
  ASSUME CheckoutInv, Kinds
  PROVE  PaymentsWereAnswered'
<1> USE DEF CheckoutInv, HolderInv
<1>a. \A d \in Calls : call[d].state \in {"unused", "sent", "open"} => call[d].payment \notin Payments
  BY NoneIsNeither DEF CallInv, AnswersName, Answered
<1>1. CASE UNCHANGED ledger BY <1>1 DEF ledger, PaymentsWereAnswered
<1>2. CASE \E p \in Payments : Decided(p) BY <1>2 DEF Decided, PaymentsWereAnswered
<1>3. ASSUME NEW c \in Calls, Pressed(c) \/ Refused(c) \/ Opened(c) \/ Replied(c) \/ Replayed(c)
      PROVE  PaymentsWereAnswered'
  BY <1>3, <1>a DEF Pressed, Refused, Opened, Replied, Replayed, Moves, Others, PaymentsWereAnswered
<1>4. ASSUME NEW c \in Calls, Lost(c) \/ Committed(c) PROVE PaymentsWereAnswered'
  BY <1>4 DEF Lost, Committed, Moves, Others, PaymentsWereAnswered
<1> QED BY <1>1, <1>2, <1>3, <1>4 DEF Kinds

\* What a commit finds: its key unused, its payment new and no other call's.
LEMMA CommitFinds ==
  ASSUME CheckoutInv, NEW c \in Calls, call[c].state = "replied"
  PROVE  /\ call[c].key \in Keys /\ resource_id[call[c].key] = None
         /\ call[c].payment \in Payments /\ status[call[c].payment] = "absent"
         /\ \A d \in Calls : d # c => call[d].payment # call[c].payment
  BY DEF CheckoutInv, CallInv, HolderInv, CallsAreKeyed, AnswersName, Asking, Answered,
         OneHolder, InTransaction, AnswersAreFresh

\* A stored answer stays true.
LEMMA StoredAnswersAreTrueKept ==
  ASSUME CheckoutInv, Kinds
  PROVE  StoredAnswersAreTrue'
<1> USE DEF CheckoutInv, LedgerInv
<1>1. CASE UNCHANGED <<ledgerVars, status, items, key_of>>
  BY <1>1 DEF ledgerVars, StoredAnswersAreTrue
<1>2. CASE \E p \in Payments : Decided(p)
  BY <1>2, Types, NoneIsNeither DEF CallInv, Decided, Terminal, ledgerVars, StoredAnswersAreTrue
<1>3. ASSUME NEW c \in Calls, Committed(c) PROVE StoredAnswersAreTrue'
  <2> DEFINE p == call[c].payment
             k == call[c].key
  <2>1. call[c].state = "replied" BY <1>3 DEF Committed, Moves
  <2>2. k \in Keys /\ p \in Payments /\ status[p] = "absent" BY <2>1, CommitFinds
  <2> SUFFICES ASSUME NEW j \in Keys, resource_id'[j] # None
               PROVE  LET q == resource_id'[j] IN
                        status'[q] # "absent" /\ key_of'[q] = j /\ items'[q] = ToSet(request_hash'[j])
    BY DEF StoredAnswersAreTrue
  <2>3. CASE j = k BY <1>3, <2>2, <2>3 DEF Committed
  <2>4. CASE j # k
    <3> DEFINE q == resource_id[j]
    <3>1. resource_id'[j] = q /\ request_hash'[j] = request_hash[j] BY <1>3, <2>2, <2>4 DEF Committed
    <3>2. status[q] # "absent" /\ key_of[q] = j /\ items[q] = ToSet(request_hash[j])
      BY <3>1 DEF StoredAnswersAreTrue
    <3>3. q \in Payments /\ q # p BY <2>2, <3>1, <3>2, Types DEF CallInv
    <3>4. status'[q] = status[q] /\ key_of'[q] = key_of[q] /\ items'[q] = items[q]
      BY <1>3, <3>3 DEF Committed
    <3> QED BY <3>1, <3>2, <3>4
  <2> QED BY <2>3, <2>4
<1>4. ASSUME NEW c \in Calls, Pressed(c) \/ Opened(c) \/ Refused(c) \/ Replayed(c) \/ Replied(c) \/ Lost(c)
      PROVE  UNCHANGED <<ledgerVars, status, items, key_of>>
  BY <1>4 DEF Pressed, Opened, Refused, Replayed, Replied, Lost
<1> QED BY <1>1, <1>2, <1>3, <1>4 DEF Kinds, ledger

\* Keys and installments of a payment are those of the calls it answered.
LEMMA AnswersKept ==
  ASSUME CheckoutInv, Kinds
  PROVE  AnswersShareKeys' /\ AnsweredForWhatWasAsked'
<1> USE DEF CheckoutInv, LedgerInv, AnswersShareKeys, AnsweredForWhatWasAsked
<1>a. \A d \in Calls : call[d].payment \in Payments \cup {None} BY Types DEF CallInv
<1>1. CASE UNCHANGED ledger BY <1>1 DEF ledger
<1>2. CASE \E p \in Payments : Decided(p) BY <1>2, <1>a, NoneIsNeither DEF Decided
<1>3. ASSUME NEW c \in Calls, Pressed(c) \/ Refused(c)
      PROVE  AnswersShareKeys' /\ AnsweredForWhatWasAsked'
  BY <1>3 DEF Pressed, Refused, Others
<1>4. ASSUME NEW c \in Calls, Opened(c) \/ Lost(c)
      PROVE  AnswersShareKeys' /\ AnsweredForWhatWasAsked'
  BY <1>4 DEF Opened, Lost, Moves, Same, Others
<1>5. ASSUME NEW c \in Calls, Replied(c)
      PROVE  AnswersShareKeys' /\ AnsweredForWhatWasAsked'
  <2>1. status[call'[c].payment] = "absent" BY <1>5, UnnamedIsAbsent DEF Replied
  <2> QED BY <1>5, <2>1 DEF Replied, Moves, Same, Others
<1>6. ASSUME NEW c \in Calls, Replayed(c)
      PROVE  AnswersShareKeys' /\ AnsweredForWhatWasAsked'
  <2> DEFINE p == resource_id[call[c].key]
  <2>1. call[c].key \in Keys BY <1>6 DEF CallInv, Replayed, Moves, CallsAreKeyed, Asking
  <2>2. key_of[p] = call[c].key /\ items[p] = ToSet(call[c].body)
    BY <1>6, <2>1 DEF StoredAnswersAreTrue, Replayed
  <2> QED BY <1>6, <2>2 DEF Replayed, Moves, Same, Others
<1>7. ASSUME NEW c \in Calls, Committed(c)
      PROVE  AnswersShareKeys' /\ AnsweredForWhatWasAsked'
  <2>1. call[c].state = "replied" BY <1>7 DEF Committed, Moves
  <2> QED BY <1>7, <1>a, <2>1, CommitFinds DEF Committed, Moves, Same, Others
<1> QED BY <1>1, <1>2, <1>3, <1>4, <1>5, <1>6, <1>7 DEF Kinds

\* The row of a key is not given to a second payment.
LEMMA OnePaymentPerKeyKept ==
  ASSUME CheckoutInv, Kinds
  PROVE  OnePaymentPerKey'
<1> USE DEF CheckoutInv, LedgerInv
<1>1. CASE UNCHANGED <<ledgerVars, status, items, key_of>>
  BY <1>1 DEF ledgerVars, OnePaymentPerKey
<1>2. CASE \E p \in Payments : Decided(p) BY <1>2 DEF Decided, ledgerVars, OnePaymentPerKey
<1>3. ASSUME NEW c \in Calls, Committed(c) PROVE OnePaymentPerKey'
  <2> DEFINE p == call[c].payment
             k == call[c].key
  <2>1. call[c].state = "replied" BY <1>3 DEF Committed, Moves
  <2>2. k \in Keys /\ p \in Payments /\ resource_id[k] = None BY <2>1, CommitFinds
  <2> SUFFICES ASSUME NEW q \in Payments, status'[q] # "absent"
               PROVE  resource_id'[key_of'[q]] = q
    BY DEF OnePaymentPerKey
  <2>3. CASE q = p BY <1>3, <2>2, <2>3 DEF Committed
  <2>4. CASE q # p
    <3>1. status[q] # "absent" /\ key_of'[q] = key_of[q] BY <1>3, <2>4 DEF Committed
    <3>2. resource_id[key_of[q]] = q BY <3>1 DEF OnePaymentPerKey
    <3>3. PICK d \in Calls : call[d].payment = q
      BY <3>1 DEF HolderInv, PaymentsWereAnswered
    <3>4. Answered(d) BY <3>3, NoneIsNeither DEF CallInv, AnswersName
    <3>5. call[d].key \in Keys BY <3>4 DEF CallInv, CallsAreKeyed, Asking, Answered
    <3>6. key_of[q] \in Keys BY <3>1, <3>3, <3>5, NoneIsNeither DEF AnswersShareKeys
    <3>7. key_of[q] # k BY <2>2, <3>2, NoneIsNeither
    <3> QED BY <1>3, <3>1, <3>2, <3>6, <3>7 DEF Committed
  <2> QED BY <2>3, <2>4
<1>4. ASSUME NEW c \in Calls, Pressed(c) \/ Opened(c) \/ Refused(c) \/ Replayed(c) \/ Replied(c) \/ Lost(c)
      PROVE  UNCHANGED <<ledgerVars, status, items, key_of>>
  BY <1>4 DEF Pressed, Opened, Refused, Replayed, Replied, Lost
<1> QED BY <1>1, <1>2, <1>3, <1>4 DEF Kinds, ledger

-----------------------------------------------------------------------------
\* The first state: no call, no key and no payment.
LEMMA InitCheckout == Init => CheckoutInv
<1> SUFFICES ASSUME Init PROVE CheckoutInv OBVIOUS
<1> USE DEF Init
<1>1. NoCall \in Call BY DEF NoCall, Call
<1>2. Typed /\ Selections
  <2>1. call \in [Calls -> Call] BY <1>1
  <2>2. <<>> \in Seq(Installments) BY EmptySeq
  <2> QED BY <2>1, <2>2 DEF Typed, Selections
<1>3. \A c \in Calls : call[c].state = "unused" /\ call[c].payment = None BY DEF NoCall
<1>4. CallsAreKeyed /\ AnswersName BY <1>3 DEF CallsAreKeyed, AnswersName, Asking, Answered
<1>5. OneHolder /\ AnswersAreFresh /\ PaymentsWereAnswered
  BY <1>3 DEF OneHolder, InTransaction, AnswersAreFresh, PaymentsWereAnswered
<1>6. LedgerInv
  BY <1>3 DEF LedgerInv, StoredAnswersAreTrue, AnswersShareKeys, OnePaymentPerKey, AnsweredForWhatWasAsked
<1> QED BY <1>2, <1>4, <1>5, <1>6 DEF CheckoutInv, CallInv, HolderInv

\* The invariant behind the theorems below: locks on keys, answers and rows agree in
\* every reachable state.
THEOREM CheckoutCorrect == Spec => []CheckoutInv
<1>1. Init => CheckoutInv BY InitCheckout
<1>2. CheckoutInv /\ [Next]_vars => CheckoutInv'
  <2> SUFFICES ASSUME CheckoutInv, [Next]_vars PROVE CheckoutInv' OBVIOUS
  <2>1. Typed' /\ Kinds BY StepKinds DEF CheckoutInv, CallInv
  <2>2. CallInv' BY <2>1, CallInvKept DEF CallInv
  <2>3. HolderInv'
    BY <2>1, OneHolderKept, AnswersAreFreshKept, PaymentsWereAnsweredKept DEF HolderInv
  <2>4. LedgerInv'
    BY <2>1, StoredAnswersAreTrueKept, AnswersKept, OnePaymentPerKeyKept DEF LedgerInv
  <2>5. Selections' BY SelectionsKept DEF CheckoutInv
  <2> QED BY <2>2, <2>3, <2>4, <2>5 DEF CheckoutInv
<1> QED BY <1>1, <1>2, PTL DEF Spec

\* One payment at most is created under an idempotency key, and the ledger of keys
\* names it, however calls overlap, are lost or are sent again.
THEOREM KeysMakeOnePayment == Spec => []OnePaymentPerKey
<1>1. CheckoutInv => OnePaymentPerKey BY DEF CheckoutInv, LedgerInv
<1> QED BY <1>1, CheckoutCorrect, PTL

\* A 201 answer, first or replayed, names a payment for exactly the submitted
\* installments.
THEOREM AnswersMatchRequests == Spec => []AnsweredForWhatWasAsked
<1>1. CheckoutInv => AnsweredForWhatWasAsked BY DEF CheckoutInv, LedgerInv
<1> QED BY <1>1, CheckoutCorrect, PTL

\* A tab's calls for one scope make one payment in force at most: pressing Pay again
\* never collects twice.
THEOREM RetriesNeverPayTwice == Spec => []RetryNeverPaysTwice
<1>1. CheckoutInv => RetryNeverPaysTwice
  <2> SUFFICES ASSUME CheckoutInv, NEW c \in Calls, NEW d \in Calls,
                      call[c].tab = call[d].tab, call[c].scope = call[d].scope,
                      call[c].payment # None, call[d].payment # None,
                      status[call[c].payment] # "absent", status[call[d].payment] # "absent"
               PROVE  call[c].payment = call[d].payment
    BY DEF RetryNeverPaysTwice
  <2> USE DEF CheckoutInv, CallInv, LedgerInv
  <2>1. Answered(c) /\ Answered(d) /\ call[c].payment \in Payments /\ call[d].payment \in Payments
    BY DEF AnswersName
  <2>2. call[c].key = call[d].key BY <2>1 DEF CallsAreKeyed, Asking, Answered
  <2>3. key_of[call[c].payment] = call[c].key /\ key_of[call[d].payment] = call[d].key
    BY DEF AnswersShareKeys
  <2> QED BY <2>1, <2>2, <2>3 DEF OnePaymentPerKey
<1> QED BY <1>1, CheckoutCorrect, PTL

-----------------------------------------------------------------------------
(* Checkout implements PaymentPromises.                                    *)

\* What call c asks for.
Request(c) == [key |-> call[c].key, items |-> ToSet(call[c].body)]

\* Call c keeps its payment and, once it has one, its request.
KeepsRequest(c) ==
  /\ call'[c].payment = call[c].payment
  /\ call[c].payment \in Payments => Request(c)' = Request(c)

\* A payment is promised to the requests of the calls it was the answer of.
LEMMA PromisedTo ==
  ASSUME NEW p \in Payments
  PROVE  Promised[p] = {Request(c) : c \in {d \in Calls : call[d].payment = p}}
  BY DEF Promised, Request

\* A call that keeps its request and its payment keeps the promise.
LEMMA PromisesUnchanged ==
  ASSUME \A d \in Calls : KeepsRequest(d)
  PROVE  Promised' = Promised
<1>0. \A d \in Calls : call'[d].payment = call[d].payment
  BY DEF KeepsRequest
<1>1. ASSUME NEW p \in Payments PROVE Promised'[p] = Promised[p]
  <2>1. {d \in Calls : call'[d].payment = p} = {d \in Calls : call[d].payment = p} BY <1>0
  <2>2. \A d \in {d \in Calls : call[d].payment = p} : Request(d)' = Request(d)
    BY DEF KeepsRequest
  <2>3. Promised'[p] = {Request(c)' : c \in {d \in Calls : call'[d].payment = p}}
    BY DEF Promised, Request
  <2> QED BY <2>1, <2>2, <2>3, PromisedTo
<1>2. Promised = [p \in Payments |-> Promised[p]] /\ Promised' = [p \in Payments |-> Promised'[p]]
  BY DEF Promised
<1> QED BY <1>1, <1>2

\* When one call comes to be answered with payment p, p is promised to its request too
\* and nothing else changes.
LEMMA PromiseAdded ==
  ASSUME NEW c \in Calls, NEW p \in Payments, Others(c), Same(c),
         call[c].payment \notin Payments, call'[c].payment = p
  PROVE  Promised' = [Promised EXCEPT ![p] = @ \cup {Request(c)}]
<1>0. Request(c)' = Request(c) /\ \A d \in Calls : d # c => Request(d)' = Request(d)
  BY DEF Others, Same, Request
<1>1. ASSUME NEW q \in Payments
      PROVE  Promised'[q] = IF q = p THEN Promised[q] \cup {Request(c)} ELSE Promised[q]
  <2>1. Promised'[q] = {Request(d)' : d \in {d \in Calls : call'[d].payment = q}}
    BY DEF Promised, Request
  <2>2. CASE q = p
    <3>1. {d \in Calls : call'[d].payment = q} = {d \in Calls : call[d].payment = q} \cup {c}
      BY <2>2 DEF Others
    <3>2. {Request(d)' : d \in {d \in Calls : call'[d].payment = q}}
            = {Request(d) : d \in {d \in Calls : call[d].payment = q}} \cup {Request(c)}
      BY <1>0, <3>1
    <3> QED BY <2>1, <2>2, <3>2, PromisedTo
  <2>3. CASE q # p
    <3>1. {d \in Calls : call'[d].payment = q} = {d \in Calls : call[d].payment = q}
      BY <2>3 DEF Others
    <3>2. c \notin {d \in Calls : call[d].payment = q} OBVIOUS
    <3>3. \A d \in {d \in Calls : call[d].payment = q} : Request(d)' = Request(d)
      BY <1>0, <3>2
    <3> QED BY <2>1, <2>3, <3>1, <3>3, PromisedTo
  <2> QED BY <2>2, <2>3
<1>2. Promised = [q \in Payments |-> Promised[q]] /\ Promised' = [q \in Payments |-> Promised'[q]]
  BY DEF Promised
<1> QED BY <1>1, <1>2

\* Initially nothing is promised.
LEMMA InitPromises == Init => Promises!Init
<1> SUFFICES ASSUME Init PROVE Promises!Init OBVIOUS
<1>1. \A c \in Calls : call[c].payment = None BY DEF Init, NoCall
<1>2. Promised = [p \in Payments |-> {}] BY <1>1, NoneIsNeither DEF Promised
<1> QED BY <1>2 DEF Init, Promises!Init

\* What a call asks for, once it is under way, is a request.
LEMMA RequestOfCall ==
  ASSUME CallInv, NEW c \in Calls, Asking(c)
  PROVE  Request(c) \in Promises!Requests
<1>1. call[c].key \in Keys BY DEF CallInv, CallsAreKeyed
<1>2. call[c].body \in Seq(Installments) BY DEF CallInv, Typed, Call
<1>3. ToSet(call[c].body) \subseteq Installments BY <1>2 DEF ToSet
<1> QED BY <1>1, <1>3 DEF Request, Promises!Requests

\* An answer is a promise.
LEMMA ReplyPromises ==
  ASSUME CheckoutInv, NEW c \in Calls, Replied(c)
  PROVE  \E p \in Payments, r \in Promises!Requests : Promises!Promise(p, r)
<1> USE DEF CheckoutInv
<1> DEFINE p == call'[c].payment
<1>1. /\ p \in Payments /\ \A d \in Calls : call[d].payment # p
      /\ Others(c) /\ Same(c) /\ call[c].state = "open"
      /\ UNCHANGED <<resource_id, status, items>>
  BY DEF Replied, Moves, ledgerVars
<1>2. call[c].payment \notin Payments
  BY <1>1, NoneIsNeither DEF CallInv, AnswersName, Answered
<1>3. Request(c) \in Promises!Requests BY <1>1, RequestOfCall DEF Asking
<1>4. Promised[p] = {} BY <1>1, PromisedTo
<1>5. resource_id[call[c].key] = None BY <1>1 DEF HolderInv, OneHolder, InTransaction
<1>6. Promised' = [Promised EXCEPT ![p] = Promised[p] \cup {Request(c)}]
  BY <1>1, <1>2, PromiseAdded
<1>7. Promised' = [Promised EXCEPT ![p] = {Request(c)}] BY <1>4, <1>6
<1>8. Request(c).key = call[c].key BY DEF Request
<1>9. Promises!Promise(p, Request(c)) BY <1>1, <1>4, <1>5, <1>7, <1>8 DEF Promises!Promise
<1> QED BY <1>1, <1>3, <1>9

\* A replay repeats a promise.
LEMMA ReplayRepeats ==
  ASSUME CheckoutInv, NEW c \in Calls, Replayed(c)
  PROVE  UNCHANGED <<Promised, resource_id, status, items>>
<1> USE DEF CheckoutInv
<1> DEFINE p == resource_id[call[c].key]
<1>1. /\ call'[c].payment = p /\ p # None /\ request_hash[call[c].key] = call[c].body
      /\ Others(c) /\ Same(c) /\ call[c].state = "sent"
      /\ UNCHANGED <<resource_id, status, items>>
  BY DEF Replayed, Moves, ledgerVars
<1>2. call[c].key \in Keys BY <1>1 DEF CallInv, CallsAreKeyed, Asking
<1>3. p \in Payments BY <1>1, <1>2, Types DEF CallInv
<1>4. status[p] # "absent" /\ key_of[p] = call[c].key /\ items[p] = ToSet(call[c].body)
  BY <1>1, <1>2 DEF LedgerInv, StoredAnswersAreTrue
<1>5. PICK d \in Calls : call[d].payment = p BY <1>3, <1>4 DEF HolderInv, PaymentsWereAnswered
<1>6. call[d].key = key_of[p] /\ ToSet(call[d].body) = items[p]
  BY <1>3, <1>4, <1>5, NoneIsNeither DEF LedgerInv, AnswersShareKeys, AnsweredForWhatWasAsked
<1>7. Request(c) \in Promised[p]
  <2>1. Request(c) = Request(d) BY <1>4, <1>6 DEF Request
  <2>2. Request(d) \in Promised[p] BY <1>3, <1>5, PromisedTo
  <2> QED BY <2>1, <2>2
<1>8. call[c].payment \notin Payments
  BY <1>1, NoneIsNeither DEF CallInv, AnswersName, Answered
<1>9. Promised' = [Promised EXCEPT ![p] = Promised[p] \cup {Request(c)}]
  BY <1>1, <1>3, <1>8, PromiseAdded
<1>10. Promised' = [Promised EXCEPT ![p] = Promised[p]]
  <2>1. Promised[p] \cup {Request(c)} = Promised[p] BY <1>7
  <2> QED BY <1>9, <2>1
<1>11. Promised' = Promised BY <1>10 DEF Promised
<1> QED BY <1>1, <1>11

\* A commit keeps a promise.
LEMMA CommitKeeps ==
  ASSUME CheckoutInv, Typed', NEW c \in Calls, Committed(c)
  PROVE  \E p \in Payments, r \in Promises!Requests : Promises!Keep(p, r)
<1> USE DEF CheckoutInv
<1> DEFINE p == call[c].payment
           k == call[c].key
<1>1. call[c].state = "replied" BY DEF Committed, Moves
<1>2. k \in Keys /\ resource_id[k] = None /\ p \in Payments /\ status[p] = "absent"
  BY <1>1, CommitFinds
<1>3. Request(c) \in Promises!Requests BY <1>1, RequestOfCall DEF Asking
<1>4. Request(c) \in Promised[p] BY <1>2, PromisedTo
<1>5. Promised' = Promised
  <2>1. Others(c) /\ Same(c) /\ call'[c].payment = call[c].payment BY DEF Committed, Moves
  <2> QED BY <2>1, PromisesUnchanged DEF Others, Same, Request, KeepsRequest
<1>6. /\ status \in [Payments -> {"absent", "initiated", "success", "failed"}]
      /\ items \in [Payments -> SUBSET Installments] /\ resource_id \in [Keys -> Payments \cup {None}]
  BY DEF CallInv, Typed
<1>7. /\ status' \in [Payments -> {"absent", "initiated", "success", "failed"}]
      /\ items' \in [Payments -> SUBSET Installments] /\ resource_id' \in [Keys -> Payments \cup {None}]
  BY DEF Typed
<1>8. /\ status' = [status EXCEPT ![p] = "initiated"]
      /\ items' = [items EXCEPT ![p] = ToSet(call[c].body)]
      /\ resource_id' = [resource_id EXCEPT ![k] = p]
  BY <1>2, <1>6, <1>7 DEF Committed
<1>9. Request(c).key = k /\ Request(c).items = ToSet(call[c].body) BY DEF Request
<1>10. Promises!Keep(p, Request(c)) BY <1>2, <1>4, <1>5, <1>8, <1>9 DEF Promises!Keep
<1> QED BY <1>2, <1>3, <1>10

\* An outcome decides a payment that was made.
LEMMA OutcomeDecides ==
  ASSUME CheckoutInv, Typed', NEW p \in Payments, Decided(p)
  PROVE  \E o \in {"success", "failed"} : Promises!Decide(p, o)
<1>1. /\ status \in [Payments -> {"absent", "initiated", "success", "failed"}]
      /\ status' \in [Payments -> {"absent", "initiated", "success", "failed"}]
  BY DEF CheckoutInv, CallInv, Typed
<1>2. /\ status[p] = "initiated" /\ status'[p] \in {"success", "failed"}
      /\ \A q \in Payments : q # p => status'[q] = status[q]
      /\ UNCHANGED <<call, resource_id, items>>
  BY DEF Decided, Terminal, ledgerVars
<1>3. status' = [status EXCEPT ![p] = status'[p]] BY <1>1, <1>2
<1>4. UNCHANGED Promised BY <1>2 DEF Promised
<1>5. Promises!Decide(p, status'[p]) BY <1>2, <1>3, <1>4 DEF Promises!Decide
<1> QED BY <1>2, <1>5

\* Every step keeps the promises or does nothing about them.
LEMMA StepPromises ==
  ASSUME CheckoutInv, Typed', Kinds
  PROVE  [Promises!Next]_(Promises!vars)
<1>1. ASSUME UNCHANGED <<Promised, resource_id, status, items>> PROVE UNCHANGED Promises!vars
  BY <1>1 DEF Promises!vars
<1>2. CASE UNCHANGED ledger
  <2>1. UNCHANGED <<Promised, resource_id, status, items>> BY <1>2 DEF ledger, ledgerVars, Promised
  <2> QED BY <1>1, <2>1
<1>3. ASSUME NEW c \in Calls, Pressed(c) \/ Refused(c) \/ Opened(c) \/ Lost(c)
      PROVE  UNCHANGED Promises!vars
  <2>1. \A d \in Calls : KeepsRequest(d)
    <3>1. \A d \in Calls : d # c => call'[d] = call[d]
      BY <1>3 DEF Pressed, Refused, Opened, Lost, Moves, Others
    <3>2. CASE Pressed(c) \/ Refused(c)
      BY <3>1, <3>2, NoneIsNeither DEF Pressed, Refused, Request, KeepsRequest, CheckoutInv, CallInv, AnswersName, Answered
    <3>3. CASE Opened(c) \/ Lost(c)
      BY <3>1, <3>3 DEF Opened, Lost, Moves, Same, Request, KeepsRequest
    <3> QED BY <1>3, <3>2, <3>3
  <2>2. UNCHANGED <<resource_id, status, items>>
    BY <1>3 DEF Pressed, Refused, Opened, Lost, ledgerVars
  <2>3. Promised' = Promised BY <2>1, PromisesUnchanged
  <2> QED BY <1>1, <2>2, <2>3
<1>4. ASSUME NEW c \in Calls, Replied(c) PROVE Promises!Next
  BY <1>4, ReplyPromises DEF Promises!Next
<1>5. ASSUME NEW c \in Calls, Replayed(c) PROVE UNCHANGED Promises!vars
  BY <1>1, <1>5, ReplayRepeats
<1>6. ASSUME NEW c \in Calls, Committed(c) PROVE Promises!Next
  BY <1>6, CommitKeeps DEF Promises!Next
<1>7. ASSUME NEW p \in Payments, Decided(p) PROVE Promises!Next
  BY <1>7, OutcomeDecides DEF Promises!Next
<1> QED BY <1>2, <1>3, <1>4, <1>5, <1>6, <1>7 DEF Kinds

\* Checkout implements PaymentPromises, however calls overlap, are lost, replayed or
\* rolled back: an answer promises one payment to one request, and a key has one at most.
THEOREM CheckoutKeepsPromises == Spec => KeepsPromises
<1>1. CheckoutInv /\ [Next]_vars => Typed' /\ Kinds
  BY StepKinds DEF CheckoutInv, CallInv
<1>2. CheckoutInv /\ [Next]_vars => [Promises!Next]_(Promises!vars)
  BY <1>1, StepPromises
<1> QED BY <1>2, InitPromises, CheckoutCorrect, PTL DEF Spec, Promises!Spec, KeepsPromises

-----------------------------------------------------------------------------
(* The types of the columns no theorem above needed.                       *)

States == {"absent", "initiated"} \cup Terminal

Pages ==
  /\ page \in [Tabs -> Payments \cup {None}]
  /\ rows \in [Tabs -> [Installments -> {"hidden", "due", "paid"}]]
  /\ pending \in [Tabs -> Calls \cup {None}]
  /\ shown \in [Tabs -> States]
  /\ polling \in [Tabs -> BOOLEAN]
  /\ inst_status \in [Installments -> {"due", "paid"}]

\* Only a payment's page polls.
PollerHasPayment == \A t \in Tabs : polling[t] => page[t] # None

PagesInv == Pages /\ PollerHasPayment

\* The page of a payment shows a status rows can have.
LEMMA ShowTyped ==
  ASSUME Typed, PagesInv, NEW t \in Tabs, NEW p \in Payments, ShowPayment(t, p)
  PROVE  /\ page' \in [Tabs -> Payments \cup {None}] /\ shown' \in [Tabs -> States]
         /\ polling' \in [Tabs -> BOOLEAN] /\ PollerHasPayment'
<1>1. p # None /\ status[p] \in States
  BY NoneIsNeither DEF Typed, States, Terminal
<1>2. page' = [page EXCEPT ![t] = p] /\ shown' = [shown EXCEPT ![t] = status[p]]
  BY DEF ShowPayment
<1>3. polling' = [polling EXCEPT ![t] = status[p] = "initiated"]
  BY DEF ShowPayment
<1>4. PICK b \in BOOLEAN : b = (status[p] = "initiated") OBVIOUS
<1>5. polling' = [polling EXCEPT ![t] = b] BY <1>3, <1>4
<1>6. page' \in [Tabs -> Payments \cup {None}] /\ shown' \in [Tabs -> States]
  BY <1>1, <1>2 DEF PagesInv, Pages
<1>7. polling' \in [Tabs -> BOOLEAN] BY <1>5 DEF PagesInv, Pages
<1>8. PollerHasPayment'
  <2>1. ASSUME NEW u \in Tabs, u # t
        PROVE  page'[u] = page[u] /\ polling'[u] = polling[u]
    BY <1>2, <1>5, <2>1 DEF PagesInv, Pages
  <2>2. page'[t] = p BY <1>2 DEF PagesInv, Pages
  <2> QED BY <1>1, <2>1, <2>2 DEF PagesInv, PollerHasPayment
<1> QED BY <1>6, <1>7, <1>8

\* A list shows what the table says, or nothing.
LEMMA LoadedTyped ==
  ASSUME Pages, NEW filter
  PROVE  Loaded(filter) \in [Installments -> {"hidden", "due", "paid"}]
  BY DEF Pages, Loaded

\* At first every tab shows the list.
LEMMA InitPages == Init => PagesInv
  BY NoneIsNeither DEF Init, PagesInv, Pages, PollerHasPayment, States

\* Every step keeps the pages in type.
LEMMA PagesKept ==
  ASSUME CheckoutInv, PagesInv, [Next]_vars
  PROVE  PagesInv'
<1> DEFINE pages == <<page, rows, pending, shown, polling, inst_status>>
<1>0. Typed BY DEF CheckoutInv, CallInv
<1>1. CASE UNCHANGED pages BY <1>1 DEF PagesInv, Pages, PollerHasPayment
<1>2. ASSUME NEW t \in Tabs, NEW filter, ChooseFilter(t, filter) PROVE PagesInv'
  <2>1. Loaded(filter) \in [Installments -> {"hidden", "due", "paid"}] BY LoadedTyped DEF PagesInv
  <2>2. rows' \in [Tabs -> [Installments -> {"hidden", "due", "paid"}]]
    BY <1>2, <2>1 DEF ChooseFilter, PagesInv, Pages
  <2> QED BY <1>2, <2>2 DEF ChooseFilter, dataVars, PagesInv, Pages, PollerHasPayment
<1>3. ASSUME NEW t \in Tabs, OpenList(t) PROVE PagesInv'
  <2>1. Loaded({"due", "paid"}) \in [Installments -> {"hidden", "due", "paid"}]
    BY LoadedTyped DEF PagesInv
  <2>2. rows' \in [Tabs -> [Installments -> {"hidden", "due", "paid"}]]
    BY <1>3, <2>1 DEF OpenList, PagesInv, Pages
  <2>3. /\ page' = [page EXCEPT ![t] = None] /\ pending' = [pending EXCEPT ![t] = None]
        /\ shown' = [shown EXCEPT ![t] = "absent"] /\ polling' = [polling EXCEPT ![t] = FALSE]
        /\ UNCHANGED inst_status
    BY <1>3 DEF OpenList, dataVars
  <2> QED BY <2>2, <2>3 DEF PagesInv, Pages, PollerHasPayment, States
<1>4. ASSUME NEW t \in Tabs, NEW scope \in Scopes, PressPay(t, scope) PROVE PagesInv'
  <2>1. PICK c \in Calls : pending' = [pending EXCEPT ![t] = c] BY <1>4 DEF PressPay, First
  <2> QED BY <1>4, <2>1 DEF PressPay, dataVars, PagesInv, Pages, PollerHasPayment
<1>5. ASSUME NEW t \in Tabs, ReloadPayment(t) \/ Poll(t) PROVE PagesInv'
  <2>1. page[t] \in Payments BY <1>5 DEF ReloadPayment, Poll, PagesInv, Pages, PollerHasPayment
  <2>2. ShowPayment(t, page[t]) /\ UNCHANGED <<rows, pending, inst_status>>
    BY <1>5 DEF ReloadPayment, Poll, dataVars
  <2> QED BY <1>0, <2>1, <2>2, ShowTyped DEF PagesInv, Pages
<1>6. ASSUME NEW t \in Tabs, TakeAnswer(t) PROVE PagesInv'
  <2>1. pending[t] \in Calls /\ pending' \in [Tabs -> Calls \cup {None}] /\ UNCHANGED inst_status
    BY <1>6 DEF TakeAnswer, dataVars, PagesInv, Pages
  <2>2. CASE call[pending[t]].state = "refused"
    BY <1>6, <2>1, <2>2 DEF TakeAnswer, PagesInv, Pages, PollerHasPayment
  <2>3. CASE call[pending[t]].state # "refused"
    <3>1. /\ Answered(pending[t]) /\ ShowPayment(t, call[pending[t]].payment)
          /\ rows' = [rows EXCEPT ![t] = [i \in Installments |-> "hidden"]]
      BY <1>6, <2>3 DEF TakeAnswer, Answered
    <3>2. call[pending[t]].payment \in Payments
      BY <2>1, <3>1 DEF CheckoutInv, CallInv, AnswersName
    <3>3. rows' \in [Tabs -> [Installments -> {"hidden", "due", "paid"}]]
      <4>1. [i \in Installments |-> "hidden"] \in [Installments -> {"hidden", "due", "paid"}]
        OBVIOUS
      <4> QED BY <3>1, <4>1 DEF PagesInv, Pages
    <3> QED BY <1>0, <2>1, <3>1, <3>2, <3>3, ShowTyped DEF PagesInv, Pages
  <2> QED BY <2>2, <2>3
<1>7. ASSUME NEW t \in Tabs, User(t) \/ TakeAnswer(t) \/ Poll(t) PROVE PagesInv'
  <2>1. CASE (\E i \in Installments : Toggle(t, i)) \/ (\E f \in Files : UploadFile(t, f))
    BY <1>1, <2>1 DEF Toggle, UploadFile, dataVars
  <2> QED BY <1>2, <1>3, <1>4, <1>5, <1>6, <1>7, <2>1 DEF User
<1>8. ASSUME NEW c \in Calls, Serve(c) \/ RateLimit(c) PROVE PagesInv'
  BY <1>1, <1>8 DEF Serve, RateLimit, Claim, Replay, Reply, Commit, Abort, CallEnters, CallRefused,
                    tabVars, dataVars
<1>9. ASSUME UNCHANGED tabVars, NEW S \in SUBSET Installments,
             inst_status' = [i \in Installments |-> IF i \in S THEN "paid" ELSE inst_status[i]]
      PROVE  PagesInv'
  BY <1>9 DEF tabVars, PagesInv, Pages, PollerHasPayment
<1>10. ASSUME NEW p \in Payments, NEW o \in Terminal, Outcome(p, o) PROVE PagesInv'
  <2> DEFINE S == {i \in Installments : o = "success" /\ i \in items[p]}
  <2>1. inst_status' = [i \in Installments |-> IF i \in S THEN "paid" ELSE inst_status[i]]
    BY <1>10 DEF Outcome
  <2>2. UNCHANGED tabVars BY <1>10 DEF Outcome
  <2> QED BY <1>9, <2>1, <2>2
<1>11. ASSUME NEW i \in Contested, PaidElsewhere(i) PROVE PagesInv'
  BY <1>11 DEF PaidElsewhere, tabVars, PagesInv, Pages, PollerHasPayment
<1>12. CASE UNCHANGED vars BY <1>1, <1>12 DEF vars, tabVars, dataVars
<1> QED BY <1>7, <1>8, <1>10, <1>11, <1>12 DEF Next

\* Every column and every part of a request keeps its type: what is submitted are lists of
\* installments, and a page that polls is that of a payment.
THEOREM CheckoutTypeCorrect == Spec => []TypeOK
<1>1. CheckoutInv /\ PagesInv => TypeOK
  BY DEF CheckoutInv, CallInv, Typed, Selections, PagesInv, Pages, TypeOK, States, Terminal
<1>2. CheckoutInv /\ PagesInv /\ [Next]_vars => PagesInv' BY PagesKept
<1> QED BY <1>1, <1>2, InitPages, CheckoutCorrect, PTL DEF Spec
=============================================================================
