------------------------------- MODULE Checkout -------------------------------
(***************************************************************************)
(* How one broker user starts payments from browser tabs: the list of      *)
(* installments with its selection, the idempotency keys a tab keeps in    *)
(* sessionStorage, the server action that calls the back end, the ledger   *)
(* of idempotency keys there, and the page that waits for the outcome.     *)
(*                                                                         *)
(* A call is one POST /payments or POST /payments/bulk.  The back end      *)
(* claims the key, creates the row and stores the answer in one            *)
(* transaction, which commits only after the answer has left (the exit     *)
(* code of get_db), so an answer may be followed by a rollback.  A second  *)
(* INSERT of a claimed key waits for the first transaction to end.         *)
(*                                                                         *)
(* Initiation and outcome are Collection's, here without accounts, money   *)
(* or overlapping outcomes: what matters is which call created which row.  *)
(***************************************************************************)
EXTENDS Integers, FiniteSets, Sequences, SequencesExt

CONSTANTS
  Tabs,         \* browser tabs of the user
  Installments, \* the broker's installments, numbered in the order of the table
  Keys,         \* the UUIDs browsers generate, numbered in that order
  Payments,     \* ids of payments and payment_batches rows, numbered likewise
  Calls,        \* requests to the back end, numbered in the order they are made
  Contested,    \* installments that other users of the broker may pay
  References,   \* reference numbers
  RefOf,        \* reference_number of an installment, which need not be unique
  Files,        \* uploads: the reference numbers in the order of their rows
  MaxItems,     \* MAX_BULK_ITEMS, and max_bulk_payment_items of the back end
  None

ASSUME CheckoutAssumption ==
  /\ Installments \subseteq Nat /\ IsFiniteSet(Installments)
  /\ MaxItems \in Nat \ {0}
  /\ Contested \subseteq Installments
  /\ RefOf \in [Installments -> References]
  /\ Files \subseteq Seq(References)
  /\ Keys \subseteq Nat /\ Payments \subseteq Nat /\ Calls \subseteq Nat
  /\ None \notin Nat

VARIABLES
  stored,     \* sessionStorage of a tab: the key kept under each scope
  page,       \* the payment whose page a tab shows, None for the list of installments
  rows,       \* the list as a tab loaded it: the status of each row, or "hidden"
  selected,   \* InstallmentsWorkspace's selection, in insertion order
  pending,    \* the call whose answer a tab waits for
  shown,      \* the status a payment's page was rendered with
  polling,    \* the page's PaymentStatusPoller still runs
  call,       \* requests to the back end
  request_hash, \* idempotency_keys: the body a key was claimed with
  resource_id,  \* and the payment in the answer stored with it, None if the key has no row
  status,     \* status of payments and payment_batches rows, "absent" if no row
  items,      \* the installments a row collects
  key_of,     \* idempotency_key_id of a row
  inst_status \* premium_installments.status, "due" standing for overdue as well

tabVars  == <<stored, page, rows, selected, pending, shown, polling>>
ledgerVars == <<request_hash, resource_id>>
dataVars == <<ledgerVars, status, items, key_of, inst_status>>
vars == <<tabVars, call, dataVars>>

\* The next number to be used.
First(S) == {n \in S : \A m \in S : n <= m}

\* The members of S in the given order: a set of one sequence.
Listed(S, Before(_, _)) ==
  {s \in [1..Cardinality(S) -> S] : \A m, n \in DOMAIN s : m < n => Before(s[m], s[n])}

\* A key is kept per installment, or per set of selected installments.
Scopes == [kind : {"single", "bulk"}, ids : SUBSET Installments]

Terminal == {"success", "failed"}

NoCall == [state |-> "unused", tab |-> None, scope |-> None, key |-> None,
           body |-> <<>>, payment |-> None]

Call ==
  [state : {"unused", "sent", "open", "replied", "done", "lost", "refused"},
   tab : Tabs \cup {None}, scope : Scopes \cup {None}, key : Keys \cup {None},
   body : Seq(Installments), payment : Payments \cup {None}]

TypeOK ==
  /\ stored \in [Tabs -> [Scopes -> Keys \cup {None}]]
  /\ page \in [Tabs -> Payments \cup {None}]
  /\ rows \in [Tabs -> [Installments -> {"hidden", "due", "paid"}]]
  /\ selected \in [Tabs -> Seq(Installments)]
  /\ pending \in [Tabs -> Calls \cup {None}]
  /\ shown \in [Tabs -> {"absent", "initiated"} \cup Terminal]
  /\ polling \in [Tabs -> BOOLEAN]
  /\ call \in [Calls -> Call]
  /\ request_hash \in [Keys -> Seq(Installments)]
  /\ resource_id \in [Keys -> Payments \cup {None}]
  /\ status \in [Payments -> {"absent", "initiated"} \cup Terminal]
  /\ items \in [Payments -> SUBSET Installments]
  /\ key_of \in [Payments -> Keys \cup {None}]
  /\ inst_status \in [Installments -> {"due", "paid"}]

Init ==
  /\ stored = [t \in Tabs |-> [s \in Scopes |-> None]]
  /\ page = [t \in Tabs |-> None]
  /\ rows = [t \in Tabs |-> [i \in Installments |-> "due"]]
  /\ selected = [t \in Tabs |-> <<>>]
  /\ pending = [t \in Tabs |-> None]
  /\ shown = [t \in Tabs |-> "absent"]
  /\ polling = [t \in Tabs |-> FALSE]
  /\ call = [c \in Calls |-> NoCall]
  /\ request_hash = [k \in Keys |-> <<>>]
  /\ resource_id = [k \in Keys |-> None]
  /\ status = [p \in Payments |-> "absent"]
  /\ items = [p \in Payments |-> {}]
  /\ key_of = [p \in Payments |-> None]
  /\ inst_status = [i \in Installments |-> "due"]

-----------------------------------------------------------------------------
(* The list of installments.                                               *)

\* What the list shows under a filter of the page; the tab has no memory of
\* rows it does not show.
Loaded(filter) == [i \in Installments |-> IF inst_status[i] \in filter THEN inst_status[i]
                                          ELSE "hidden"]

Filters == {{"due", "paid"}, {"due"}, {"paid"}}

\* Another filter of the same page keeps the component and its selection.
ChooseFilter(t, filter) ==
  /\ page[t] = None
  /\ rows' = [rows EXCEPT ![t] = Loaded(filter)]
  /\ UNCHANGED <<stored, page, selected, pending, shown, polling, call, dataVars>>

\* The list opened again: from elsewhere, or by a reload, which gives up on a
\* pending call.  sessionStorage stays.
OpenList(t) ==
  /\ page' = [page EXCEPT ![t] = None]
  /\ rows' = [rows EXCEPT ![t] = Loaded({"due", "paid"})]
  /\ selected' = [selected EXCEPT ![t] = <<>>]
  /\ pending' = [pending EXCEPT ![t] = None]
  /\ shown' = [shown EXCEPT ![t] = "absent"]
  /\ polling' = [polling EXCEPT ![t] = FALSE]
  /\ UNCHANGED <<stored, call, dataVars>>

\* The checkbox of a payable row; none is ticked beyond the cap.
Toggle(t, i) ==
  /\ page[t] = None /\ rows[t][i] = "due"
  /\ \/ \E n \in DOMAIN selected[t] :
          selected[t][n] = i /\ selected' = [selected EXCEPT ![t] = RemoveAt(@, n)]
     \/ /\ i \notin ToSet(selected[t]) /\ Len(selected[t]) < MaxItems
        /\ selected' = [selected EXCEPT ![t] = Append(@, i)]
  /\ UNCHANGED <<stored, page, rows, pending, shown, polling, call, dataVars>>

\* resolve_installments_from_excel: a row is matched by a reference number that names
\* exactly one installment, a payable one, and only the first time it occurs.
Named(ref) == {i \in Installments : RefOf[i] = ref}
IsMatched(file, n) ==
  /\ \E i \in Installments : Named(file[n]) = {i} /\ inst_status[i] = "due"
  /\ \A m \in 1..(n - 1) : file[m] # file[n]
Matched(file) == Listed({n \in DOMAIN file : IsMatched(file, n)}, LAMBDA m, n : m < n)

\* Every answered upload replaces the selection by its matched rows, up to the cap.
UploadFile(t, file) ==
  /\ page[t] = None
  /\ \E hits \in Matched(file) :
       selected' = [selected EXCEPT ![t] = [n \in 1..Min({Len(hits), MaxItems}) |->
         CHOOSE i \in Installments : RefOf[i] = file[hits[n]]]]
  /\ UNCHANGED <<stored, page, rows, pending, shown, polling, call, dataVars>>

\* What the bulk form submits: selected rows without a row in the table as hidden
\* inputs, then the ticked checkboxes in the order of the table: a set of one body.
Submitted(t) ==
  LET Ticked(s) == {i \in ToSet(selected[t]) : rows[t][i] = s}
      Chosen(i, j) == \E m, n \in DOMAIN selected[t] :
                        m < n /\ selected[t][m] = i /\ selected[t][n] = j
  IN  {hidden \o visible : hidden \in Listed(Ticked("hidden"), Chosen),
                           visible \in Listed(Ticked("due"), LAMBDA i, j : i < j)}

Submission(t, scope) ==
  IF scope.kind = "bulk" THEN Submitted(t) ELSE {<<i>> : i \in scope.ids}

\* The Pay button of a row or of the selection.
Offered(t, scope) ==
  IF scope.kind = "bulk" THEN scope.ids = ToSet(selected[t]) /\ scope.ids # {}
  ELSE \E i \in Installments : scope.ids = {i} /\ rows[t][i] = "due"

NewKey == First({k \in Keys : \A u \in Tabs, s \in Scopes : stored[u][s] # k})

NewKeyEachTime(t, scope) ==
  First({k \in Keys : (\A u \in Tabs, s \in Scopes : stored[u][s] # k)
                      /\ \A c \in Calls : call[c].key # k})

\* A scope's key is generated once per tab and kept.
KeyFor(t, scope) ==
  IF stored[t][scope] # None THEN {stored[t][scope]} ELSE NewKey

\* The tab submits one form at a time.  A selection of which nothing is submitted is
\* answered by the server action itself.
PressPay(t, scope) ==
  /\ page[t] = None /\ pending[t] = None
  /\ Offered(t, scope)
  /\ \E k \in KeyFor(t, scope), c \in First({d \in Calls : call[d].state = "unused"}),
        body \in Submission(t, scope) \ {<<>>} :
       /\ stored' = [stored EXCEPT ![t] = [@ EXCEPT ![scope] = k]]
       /\ call' = [call EXCEPT ![c] =
            [state |-> "sent", tab |-> t, scope |-> scope, key |-> k,
             body |-> body, payment |-> None]]
       /\ pending' = [pending EXCEPT ![t] = c]
  /\ UNCHANGED <<page, rows, selected, shown, polling, dataVars>>

-----------------------------------------------------------------------------
(* The back end: claim_idempotency_key, with_idempotency and get_db.       *)

\* Transactions in progress, and the keys whose INSERT they have not committed.
InTransaction(c) == call[c].state \in {"open", "replied"}
HeldAfterLoss(k) ==
  \E c \in Calls : call[c].state \in {"open", "replied", "lost"} /\ call[c].key = k
Held(k) == \E c \in Calls : InTransaction(c) /\ call[c].key = k

CallEnters(c, state) ==
  /\ call' = [call EXCEPT ![c].state = state]
  /\ UNCHANGED <<tabVars, dataVars>>

\* An error answer: whatever the transaction wrote is rolled back, its claim included.
CallRefused(c) ==
  /\ call' = [call EXCEPT ![c] = [NoCall EXCEPT !.state = "refused"]]
  /\ UNCHANGED <<tabVars, dataVars>>

InFlight(i) == \E p \in Payments : status[p] = "initiated" /\ i \in items[p]

\* The checks of initiate_payment and initiate_bulk_payment.
Payable(body) ==
  /\ Len(body) <= MaxItems
  /\ \A i \in ToSet(body) : inst_status[i] = "due" /\ ~InFlight(i)

ClaimUnlocked(c) ==
  /\ call[c].state = "sent"
  /\ resource_id[call[c].key] = None
  /\ IF Payable(call[c].body) THEN CallEnters(c, "open") ELSE CallRefused(c)

\* A key that is new: the INSERT of the claim, then the checks.
Claim(c) ==
  /\ call[c].state = "sent"
  /\ ~Held(call[c].key) /\ resource_id[call[c].key] = None
  /\ IF Payable(call[c].body) THEN CallEnters(c, "open") ELSE CallRefused(c)

\* The rate limit answers 429 before anything else.
RateLimit(c) == call[c].state = "sent" /\ CallRefused(c)

ReplayAnyBody(c) ==
  LET k == call[c].key
  IN  /\ call[c].state = "sent"
      /\ ~Held(k) /\ resource_id[k] # None
      /\ call' = [call EXCEPT ![c].state = "done", ![c].payment = resource_id[k]]
      /\ UNCHANGED <<tabVars, dataVars>>

\* A key whose answer is stored: the same body gets the same answer again, another
\* body a conflict.
Replay(c) ==
  LET k == call[c].key
  IN  /\ call[c].state = "sent"
      /\ ~Held(k) /\ resource_id[k] # None
      /\ IF request_hash[k] # call[c].body THEN CallRefused(c) ELSE
           /\ call' = [call EXCEPT ![c].state = "done", ![c].payment = resource_id[k]]
           /\ UNCHANGED <<tabVars, dataVars>>

\* The row is inserted, its answer stored with the key, and the answer sent.
Reply(c) ==
  /\ call[c].state = "open"
  /\ \E p \in First({q \in Payments : \A d \in Calls : call[d].payment # q}) :
       /\ call' = [call EXCEPT ![c].state = "replied", ![c].payment = p]
  /\ UNCHANGED <<tabVars, dataVars>>

Commit(c) ==
  LET p == call[c].payment
  IN  /\ call[c].state = "replied"
      /\ status' = [status EXCEPT ![p] = "initiated"]
      /\ items' = [items EXCEPT ![p] = ToSet(call[c].body)]
      /\ key_of' = [key_of EXCEPT ![p] = call[c].key]
      /\ request_hash' = [request_hash EXCEPT ![call[c].key] = call[c].body]
      /\ resource_id' = [resource_id EXCEPT ![call[c].key] = p]
      /\ call' = [call EXCEPT ![c].state = "done"]
      /\ UNCHANGED <<tabVars, inst_status>>

\* A crash or a failed statement: claim and row go together, and a call not yet
\* answered is answered with an error.
Abort(c) ==
  \/ call[c].state = "open" /\ CallRefused(c)
  \/ call[c].state = "replied" /\ CallEnters(c, "lost")

\* The outcome of a payment, reached by webhook or reconciliation.
Outcome(p, o) ==
  /\ status[p] = "initiated"
  /\ status' = [status EXCEPT ![p] = o]
  /\ inst_status' = [i \in Installments |->
       IF o = "success" /\ i \in items[p] THEN "paid" ELSE inst_status[i]]
  /\ UNCHANGED <<tabVars, call, ledgerVars, items, key_of>>

\* Another user of the broker has paid for an installment.
PaidElsewhere(i) ==
  /\ inst_status[i] = "due" /\ ~InFlight(i)
  /\ inst_status' = [inst_status EXCEPT ![i] = "paid"]
  /\ UNCHANGED <<tabVars, call, ledgerVars, status, items, key_of>>

-----------------------------------------------------------------------------
(* What the tab makes of an answer.                                        *)

\* The page of a payment, rendered from what the back end has committed: a row that
\* is not there gives an error page.
ShowPayment(t, p) ==
  /\ page' = [page EXCEPT ![t] = p]
  /\ shown' = [shown EXCEPT ![t] = status[p]]
  /\ polling' = [polling EXCEPT ![t] = status[p] = "initiated"]

\* The server action redirects on a 201, and otherwise returns the error to the form.
TakeAnswer(t) ==
  LET c == pending[t]
  IN  /\ c # None
      /\ pending' = [pending EXCEPT ![t] = None]
      /\ \/ /\ call[c].state \in {"replied", "done", "lost"}
            /\ ShowPayment(t, call[c].payment)
            /\ rows' = [rows EXCEPT ![t] = [i \in Installments |-> "hidden"]]
            /\ selected' = [selected EXCEPT ![t] = <<>>]
         \/ /\ call[c].state = "refused"
            /\ UNCHANGED <<page, rows, selected, shown, polling>>
      /\ UNCHANGED <<stored, call, dataVars>>

ReloadPayment(t) ==
  /\ page[t] # None
  /\ ShowPayment(t, page[t])
  /\ UNCHANGED <<stored, rows, selected, pending, call, dataVars>>

PollWithoutRefresh(t) ==
  /\ polling[t] /\ status[page[t]] # "initiated"
  /\ polling' = [polling EXCEPT ![t] = FALSE]
  /\ UNCHANGED <<stored, page, rows, selected, pending, shown, call, dataVars>>

\* A poll that finds a final status stops polling and refreshes the page; one that
\* finds "initiated", or fails, is tried again.
Poll(t) ==
  /\ polling[t] /\ status[page[t]] # "initiated"
  /\ ShowPayment(t, page[t])
  /\ UNCHANGED <<stored, rows, selected, pending, call, dataVars>>

-----------------------------------------------------------------------------
User(t) ==
  \/ \E filter \in Filters : ChooseFilter(t, filter)
  \/ OpenList(t)
  \/ \E i \in Installments : Toggle(t, i)
  \/ \E file \in Files : UploadFile(t, file)
  \/ \E scope \in Scopes : PressPay(t, scope)
  \/ ReloadPayment(t)

Serve(c) == Claim(c) \/ Replay(c) \/ Reply(c) \/ Commit(c) \/ Abort(c)

Next ==
  \/ \E t \in Tabs : User(t) \/ TakeAnswer(t) \/ Poll(t)
  \/ \E c \in Calls : Serve(c) \/ RateLimit(c)
  \/ \E p \in Payments, o \in Terminal : Outcome(p, o)
  \/ \E i \in Contested : PaidElsewhere(i)

Spec == Init /\ [][Next]_vars

\* The servers run, answers arrive, and an open page polls.  Nothing is assumed of
\* the user or of the money.
Fairness ==
  /\ \A c \in Calls : WF_vars(Serve(c))
  /\ \A t \in Tabs : WF_vars(TakeAnswer(t)) /\ WF_vars(Poll(t))

FairSpec == Spec /\ Fairness

-----------------------------------------------------------------------------
\* However often calls with one key overlap, are lost or are sent again, one payment
\* at most is created under the key, and the ledger of keys names it.
OnePaymentPerKey ==
  \A p \in Payments : status[p] # "absent" => resource_id[key_of[p]] = p

\* A 201 answer names a payment for exactly the installments that were submitted,
\* unless its transaction was rolled back after the answer.
AnsweredForWhatWasAsked ==
  \A c \in Calls : LET p == call[c].payment IN
    p # None => (status[p] = "absent" \/ items[p] = ToSet(call[c].body))

\* Of the payments created by a tab's calls for one scope at most one is in flight or
\* has succeeded, however many answers were lost and however the calls overlap: pressing
\* Pay again never collects twice.
RetryNeverPaysTwice ==
  \A c, d \in Calls : LET p == call[c].payment
                         q == call[d].payment IN
    /\ call[c].tab = call[d].tab /\ call[c].scope = call[d].scope
    /\ p # None /\ q # None
    => p = q \/ {status[p], status[q]} \cap {"absent", "failed"} # {}

\* The requests a payment was the answer of.
Promised ==
  [p \in Payments |-> {[key |-> call[c].key, items |-> ToSet(call[c].body)] :
                         c \in {d \in Calls : call[d].payment = p}}]

Promises == INSTANCE PaymentPromises WITH
  promised <- Promised, made <- resource_id, outcome <- status, collects <- items

\* Claims, waits, replays, conflicts, rollbacks and answers sent too early together keep
\* the promise of PaymentPromises: seen from the client, a call with a key is answered
\* with a payment that is this request's and, if it comes to be, the key's only one.
KeepsPromises == Promises!Spec

\* A press of Pay is answered, or given up by a reload: no call waits for ever behind
\* another that holds its key.
PressIsAnswered ==
  \A t \in Tabs, c \in Calls : pending[t] = c ~> pending[t] # c

\* An open payment page comes to show the outcome of its payment.
OutcomeIsShown ==
  \A t \in Tabs, p \in Payments :
    (page[t] = p /\ shown[t] = "initiated" /\ status[p] \in Terminal)
      ~> (page[t] # p \/ shown[t] = status[p])

=============================================================================
