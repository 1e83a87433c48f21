-------------------------------- MODULE Access --------------------------------
(***************************************************************************)
(* How one user gets into the application: one-time passwords and their    *)
(* replacement, the session cookie of each browser with its two hints for  *)
(* routing, the pages the hints lead to, and the gate of the back end that *)
(* does not trust them.                                                    *)
(*                                                                         *)
(* Three requests write the user's row: the user's change of password, the *)
(* activation of the seeded platform admin, and an admin's new one-time    *)
(* password.  Each loads the row, writes only the columns whose value      *)
(* changes, answers and then commits; its UPDATE waits for the row's lock. *)
(* Secrets are told apart by kind: whoever types one types the current     *)
(* one, as any other leaves everything as it was.                          *)
(***************************************************************************)
EXTENDS Naturals

CONSTANTS
  Browsers,    \* browsers of the user
  Admin,       \* the platform's admin, who issues one-time passwords
  MaxReissues, \* bound on new one-time passwords
  None

ASSUME AccessAssumption == Admin \notin Browsers /\ MaxReissues \in Nat

VARIABLES
  org,         \* status of the user's organization, "platform" for a platform admin
  hash,        \* what hashed_password holds: none, a onetime or a chosen password
  must_change, \* must_change_password
  otp,         \* otp_expires_at: none, still valid, or expired
  link,        \* the activation token: none, valid or expired
  issued,      \* one-time passwords reissued so far
  cookie,      \* the token a browser keeps, as parseSessionToken reads it
  page,        \* the page a browser shows
  request,     \* requests in progress that write the row
  raced        \* the last commit was by a request that had read an older row (history)

userVars == <<org, hash, must_change, otp, link, issued, raced>>
vars == <<userVars, cookie, page, request>>

Actors == Browsers \cup {Admin}

\* The row as loaded; asked: the browser still shows the form and waits.
Requests ==
  [kind : {"none", "change", "activate", "reissue"}, must : BOOLEAN, expires : BOOLEAN,
   asked : BOOLEAN, answered : BOOLEAN, stale : BOOLEAN]
Idle == [kind |-> "none", must |-> FALSE, expires |-> FALSE,
         asked |-> FALSE, answered |-> FALSE, stale |-> FALSE]

Pages == {"login", "activate", "change", "pending", "approved", "opening",
          "dashboard", "forbidden", "crashed"}

TypeOK ==
  /\ org \in {"pending", "approved", "rejected", "platform"}
  /\ hash \in {"none", "onetime", "chosen"}
  /\ must_change \in BOOLEAN
  /\ otp \in {"none", "valid", "expired"}
  /\ link \in {"none", "valid", "expired"}
  /\ issued \in 0..MaxReissues
  /\ cookie \in [Browsers -> [must : BOOLEAN, approved : BOOLEAN] \cup {None}]
  /\ page \in [Browsers -> Pages]
  /\ request \in [Actors -> Requests]
  /\ raced \in BOOLEAN

\* A user created with a one-time password, or the seeded platform admin.
Init ==
  /\ \/ /\ org \in {"pending", "approved"} /\ hash = "onetime"
        /\ must_change = TRUE /\ otp = "valid" /\ link = "none"
     \/ /\ org = "platform" /\ hash = "none"
        /\ must_change = FALSE /\ otp = "none" /\ link = "valid"
  /\ issued = 0
  /\ cookie = [b \in Browsers |-> None]
  /\ page = [b \in Browsers |-> "login"]
  /\ request = [a \in Actors |-> Idle]
  /\ raced = FALSE

-----------------------------------------------------------------------------
(* The organization and the clock.                                         *)

\* resolve_org_status counts a platform admin as approved.
Approved == org \in {"approved", "platform"}

Decide(status) ==
  /\ org = "pending"
  /\ org' = status
  /\ UNCHANGED <<hash, must_change, otp, link, issued, raced, cookie, page, request>>

OtpExpires ==
  /\ otp = "valid" /\ otp' = "expired"
  /\ UNCHANGED <<org, hash, must_change, link, issued, raced, cookie, page, request>>

LinkExpires ==
  /\ link = "valid" /\ link' = "expired"
  /\ UNCHANGED <<org, hash, must_change, otp, issued, raced, cookie, page, request>>

\* An hour is over.  Loading a page takes less.
CookieExpires(b) ==
  /\ cookie[b] # None /\ page[b] # "opening"
  /\ cookie' = [cookie EXCEPT ![b] = None]
  /\ UNCHANGED <<userVars, page, request>>

-----------------------------------------------------------------------------
(* Pages.                                                                  *)

\* require_full_access, on the row and never on the token.
FullAccess == ~must_change /\ Approved

\* PendingApprovalPage needs a session and an organization, and asks for its status.
PendingPage(c) ==
  IF c = None \/ org = "platform" THEN "crashed"
  ELSE IF org = "approved" THEN "approved" ELSE "pending"

\* The proxy and the layout follow the hints, then the back end answers or forbids.
Dashboard(c) ==
  IF c = None THEN "login"
  ELSE IF c.must THEN "change"
  ELSE IF ~c.approved THEN PendingPage(c)
  ELSE IF FullAccess THEN "dashboard" ELSE "forbidden"

Shown(b, path) ==
  CASE path = "pending" -> PendingPage(cookie[b])
    [] path = "dashboard" -> Dashboard(cookie[b])
    [] OTHER -> path

\* A page is opened or loaded again, leaving a form that waits.
Visit(b, path) ==
  /\ page[b] # "opening"
  /\ page' = [page EXCEPT ![b] = Shown(b, path)]
  /\ request' = [request EXCEPT ![b].asked = FALSE]
  /\ UNCHANGED <<userVars, cookie>>

Paths == {"login", "activate", "change", "pending", "dashboard"}

\* The navigation after a login or a change of password goes where the answer says,
\* which is where the new cookie leads.
Arrive(b) ==
  /\ page[b] = "opening"
  /\ page' = [page EXCEPT ![b] = Dashboard(cookie[b])]
  /\ UNCHANGED <<userVars, cookie, request>>

SignOut(b) ==
  /\ page[b] \in {"pending", "approved", "dashboard", "forbidden"}
  /\ cookie' = [cookie EXCEPT ![b] = None]
  /\ page' = [page EXCEPT ![b] = "login"]
  /\ UNCHANGED <<userVars, request>>

-----------------------------------------------------------------------------
(* Requests.                                                               *)

Token(must) == [must |-> must, approved |-> Approved]

\* A login that succeeds.  It only reads.
Login(b) ==
  /\ page[b] = "login"
  /\ hash # "none" /\ org # "rejected"
  /\ ~(must_change /\ otp = "expired")
  /\ cookie' = [cookie EXCEPT ![b] = Token(must_change)]
  /\ page' = [page EXCEPT ![b] = "opening"]
  /\ UNCHANGED <<userVars, request>>

\* A request reads the row.
Begin(a, kind) ==
  /\ request[a] = Idle
  /\ request' = [request EXCEPT ![a] =
       [Idle EXCEPT !.kind = kind, !.must = must_change, !.expires = otp # "none", !.asked = TRUE]]

\* With the current password, in a form that is only answered with a session.
SubmitChange(b) ==
  /\ page[b] = "change" /\ cookie[b] # None /\ hash # "none"
  /\ Begin(b, "change")
  /\ UNCHANGED <<userVars, cookie, page>>

SubmitActivation(b) ==
  /\ page[b] = "activate" /\ link = "valid"
  /\ Begin(b, "activate")
  /\ UNCHANGED <<userVars, cookie, page>>

\* Only the one admin user of an organization gets a new one-time password.
Reissue ==
  /\ org # "platform" /\ issued < MaxReissues
  /\ Begin(Admin, "reissue")
  /\ issued' = issued + 1
  /\ UNCHANGED <<org, hash, must_change, otp, link, raced, cookie, page>>

\* The UPDATE is done, which holds the row's lock until the transaction ends.
Flush(a) ==
  /\ request[a].kind # "none" /\ ~request[a].answered
  /\ \A c \in Actors : ~request[c].answered
  /\ request' = [request EXCEPT ![a].answered = TRUE]

\* The same with the token of the request.
AnswerChangeOldToken(b) ==
  /\ request[b].kind = "change"
  /\ Flush(b)
  /\ page' = IF request[b].asked THEN [page EXCEPT ![b] = "opening"] ELSE page
  /\ UNCHANGED <<userVars, cookie>>

\* The answer of a change carries a fresh token.  A browser that has left the form may
\* or may not store it.
AnswerChange(b) ==
  /\ request[b].kind = "change"
  /\ Flush(b)
  /\ \/ /\ request[b].asked
        /\ cookie' = [cookie EXCEPT ![b] = Token(FALSE)]
        /\ page' = [page EXCEPT ![b] = "opening"]
     \/ /\ ~request[b].asked
        /\ cookie' \in {cookie, [cookie EXCEPT ![b] = Token(FALSE)]}
        /\ UNCHANGED page
  /\ UNCHANGED userVars

\* The answer of an activation leads to the login.
AnswerActivation(b) ==
  /\ request[b].kind = "activate"
  /\ Flush(b)
  /\ page' = IF request[b].asked THEN [page EXCEPT ![b] = "login"] ELSE page
  /\ UNCHANGED <<userVars, cookie>>

AnswerReissue == Flush(Admin) /\ UNCHANGED <<userVars, cookie, page>>

Ended(a) == [c \in Actors |->
  IF c = a THEN Idle
  ELSE [request[c] EXCEPT !.stale = request[c].kind # "none"]]

\* The same, leaving otp_expires_at as it is after a change.
CommitKeepsExpiry(a) ==
  LET r == request[a]
  IN  /\ r.answered
      /\ hash' = IF r.kind = "reissue" THEN "onetime" ELSE "chosen"
      /\ must_change' = (r.kind = "reissue")
      /\ otp' = IF r.kind = "reissue" THEN "valid" ELSE otp
      /\ link' = IF r.kind = "activate" THEN "none" ELSE link
      /\ raced' = r.stale
      /\ request' = Ended(a)
      /\ UNCHANGED <<org, issued, cookie, page>>

\* The row after a request of this kind; a column is written if it differs from the row
\* that was loaded.
Commit(a) ==
  LET r == request[a]
  IN  /\ r.answered
      /\ hash' = IF r.kind = "reissue" THEN "onetime" ELSE "chosen"
      /\ must_change' = CASE r.kind = "change" /\ r.must -> FALSE
                          [] r.kind = "reissue" /\ ~r.must -> TRUE
                          [] OTHER -> must_change
      /\ otp' = CASE r.kind = "reissue" -> "valid"
                  [] r.kind = "change" /\ r.expires -> "none"
                  [] OTHER -> otp
      /\ link' = IF r.kind = "activate" THEN "none" ELSE link
      /\ raced' = r.stale
      /\ request' = Ended(a)
      /\ UNCHANGED <<org, issued, cookie, page>>

\* A query, the commit or the process fails.
Abort(a) ==
  /\ request[a].kind # "none"
  /\ request' = [request EXCEPT ![a] = Idle]
  /\ UNCHANGED <<userVars, cookie, page>>

-----------------------------------------------------------------------------
Next ==
  \/ \E status \in {"approved", "rejected"} : Decide(status)
  \/ OtpExpires \/ LinkExpires
  \/ \E b \in Browsers :
       \/ CookieExpires(b) \/ Arrive(b) \/ SignOut(b) \/ Login(b)
       \/ SubmitChange(b) \/ AnswerChange(b)
       \/ SubmitActivation(b) \/ AnswerActivation(b)
       \/ \E path \in Paths : Visit(b, path)
  \/ Reissue \/ AnswerReissue
  \/ \E a \in Actors : Commit(a) \/ Abort(a)

Spec == Init /\ [][Next]_vars

\* What a page says to do next, or the way out of a page that says nothing.
SignInAgain(b) == page[b] \in {"approved", "forbidden"} /\ SignOut(b)
GoOn(b) ==
  \/ page[b] = "pending" /\ Visit(b, "pending")
  \/ page[b] \in {"activate", "crashed"} /\ Visit(b, "dashboard")
  \/ page[b] = "change" /\ cookie[b] = None /\ Visit(b, "login")

\* Requests end, not all of them in failure, and the user does what the pages say.
Fairness ==
  /\ \A b \in Browsers :
       /\ SF_vars(Login(b)) /\ SF_vars(Arrive(b)) /\ SF_vars(SubmitChange(b))
       /\ SF_vars(AnswerChange(b)) /\ SF_vars(AnswerChange(b) /\ request[b].asked)
       /\ SF_vars(SignInAgain(b)) /\ SF_vars(GoOn(b))
  /\ WF_vars(AnswerReissue)
  /\ \A a \in Actors : SF_vars(Commit(a))

FairSpec == Spec /\ Fairness

-----------------------------------------------------------------------------
\* A one-time password must be changed and expires, and a chosen password does neither,
\* whatever is rolled back, repeated or answered before it is committed.  Only a request
\* that had read the row before another one changed it can leave the columns at odds.
OneTimeMustBeChanged ==
  ~raced => /\ must_change <=> hash = "onetime"
            /\ otp # "none" <=> hash = "onetime"

Entitled == Approved /\ hash # "none" /\ ~(must_change /\ otp = "expired")

\* A user who is entitled to, and does what the pages say, gets to the dashboard:
\* however stale the cookie's hints, no page leads round in circles.
GetsIn == \A b \in Browsers : Entitled ~> (page[b] = "dashboard" \/ ~Entitled)
=============================================================================
