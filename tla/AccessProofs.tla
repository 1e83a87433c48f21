----------------------------- MODULE AccessProofs -----------------------------
(***************************************************************************)
(* For any number of browsers and reissues: types, and that a one-time     *)
(* password must be changed and expires, and a chosen one does neither.    *)
(***************************************************************************)
EXTENDS Access, TLAPS

\* Activation is for the seeded admin, who never has a one-time password.
SeededApart ==
  /\ link # "none" \/ hash = "none" => org = "platform"
  /\ org = "platform" => hash # "onetime" /\ ~must_change /\ otp = "none"
  /\ \A a \in Actors : /\ request[a].kind = "activate" => org = "platform"
                       /\ request[a].kind = "reissue" => org # "platform"

\* What a request that is not stale has read is still so.
ReadIsCurrent ==
  \A a \in Actors : request[a].kind # "none" /\ ~request[a].stale =>
    request[a].must = must_change /\ (request[a].expires <=> otp # "none")

\* Only a request in progress has been answered.
AnsweredRuns == \A a \in Actors : request[a].answered => request[a].kind # "none"

AccessInv == TypeOK /\ SeededApart /\ ReadIsCurrent /\ AnsweredRuns /\ OneTimeMustBeChanged

-----------------------------------------------------------------------------
\* The invariant holds at first: no request is in progress, and either kind of new user
\* has columns that agree.
LEMMA InitAccess == Init => AccessInv
<1> SUFFICES ASSUME Init PROVE AccessInv
  OBVIOUS
<1>1. TypeOK
  <2>1. Idle \in Requests
    BY DEF Idle, Requests
  <2>2. must_change \in BOOLEAN /\ raced \in BOOLEAN
    BY DEF Init
  <2>3. issued \in 0..MaxReissues
    BY AccessAssumption DEF Init
  <2>4. /\ org \in {"pending", "approved", "rejected", "platform"}
        /\ hash \in {"none", "onetime", "chosen"}
        /\ otp \in {"none", "valid", "expired"} /\ link \in {"none", "valid", "expired"}
    BY DEF Init
  <2>5. /\ cookie \in [Browsers -> [must : BOOLEAN, approved : BOOLEAN] \cup {None}]
        /\ page \in [Browsers -> Pages] /\ request \in [Actors -> Requests]
    BY <2>1 DEF Init, Pages
  <2> QED
    BY <2>2, <2>3, <2>4, <2>5 DEF TypeOK
<1>2. SeededApart /\ ReadIsCurrent /\ AnsweredRuns /\ OneTimeMustBeChanged
  BY DEF Init, SeededApart, ReadIsCurrent, AnsweredRuns, OneTimeMustBeChanged, Idle, Actors
<1> QED
  BY <1>1, <1>2 DEF AccessInv

\* A page shown is one of the pages.
LEMMA ShownIsPage ==
  ASSUME NEW b \in Browsers, NEW path \in Paths PROVE Shown(b, path) \in Pages
BY DEF Shown, Paths, Dashboard, PendingPage, Pages

\* The dashboard's address shows one of the pages.
LEMMA DashboardIsPage == ASSUME NEW c PROVE Dashboard(c) \in Pages
BY DEF Dashboard, PendingPage, Pages

\* What a request loads has its type.
LEMMA BeginTyped ==
  ASSUME TypeOK, NEW a \in Actors, NEW kind \in {"change", "activate", "reissue"}, Begin(a, kind)
  PROVE  request' \in [Actors -> Requests]
<1>1. [Idle EXCEPT !.kind = kind, !.must = must_change, !.expires = otp # "none", !.asked = TRUE]
        \in Requests
  BY DEF TypeOK, Idle, Requests
<1> QED
  BY <1>1 DEF TypeOK, Begin

\* A request whose UPDATE is done has its type.
LEMMA FlushTyped ==
  ASSUME TypeOK, NEW a \in Actors, Flush(a) PROVE request' \in [Actors -> Requests]
BY DEF TypeOK, Flush, Requests

\* Every step keeps the types.
LEMMA NextTyped == TypeOK /\ [Next]_vars => TypeOK'
<1> SUFFICES ASSUME TypeOK, [Next]_vars PROVE TypeOK'
  OBVIOUS
<1> USE DEF TypeOK, userVars
<1>1. ASSUME NEW status \in {"approved", "rejected"}, Decide(status) PROVE TypeOK'
  BY <1>1 DEF Decide
<1>2. CASE OtpExpires
  BY <1>2 DEF OtpExpires
<1>3. CASE LinkExpires
  BY <1>3 DEF LinkExpires
<1>4. ASSUME NEW b \in Browsers, CookieExpires(b) PROVE TypeOK'
  BY <1>4 DEF CookieExpires
<1>5. ASSUME NEW b \in Browsers, Arrive(b) PROVE TypeOK'
  <2>1. Dashboard(cookie[b]) \in Pages
    BY DashboardIsPage
  <2> QED
    BY <1>5, <2>1 DEF Arrive
<1>6. ASSUME NEW b \in Browsers, SignOut(b) PROVE TypeOK'
  BY <1>6 DEF SignOut, Pages
<1>7. ASSUME NEW b \in Browsers, Login(b) PROVE TypeOK'
  <2>1. Token(must_change) \in [must : BOOLEAN, approved : BOOLEAN]
    BY DEF Token, Approved
  <2> QED
    BY <1>7, <2>1 DEF Login, Pages
<1>8. ASSUME NEW b \in Browsers, SubmitChange(b) PROVE TypeOK'
  <2>1. request' \in [Actors -> Requests]
    BY <1>8, BeginTyped DEF SubmitChange, Actors
  <2> QED
    BY <1>8, <2>1 DEF SubmitChange
<1>9. ASSUME NEW b \in Browsers, AnswerChange(b) PROVE TypeOK'
  <2>1. request' \in [Actors -> Requests]
    BY <1>9, FlushTyped DEF AnswerChange, Actors
  <2>2. Token(FALSE) \in [must : BOOLEAN, approved : BOOLEAN]
    BY DEF Token, Approved
  <2>3. cookie' \in [Browsers -> [must : BOOLEAN, approved : BOOLEAN] \cup {None}]
    BY <1>9, <2>2 DEF AnswerChange
  <2>4. page' \in [Browsers -> Pages]
    BY <1>9 DEF AnswerChange, Pages
  <2> QED
    BY <1>9, <2>1, <2>3, <2>4 DEF AnswerChange
<1>10. ASSUME NEW b \in Browsers, SubmitActivation(b) PROVE TypeOK'
  <2>1. request' \in [Actors -> Requests]
    BY <1>10, BeginTyped DEF SubmitActivation, Actors
  <2> QED
    BY <1>10, <2>1 DEF SubmitActivation
<1>11. ASSUME NEW b \in Browsers, AnswerActivation(b) PROVE TypeOK'
  <2>1. request' \in [Actors -> Requests]
    BY <1>11, FlushTyped DEF AnswerActivation, Actors
  <2> QED
    BY <1>11, <2>1 DEF AnswerActivation, Pages
<1>12. ASSUME NEW b \in Browsers, NEW path \in Paths, Visit(b, path) PROVE TypeOK'
  <2>1. Shown(b, path) \in Pages
    BY ShownIsPage
  <2>2. request' \in [Actors -> Requests]
    BY <1>12 DEF Visit, Requests, Actors
  <2> QED
    BY <1>12, <2>1, <2>2 DEF Visit
<1>13. CASE Reissue
  <2>1. request' \in [Actors -> Requests]
    BY <1>13, BeginTyped DEF Reissue, Actors
  <2>2. issued' \in 0..MaxReissues
    BY <1>13, AccessAssumption DEF Reissue
  <2> QED
    BY <1>13, <2>1, <2>2 DEF Reissue
<1>14. CASE AnswerReissue
  <2>1. request' \in [Actors -> Requests]
    BY <1>14, FlushTyped DEF AnswerReissue, Actors
  <2> QED
    BY <1>14, <2>1 DEF AnswerReissue
<1>15. ASSUME NEW a \in Actors, Commit(a) PROVE TypeOK'
  <2>1. request' \in [Actors -> Requests]
    <3>1. \A c \in Actors : [request[c] EXCEPT !.stale = request[c].kind # "none"] \in Requests
      BY DEF Requests
    <3>2. Idle \in Requests
      BY DEF Idle, Requests
    <3> QED
      BY <1>15, <3>1, <3>2 DEF Commit, Ended
  <2>2. raced' \in BOOLEAN
    BY <1>15 DEF Commit, Requests
  <2>3. must_change' \in BOOLEAN /\ otp' \in {"none", "valid", "expired"}
    BY <1>15 DEF Commit
  <2> QED
    BY <1>15, <2>1, <2>2, <2>3 DEF Commit
<1>16. ASSUME NEW a \in Actors, Abort(a) PROVE TypeOK'
  BY <1>16 DEF Abort, Idle, Requests
<1>17. CASE UNCHANGED vars
  BY <1>17 DEF vars
<1> QED
  BY <1>1, <1>2, <1>3, <1>4, <1>5, <1>6, <1>7, <1>8, <1>9, <1>10, <1>11, <1>12, <1>13,
     <1>14, <1>15, <1>16, <1>17 DEF Next

-----------------------------------------------------------------------------
\* A request that begins has read the columns as they are.
LEMMA BeginKeeps ==
  ASSUME AccessInv, NEW a \in Actors, NEW kind \in {"change", "activate", "reissue"},
         Begin(a, kind), UNCHANGED <<org, hash, must_change, otp, link, raced>>,
         kind = "activate" => org = "platform", kind = "reissue" => org # "platform"
  PROVE  (SeededApart /\ ReadIsCurrent /\ AnsweredRuns /\ OneTimeMustBeChanged)'
<1>1. /\ request'[a].kind = kind /\ request'[a].must = must_change
      /\ request'[a].expires = (otp # "none")
      /\ ~request'[a].answered
      /\ \A c \in Actors \ {a} : request'[c] = request[c]
  BY DEF AccessInv, TypeOK, Begin, Idle
<1> QED
  BY <1>1 DEF AccessInv, SeededApart, ReadIsCurrent, AnsweredRuns, OneTimeMustBeChanged

\* Nothing but a commit changes the columns, so what is kept is kept by every step that
\* changes no more of a request than whether it is asked or answered.
LEMMA QuietKeeps ==
  ASSUME AccessInv, UNCHANGED <<hash, must_change, link, raced>>,
         org' = org \/ {org, org'} \cap {"platform"} = {}, (otp' = "none") = (otp = "none"),
         \A a \in Actors : /\ request'[a].kind = request[a].kind
                           /\ request'[a].must = request[a].must
                           /\ request'[a].expires = request[a].expires
                           /\ request'[a].stale = request[a].stale
                           /\ request'[a].answered => request[a].kind # "none"
  PROVE  (SeededApart /\ ReadIsCurrent /\ AnsweredRuns /\ OneTimeMustBeChanged)'
BY DEF AccessInv, SeededApart, ReadIsCurrent, AnsweredRuns, OneTimeMustBeChanged

\* A commit by a request that is not stale leaves the columns in agreement, and makes
\* every other request stale.
LEMMA CommitKeeps ==
  ASSUME AccessInv, NEW a \in Actors, Commit(a)
  PROVE  (SeededApart /\ ReadIsCurrent /\ AnsweredRuns /\ OneTimeMustBeChanged)'
<1> DEFINE r == request[a]
<1>1. /\ \A c \in Actors : request'[c].kind # "none" =>
            request'[c].stale /\ request'[c].kind = request[c].kind
      /\ \A c \in Actors : request'[c].answered => request'[c].kind # "none"
      /\ r \in Requests
  BY DEF AccessInv, AnsweredRuns, TypeOK, Commit, Ended, Idle, Requests
<1>2. SeededApart'
  <2>1. org = "platform" => r.kind # "reissue"
    BY DEF AccessInv, SeededApart
  <2>2. org = "platform" => hash' # "onetime" /\ ~must_change' /\ otp' = "none"
    BY <2>1 DEF AccessInv, SeededApart, Commit
  <2>3. link' # "none" \/ hash' = "none" => org' = "platform"
    BY DEF AccessInv, SeededApart, Commit
  <2>4. org' = org
    BY DEF Commit
  <2> QED
    BY <1>1, <2>2, <2>3, <2>4 DEF AccessInv, SeededApart
<1>3. ReadIsCurrent'
  BY <1>1 DEF ReadIsCurrent
<1>4. OneTimeMustBeChanged'
  <2> SUFFICES ASSUME ~r.stale
               PROVE  /\ must_change' <=> hash' = "onetime"
                      /\ otp' # "none" <=> hash' = "onetime"
    BY DEF OneTimeMustBeChanged, Commit
  <2>1. CASE r.kind = "change"
    BY <2>1 DEF AccessInv, TypeOK, ReadIsCurrent, Commit
  <2>2. CASE r.kind = "reissue"
    BY <2>2 DEF AccessInv, TypeOK, ReadIsCurrent, Commit
  <2>3. CASE r.kind = "activate"
    BY <2>3 DEF AccessInv, TypeOK, SeededApart, Commit
  <2>4. CASE r.kind = "none"
    BY <2>4 DEF AccessInv, AnsweredRuns, Commit
  <2> QED
    BY <1>1, <2>1, <2>2, <2>3, <2>4 DEF Requests
<1> QED
  BY <1>1, <1>2, <1>3, <1>4 DEF AnsweredRuns

-----------------------------------------------------------------------------
\* Every step keeps the invariant.
LEMMA NextAccess == AccessInv /\ [Next]_vars => AccessInv'
<1> SUFFICES ASSUME AccessInv, [Next]_vars PROVE AccessInv'
  OBVIOUS
<1> DEFINE Goal == (SeededApart /\ ReadIsCurrent /\ AnsweredRuns /\ OneTimeMustBeChanged)'
<1>0. TypeOK'
  BY NextTyped DEF AccessInv
<1> SUFFICES Goal
  BY <1>0 DEF AccessInv
<1>1. ASSUME UNCHANGED <<hash, must_change, link, raced, request>>,
             org' = org \/ {org, org'} \cap {"platform"} = {}, (otp' = "none") = (otp = "none")
      PROVE  Goal
  BY <1>1, QuietKeeps DEF AccessInv, AnsweredRuns
<1>2. ASSUME NEW status \in {"approved", "rejected"}, Decide(status) PROVE Goal
  BY <1>2, <1>1 DEF Decide
<1>3. CASE OtpExpires
  BY <1>3, <1>1 DEF OtpExpires
<1>4. CASE LinkExpires
  BY <1>4 DEF LinkExpires, AccessInv, SeededApart, ReadIsCurrent, AnsweredRuns, OneTimeMustBeChanged
<1>5. ASSUME NEW b \in Browsers, CookieExpires(b) \/ Arrive(b) \/ SignOut(b) \/ Login(b)
      PROVE  Goal
  BY <1>5, <1>1 DEF CookieExpires, Arrive, SignOut, Login, userVars
<1>6. ASSUME NEW b \in Browsers, SubmitChange(b) PROVE Goal
  BY <1>6, BeginKeeps DEF SubmitChange, userVars, Actors
<1>7. ASSUME NEW b \in Browsers, SubmitActivation(b) PROVE Goal
  BY <1>7, BeginKeeps DEF SubmitActivation, userVars, Actors, AccessInv, SeededApart
<1>8. CASE Reissue
  BY <1>8, BeginKeeps DEF Reissue, Actors
<1>9. ASSUME NEW a \in Actors, Flush(a), UNCHANGED userVars PROVE Goal
  <2>1. \A c \in Actors : /\ request'[c].kind = request[c].kind
                          /\ request'[c].must = request[c].must
                          /\ request'[c].expires = request[c].expires
                          /\ request'[c].stale = request[c].stale
                          /\ request'[c].answered => request[c].kind # "none"
    BY <1>9 DEF Flush, AccessInv, TypeOK, AnsweredRuns, Requests
  <2> QED
    BY <1>9, <2>1, QuietKeeps DEF userVars
<1>10. ASSUME NEW b \in Browsers, AnswerChange(b) \/ AnswerActivation(b) PROVE Goal
  BY <1>9, <1>10 DEF AnswerChange, AnswerActivation, Actors
<1>11. CASE AnswerReissue
  BY <1>9, <1>11 DEF AnswerReissue, Actors
<1>12. ASSUME NEW b \in Browsers, NEW path \in Paths, Visit(b, path) PROVE Goal
  <2>1. \A c \in Actors : /\ request'[c].kind = request[c].kind
                          /\ request'[c].must = request[c].must
                          /\ request'[c].expires = request[c].expires
                          /\ request'[c].stale = request[c].stale
                          /\ request'[c].answered => request[c].kind # "none"
    BY <1>12 DEF Visit, AccessInv, TypeOK, AnsweredRuns, Requests
  <2> QED
    BY <1>12, <2>1, QuietKeeps DEF Visit, userVars
<1>13. ASSUME NEW a \in Actors, Commit(a) PROVE Goal
  BY <1>13, CommitKeeps
<1>14. ASSUME NEW a \in Actors, Abort(a) PROVE Goal
  <2>1. /\ request'[a] = Idle
        /\ \A c \in Actors \ {a} : request'[c] = request[c]
    BY <1>14 DEF Abort, AccessInv, TypeOK
  <2>2. UNCHANGED userVars
    BY <1>14 DEF Abort
  <2>3. (SeededApart /\ ReadIsCurrent /\ AnsweredRuns)'
    BY <2>1, <2>2 DEF Idle, userVars, AccessInv, SeededApart, ReadIsCurrent, AnsweredRuns
  <2>4. OneTimeMustBeChanged'
    BY <2>2 DEF userVars, AccessInv, OneTimeMustBeChanged
  <2> QED
    BY <2>3, <2>4
<1>15. CASE UNCHANGED vars
  BY <1>15, <1>1 DEF vars, userVars
<1> QED
  BY <1>2, <1>3, <1>4, <1>5, <1>6, <1>7, <1>8, <1>10, <1>11, <1>12, <1>13, <1>14, <1>15 DEF Next

\* The invariant holds in every state.
LEMMA AccessInvariant == Spec => []AccessInv
<1> QED
  BY InitAccess, NextAccess, PTL DEF Spec

\* Types hold for any number of browsers and reissues (auth_service).
THEOREM AccessTypeCorrect == Spec => []TypeOK
<1>1. AccessInv => TypeOK
  BY DEF AccessInv
<1> QED
  BY <1>1, AccessInvariant, PTL

\* change_password, activate_account and the two reissues leave must_change_password and
\* otp_expires_at in agreement with the kind of password, unless the request that wrote
\* them had read the row before another one changed it.
THEOREM OneTimeSecretsAreChanged == Spec => []OneTimeMustBeChanged
<1>1. AccessInv => OneTimeMustBeChanged
  BY DEF AccessInv
<1> QED
  BY <1>1, AccessInvariant, PTL
=============================================================================
