------------------------------ MODULE Onboarding ------------------------------
(***************************************************************************)
(* Brokers and insurance companies come on board: they register, the       *)
(* platform's admin decides on them, brokers are assigned to insurers,     *)
(* companies are grouped under a parent, and each side gets its account: a *)
(* broker a virtual account at Squad, an insurer a settlement account that *)
(* Squad has confirmed.                                                    *)
(*                                                                         *)
(* A request loads rows, decides, perhaps calls Squad, and then writes in  *)
(* one transaction at READ COMMITTED, without locks or versions.           *)
(* SQLAlchemy's UPDATE names only the columns whose value differs from the *)
(* one loaded, so a request is modelled by the cells it rests on and the   *)
(* cells it is going to write; other requests may commit in between.       *)
(***************************************************************************)
EXTENDS Integers, FiniteSets

CONSTANTS
  Brokers,   \* organizations of either kind
  Insurers,
  Copies,    \* assignment rows one pair can have
  Banks,     \* bank codes
  Numbers,   \* account numbers, each with the name Squad knows it under
  Confirmed, \* the <<bank, number>> pairs Squad's account lookup confirms
  Workers,   \* requests that may be in progress at the same time
  None

ASSUME OnboardingAssumption ==
  /\ Brokers \cap Insurers = {}
  /\ Confirmed \subseteq Banks \X Numbers
  /\ None \notin Insurers \cup Banks \cup Numbers

Orgs  == Brokers \cup Insurers
Pairs == Brokers \X Insurers
Rows  == Pairs \X Copies

\* The columns that matter, each with the rows that have it.
Cells ==
  ({"status"} \X Orgs) \cup ({"parent", "bank", "number"} \X Insurers)
    \cup ({"kyb", "va"} \X Brokers) \cup ({"assignment"} \X Rows) \cup ({"policy"} \X Pairs)

VARIABLES
  db,     \* the committed value of every cell
  reads,  \* the cells a worker's request rests on, none if the worker is idle
  writes, \* its pending UPDATEs and INSERTs
  stale,  \* another request has committed to a cell it rests on
  raced   \* columns written by requests that were stale (history)

vars == <<db, reads, writes, stale, raced>>

Values(column) ==
  CASE column = "status" -> {"absent", "pending", "approved", "rejected"}
    [] column = "parent" -> Insurers \cup {None}
    [] column = "bank" -> Banks \cup {None}
    [] column = "number" -> Numbers \cup {None}
    [] column = "assignment" -> {"absent", "active", "inactive"}
    [] OTHER -> BOOLEAN

Blank(column) ==
  CASE column \in {"status", "assignment"} -> "absent"
    [] column \in {"parent", "bank", "number"} -> None
    [] OTHER -> FALSE

TypeOK ==
  /\ DOMAIN db = Cells
  /\ \A c \in Cells : db[c] \in Values(c[1])
  /\ reads \in [Workers -> SUBSET Cells]
  /\ DOMAIN writes = Workers
  /\ \A w \in Workers : /\ DOMAIN writes[w] \subseteq Cells
                        /\ \A c \in DOMAIN writes[w] : writes[w][c] \in Values(c[1])
  /\ stale \in [Workers -> BOOLEAN]
  /\ raced \subseteq {c[1] : c \in Cells}

NoWrites == [c \in {} |-> None]

Init ==
  /\ db = [c \in Cells |-> Blank(c[1])]
  /\ reads = [w \in Workers |-> {}]
  /\ writes = [w \in Workers |-> NoWrites]
  /\ stale = [w \in Workers |-> FALSE]
  /\ raced = {}

-----------------------------------------------------------------------------
(* Requests.                                                               *)

\* One cell gets a value.
Only(c, value) == [d \in {c} |-> value]

\* A request has read the cells R and given new values to loaded or new objects.
Begin(w, R, changes) ==
  LET dirty == {c \in DOMAIN changes : changes[c] # db[c]}
  IN  /\ reads[w] = {}
      /\ reads' = [reads EXCEPT ![w] = R]
      /\ writes' = [writes EXCEPT ![w] = [c \in dirty |-> changes[c]]]
      /\ UNCHANGED <<db, stale, raced>>

End(w) ==
  /\ reads' = [reads EXCEPT ![w] = {}]
  /\ writes' = [writes EXCEPT ![w] = NoWrites]

\* The unique index lets a pair have one active assignment.
ActiveIsUnique(data) ==
  \A p \in Pairs : \A m, n \in Copies :
    data[<<"assignment", <<p, m>>>>] = "active" /\ data[<<"assignment", <<p, n>>>>] = "active" => m = n

\* The transaction ends.
Commit(w) ==
  LET written == DOMAIN writes[w]
  IN  /\ reads[w] # {}
      /\ db' = [c \in Cells |-> IF c \in written THEN writes[w][c] ELSE db[c]]
      /\ ActiveIsUnique(db')
      /\ raced' = IF stale[w] THEN raced \cup {c[1] : c \in written} ELSE raced
      /\ stale' = [v \in Workers |-> v # w /\ (stale[v] \/ reads[v] \cap written # {})]
      /\ End(w)

\* It is rolled back: Squad's answer, the unique index, or the end of the process.
Fail(w) ==
  /\ reads[w] # {}
  /\ stale' = [stale EXCEPT ![w] = FALSE]
  /\ End(w)
  /\ UNCHANGED <<db, raced>>

-----------------------------------------------------------------------------
(* What a request may be.                                                  *)

\* The public registration; a broker may give its BVN and phone number at once.  The
\* address of an organization is unique, so nothing overlaps.
Onboard(o, kyb) ==
  /\ db[<<"status", o>>] = "absent"
  /\ kyb => o \in Brokers
  /\ db' = [c \in Cells |-> IF c = <<"status", o>> THEN "pending"
                            ELSE IF kyb /\ c = <<"kyb", o>> THEN TRUE ELSE db[c]]
  /\ UNCHANGED <<reads, writes, stale, raced>>

Decide(w, o, verdict) ==
  /\ db[<<"status", o>>] = "pending"
  /\ Begin(w, {<<"status", o>>}, Only(<<"status", o>>, verdict))

RejectOrg(w, o) == Decide(w, o, "rejected")

ApproveInsurer(w, i) == Decide(w, i, "approved")

\* The same without waiting for Squad.
ApproveWithoutAccount(w, b) ==
  /\ db[<<"status", b>>] = "pending"
  /\ Begin(w, {<<"status", b>>}, Only(<<"status", b>>, "approved"))

\* Approval asks Squad for a virtual account if it has what Squad wants to know.
ApproveBroker(w, b) ==
  /\ db[<<"status", b>>] = "pending"
  /\ Begin(w, {<<"status", b>>},
           [c \in {<<"status", b>>} \cup {v \in {<<"va", b>>} : db[<<"kyb", b>>]} |->
              IF c[1] = "status" THEN "approved" ELSE TRUE])

\* The admin's button, or the broker's own form, which brings BVN and phone number.
CreateVirtualAccount(w, b, given) ==
  /\ IF given THEN db[<<"status", b>>] = "approved" ELSE db[<<"kyb", b>>]
  /\ Begin(w, {<<"kyb", b>>}, [c \in {"kyb", "va"} \X {b} |-> TRUE])

AreApproved(p) == db[<<"status", p[1]>>] = "approved" /\ db[<<"status", p[2]>>] = "approved"

RowsOf(p) == {<<p, n>> : n \in Copies}

\* The same, looking at the broker's status only.
AssignToAnyInsurer(w, p) ==
  /\ db[<<"status", p[1]>>] = "approved"
  /\ \E r \in RowsOf(p) :
       /\ \A q \in RowsOf(p) : db[<<"assignment", q>>] = "absent"
       /\ Begin(w, {"assignment"} \X RowsOf(p), Only(<<"assignment", r>>, "active"))

\* The same, looking for active rows only.
AssignAfresh(w, p) ==
  /\ AreApproved(p)
  /\ \A q \in RowsOf(p) : db[<<"assignment", q>>] # "active"
  /\ \E r \in RowsOf(p) :
       /\ db[<<"assignment", r>>] = "absent"
       /\ Begin(w, {"assignment"} \X RowsOf(p), Only(<<"assignment", r>>, "active"))

\* An existing row is activated again, whichever the query returns; it returns one that
\* is active as it is, and nothing changes.
Assign(w, p) ==
  /\ AreApproved(p)
  /\ \E r \in RowsOf(p) :
       /\ \/ db[<<"assignment", r>>] = "inactive"
          \/ /\ \A q \in RowsOf(p) : db[<<"assignment", q>>] = "absent"
             /\ \A v \in Workers : <<"assignment", r>> \notin DOMAIN writes[v]
       /\ Begin(w, {"assignment"} \X RowsOf(p), Only(<<"assignment", r>>, "active"))

Unassign(w, p) ==
  \E r \in RowsOf(p) :
    /\ db[<<"assignment", r>>] = "active"
    /\ Begin(w, {<<"assignment", r>>}, Only(<<"assignment", r>>, "inactive"))

\* An insurer enters a policy of a broker that is assigned to it.
CreatePolicy(w, p) ==
  \E r \in RowsOf(p) :
    /\ db[<<"assignment", r>>] = "active"
    /\ Begin(w, {<<"assignment", r>>}, Only(<<"policy", p>>, TRUE))

HasChildren(i) == \E j \in Insurers : db[<<"parent", j>>] = i

\* The same for a company that has children.
SetParentOfGroup(w, i, parent) ==
  /\ db[<<"status", i>>] # "absent"
  /\ parent # None => /\ parent # i /\ db[<<"status", parent>>] # "absent"
                      /\ db[<<"parent", parent>>] = None
  /\ Begin(w, {"parent"} \X Insurers, Only(<<"parent", i>>, parent))

SetParent(w, i, parent) ==
  /\ db[<<"status", i>>] # "absent"
  /\ parent # None => /\ parent # i /\ db[<<"status", parent>>] # "absent"
                      /\ db[<<"parent", parent>>] = None
                      /\ ~HasChildren(i)
  /\ Begin(w, {"parent"} \X Insurers, Only(<<"parent", i>>, parent))

\* The same without the lookup.
SetAccountAsGiven(w, i, account) ==
  /\ db[<<"status", i>>] = "approved"
  /\ Begin(w, {"bank", "number"} \X {i},
           [c \in {"bank", "number"} \X {i} |-> account[IF c[1] = "bank" THEN 1 ELSE 2]])

\* An approved insurer names a bank and a number; Squad's lookup must know them.
SetSettlementAccount(w, i, account) ==
  /\ db[<<"status", i>>] = "approved"
  /\ account \in Confirmed
  /\ Begin(w, {"bank", "number"} \X {i},
           [c \in {"bank", "number"} \X {i} |-> account[IF c[1] = "bank" THEN 1 ELSE 2]])

Next ==
  \/ \E o \in Orgs, kyb \in BOOLEAN : Onboard(o, kyb)
  \/ \E w \in Workers :
       \/ Commit(w)
       \/ Fail(w)
       \/ \E o \in Orgs : RejectOrg(w, o)
       \/ \E b \in Brokers : ApproveBroker(w, b)
       \/ \E b \in Brokers, given \in BOOLEAN : CreateVirtualAccount(w, b, given)
       \/ \E p \in Pairs : Assign(w, p) \/ Unassign(w, p) \/ CreatePolicy(w, p)
       \/ \E i \in Insurers :
            \/ ApproveInsurer(w, i)
            \/ \E parent \in Insurers \cup {None} : SetParent(w, i, parent)
            \/ \E account \in Banks \X Numbers : SetSettlementAccount(w, i, account)

Spec == Init /\ [][Next]_vars

-----------------------------------------------------------------------------
(* Properties.  Some hold whatever overlaps; some need that no request has *)
(* overwritten what changed after it had looked.                           *)

\* Assigned brokers and insurers, and the parties of a policy, are organizations the
\* admin has approved; only overlapping decisions on one organization can break it.
AssignedAreApproved ==
  "status" \notin raced =>
    \A p \in Pairs :
      db[<<"policy", p>>] \/ (\E r \in RowsOf(p) : db[<<"assignment", r>>] # "absent") => AreApproved(p)

\* A pair is assigned, unassigned and assigned again in one row, which holds its history,
\* unless two first assignments overlapped.
OneRowPerPair ==
  "assignment" \notin raced =>
    \A p \in Pairs : \A q, r \in RowsOf(p) :
      db[<<"assignment", q>>] # "absent" /\ db[<<"assignment", r>>] # "absent" => q = r

\* Groups of companies have depth one: a parent has no parent.  Overlapping changes of
\* the hierarchy can build longer chains, and cycles.
DepthOne ==
  "parent" \notin raced =>
    \A i \in Insurers : db[<<"parent", i>>] # None => db[<<"parent", db[<<"parent", i>>]>>] = None

\* Payouts go to a bank and number that Squad's lookup confirmed together, unless two
\* changes of one insurer's account overlapped and each left a half.
SettlementAccountIsConfirmed ==
  raced \cap {"bank", "number"} = {} =>
    \A i \in Insurers :
      \/ <<db[<<"bank", i>>], db[<<"number", i>>]>> \in Confirmed
      \/ db[<<"bank", i>>] = None /\ db[<<"number", i>>] = None

\* An approved broker whose BVN and phone number are on file has a virtual account,
\* whatever the order of approval, KYB form and failures.
ApprovedWithKybHasAccount ==
  \A b \in Brokers : db[<<"status", b>>] = "approved" /\ db[<<"kyb", b>>] => db[<<"va", b>>]

=============================================================================
