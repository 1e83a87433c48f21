----------------------------- MODULE Commission -----------------------------
(***************************************************************************)
(* Commission rates: versioned rows per scope key, the row a payment locks *)
(* in when it is initiated, and the split posted when it is collected.     *)
(*                                                                         *)
(* A rate change reads the active row of its key and takes its time before *)
(* it commits.  Locking takes its moment first and then asks for a row in  *)
(* force at that moment in up to three queries, broker, insurer, global.   *)
(* As everywhere, transactions overlap and nothing they read is locked;    *)
(* the only guard is the partial unique index on active rows.              *)
(***************************************************************************)
EXTENDS Integers, FiniteSets

CONSTANTS
  Workers,   \* server processes
  Configs,   \* ids available for commission_configs rows
  Seed,      \* the global row the migration inserts
  Brokers, Insurers,
  Global,    \* the scope key of the platform-wide row
  Payments,  \* ids available for payments rows
  Gross,     \* amount_kobo of each payment
  RateSets,  \* rates an admin may set, in basis points
  SeedRates, \* rates of the seed row
  None,      \* SQL NULL
  MaxTime    \* bound on the clock

Whole == 10000
Bps == 0..Whole
Keys == Brokers \cup Insurers \cup {Global}

ASSUME CommissionAssumption ==
  /\ Seed \in Configs
  /\ None \notin Configs \cup Keys \cup Nat
  /\ Gross \in [Payments -> Nat \ {0}]
  /\ RateSets \subseteq [gtbank : Bps, insureflow : Bps, broker : Bps]
  /\ SeedRates \in RateSets
  /\ MaxTime \in Nat

VARIABLES
  clock,   \* what datetime.now(UTC) answers
  key,     \* commission_configs.scope with its id, None if no row
  rates,   \* the three rate columns; a NULL broker rate counts as 0
  from,    \* effective_from
  to,      \* effective_to
  locked,  \* payments.commission_config_id, None if no row
  legs,    \* the shares posted for a collected payment, None before
  work     \* what each worker has read and not yet committed

rowVars == <<key, rates, from, to>>
vars == <<clock, rowVars, locked, legs, work>>

Shares == [gtbank : Nat, insureflow : Nat, broker : Nat, insurer : Nat]

Idle == [op |-> "idle", key |-> None, rates |-> SeedRates, current |-> None, now |-> 0,
         levels |-> <<Global, Global, Global>>, found |-> None]

\* One query per level; "unresolved" is the ConflictError after the last one.
Work ==
  [op : {"idle", "set", "broker", "insurer", "global", "found", "unresolved"},
   key : Keys \cup {None}, rates : RateSets, current : Configs \cup {None}, now : Nat,
   levels : Keys \X Keys \X Keys, found : Configs \cup {None}]

TypeOK ==
  /\ clock \in Nat
  /\ key \in [Configs -> Keys \cup {None}]
  /\ rates \in [Configs -> RateSets]
  /\ from \in [Configs -> Nat]
  /\ to \in [Configs -> Nat \cup {None}]
  /\ locked \in [Payments -> Configs \cup {None}]
  /\ legs \in [Payments -> Shares \cup {None}]
  /\ work \in [Workers -> Work]

Init ==
  /\ clock = 0
  /\ key = [c \in Configs |-> IF c = Seed THEN Global ELSE None]
  /\ rates = [c \in Configs |-> SeedRates]
  /\ from = [c \in Configs |-> 0]
  /\ to = [c \in Configs |-> None]
  /\ locked = [p \in Payments |-> None]
  /\ legs = [p \in Payments |-> None]
  /\ work = [w \in Workers |-> Idle]

Tick ==
  /\ clock < MaxTime
  /\ clock' = clock + 1
  /\ UNCHANGED <<rowVars, locked, legs, work>>

Begin(w, rec) ==
  /\ work[w].op = "idle"
  /\ work' = [work EXCEPT ![w] = rec]
  /\ UNCHANGED <<clock, rowVars, locked, legs>>

-----------------------------------------------------------------------------
(* set_commission_config.                                                  *)

Active(k) == {c \in Configs : key[c] = k /\ to[c] = None}

BeginSet(w, k, r) ==
  \E cur \in IF Active(k) = {} THEN {None} ELSE Active(k) :
    Begin(w, [Idle EXCEPT !.op = "set", !.key = k, !.rates = r, !.current = cur, !.now = clock])

CommitSetInPlace(w) ==
  /\ work[w].op = "set" /\ work[w].current # None
  /\ rates' = [rates EXCEPT ![work[w].current] = work[w].rates]
  /\ work' = [work EXCEPT ![w] = Idle]
  /\ UNCHANGED <<clock, key, from, to, locked, legs>>

CommitSetUnindexed(w) ==
  /\ work[w].op = "set"
  /\ to' = [c \in Configs |-> IF c = work[w].current THEN work[w].now ELSE to[c]]
  /\ \E c \in Configs :
       /\ key[c] = None
       /\ key' = [key EXCEPT ![c] = work[w].key]
       /\ rates' = [rates EXCEPT ![c] = work[w].rates]
       /\ from' = [from EXCEPT ![c] = work[w].now]
  /\ work' = [work EXCEPT ![w] = Idle]
  /\ UNCHANGED <<clock, locked, legs>>

CommitSetServerTime(w) ==
  /\ work[w].op = "set"
  /\ Active(work[w].key) \subseteq {work[w].current}
  /\ to' = [c \in Configs |-> IF c = work[w].current THEN work[w].now ELSE to[c]]
  /\ \E c \in Configs :
       /\ key[c] = None
       /\ key' = [key EXCEPT ![c] = work[w].key]
       /\ rates' = [rates EXCEPT ![c] = work[w].rates]
       /\ from' = [from EXCEPT ![c] = clock]
  /\ work' = [work EXCEPT ![w] = Idle]
  /\ UNCHANGED <<clock, locked, legs>>

\* The row that was read is closed and a new one inserted.  Another active row of
\* the key violates the unique index, which rolls the transaction back.
CommitSet(w) ==
  /\ work[w].op = "set"
  /\ Active(work[w].key) \subseteq {work[w].current}
  /\ to' = [c \in Configs |-> IF c = work[w].current THEN work[w].now ELSE to[c]]
  /\ \E c \in Configs :
       /\ key[c] = None
       /\ key' = [key EXCEPT ![c] = work[w].key]
       /\ rates' = [rates EXCEPT ![c] = work[w].rates]
       /\ from' = [from EXCEPT ![c] = work[w].now]
  /\ work' = [work EXCEPT ![w] = Idle]
  /\ UNCHANGED <<clock, locked, legs>>

-----------------------------------------------------------------------------
(* resolve_commission_config, and the payment that locks what it answers.  *)

\* The rows of a key in force at a moment.
InForce(k, m) == {c \in Configs : key[c] = k /\ from[c] <= m /\ (to[c] = None \/ m < to[c])}

BeginLock(w, b, i) ==
  Begin(w, [Idle EXCEPT !.op = "broker", !.now = clock, !.levels = <<b, i, Global>>])

\* The query of one level: a row in force ends the search, none moves on to `next`.
Query(w, op, level, next) ==
  /\ work[w].op = op
  /\ LET hits == InForce(work[w].levels[level], work[w].now)
     IN  \/ \E c \in hits : work' = [work EXCEPT ![w] = [work[w] EXCEPT !.op = "found", !.found = c]]
         \/ hits = {} /\ work' = [work EXCEPT ![w] = [work[w] EXCEPT !.op = next]]
  /\ UNCHANGED <<clock, rowVars, locked, legs>>

ResolveLevel(w) ==
  \/ Query(w, "broker", 1, "insurer")
  \/ Query(w, "insurer", 2, "global")
  \/ Query(w, "global", 3, "unresolved")

CommitLock(w) ==
  /\ work[w].op = "found"
  /\ \E p \in Payments :
       /\ locked[p] = None
       /\ locked' = [locked EXCEPT ![p] = work[w].found]
  /\ work' = [work EXCEPT ![w] = Idle]
  /\ UNCHANGED <<clock, rowVars, legs>>

-----------------------------------------------------------------------------
(* calculate_split, and the ledger legs of a collected payment.            *)

Share(g, bps) == (g * bps) \div Whole

Total(r) == r.gtbank + r.insureflow + r.broker

SplitNoRemainder(g, r) ==
  [gtbank |-> Share(g, r.gtbank), insureflow |-> Share(g, r.insureflow),
   broker |-> Share(g, r.broker), insurer |-> Share(g, Whole - Total(r))]

\* Each share is rounded down; the insurer's takes what the rounding dropped.
Split(g, r) ==
  LET gtbank     == Share(g, r.gtbank)
      insureflow == Share(g, r.insureflow)
      broker     == Share(g, r.broker)
      insurer    == Share(g, Whole - Total(r))
      remainder  == g - (gtbank + insureflow + broker + insurer)
  IN  [gtbank |-> gtbank, insureflow |-> insureflow, broker |-> broker,
       insurer |-> insurer + remainder]

\* calculate_split raises on rates of more than the whole, which may well be set; the
\* ledger's CHECK refuses a zero leg, and only the broker's and the insurer's are
\* left out when they are zero.
Postable(g, r) ==
  /\ Total(r) <= Whole
  /\ Split(g, r).gtbank > 0 /\ Split(g, r).insureflow > 0

Collect(p) ==
  /\ locked[p] # None /\ legs[p] = None
  /\ Postable(Gross[p], rates[locked[p]])
  /\ legs' = [legs EXCEPT ![p] = Split(Gross[p], rates[locked[p]])]
  /\ UNCHANGED <<clock, rowVars, locked, work>>

\* A transaction in progress rolls back.
Abort(w) ==
  /\ work[w].op # "idle"
  /\ work' = [work EXCEPT ![w] = Idle]
  /\ UNCHANGED <<clock, rowVars, locked, legs>>

-----------------------------------------------------------------------------
Step(w) ==
  \/ \E k \in Keys, r \in RateSets : BeginSet(w, k, r)
  \/ \E b \in Brokers, i \in Insurers : BeginLock(w, b, i)
  \/ CommitSet(w) \/ ResolveLevel(w) \/ CommitLock(w) \/ Abort(w)

Next ==
  \/ Tick
  \/ \E p \in Payments : Collect(p)
  \/ \E w \in Workers : Step(w)

Spec == Init /\ [][Next]_vars

-----------------------------------------------------------------------------
(* Properties, however transactions overlap.                               *)

\* From the first row of a key on there is exactly one row in force at every moment:
\* rate changes neither leave a gap nor overlap, and one row is active.
HistoryIsTotal ==
  \A k \in Keys :
    /\ \A m \in 0..MaxTime :
         /\ \A c, d \in InForce(k, m) : c = d
         /\ (\E c \in Configs : key[c] = k /\ from[c] <= m) => InForce(k, m) # {}
    /\ \A c, d \in Active(k) : c = d

\* A rate change never alters which row was in force before its own time: an as-of
\* query about the past keeps its answer, and the row keeps its rates.
HistoryIsStable ==
  [][\A k \in Keys, m \in 0..MaxTime :
       (\A w \in Workers : work[w].op = "set" => m < work[w].now) =>
         /\ InForce(k, m)' = InForce(k, m)
         /\ \A c \in InForce(k, m) : rates'[c] = rates[c]]_vars

\* Resolution never runs out of levels: whatever changes between its queries, the
\* global row in force at its moment is there.
AlwaysResolved == \A w \in Workers : work[w].op # "unresolved"

\* What was posted for a payment are the shares of its gross amount at the rates it
\* locked, whatever was set since: together exactly the gross, and the insurer not
\* short of its proportional share nor more than three kobo over it.
PostedAtLockedRates ==
  \A p \in Payments : legs[p] # None =>
    LET r == rates[locked[p]]
        s == legs[p]
    IN  /\ s.gtbank + s.insureflow + s.broker + s.insurer = Gross[p]
        /\ s.gtbank = Share(Gross[p], r.gtbank)
        /\ s.insureflow = Share(Gross[p], r.insureflow)
        /\ s.broker = Share(Gross[p], r.broker)
        /\ s.insurer * Whole >= Gross[p] * (Whole - Total(r))
        /\ s.insurer <= Share(Gross[p], Whole - Total(r)) + 3
=============================================================================
