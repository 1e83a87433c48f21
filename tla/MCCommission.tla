---------------------------- MODULE MCCommission ----------------------------
(***************************************************************************)
(* Small instances of Commission.                                          *)
(***************************************************************************)
EXTENDS Commission, TLC

CONSTANTS c0, c1, c2, p1, w1, w2, A, B

\* A gross and rates that leave a remainder of three kobo, and rates of more than
\* the whole, which the API accepts.
MCGross == [p \in Payments |-> 55]
MCSeedRates == [gtbank |-> 333, insureflow |-> 250, broker |-> 517]
MCRateSets == {MCSeedRates, [gtbank |-> 6000, insureflow |-> 5000, broker |-> 0]}

Sym == Permutations(Configs \ {Seed}) \cup Permutations(Workers)
=============================================================================
