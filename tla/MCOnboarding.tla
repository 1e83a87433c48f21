----------------------------- MODULE MCOnboarding -----------------------------
(* One broker and three insurers; two requests may overlap. *)
EXTENDS Onboarding, TLC

CONSTANTS b1, i1, i2, i3, A, B, x, y, w1, w2

MCConfirmed == {<<A, x>>, <<A, y>>, <<B, x>>}
Symmetry == Permutations(Workers)

\* Behaviours are followed while at most two of these have happened: a hierarchy, an
\* account (of i1), an assignment, a virtual account or its details, a column overwritten
\* by an outdated request; i3 registers only to take part in the hierarchy.
InUse == {column \in {"parent", "bank", "assignment", "kyb"} :
            \E c \in Cells : c[1] = column /\ db[c] # Blank(c[1])}
Bound ==
  /\ Cardinality(InUse) + Cardinality(raced) <= 2
  /\ db["bank", i2] = None
  /\ db["status", i3] # "absent" => db["status", i3] = "pending" /\ InUse \subseteq {"parent"}
=============================================================================
