------------------------------ MODULE MCCheckout ------------------------------
(***************************************************************************)
(* Small instances of Checkout.                                            *)
(***************************************************************************)
EXTENDS Checkout

\* Each installment has a reference number of its own, written in a file twice.
MCRefOf == [i \in Installments |-> i]
MCFiles == {<<2, 1, 2>>}
=============================================================================
