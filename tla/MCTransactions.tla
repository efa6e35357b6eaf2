--------------------------- MODULE MCTransactions ---------------------------
(***************************************************************************)
(* Instances of Transactions for TLC: bulk_update and bulk_delete of the   *)
(* same two rows, and an update that runs a nested one.                    *)
(***************************************************************************)
EXTENDS Transactions, TLC

CONSTANTS bulk, gone, nested, a, b

Bodies == [c \in Call |-> IF c = nested THEN <<{a}, {b}>> ELSE <<{a, b}>>]
TwoAttempts == [c \in Call |-> 2]
=============================================================================
