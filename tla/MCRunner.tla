------------------------------ MODULE MCRunner ------------------------------
(***************************************************************************)
(* Instances of Runner for TLC: one worker process, publish calls without  *)
(* idempotency keys or with one in common.                                 *)
(***************************************************************************)
EXTENDS Runner

CONSTANTS j1, j2, ch1, ch2, k

Loops == Process \X {"poll", "listen"}

OneChannel == [j \in Job |-> ch1]
NoKeys == [j \in Job |-> NoKey]
SharedKey == [j \in Job |-> k]
OneAttempt == [j \in Job |-> 1]
\* Whichever call of the key inserts the job decides on its attempts.
MixedAttempts == [j \in Job |-> IF j = j1 THEN 2 ELSE 0]
=============================================================================
