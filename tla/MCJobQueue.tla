----------------------------- MODULE MCJobQueue -----------------------------
(***************************************************************************)
(* Instances of JobQueue for TLC: publish calls that share an idempotency  *)
(* key on one channel, so that the row of either may be the one inserted.  *)
(***************************************************************************)
EXTENDS JobQueue, TLC

CONSTANTS j1, j2, ch, k

OneChannel == [j \in Job |-> ch]
SharedKey == [j \in Job |-> k]
TwoAttempts == [j \in Job |-> 2]
ThreeAttempts == [j \in Job |-> 3]

WorkerSymmetry == Permutations(Worker)
=============================================================================
