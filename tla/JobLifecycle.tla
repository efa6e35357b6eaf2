---------------------------- MODULE JobLifecycle ----------------------------
(***************************************************************************)
(* What the queue promises of one job, without leases, workers or SQL      *)
(* (packages/queue/src/lib.rs, the status constants and the comments of    *)
(* publish, fail, reclaim_expired and redrive):                            *)
(*                                                                         *)
(*   absent -> waiting | ready -> processing -> done                       *)
(*                  ^                 |   \                                *)
(*                  +---- retry ------+    +-> dead -> redrive -> ready    *)
(*                                                                         *)
(* A retry is possible while tries < Budget, the job dies at the budget,   *)
(* done is final and dead is left only by an operator.                     *)
(***************************************************************************)
EXTENDS Naturals

CONSTANTS
    Job,
    Budget  \* [Job -> Nat \ {0}]

VARIABLES state, tries

Init ==
    /\ state = [j \in Job |-> "absent"]
    /\ tries = [j \in Job |-> 0]

To(j, S) == state'[j] \in S
Keeps(j) == tries'[j] = tries[j]

Publish(j) == state[j] = "absent" /\ To(j, {"waiting", "ready"}) /\ tries'[j] = 0
Ripen(j) == state[j] = "waiting" /\ To(j, {"ready"}) /\ Keeps(j)
Start(j) == state[j] = "ready" /\ To(j, {"processing"}) /\ tries'[j] = tries[j] + 1
Finish(j) == state[j] = "processing" /\ To(j, {"done"}) /\ Keeps(j)
Retry(j) ==
    /\ state[j] = "processing"
    /\ tries[j] < Budget[j]
    /\ To(j, {"waiting", "ready"})
    /\ Keeps(j)
Bury(j) ==
    /\ state[j] = "processing"
    /\ tries[j] >= Budget[j]
    /\ To(j, {"dead"})
    /\ Keeps(j)
Redrive(j) == state[j] = "dead" /\ To(j, {"ready"}) /\ tries'[j] = 0

Step(j) ==
    \/ Publish(j) \/ Ripen(j) \/ Start(j) \/ Finish(j)
    \/ Retry(j) \/ Bury(j) \/ Redrive(j)

\* A statement may move several rows, each by a legal step.
Next ==
    \A j \in Job : Step(j) \/ (state'[j] = state[j] /\ Keeps(j))

Spec == Init /\ [][Next]_<<state, tries>>
=============================================================================
