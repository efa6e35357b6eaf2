------------------------- MODULE JobQueueRefinement -------------------------
(***************************************************************************)
(* The queue implements JobLifecycle for the jobs whose leases do not run  *)
(* out under a worker; and one idempotency key is one row, whatever the    *)
(* leases do.                                                              *)
(***************************************************************************)
EXTENDS JobQueueProofs

-----------------------------------------------------------------------------
(* What one statement may do to one row. *)

Same(j) ==
    /\ jobs'[j].status = jobs[j].status
    /\ jobs'[j].attempts = jobs[j].attempts
    /\ jobs[j].due => jobs'[j].due

Inserted(j) == /\ jobs[j].status = "absent"
               /\ \E due \in BOOLEAN : jobs'[j] = Fresh(due)
Claimed(j) == /\ jobs[j].status = "pending" /\ jobs[j].due
              /\ jobs'[j] = Leased(jobs[j])
LetGo(j) ==
    /\ jobs[j].status = "processing"
    /\ \E due, error \in BOOLEAN :
         \/ jobs'[j] = Released(jobs[j], "done", due, error)
         \/ /\ IsLastAttempt(j)
            /\ jobs'[j] = Released(jobs[j], "dead", due, error)
         \/ /\ ~IsLastAttempt(j)
            /\ jobs'[j] = Released(jobs[j], "pending", due, error)
Redriven(j) == jobs[j].status = "dead" /\ jobs'[j] = Fresh(TRUE)

RowMove(j) == Same(j) \/ Inserted(j) \/ Claimed(j) \/ LetGo(j) \/ Redriven(j)

USE DEF table, clients, ghosts, vars, Status, Lease, Same

LEMMA SettleMoves ==
    ASSUME TypeOK, ExclusiveRun, NEW r \in runs, Settle(r), NEW j \in Steady
    PROVE  RowMove(j)
<1> j \in Job
  BY DEF Steady
<1>1. r.job \in Job /\ (r.job \in Steady => jobs[r.job].status = "processing")
  BY DEF TypeOK, Run, ExclusiveRun
<1>2. jobs[r.job].due \in BOOLEAN
  BY <1>1 DEF TypeOK, Row
<1>3. CASE j # r.job
  <2>1. jobs'[j] = jobs[j]
    BY <1>3 DEF Settle, Complete, Fail, SettleError, TypeOK
  <2>2. QED
    BY <2>1 DEF RowMove
<1>4. CASE j = r.job
  <2>1. CASE Complete(r)
    <3>1. jobs'[j] = Released(jobs[j], "done", jobs[j].due, FALSE)
      BY <1>1, <1>4, <2>1 DEF Complete, TypeOK
    <3>2. QED
      BY <1>1, <1>2, <1>4, <3>1 DEF RowMove, LetGo
  <2>2. CASE Fail(r)
    <3>1. PICK due \in BOOLEAN :
            jobs'[j] = IF IsLastAttempt(j)
                       THEN Released(jobs[j], "dead", jobs[j].due, TRUE)
                       ELSE Released(jobs[j], "pending", due, TRUE)
      BY <1>1, <1>4, <2>2 DEF Fail, TypeOK
    <3>2. CASE IsLastAttempt(j)
      BY <1>1, <1>2, <1>4, <3>1, <3>2 DEF RowMove, LetGo
    <3>3. CASE ~IsLastAttempt(j)
      BY <1>1, <1>4, <3>1, <3>3 DEF RowMove, LetGo
    <3>4. QED
      BY <3>2, <3>3
  <2>3. CASE SettleError(r)
    BY <2>3 DEF SettleError, RowMove
  <2>4. QED
    BY <2>1, <2>2, <2>3 DEF Settle
<1>5. QED
  BY <1>3, <1>4

LEMMA StepMoves ==
    ASSUME TypeOK, TableInv, ExclusiveRun, Next, NEW j \in Steady
    PROVE  RowMove(j)
<1> j \in Job
  BY DEF Steady
<1>1. CASE jobs' = jobs
  BY <1>1 DEF RowMove
<1>2. ASSUME NEW i \in Job, PublishInsert(i)
      PROVE  RowMove(j)
  <2>1. jobs[i].status = "absent"
    BY <1>2 DEF PublishInsert, TableInv, CallsInv
  <2>2. QED
    BY <1>2, <2>1 DEF PublishInsert, RowMove, Inserted, TypeOK
<1>3. ASSUME NEW i \in Job, BecomeDue(i)
      PROVE  RowMove(j)
  BY <1>3 DEF BecomeDue, RowMove, TypeOK, Row
<1>4. ASSUME NEW i \in Job, LeaseExpires(i)
      PROVE  RowMove(j)
  BY <1>4 DEF LeaseExpires, RowMove, TypeOK, Row
<1>5. ASSUME NEW w \in Worker, GrantLeases(w)
      PROVE  RowMove(j)
  <2>1. j \in locks[w] => jobs[j].status = "pending" /\ jobs[j].due
    BY DEF TableInv, LocksInv
  <2>2. QED
    BY <1>5, <2>1 DEF GrantLeases, RowMove, Claimed
<1>6. CASE ReclaimExpired
  <2>1. jobs[j].due \in BOOLEAN
    BY DEF TypeOK, Row
  <2>2. CASE j \in Expired
    <3>1. /\ jobs[j].status = "processing"
          /\ jobs'[j] = Released(jobs[j], IF IsLastAttempt(j) THEN "dead"
                                          ELSE "pending", jobs[j].due, TRUE)
      BY <1>6, <2>2 DEF ReclaimExpired, Expired, With
    <3>2. QED
      BY <2>1, <3>1 DEF RowMove, LetGo
  <2>3. CASE j \notin Expired
    BY <1>6, <2>3 DEF ReclaimExpired, RowMove
  <2>4. QED
    BY <2>2, <2>3
<1>7. ASSUME NEW ch \in Channel, Redrive(ch)
      PROVE  RowMove(j)
  BY <1>7 DEF Redrive, DeadOn, With, RowMove, Redriven
<1>8. ASSUME NEW r \in runs, Settle(r)
      PROVE  RowMove(j)
  BY <1>8, SettleMoves
<1>9. QED
  BY <1>1, <1>2, <1>3, <1>4, <1>5, <1>6, <1>7, <1>8
     DEF Next, Publish, PublishConflict, PublishNotify, PublishSelect, PublishFails,
         Claim, ClaimLock, ClaimCommit, ClaimLost, Crash, RunJob, StartJob, HandlerOk,
         HandlerErr

-----------------------------------------------------------------------------
(* One key, one row. *)

\* Rows are never deleted, and only an insert that meets no clash adds one.
LEMMA RowsAppear ==
    ASSUME TypeOK, TableInv, Next, NEW j \in Job
    PROVE  \/ jobs'[j].status = "absent" <=> jobs[j].status = "absent"
           \/ PublishInsert(j)
<1>1. CASE jobs' = jobs
  BY <1>1
<1>2. ASSUME NEW i \in Job, PublishInsert(i), i # j
      PROVE  jobs'[j] = jobs[j]
  BY <1>2 DEF PublishInsert, TypeOK
<1>3. ASSUME NEW i \in Job, BecomeDue(i) \/ LeaseExpires(i)
      PROVE  jobs'[j].status = jobs[j].status
  BY <1>3 DEF BecomeDue, LeaseExpires, TypeOK, Row
<1>4. ASSUME NEW w \in Worker, GrantLeases(w)
      PROVE  jobs'[j].status = "absent" <=> jobs[j].status = "absent"
  BY <1>4, GrantTable
<1>5. CASE ReclaimExpired
  BY <1>5 DEF ReclaimExpired, Expired, With, Released
<1>6. ASSUME NEW ch \in Channel, Redrive(ch)
      PROVE  jobs'[j].status = "absent" <=> jobs[j].status = "absent"
  BY <1>6 DEF Redrive, DeadOn, With, Fresh
<1>7. ASSUME NEW r \in runs, Settle(r)
      PROVE  jobs'[j].status = "absent" <=> jobs[j].status = "absent"
  <2>1. r.job \in Job /\ jobs[r.job].status # "absent"
    BY DEF TypeOK, Run, TableInv, RunsInv
  <2>2. CASE j # r.job
    BY <1>7, <2>2 DEF Settle, Complete, Fail, SettleError, TypeOK
  <2>3. CASE j = r.job
    <3>1. Complete(r) => jobs'[j].status = "done"
      BY <2>1, <2>3 DEF Complete, TypeOK, Released
    <3>2. Fail(r) => jobs'[j].status \in {"dead", "pending"}
      BY <2>1, <2>3 DEF Fail, TypeOK, Released
    <3>3. SettleError(r) => jobs' = jobs
      BY DEF SettleError
    <3>4. QED
      BY <1>7, <2>1, <2>3, <3>1, <3>2, <3>3 DEF Settle
  <2>4. QED
    BY <2>2, <2>3
<1>8. QED
  BY <1>1, <1>2, <1>3, <1>4, <1>5, <1>6, <1>7
     DEF Next, Publish, PublishConflict, PublishNotify, PublishSelect, PublishFails,
         Claim, ClaimLock, ClaimCommit, ClaimLost, Crash, RunJob, StartJob, HandlerOk,
         HandlerErr

LEMMA AnswerStep ==
    ASSUME TypeOK, Next, NEW j \in Job
    PROVE  \/ answer'[j] = answer[j] /\ (call'[j] = "returned" <=> call[j] = "returned")
           \/ answer'[j] = {j} /\ call[j] = "notify"
           \/ \E i \in Clashes(j) : answer'[j] = {i}
<1>1. CASE UNCHANGED <<call, answer>>
  BY <1>1
<1>2. ASSUME NEW i \in Job, Publish(i)
      PROVE  \/ answer'[j] = answer[j] /\ (call'[j] = "returned" <=> call[j] = "returned")
             \/ answer'[j] = {j} /\ call[j] = "notify"
             \/ \E x \in Clashes(j) : answer'[j] = {x}
  BY <1>2 DEF Publish, PublishInsert, PublishConflict, PublishNotify, PublishSelect,
              PublishFails, TypeOK
<1>3. QED
  BY <1>1, <1>2 DEF Next, Claim, ClaimLock, ClaimCommit, ClaimLost, GrantLeases, Crash,
                    RunJob, StartJob, HandlerOk, HandlerErr, Settle, Complete, Fail,
                    SettleError, ReclaimExpired, Redrive, BecomeDue, LeaseExpires

LEMMA NextEnqueue ==
    ASSUME TypeOK, TableInv, EnqueueInv, Next
    PROVE  EnqueueInv'
<1>1. ASSUME NEW i \in Job, NEW j \in Job, SameKey(i, j), i # j
      PROVE  jobs'[i].status = "absent" \/ jobs'[j].status = "absent"
  <2>1. SameKey(j, i)
    BY <1>1 DEF SameKey
  <2>2. CASE PublishInsert(i)
    <3>1. jobs[j].status = "absent"
      <4>1. j \notin Clashes(i)
        BY <2>2 DEF PublishInsert
      <4>2. QED
        BY <2>1, <4>1 DEF Clashes, With
    <3>2. jobs'[j] = jobs[j]
      BY <1>1, <2>2 DEF PublishInsert, TypeOK
    <3>3. QED
      BY <3>1, <3>2
  <2>3. CASE PublishInsert(j)
    <3>1. jobs[i].status = "absent"
      <4>1. i \notin Clashes(j)
        BY <2>3 DEF PublishInsert
      <4>2. QED
        BY <1>1, <4>1 DEF Clashes, With
    <3>2. jobs'[i] = jobs[i]
      BY <1>1, <2>3 DEF PublishInsert, TypeOK
    <3>3. QED
      BY <3>1, <3>2
  <2>4. CASE ~PublishInsert(i) /\ ~PublishInsert(j)
    BY <1>1, <2>4, RowsAppear DEF EnqueueInv
  <2>5. QED
    BY <2>2, <2>3, <2>4
<1>2. ASSUME NEW i \in Job, jobs[i].status # "absent"
      PROVE  jobs'[i].status # "absent"
  <2>1. ~PublishInsert(i)
    BY <1>2 DEF PublishInsert, TableInv, CallsInv
  <2>2. QED
    BY <1>2, <2>1, RowsAppear
<1>3. ASSUME NEW i \in Job, NEW j \in Job, i \in answer'[j]
      PROVE  jobs'[i].status # "absent" /\ (i = j \/ SameKey(i, j))
  BY <1>2, <1>3, AnswerStep DEF EnqueueInv, TableInv, CallsInv, Clashes, With
<1>4. ASSUME NEW j \in Job, call'[j] = "returned"
      PROVE  \E x \in Job : answer'[j] = {x}
  BY <1>4, AnswerStep DEF EnqueueInv, Clashes
<1>5. QED
  BY <1>1, <1>3, <1>4 DEF EnqueueInv, SameKey

\* Calls with one key enqueue one row and all get its id, under every interleaving
\* of their statements and every failure of a call after its insert.
THEOREM EnqueuedOnceHolds == Spec => []EnqueuedOnce
<1>1. Init => EnqueueInv
  BY DEF Init, EnqueueInv
<1>2. TypeOK /\ TableInv /\ EnqueueInv /\ [Next]_vars => EnqueueInv'
  <2>1. EnqueueInv /\ UNCHANGED vars => EnqueueInv'
    BY DEF EnqueueInv
  <2>2. QED
    BY <2>1, NextEnqueue
<1>3. EnqueueInv => EnqueuedOnce
  <2> SUFFICES ASSUME EnqueueInv, NEW i \in Job, NEW j \in Job,
                      SameKey(i, j), call[i] = "returned", call[j] = "returned"
               PROVE  answer[i] = answer[j]
    BY DEF EnqueueInv, EnqueuedOnce
  <2>1. PICK x \in Job, y \in Job : answer[i] = {x} /\ answer[j] = {y}
    BY DEF EnqueueInv
  <2>2. /\ jobs[x].status # "absent" /\ jobs[y].status # "absent"
        /\ x = i \/ SameKey(x, i)
        /\ y = j \/ SameKey(y, j)
    BY <2>1 DEF EnqueueInv
  <2>3. SameKey(x, y)
    BY <2>2 DEF SameKey
  <2>4. x = y
    BY <2>2, <2>3 DEF EnqueueInv
  <2>5. QED
    BY <2>1, <2>4
<1>4. QED
  BY <1>1, <1>2, <1>3, TypeCorrect, TableCorrect, PTL DEF Spec

-----------------------------------------------------------------------------
(* Done is final, and the refinement. *)

\* A job that is done is not run, failed or buried again if its leases outlive its
\* runs.
THEOREM DoneIsFinalHolds == Spec => DoneIsFinal
<1>1. TypeOK /\ TableInv /\ ExclusiveRun /\ [Next]_vars
        => [\A j \in Steady : jobs[j].status = "done" => jobs'[j].status = "done"]_vars
  <2> SUFFICES ASSUME TypeOK, TableInv, ExclusiveRun, [Next]_vars,
                      NEW j \in Steady, jobs[j].status = "done"
               PROVE  jobs'[j].status = "done"
    OBVIOUS
  <2>1. CASE Next
    BY <2>1, StepMoves DEF RowMove, Inserted, Claimed, LetGo, Redriven
  <2>2. CASE UNCHANGED vars
    BY <2>2
  <2>3. QED
    BY <2>1, <2>2
<1>2. QED
  BY <1>1, TypeCorrect, TableCorrect, ExclusiveRunHolds, PTL DEF Spec, DoneIsFinal

LEMMA LegalMove ==
    ASSUME TypeOK, TableInv, NEW j \in Steady, RowMove(j)
    PROVE  \/ Lifecycle!Step(j)
           \/ State(j)' = State(j) /\ jobs'[j].attempts = jobs[j].attempts
<1> j \in Job
  BY DEF Steady
<1> USE DEF Lifecycle!Step, Lifecycle!Publish, Lifecycle!Ripen, Lifecycle!Start,
            Lifecycle!Finish, Lifecycle!Retry, Lifecycle!Bury, Lifecycle!Redrive,
            Lifecycle!To, Lifecycle!Keeps, State
<1>1. /\ jobs[j].status = "processing" => jobs[j].attempts >= 1
      /\ jobs[j].attempts \in Nat /\ MaxOf[j] \in Nat
  BY MaxAssumption DEF TypeOK, Row, TableInv, RowsInv, RowInv
<1>2. CASE Same(j)
  BY <1>2
<1>3. CASE Inserted(j)
  BY <1>3 DEF Inserted, Fresh
<1>4. CASE Claimed(j)
  BY <1>4 DEF Claimed, Leased
<1>5. CASE LetGo(j)
  <2>1. IsLastAttempt(j) /\ jobs[j].status = "processing"
          => jobs[j].attempts >= Budget[j]
    BY <1>1 DEF IsLastAttempt, Budget
  <2>2. ~IsLastAttempt(j) => jobs[j].attempts < Budget[j]
    BY <1>1 DEF IsLastAttempt, Budget
  <2>3. QED
    BY <1>5, <2>1, <2>2 DEF LetGo, Released
<1>6. CASE Redriven(j)
  BY <1>6 DEF Redriven, Fresh
<1>7. QED
  BY <1>2, <1>3, <1>4, <1>5, <1>6 DEF RowMove

\* Every statement of the queue is, job by job, a step of the documented lifecycle
\* or none: retries stop at the budget, done is final, dead is left by redrive only.
THEOREM RefinesLifecycle == Spec => FollowsLifecycle
<1>1. Init => Lifecycle!Init
  BY DEF Init, Lifecycle!Init, State, Steady
<1>2. TypeOK /\ TableInv /\ ExclusiveRun /\ [Next]_vars
        => [Lifecycle!Next]_<<[j \in Steady |-> State(j)], [j \in Steady |-> jobs[j].attempts]>>
  <2> SUFFICES ASSUME TypeOK, TableInv, ExclusiveRun, [Next]_vars
               PROVE  \/ Lifecycle!Next
                      \/ UNCHANGED <<[j \in Steady |-> State(j)],
                                     [j \in Steady |-> jobs[j].attempts]>>
    OBVIOUS
  <2>1. CASE Next
    <3>1. \A j \in Steady :
            \/ Lifecycle!Step(j)
            \/ State(j)' = State(j) /\ jobs'[j].attempts = jobs[j].attempts
      BY <2>1, StepMoves, LegalMove
    <3>2. \A j \in Steady :
            /\ [i \in Steady |-> State(i)][j] = State(j)
            /\ [i \in Steady |-> State(i)]'[j] = State(j)'
            /\ [i \in Steady |-> jobs[i].attempts][j] = jobs[j].attempts
            /\ [i \in Steady |-> jobs[i].attempts]'[j] = jobs'[j].attempts
      OBVIOUS
    <3>3. QED
      BY <3>1, <3>2 DEF Lifecycle!Next, Lifecycle!Keeps
  <2>2. CASE UNCHANGED vars
    BY <2>2 DEF State
  <2>3. QED
    BY <2>1, <2>2
<1>3. QED
  BY <1>1, <1>2, TypeCorrect, TableCorrect, ExclusiveRunHolds, PTL
     DEF Spec, FollowsLifecycle, Lifecycle!Spec
=============================================================================
