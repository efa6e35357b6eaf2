--------------------------- MODULE JobQueueProofs ---------------------------
(***************************************************************************)
(* Proofs about JobQueue, for every number of jobs, workers, channels,     *)
(* keys and attempts.                                                      *)
(***************************************************************************)
EXTENDS JobQueue, TLAPS

USE DEF table, clients, ghosts, vars, Status, Lease

-----------------------------------------------------------------------------
(* Type correctness. *)

LEMMA InitType == Init => TypeOK
  BY DEF Init, TypeOK, Row, Run

\* What the statements write into a row is a row.
LEMMA RowTypes ==
    ASSUME NEW row \in Row, NEW due \in BOOLEAN, NEW error \in BOOLEAN,
           NEW status \in Status
    PROVE  /\ Fresh(due) \in Row
           /\ Leased(row) \in Row
           /\ Released(row, status, due, error) \in Row
           /\ row.due \in BOOLEAN
           /\ row.attempts \in Nat
  BY DEF Row, Fresh, Leased, Released

LEMMA PublishType ==
    ASSUME TypeOK, NEW j \in Job, Publish(j)
    PROVE  TypeOK'
<1>1. CASE PublishInsert(j)
  <2>1. jobs' \in [Job -> Row]
    <3>1. \A due \in BOOLEAN : Fresh(due) \in Row
      BY DEF Fresh, Row
    <3>2. QED
      BY <1>1, <3>1 DEF PublishInsert, TypeOK
  <2>2. QED
    BY <1>1, <2>1 DEF PublishInsert, TypeOK
<1>2. CASE PublishConflict(j)
  BY <1>2 DEF PublishConflict, TypeOK
<1>3. CASE PublishNotify(j)
  BY <1>3 DEF PublishNotify, TypeOK
<1>4. CASE PublishSelect(j)
  BY <1>4 DEF PublishSelect, TypeOK, Clashes
<1>5. CASE PublishFails(j)
  BY <1>5 DEF PublishFails, TypeOK
<1>6. QED
  BY <1>1, <1>2, <1>3, <1>4, <1>5 DEF Publish

LEMMA GrantType ==
    ASSUME TypeOK, NEW w \in Worker, GrantLeases(w)
    PROVE  /\ jobs' \in [Job -> Row]
           /\ claims' \in [Job -> Nat]
           /\ locks' \in [Worker -> SUBSET Job]
<1>1. ASSUME NEW i \in Job
      PROVE  Leased(jobs[i]) \in Row
  BY RowTypes DEF TypeOK
<1>2. jobs' \in [Job -> Row]
  BY <1>1 DEF GrantLeases, TypeOK
<1>3. claims' \in [Job -> Nat]
  BY DEF GrantLeases, TypeOK
<1>4. locks' \in [Worker -> SUBSET Job]
  BY DEF GrantLeases, TypeOK
<1>5. QED
  BY <1>2, <1>3, <1>4

LEMMA ClaimType ==
    ASSUME TypeOK, NEW w \in Worker, Claim(w)
    PROVE  TypeOK'
<1>1. ASSUME NEW ch \in Channel, ClaimLock(w, ch)
      PROVE  TypeOK'
  <2>1. PICK S \in SUBSET Claimable(ch) : locks' = [locks EXCEPT ![w] = S]
    BY <1>1 DEF ClaimLock
  <2>2. S \subseteq Job
    BY DEF Claimable, With
  <2>3. locks' \in [Worker -> SUBSET Job]
    BY <2>1, <2>2 DEF TypeOK
  <2>4. QED
    BY <1>1, <2>3 DEF ClaimLock, TypeOK
<1>2. CASE ClaimCommit(w)
  <2>1. runs' \subseteq Run
    <3>1. \A j \in locks[w] : j \in Job /\ claims[j] + 1 \in Nat
      BY DEF TypeOK
    <3>2. ASSUME NEW i \in locks[w]
          PROVE  [by |-> w, job |-> i, nth |-> claims[i] + 1,
                  phase |-> "claimed", lapsed |-> FALSE] \in Run
      BY <3>1 DEF Run
    <3>3. QED
      BY <1>2, <3>2 DEF ClaimCommit, TypeOK
  <2>2. QED
    BY <1>2, <2>1, GrantType DEF ClaimCommit, GrantLeases, TypeOK
<1>3. CASE ClaimLost(w)
  BY <1>3, GrantType DEF ClaimLost, GrantLeases, TypeOK
<1>4. QED
  BY <1>1, <1>2, <1>3 DEF Claim

LEMMA BecomesType ==
    ASSUME TypeOK, NEW r \in runs, NEW ph \in {"claimed", "running", "ok", "err"}
    PROVE  Becomes(r, ph) \subseteq Run
  BY DEF TypeOK, Becomes, Run

LEMMA RunJobType ==
    ASSUME TypeOK, NEW r \in runs, RunJob(r)
    PROVE  TypeOK'
<1>0. r \in Run /\ r.job \in Job
  BY DEF TypeOK, Run
<1>1. CASE StartJob(r)
  BY <1>1, BecomesType DEF StartJob, TypeOK
<1>2. CASE HandlerOk(r)
  BY <1>0, <1>2, BecomesType DEF HandlerOk, TypeOK
<1>3. CASE HandlerErr(r)
  BY <1>3, BecomesType DEF HandlerErr, TypeOK
<1>4. CASE Complete(r)
  <2>1. jobs' \in [Job -> Row]
    <3>1. Released(jobs[r.job], "done", jobs[r.job].due, FALSE) \in Row
      BY <1>0, RowTypes DEF TypeOK
    <3>2. QED
      BY <1>0, <1>4, <3>1 DEF Complete, TypeOK
  <2>2. QED
    BY <1>4, <2>1 DEF Complete, TypeOK
<1>5. CASE Fail(r)
  <2>1. jobs' \in [Job -> Row]
    <3>1. ASSUME NEW due \in BOOLEAN
          PROVE  /\ Released(jobs[r.job], "dead", jobs[r.job].due, TRUE) \in Row
                 /\ Released(jobs[r.job], "pending", due, TRUE) \in Row
      BY <1>0, RowTypes DEF TypeOK
    <3>2. QED
      BY <1>0, <1>5, <3>1 DEF Fail, TypeOK
  <2>2. QED
    BY <1>5, <2>1 DEF Fail, TypeOK
<1>6. CASE SettleError(r)
  BY <1>6 DEF SettleError, TypeOK
<1>7. QED
  BY <1>1, <1>2, <1>3, <1>4, <1>5, <1>6 DEF RunJob, Settle

LEMMA CrashType ==
    ASSUME TypeOK, NEW W \in SUBSET Worker, Crash(W)
    PROVE  TypeOK'
  BY DEF Crash, TypeOK

LEMMA ReclaimType ==
    ASSUME TypeOK, ReclaimExpired
    PROVE  TypeOK'
<1>1. ASSUME NEW i \in Job
      PROVE  Released(jobs[i], IF IsLastAttempt(i) THEN "dead" ELSE "pending",
                      jobs[i].due, TRUE) \in Row
  BY RowTypes DEF TypeOK
<1>2. jobs' \in [Job -> Row]
  BY <1>1 DEF ReclaimExpired, TypeOK
<1>3. QED
  BY <1>2 DEF ReclaimExpired, TypeOK

LEMMA RedriveType ==
    ASSUME TypeOK, NEW ch \in Channel, Redrive(ch)
    PROVE  TypeOK'
<1>1. jobs' \in [Job -> Row]
  <2>1. Fresh(TRUE) \in Row
    BY DEF Fresh, Row
  <2>2. QED
    BY <2>1 DEF Redrive, TypeOK
<1>2. redrives' \in [Job -> Nat]
  BY DEF Redrive, TypeOK
<1>3. QED
  BY <1>1, <1>2 DEF Redrive, TypeOK

LEMMA ClockType ==
    ASSUME TypeOK, NEW j \in Job, BecomeDue(j) \/ LeaseExpires(j)
    PROVE  TypeOK'
<1>1. CASE BecomeDue(j)
  <2>1. jobs' \in [Job -> Row]
    BY <1>1 DEF BecomeDue, TypeOK, Row
  <2>2. QED
    BY <1>1, <2>1 DEF BecomeDue, TypeOK
<1>2. CASE LeaseExpires(j)
  <2>1. jobs' \in [Job -> Row]
    BY <1>2 DEF LeaseExpires, TypeOK, Row
  <2>2. runs' \subseteq Run
    <3>1. ASSUME NEW r \in runs
          PROVE  r \in Run /\ [r EXCEPT !.lapsed = TRUE] \in Run
      BY DEF TypeOK, Run
    <3>2. QED
      BY <1>2, <3>1 DEF LeaseExpires
  <2>3. QED
    BY <1>2, <2>1, <2>2 DEF LeaseExpires, TypeOK
<1>3. QED
  BY <1>1, <1>2

LEMMA NextType == TypeOK /\ [Next]_vars => TypeOK'
<1>1. TypeOK /\ UNCHANGED vars => TypeOK'
  BY DEF TypeOK
<1>2. TypeOK /\ Next => TypeOK'
  BY PublishType, ClockType, ClaimType, CrashType, RunJobType, ReclaimType,
     RedriveType DEF Next
<1>3. QED
  BY <1>1, <1>2

\* Every variable stays in its type: rows are rows, workers hold only jobs.
THEOREM TypeCorrect == Spec => []TypeOK
  BY InitType, NextType, PTL DEF Spec
-----------------------------------------------------------------------------
(* The table: attempts, leases and outcomes, whatever the leases do. *)

LEMMA BudgetFacts ==
    ASSUME NEW j \in Job
    PROVE  /\ MaxOf[j] \in Nat
           /\ Budget[j] \in Nat
           /\ Budget[j] >= 1
           /\ Budget[j] >= MaxOf[j]
  BY MaxAssumption DEF Budget

\* A row inserted keeps RowInv: it has no attempts and was never claimed beyond r
\* full budgets.
LEMMA FreshInv ==
    ASSUME NEW j \in Job, NEW due \in BOOLEAN, NEW c \in Nat, NEW r \in Nat,
           NEW H, c <= r * Budget[j]
    PROVE  RowInv(j, Fresh(due), c, r, H)
  BY BudgetFacts DEF RowInv, Fresh

\* A redrive pays for a fresh budget with one more redrive.
LEMMA RedriveInv ==
    ASSUME NEW j \in Job, NEW row \in Row, NEW c \in Nat, NEW r \in Nat,
           NEW H, RowInv(j, row, c, r, H)
    PROVE  RowInv(j, Fresh(TRUE), c, r + 1, H)
<1> DEFINE b == Budget[j]
<1>1. b \in Nat /\ row.attempts \in Nat /\ row.attempts <= b
  BY BudgetFacts DEF RowInv, Row
<1>2. c <= r * b + row.attempts
  BY DEF RowInv
<1>3. (r + 1) * b = r * b + b /\ r * b \in Nat
  BY <1>1
<1>4. c <= (r + 1) * b
  <2> HIDE DEF b
  <2>1. QED
    BY <1>1, <1>2, <1>3
<1>5. QED
  BY <1>4, BudgetFacts DEF RowInv, Fresh

\* A claim of a pending row counts one attempt and one claim.
LEMMA LeasedInv ==
    ASSUME NEW j \in Job, NEW row \in Row, NEW c \in Nat, NEW r \in Nat,
           NEW H, RowInv(j, row, c, r, H), row.status = "pending"
    PROVE  RowInv(j, Leased(row), c + 1, r, H)
<1> DEFINE b == Budget[j]
           n == row.attempts
<1>1. b \in Nat /\ n \in Nat /\ n < b /\ c <= r * b + n
  BY BudgetFacts DEF RowInv, Row
<1>2. r * b \in Nat
  BY <1>1
<1>3. n + 1 <= b /\ c + 1 <= r * b + (n + 1)
  <2> HIDE DEF b, n
  <2>1. QED
    BY <1>1, <1>2
<1>4. n + 1 >= 1
  BY <1>1
<1>5. QED
  BY <1>3, <1>4 DEF RowInv, Leased

\* A row let go of as pending has an attempt left, as dead has none, as done was
\* handled; its attempts stay.
LEMMA ReleasedInv ==
    ASSUME NEW j \in Job, NEW row \in Row, NEW c \in Nat, NEW r \in Nat,
           NEW H, NEW G, H \subseteq G,
           NEW due \in BOOLEAN, NEW error \in BOOLEAN,
           NEW status \in {"pending", "dead", "done"},
           RowInv(j, row, c, r, H),
           status = "pending" => row.attempts < MaxOf[j],
           status = "dead" => row.attempts >= MaxOf[j] /\ error,
           status = "done" => j \in G
    PROVE  RowInv(j, Released(row, status, due, error), c, r, G)
<1>1. row.attempts \in Nat
  BY DEF Row
<1> DEFINE new == Released(row, status, due, error)
<1>2. new.status = status /\ new.attempts = row.attempts
      /\ new.lease = "none" /\ new.error = error
  BY DEF Released
<1>3. row.attempts <= Budget[j] /\ c <= r * Budget[j] + row.attempts
  BY DEF RowInv
<1>4. status = "pending" => row.attempts < Budget[j]
  BY <1>1, BudgetFacts
<1> HIDE DEF new
<1>5. QED
  BY <1>2, <1>3, <1>4 DEF RowInv, new
LEMMA InitTable == Init => TableInv
<1> SUFFICES ASSUME Init
             PROVE  TableInv
  OBVIOUS
<1>1. ASSUME NEW j \in Job
      PROVE  RowInv(j, jobs[j], claims[j], redrives[j], handled)
  <2>1. 0 * Budget[j] = 0 /\ Budget[j] \in Nat
    BY BudgetFacts
  <2>2. QED
    BY <2>1, BudgetFacts DEF Init, RowInv
<1>2. QED
  BY <1>1 DEF Init, TableInv, RowsInv, LocksInv, RunsInv, CallsInv

LEMMA PublishTable ==
    ASSUME TypeOK, TableInv, NEW j \in Job, Publish(j)
    PROVE  TableInv'
<1>1. CASE PublishInsert(j)
  <2>1. PICK due \in BOOLEAN : jobs' = [jobs EXCEPT ![j] = Fresh(due)]
    BY <1>1 DEF PublishInsert
  <2>2. jobs[j].status = "absent"
    BY <1>1 DEF PublishInsert, TableInv, CallsInv
  <2>3. jobs'[j] = Fresh(due) /\ \A i \in Job : i # j => jobs'[i] = jobs[i]
    BY <2>1 DEF TypeOK
  <2>4. RowsInv'
    <3>1. claims[j] <= redrives[j] * Budget[j]
      <4>1. redrives[j] * Budget[j] \in Nat /\ claims[j] \in Nat
        BY BudgetFacts DEF TypeOK
      <4>2. jobs[j].attempts = 0
        BY <2>2 DEF TableInv, RowsInv, RowInv
      <4>3. claims[j] <= redrives[j] * Budget[j] + jobs[j].attempts
        BY DEF TableInv, RowsInv, RowInv
      <4>4. QED
        BY <4>1, <4>2, <4>3
    <3>2. RowInv(j, Fresh(due), claims[j], redrives[j], handled)
      BY <3>1, FreshInv DEF TypeOK
    <3>3. QED
      BY <1>1, <2>3, <3>2 DEF PublishInsert, TableInv, RowsInv
  <2>5. Fresh(due).status = "pending"
    BY DEF Fresh
  <2>6. LocksInv'
    BY <1>1, <2>2, <2>3 DEF PublishInsert, TableInv, LocksInv, TypeOK
  <2>7. RunsInv'
    BY <1>1, <2>3, <2>5 DEF PublishInsert, TableInv, RunsInv, TypeOK, Run
  <2>8. CallsInv'
    BY <1>1, <2>3, <2>5 DEF PublishInsert, TableInv, CallsInv, TypeOK
  <2>9. QED
    BY <2>4, <2>6, <2>7, <2>8 DEF TableInv
<1>2. CASE ~PublishInsert(j)
  <2>1. UNCHANGED <<jobs, locks, runs, claims, redrives, handled>>
    BY <1>2 DEF Publish, PublishConflict, PublishNotify, PublishSelect, PublishFails
  <2>2. \A i \in Job : \/ call'[i] = call[i]
                       \/ call'[i] \in {"returned", "failed"}
                       \/ call'[i] = "select" /\ call[i] = "unsent"
    BY <1>2 DEF Publish, PublishConflict, PublishNotify, PublishSelect,
                PublishFails, TypeOK
  <2>3. CallsInv'
    BY <2>1, <2>2 DEF TableInv, CallsInv, TypeOK
  <2>4. QED
    BY <2>1, <2>3 DEF TableInv, RowsInv, LocksInv, RunsInv
<1>3. QED
  BY <1>1, <1>2

LEMMA GrantTable ==
    ASSUME TypeOK, TableInv, NEW w \in Worker, GrantLeases(w)
    PROVE  /\ RowsInv'
           /\ LocksInv'
           /\ \A j \in Job : jobs'[j].status = "absent" <=> jobs[j].status = "absent"
<1>1. ASSUME NEW j \in Job
      PROVE  /\ j \in locks[w] => /\ jobs'[j] = Leased(jobs[j])
                                  /\ claims'[j] = claims[j] + 1
                                  /\ jobs[j].status = "pending"
             /\ j \notin locks[w] => jobs'[j] = jobs[j] /\ claims'[j] = claims[j]
  BY DEF GrantLeases, TypeOK, TableInv, LocksInv
<1>2. redrives' = redrives /\ handled' = handled
  BY DEF GrantLeases
<1>3. RowsInv'
  <2> SUFFICES ASSUME NEW j \in Job
               PROVE  RowInv(j, jobs'[j], claims'[j], redrives[j], handled)
    BY <1>2 DEF RowsInv
  <2>1. RowInv(j, jobs[j], claims[j], redrives[j], handled)
    BY DEF TableInv, RowsInv
  <2>2. CASE j \in locks[w]
    BY <1>1, <2>1, <2>2, LeasedInv DEF TypeOK
  <2>3. CASE j \notin locks[w]
    BY <1>1, <2>1, <2>3
  <2>4. QED
    BY <2>2, <2>3
<1>4. LocksInv'
  <2>1. ASSUME NEW v \in Worker
        PROVE  locks'[v] = IF v = w THEN {} ELSE locks[v]
    BY DEF GrantLeases, TypeOK
  <2>2. ASSUME NEW v \in Worker, NEW j \in locks'[v]
        PROVE  jobs'[j].status = "pending" /\ jobs'[j].due
    <3>1. /\ v # w /\ j \in locks[v] /\ j \in Job
          /\ jobs[j].status = "pending" /\ jobs[j].due
      BY <2>1, <2>2 DEF TypeOK, TableInv, LocksInv
    <3>2. j \notin locks[w]
      BY <3>1 DEF TableInv, LocksInv
    <3>3. QED
      BY <1>1, <3>1, <3>2
  <2>3. QED
    BY <2>1, <2>2 DEF TableInv, LocksInv
<1>5. ASSUME NEW j \in Job
      PROVE  jobs'[j].status = "absent" <=> jobs[j].status = "absent"
  <2>1. Leased(jobs[j]).status = "processing"
    BY DEF Leased
  <2>2. QED
    BY <1>1, <2>1
<1>6. QED
  BY <1>3, <1>4, <1>5
LEMMA ClaimTable ==
    ASSUME TypeOK, TableInv, NEW w \in Worker, Claim(w)
    PROVE  TableInv'
<1>1. ASSUME NEW ch \in Channel, ClaimLock(w, ch)
      PROVE  TableInv'
  <2>1. PICK S \in SUBSET Claimable(ch) : locks' = [locks EXCEPT ![w] = S]
    BY <1>1 DEF ClaimLock
  <2>2. \A v \in Worker : locks'[v] = IF v = w THEN S ELSE locks[v]
    BY <2>1 DEF TypeOK
  <2>3. \A j \in S : /\ jobs[j].status = "pending" /\ jobs[j].due
                     /\ \A v \in Worker : j \notin locks[v]
    BY DEF Claimable, With, Locked
  <2>4. LocksInv'
    BY <1>1, <2>2, <2>3 DEF ClaimLock, TableInv, LocksInv
  <2>5. QED
    BY <1>1, <2>4 DEF ClaimLock, TableInv, RowsInv, RunsInv, CallsInv
<1>2. CASE GrantLeases(w)
  <2>1. RowsInv' /\ LocksInv'
    BY <1>2, GrantTable
  <2>2. \A j \in Job : jobs'[j].status = "absent" <=> jobs[j].status = "absent"
    BY <1>2, GrantTable
  <2>3. CallsInv'
    BY <1>2, <2>2 DEF GrantLeases, TableInv, CallsInv
  <2>4. \A r \in runs' : \/ r \in runs
                         \/ r.job \in locks[w] /\ r.phase = "claimed"
    BY <1>2 DEF Claim, ClaimLock, ClaimCommit, ClaimLost
  <2>5. \A j \in locks[w] : j \in Job /\ jobs[j].status = "pending"
    BY DEF TypeOK, TableInv, LocksInv
  <2>6. \A r \in runs : r.job \in Job
    BY DEF TypeOK, Run
  <2>7. handled' = handled
    BY <1>2 DEF GrantLeases
  <2>8. RunsInv'
    BY <2>2, <2>4, <2>5, <2>6, <2>7 DEF TableInv, RunsInv
  <2>9. QED
    BY <2>1, <2>3, <2>8 DEF TableInv
<1>3. QED
  BY <1>1, <1>2 DEF Claim, ClaimCommit, ClaimLost

\* A step that rewrites one unlocked row, as complete, fail and the clock do,
\* keeps the invariant if what it writes there does.
LEMMA OneRowTable ==
    ASSUME TypeOK, TableInv, NEW j \in Job, NEW row,
           jobs' = [jobs EXCEPT ![j] = row],
           jobs[j].status # "absent", row.status # "absent",
           j \in Locked => row.status = "pending" /\ row.due,
           RowInv(j, row, claims[j], redrives[j], handled),
           \A s \in runs' : \E r \in runs : s.job = r.job /\ s.phase = r.phase,
           UNCHANGED <<call, locks, claims, redrives, handled>>
    PROVE  TableInv'
<1>1. jobs'[j] = row /\ \A i \in Job : i # j => jobs'[i] = jobs[i]
  BY DEF TypeOK
<1>2. RowsInv'
  BY <1>1 DEF TableInv, RowsInv
<1>3. LocksInv'
  BY <1>1 DEF TableInv, LocksInv, Locked, TypeOK
<1>4. \A i \in Job : jobs'[i].status = "absent" <=> jobs[i].status = "absent"
  BY <1>1
<1>5. RunsInv'
  BY <1>4 DEF TableInv, RunsInv, TypeOK, Run
<1>6. CallsInv'
  BY <1>4 DEF TableInv, CallsInv
<1>7. QED
  BY <1>2, <1>3, <1>5, <1>6 DEF TableInv

LEMMA RunJobTable ==
    ASSUME TypeOK, TableInv, NEW r \in runs, RunJob(r)
    PROVE  TableInv'
<1>0. r.job \in Job /\ jobs[r.job].status # "absent" /\ jobs[r.job] \in Row
  BY DEF TypeOK, Run, TableInv, RunsInv
<1>1. CASE StartJob(r) \/ HandlerOk(r) \/ HandlerErr(r)
  <2>1. /\ UNCHANGED <<jobs, call, locks, claims, redrives>>
        /\ handled \subseteq handled'
    BY <1>1 DEF StartJob, HandlerOk, HandlerErr
  <2>2. \A s \in runs' : \/ s \in runs
                         \/ s.job = r.job /\ s.phase \in {"running", "err"}
                         \/ s.job = r.job /\ r.job \in handled'
    BY <1>0, <1>1 DEF StartJob, HandlerOk, HandlerErr, Becomes, TypeOK, Run
  <2>3. RunsInv'
    BY <1>0, <2>1, <2>2 DEF TableInv, RunsInv
  <2>4. RowsInv'
    BY <2>1 DEF TableInv, RowsInv, RowInv
  <2>5. QED
    BY <2>1, <2>3, <2>4 DEF TableInv, LocksInv, CallsInv
<1>2. CASE Complete(r)
  <2> DEFINE row == Released(jobs[r.job], "done", jobs[r.job].due, FALSE)
  <2>1. r.job \in handled /\ r.job \notin Locked
    BY <1>2 DEF Complete, TableInv, RunsInv
  <2>2. jobs[r.job].due \in BOOLEAN /\ claims[r.job] \in Nat /\ redrives[r.job] \in Nat
    BY <1>0 DEF TypeOK, Row
  <2>3. RowInv(r.job, jobs[r.job], claims[r.job], redrives[r.job], handled)
    BY <1>0 DEF TableInv, RowsInv
  <2>4. RowInv(r.job, row, claims[r.job], redrives[r.job], handled)
    BY <1>0, <2>1, <2>2, <2>3, ReleasedInv
  <2>5. row.status = "done"
    BY DEF Released
  <2>6. /\ jobs' = [jobs EXCEPT ![r.job] = row]
        /\ runs' \subseteq runs
        /\ UNCHANGED <<call, locks, claims, redrives, handled>>
    BY <1>2 DEF Complete
  <2> HIDE DEF row
  <2>7. QED
    BY <1>0, <2>1, <2>4, <2>5, <2>6, OneRowTable
<1>3. CASE Fail(r)
  <2>1. PICK due \in BOOLEAN :
          jobs' = [jobs EXCEPT ![r.job] =
                     IF IsLastAttempt(r.job)
                     THEN Released(jobs[r.job], "dead", jobs[r.job].due, TRUE)
                     ELSE Released(jobs[r.job], "pending", due, TRUE)]
    BY <1>0, <1>3 DEF Fail
  <2> DEFINE dead == Released(jobs[r.job], "dead", jobs[r.job].due, TRUE)
             again == Released(jobs[r.job], "pending", due, TRUE)
             row == IF IsLastAttempt(r.job) THEN dead ELSE again
  <2>2. /\ jobs[r.job].due \in BOOLEAN /\ claims[r.job] \in Nat
        /\ redrives[r.job] \in Nat /\ jobs[r.job].attempts \in Nat
        /\ MaxOf[r.job] \in Nat
    BY <1>0, MaxAssumption DEF TypeOK, Row
  <2>3. RowInv(r.job, jobs[r.job], claims[r.job], redrives[r.job], handled)
    BY <1>0 DEF TableInv, RowsInv
  <2>4. IsLastAttempt(r.job) =>
          RowInv(r.job, dead, claims[r.job], redrives[r.job], handled)
    BY <1>0, <2>2, <2>3, ReleasedInv DEF IsLastAttempt
  <2>5. ~IsLastAttempt(r.job) =>
          RowInv(r.job, again, claims[r.job], redrives[r.job], handled)
    <3>1. ~IsLastAttempt(r.job) => jobs[r.job].attempts < MaxOf[r.job]
      BY <2>2 DEF IsLastAttempt
    <3>2. QED
      BY <1>0, <2>2, <2>3, <3>1, ReleasedInv
  <2>6. row.status # "absent"
    BY DEF Released
  <2>7. /\ jobs' = [jobs EXCEPT ![r.job] = row]
        /\ runs' \subseteq runs
        /\ r.job \notin Locked
        /\ UNCHANGED <<call, locks, claims, redrives, handled>>
    <3>1. /\ runs' \subseteq runs
          /\ r.job \notin Locked
          /\ UNCHANGED <<call, locks, claims, redrives, handled>>
      BY <1>3 DEF Fail
    <3>2. QED
      BY <2>1, <3>1
  <2>8. RowInv(r.job, row, claims[r.job], redrives[r.job], handled)
    BY <2>4, <2>5
  <2> HIDE DEF row
  <2>9. QED
    BY <1>0, <2>6, <2>7, <2>8, OneRowTable
<1>4. CASE SettleError(r)
  BY <1>4 DEF SettleError, TableInv, RowsInv, LocksInv, RunsInv, CallsInv
<1>5. QED
  BY <1>1, <1>2, <1>3, <1>4 DEF RunJob, Settle
LEMMA CrashTable ==
    ASSUME TypeOK, TableInv, NEW W \in SUBSET Worker, Crash(W)
    PROVE  TableInv'
<1>1. \A v \in Worker : locks'[v] = IF v \in W THEN {} ELSE locks[v]
  BY DEF Crash
<1>2. LocksInv'
  BY <1>1 DEF Crash, TableInv, LocksInv
<1>3. QED
  BY <1>2 DEF Crash, TableInv, RowsInv, RunsInv, CallsInv

LEMMA ReclaimTable ==
    ASSUME TypeOK, TableInv, ReclaimExpired
    PROVE  TableInv'
<1> DEFINE row(j) == Released(jobs[j], IF IsLastAttempt(j) THEN "dead" ELSE "pending",
                              jobs[j].due, TRUE)
<1>1. \A j \in Job : jobs'[j] = IF j \in Expired THEN row(j) ELSE jobs[j]
  BY DEF ReclaimExpired
<1>2. UNCHANGED <<call, locks, runs, claims, redrives, handled>>
  BY DEF ReclaimExpired
<1>3. \A j \in Expired : jobs[j].status = "processing"
  BY DEF Expired, With
<1>4. ASSUME NEW j \in Job
      PROVE  RowInv(j, row(j), claims[j], redrives[j], handled)
  <2>1. /\ jobs[j].due \in BOOLEAN /\ claims[j] \in Nat /\ redrives[j] \in Nat
        /\ jobs[j].attempts \in Nat /\ MaxOf[j] \in Nat /\ jobs[j] \in Row
    BY MaxAssumption DEF TypeOK, Row
  <2>2. RowInv(j, jobs[j], claims[j], redrives[j], handled)
    BY DEF TableInv, RowsInv
  <2>3. IsLastAttempt(j) =>
          RowInv(j, Released(jobs[j], "dead", jobs[j].due, TRUE),
                 claims[j], redrives[j], handled)
    BY <2>1, <2>2, ReleasedInv DEF IsLastAttempt
  <2>4. ~IsLastAttempt(j) =>
          RowInv(j, Released(jobs[j], "pending", jobs[j].due, TRUE),
                 claims[j], redrives[j], handled)
    <3>1. ~IsLastAttempt(j) => jobs[j].attempts < MaxOf[j]
      BY <2>1 DEF IsLastAttempt
    <3>2. QED
      BY <2>1, <2>2, <3>1, ReleasedInv
  <2>5. QED
    BY <2>3, <2>4
<1>5. \A j \in Job : row(j).status # "absent"
  BY DEF Released
<1> HIDE DEF row
<1>6. RowsInv'
  BY <1>1, <1>2, <1>4 DEF TableInv, RowsInv
<1>7. LocksInv'
  BY <1>1, <1>2, <1>3 DEF TableInv, LocksInv, TypeOK
<1>8. \A j \in Job : jobs'[j].status = "absent" <=> jobs[j].status = "absent"
  BY <1>1, <1>3, <1>5
<1>9. RunsInv' /\ CallsInv'
  BY <1>2, <1>8 DEF TableInv, RunsInv, CallsInv, TypeOK, Run
<1>10. QED
  BY <1>6, <1>7, <1>9 DEF TableInv

LEMMA RedriveTable ==
    ASSUME TypeOK, TableInv, NEW ch \in Channel, Redrive(ch)
    PROVE  TableInv'
<1>1. \A j \in Job : /\ jobs'[j] = IF j \in DeadOn(ch) THEN Fresh(TRUE) ELSE jobs[j]
                     /\ redrives'[j] = IF j \in DeadOn(ch) THEN redrives[j] + 1
                                                           ELSE redrives[j]
  BY DEF Redrive
<1>2. UNCHANGED <<call, locks, runs, claims, handled>>
  BY DEF Redrive
<1>3. \A j \in DeadOn(ch) : jobs[j].status = "dead"
  BY DEF DeadOn, With
<1>4. Fresh(TRUE).status = "pending"
  BY DEF Fresh
<1>5. RowsInv'
  <2>1. ASSUME NEW j \in Job
        PROVE  RowInv(j, jobs'[j], claims[j], redrives'[j], handled)
    <3>1. /\ RowInv(j, jobs[j], claims[j], redrives[j], handled)
          /\ jobs[j] \in Row /\ claims[j] \in Nat /\ redrives[j] \in Nat
      BY DEF TableInv, RowsInv, TypeOK
    <3>2. RowInv(j, Fresh(TRUE), claims[j], redrives[j] + 1, handled)
      BY <3>1, RedriveInv
    <3>3. QED
      BY <1>1, <3>1, <3>2
  <2>2. QED
    BY <1>2, <2>1 DEF RowsInv
<1>6. LocksInv'
  <2>1. \A w \in Worker : \A j \in locks[w] : j \in Job /\ j \notin DeadOn(ch)
    BY <1>3 DEF TableInv, LocksInv, TypeOK
  <2>2. QED
    BY <1>1, <1>2, <2>1 DEF TableInv, LocksInv
<1>7. \A j \in Job : jobs'[j].status = "absent" <=> jobs[j].status = "absent"
  BY <1>1, <1>3, <1>4
<1>8. RunsInv' /\ CallsInv'
  BY <1>2, <1>7 DEF TableInv, RunsInv, CallsInv, TypeOK, Run
<1>9. QED
  BY <1>5, <1>6, <1>8 DEF TableInv

LEMMA ClockTable ==
    ASSUME TypeOK, TableInv, NEW j \in Job, BecomeDue(j) \/ LeaseExpires(j)
    PROVE  TableInv'
<1>1. PICK row : /\ jobs' = [jobs EXCEPT ![j] = row]
                 /\ jobs[j].due => row.due
                 /\ row.status = jobs[j].status /\ row.attempts = jobs[j].attempts
                 /\ row.error = jobs[j].error
                 /\ row.lease # "none" <=> jobs[j].lease # "none"
  <2>1. CASE BecomeDue(j)
    <3> DEFINE row == [jobs[j] EXCEPT !.due = TRUE]
    <3>1. jobs' = [jobs EXCEPT ![j] = row]
      BY <2>1 DEF BecomeDue, TypeOK
    <3>2. /\ row.status = jobs[j].status /\ row.attempts = jobs[j].attempts
          /\ row.error = jobs[j].error /\ row.lease = jobs[j].lease /\ row.due
      BY DEF TypeOK, Row
    <3> HIDE DEF row
    <3>3. QED
      BY <3>1, <3>2
  <2>2. CASE LeaseExpires(j)
    <3> DEFINE row == [jobs[j] EXCEPT !.lease = "expired"]
    <3>1. jobs' = [jobs EXCEPT ![j] = row] /\ jobs[j].lease = "live"
      BY <2>2 DEF LeaseExpires, TypeOK
    <3>2. /\ row.status = jobs[j].status /\ row.attempts = jobs[j].attempts
          /\ row.error = jobs[j].error /\ row.lease = "expired"
          /\ row.due = jobs[j].due
      BY DEF TypeOK, Row
    <3> HIDE DEF row
    <3>3. QED
      BY <3>1, <3>2
  <2>3. QED
    BY <2>1, <2>2
<1>2. jobs[j].status # "absent"
  BY DEF BecomeDue, LeaseExpires, TableInv, RowsInv, RowInv
<1>3. RowInv(j, row, claims[j], redrives[j], handled)
  BY <1>1 DEF TableInv, RowsInv, RowInv
<1>4. j \in Locked => row.status = "pending" /\ row.due
  BY <1>1 DEF Locked, TableInv, LocksInv
<1>5. UNCHANGED <<call, locks, claims, redrives, handled>>
  BY DEF BecomeDue, LeaseExpires
<1>6. \A s \in runs' : \E r \in runs : s.job = r.job /\ s.phase = r.phase
  BY DEF BecomeDue, LeaseExpires, TypeOK, Run
<1>7. QED
  BY <1>1, <1>2, <1>3, <1>4, <1>5, <1>6, OneRowTable

LEMMA NextTable == TypeOK /\ TableInv /\ [Next]_vars => TableInv'
<1>1. TableInv /\ UNCHANGED vars => TableInv'
  BY DEF TableInv, RowsInv, LocksInv, RunsInv, CallsInv
<1>2. TypeOK /\ TableInv /\ Next => TableInv'
  BY PublishTable, ClockTable, ClaimTable, CrashTable, RunJobTable, ReclaimTable,
     RedriveTable DEF Next
<1>3. QED
  BY <1>1, <1>2

LEMMA TableCorrect == Spec => []TableInv
  BY InitTable, NextTable, TypeCorrect, PTL DEF Spec
\* A job is claimed at most its budget of times per drive and waits only with an
\* attempt left, however late complete and fail arrive.
THEOREM RetryBudgetHolds == Spec => []RetryBudget
<1>1. TableInv => RetryBudget
  BY DEF TableInv, RowsInv, RowInv, RetryBudget
<1>2. QED
  BY <1>1, TableCorrect, PTL

\* No row is stranded in processing where the reaper cannot see it.
THEOREM LeasedIffProcessingHolds == Spec => []LeasedIffProcessing
<1>1. TableInv => LeasedIffProcessing
  BY DEF TableInv, RowsInv, RowInv, LeasedIffProcessing
<1>2. QED
  BY <1>1, TableCorrect, PTL

\* dead means exhausted and explained, done means handled.
THEOREM OutcomeIsEarnedHolds == Spec => []OutcomeIsEarned
<1>1. TableInv => OutcomeIsEarned
  BY DEF TableInv, RowsInv, RowInv, OutcomeIsEarned
<1>2. QED
  BY <1>1, TableCorrect, PTL

-----------------------------------------------------------------------------
(* Exclusive runs: what a lease that outlives its run buys. *)

LEMMA InitExclusive == Init => ExclusiveRun
  BY DEF Init, ExclusiveRun

\* A step that keeps the rows and claim numbers of the steady jobs still held, and
\* holds nothing new, keeps the runs exclusive.
LEMMA FewerRuns ==
    ASSUME TypeOK, ExclusiveRun,
           \A r \in runs' : r.job \in Steady =>
             /\ r \in runs
             /\ jobs'[r.job].status = jobs[r.job].status
             /\ jobs'[r.job].lease = jobs[r.job].lease
             /\ claims'[r.job] = claims[r.job]
    PROVE  ExclusiveRun'
  BY DEF ExclusiveRun, Held

\* A claim that commits takes over jobs nobody holds.
LEMMA ClaimCommitExclusive ==
    ASSUME TypeOK, TableInv, ExclusiveRun, NEW w \in Worker, ClaimCommit(w)
    PROVE  ExclusiveRun'
<1> DEFINE new == {[by |-> w, job |-> j, nth |-> claims[j] + 1,
                    phase |-> "claimed", lapsed |-> FALSE] : j \in locks[w]}
<1>1. runs' = runs \cup new
  BY DEF ClaimCommit
<1>2. \A j \in locks[w] : j \in Job /\ jobs[j].status = "pending"
  BY DEF TypeOK, TableInv, LocksInv
<1>3. \A r \in runs : r.job \in Job /\ (r.job \in Steady => r.job \notin locks[w])
  BY <1>2 DEF TypeOK, Run, ExclusiveRun
<1>4. \A j \in Job : /\ j \in locks[w] => jobs'[j] = Leased(jobs[j])
                                          /\ claims'[j] = claims[j] + 1
                     /\ j \notin locks[w] => jobs'[j] = jobs[j]
                                             /\ claims'[j] = claims[j]
  BY DEF ClaimCommit, GrantLeases
<1>5. ASSUME NEW r \in runs, r.job \in Steady
      PROVE  /\ jobs'[r.job].status = "processing"
             /\ jobs'[r.job].lease = "live"
             /\ r.nth = claims'[r.job]
             /\ Held(r.job)' = {r}
  <2>1. Held(r.job)' = Held(r.job)
    BY <1>1, <1>3, <1>5 DEF Held
  <2>2. QED
    BY <1>3, <1>4, <1>5, <2>1 DEF ExclusiveRun
<1>6. ASSUME NEW r \in new, r.job \in Steady
      PROVE  /\ jobs'[r.job].status = "processing"
             /\ jobs'[r.job].lease = "live"
             /\ r.nth = claims'[r.job]
             /\ Held(r.job)' = {r}
  <2>1. PICK j \in locks[w] : r = [by |-> w, job |-> j, nth |-> claims[j] + 1,
                                   phase |-> "claimed", lapsed |-> FALSE]
    OBVIOUS
  <2>2. Leased(jobs[j]).status = "processing" /\ Leased(jobs[j]).lease = "live"
    BY DEF Leased
  <2>3. \A s \in runs' : s.job = j => s = r
    BY <1>1, <1>3, <1>6, <2>1
  <2>4. QED
    BY <1>1, <1>2, <1>4, <2>1, <2>2, <2>3 DEF Held
<1> HIDE DEF new
<1>7. QED
  BY <1>1, <1>5, <1>6 DEF ExclusiveRun

\* A run that moves on to its next phase is still the only one.
LEMMA BecomesExclusive ==
    ASSUME TypeOK, ExclusiveRun, NEW r \in runs,
           NEW ph \in {"claimed", "running", "ok", "err"},
           runs' = Becomes(r, ph), UNCHANGED <<jobs, claims>>
    PROVE  ExclusiveRun'
<1> DEFINE new == [r EXCEPT !.phase = ph]
<1>1. new.job = r.job /\ new.nth = r.nth
  BY DEF TypeOK, Run
<1>2. runs' = (runs \ {r}) \cup {new}
  BY DEF Becomes
<1> HIDE DEF new
<1>3. r.job \in Steady => Held(r.job)' = {new}
  BY <1>1, <1>2 DEF ExclusiveRun, Held
<1>4. \A s \in runs \ {r} : s.job \in Steady => s.job # r.job
  BY DEF ExclusiveRun, Held
<1>5. \A s \in runs \ {r} : s.job \in Steady => Held(s.job)' = {s}
  BY <1>1, <1>2, <1>4 DEF ExclusiveRun, Held
<1>6. QED
  BY <1>1, <1>2, <1>3, <1>5 DEF ExclusiveRun

\* A job let go of by its only holder is held by nobody.
LEMMA SettleExclusive ==
    ASSUME TypeOK, ExclusiveRun, NEW r \in runs, Settle(r)
    PROVE  ExclusiveRun'
<1>1. runs' = runs \ {r} /\ claims' = claims
  BY DEF Settle, Complete, Fail, SettleError
<1>2. \A s \in runs' : s.job \in Job /\ (s.job \in Steady => s.job # r.job)
  BY <1>1 DEF ExclusiveRun, Held, TypeOK, Run
<1>3. \A j \in Job : j # r.job => jobs'[j] = jobs[j]
  BY DEF Settle, Complete, Fail, SettleError, TypeOK
<1>4. QED
  BY <1>1, <1>2, <1>3, FewerRuns

LEMMA NextExclusive ==
    ASSUME TypeOK, TableInv, ExclusiveRun, Next
    PROVE  ExclusiveRun'
<1>1. ASSUME NEW j \in Job, Publish(j)
      PROVE  ExclusiveRun'
  <2>1. runs' = runs /\ claims' = claims
    BY <1>1 DEF Publish, PublishInsert, PublishConflict, PublishNotify,
                PublishSelect, PublishFails
  <2>2. \A i \in Job : jobs[i].status # "absent" => jobs'[i] = jobs[i]
    BY <1>1 DEF Publish, PublishInsert, PublishConflict, PublishNotify,
                PublishSelect, PublishFails, TypeOK, TableInv, CallsInv
  <2>3. QED
    BY <2>1, <2>2, FewerRuns DEF TableInv, RunsInv, TypeOK, Run
<1>2. ASSUME NEW j \in Job, BecomeDue(j)
      PROVE  ExclusiveRun'
  <2>1. \A i \in Job : /\ jobs'[i].status = jobs[i].status
                       /\ jobs'[i].lease = jobs[i].lease
    BY <1>2 DEF BecomeDue, TypeOK, Row
  <2>2. QED
    BY <1>2, <2>1, FewerRuns DEF BecomeDue, TypeOK, Run
<1>3. ASSUME NEW j \in Job, LeaseExpires(j)
      PROVE  ExclusiveRun'
  <2>1. \A r \in runs' : r.job \in Steady => r \in runs /\ r.job # j
    <3>1. CASE j \in Overrun
      <4>1. \A r \in runs : r.job = j => [r EXCEPT !.lapsed = TRUE].job = j
        BY DEF TypeOK, Run
      <4>2. QED
        BY <1>3, <3>1, <4>1 DEF LeaseExpires, Steady
    <3>2. CASE j \notin Overrun
      BY <1>3, <3>2 DEF LeaseExpires, Held
    <3>3. QED
      BY <3>1, <3>2
  <2>2. claims' = claims
    BY <1>3 DEF LeaseExpires
  <2>3. \A i \in Job : i # j => jobs'[i] = jobs[i]
    BY <1>3 DEF LeaseExpires, TypeOK
  <2>4. QED
    BY <2>1, <2>2, <2>3, FewerRuns DEF TypeOK, Run
<1>4. ASSUME NEW w \in Worker, Claim(w)
      PROVE  ExclusiveRun'
  <2>1. CASE ClaimCommit(w)
    BY <2>1, ClaimCommitExclusive
  <2>2. CASE ClaimLost(w)
    <3>1. \A r \in runs : r.job \in Job /\ (r.job \in Steady => r.job \notin locks[w])
      BY DEF TypeOK, Run, ExclusiveRun, TableInv, LocksInv
    <3>2. \A j \in Job : j \notin locks[w] => jobs'[j] = jobs[j] /\ claims'[j] = claims[j]
      BY <2>2 DEF ClaimLost, GrantLeases
    <3>3. QED
      BY <2>2, <3>1, <3>2, FewerRuns DEF ClaimLost
  <2>3. CASE \E ch \in Channel : ClaimLock(w, ch)
    BY <2>3, FewerRuns DEF ClaimLock
  <2>4. QED
    BY <1>4, <2>1, <2>2, <2>3 DEF Claim
<1>5. ASSUME NEW W \in SUBSET Worker, Crash(W)
      PROVE  ExclusiveRun'
  BY <1>5, FewerRuns DEF Crash
<1>6. ASSUME NEW r \in runs, RunJob(r)
      PROVE  ExclusiveRun'
  BY <1>6, BecomesExclusive, SettleExclusive DEF RunJob, StartJob, HandlerOk, HandlerErr
<1>7. CASE ReclaimExpired
  <2>1. \A j \in Job : j \notin Expired => jobs'[j] = jobs[j]
    BY <1>7 DEF ReclaimExpired
  <2>2. \A r \in runs : r.job \in Job /\ (r.job \in Steady => r.job \notin Expired)
    BY DEF Expired, ExclusiveRun, TypeOK, Run
  <2>3. QED
    BY <1>7, <2>1, <2>2, FewerRuns DEF ReclaimExpired
<1>8. ASSUME NEW ch \in Channel, Redrive(ch)
      PROVE  ExclusiveRun'
  <2>1. \A j \in Job : j \notin DeadOn(ch) => jobs'[j] = jobs[j]
    BY <1>8 DEF Redrive
  <2>2. \A r \in runs : r.job \in Job /\ (r.job \in Steady => r.job \notin DeadOn(ch))
    BY DEF DeadOn, With, ExclusiveRun, TypeOK, Run
  <2>3. QED
    BY <1>8, <2>1, <2>2, FewerRuns DEF Redrive
<1>9. QED
  BY <1>1, <1>2, <1>3, <1>4, <1>5, <1>6, <1>7, <1>8 DEF Next

\* A job whose lease does not run out under its worker is in nobody else's hands,
\* and its row carries the lease of that very claim, whatever other jobs do.
THEOREM ExclusiveRunHolds == Spec => []ExclusiveRun
<1>1. TypeOK /\ TableInv /\ ExclusiveRun /\ [Next]_vars => ExclusiveRun'
  <2>1. ExclusiveRun /\ UNCHANGED vars => ExclusiveRun'
    BY DEF ExclusiveRun, Held
  <2>2. QED
    BY <2>1, NextExclusive
<1>2. QED
  BY <1>1, InitExclusive, TypeCorrect, TableCorrect, PTL DEF Spec
=============================================================================
