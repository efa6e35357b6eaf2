------------------------------ MODULE JobQueue ------------------------------
(***************************************************************************)
(* The job queue of packages/queue: the rows of the Postgres table "jobs"  *)
(* and the SQL statements that move them (publish, claim, complete, fail,  *)
(* reclaim_expired, redrive), run by any number of publishers and workers. *)
(*                                                                         *)
(* One action is one statement as Postgres commits it.  claim is two: the  *)
(* inner SELECT ... FOR UPDATE SKIP LOCKED takes row locks, the outer      *)
(* UPDATE commits and releases them; a writer that needs a locked row      *)
(* waits.  Time is abstract: available_at is the flag "due"                *)
(* (available_at <= now()), locked_until is "none" (NULL), "live" or       *)
(* "expired" (locked_until < now()), and the clock is the two actions      *)
(* BecomeDue and LeaseExpires.                                             *)
(***************************************************************************)
EXTENDS Naturals, FiniteSets

CONSTANTS
    Job,         \* ids of jobs; each is also the one publish call that drew it
    Worker,      \* drain loops that claim and run jobs
    Channel,     \* queue channels
    Key, NoKey,  \* idempotency keys; NoKey is the SQL NULL
    ChannelOf,   \* the channel a publish call names
    KeyOf,       \* the idempotency key it passes, or NoKey
    MaxOf,       \* the max_attempts it passes (COALESCE($4, 5))
    Batch,       \* batch_size of claim
    Overrun,     \* jobs whose lease may run out while a worker still runs them
    MaxRedrives  \* bound: how often an operator redrives one job

ASSUME ChannelAssumption == ChannelOf \in [Job -> Channel]
ASSUME KeyAssumption == NoKey \notin Key /\ KeyOf \in [Job -> Key \cup {NoKey}]
ASSUME MaxAssumption == MaxOf \in [Job -> Nat]
ASSUME BatchAssumption == Batch \in Nat \ {0}
ASSUME OverrunAssumption == Overrun \subseteq Job

VARIABLES
    jobs,      \* the table: the row of every id, status "absent" before its insert
    call,      \* where each publish call is
    answer,    \* the ids a publish call has returned: {} or a singleton
    locks,     \* the rows locked by each worker's claim in flight
    runs,      \* jobs in the memory of workers, from claim to complete or fail
    claims,    \* ghost: how many times each job was claimed
    redrives,  \* how many times each job was redriven
    handled    \* ghost: jobs whose handler returned Ok at least once

table == <<jobs, locks>>
clients == <<call, answer>>
ghosts == <<claims, redrives, handled>>
vars == <<jobs, call, answer, locks, runs, claims, redrives, handled>>

Status == {"absent", "pending", "processing", "done", "dead"}
Lease == {"none", "live", "expired"}

Row == [status: Status, attempts: Nat, due: BOOLEAN, lease: Lease,
        error: BOOLEAN]

\* A job a worker holds: the Job value claim returned.  nth numbers the claim
\* and lapsed says its lease has run out; neither is known to the code.
Run == [by: Worker, job: Job, nth: Nat,
        phase: {"claimed", "running", "ok", "err"}, lapsed: BOOLEAN]

TypeOK ==
    /\ jobs \in [Job -> Row]
    /\ call \in [Job -> {"unsent", "notify", "select", "returned", "failed"}]
    /\ answer \in [Job -> SUBSET Job]
    /\ locks \in [Worker -> SUBSET Job]
    /\ runs \subseteq Run
    /\ claims \in [Job -> Nat]
    /\ redrives \in [Job -> Nat]
    /\ handled \subseteq Job

Init ==
    /\ jobs = [j \in Job |-> [status |-> "absent", attempts |-> 0, due |-> FALSE,
                              lease |-> "none", error |-> FALSE]]
    /\ call = [j \in Job |-> "unsent"]
    /\ answer = [j \in Job |-> {}]
    /\ locks = [w \in Worker |-> {}]
    /\ runs = {}
    /\ claims = [j \in Job |-> 0]
    /\ redrives = [j \in Job |-> 0]
    /\ handled = {}

-----------------------------------------------------------------------------
(* Helpers. *)

With(s) == {j \in Job : jobs[j].status = s}
Locked == UNION {locks[w] : w \in Worker}
Held(j) == {r \in runs : r.job = j}

\* The row the partial unique index (channel, idempotency_key) would clash with.
SameKey(i, j) ==
    /\ ChannelOf[i] = ChannelOf[j]
    /\ KeyOf[i] = KeyOf[j]
    /\ KeyOf[j] # NoKey

\* Mutant: the unique index covers pending rows only.
ClashesWhilePending(j) == {i \in With("pending") : SameKey(i, j)}

Clashes(j) == {i \in Job \ With("absent") : SameKey(i, j)}

\* Mutant: an attempt too many.
IsPastLastAttempt(j) == jobs[j].attempts > MaxOf[j]

\* Job::is_last_attempt, and the CASE of fail and reclaim_expired.
IsLastAttempt(j) == jobs[j].attempts >= MaxOf[j]

\* A claim at most once, even if max_attempts is 0.
Budget == [j \in Job |-> IF MaxOf[j] = 0 THEN 1 ELSE MaxOf[j]]

\* What the statements write: a row inserted or redriven, claimed, let go of.
Fresh(due) == [status |-> "pending", attempts |-> 0, due |-> due,
               lease |-> "none", error |-> FALSE]
Leased(row) == [status |-> "processing", attempts |-> row.attempts + 1,
                due |-> row.due, lease |-> "live", error |-> row.error]
Released(row, status, due, error) ==
    [status |-> status, attempts |-> row.attempts, due |-> due,
     lease |-> "none", error |-> error]

-----------------------------------------------------------------------------
(* publish. *)

\* INSERT ... RETURNING id: attempts 0, available_at now() + delay.
PublishInsert(j) ==
    /\ call[j] = "unsent"
    /\ Clashes(j) = {}
    /\ \E due \in BOOLEAN :
         jobs' = [jobs EXCEPT ![j] = Fresh(due)]
    /\ call' = [call EXCEPT ![j] = "notify"]
    /\ UNCHANGED <<answer, locks, runs, ghosts>>

\* ON CONFLICT DO NOTHING: nothing is inserted.
PublishConflict(j) ==
    /\ call[j] = "unsent"
    /\ Clashes(j) # {}
    /\ call' = [call EXCEPT ![j] = "select"]
    /\ UNCHANGED <<jobs, answer, locks, runs, ghosts>>

\* pg_notify is a statement, hence a transaction, of its own.
PublishNotify(j) ==
    /\ call[j] = "notify"
    /\ call' = [call EXCEPT ![j] = "returned"]
    /\ answer' = [answer EXCEPT ![j] = {j}]
    /\ UNCHANGED <<table, runs, ghosts>>

\* SELECT id ... WHERE channel = $1 AND idempotency_key = $2.
PublishSelect(j) ==
    /\ call[j] = "select"
    /\ \E i \in Clashes(j) : answer' = [answer EXCEPT ![j] = {i}]
    /\ call' = [call EXCEPT ![j] = "returned"]
    /\ UNCHANGED <<table, runs, ghosts>>

\* Any of the statements fails, or the caller dies: a row inserted stays.
PublishFails(j) ==
    /\ call[j] \in {"unsent", "notify", "select"}
    /\ call' = [call EXCEPT ![j] = "failed"]
    /\ UNCHANGED <<table, answer, runs, ghosts>>

-----------------------------------------------------------------------------
(* claim. *)

\* Mutant: FOR UPDATE without row locks that others see.
ClaimableLockedToo(ch) ==
    {j \in With("pending") : ChannelOf[j] = ch /\ jobs[j].due}

\* Mutant: available_at is not looked at.
ClaimableEarly(ch) == {j \in With("pending") \ Locked : ChannelOf[j] = ch}

Claimable(ch) ==
    {j \in With("pending") \ Locked : ChannelOf[j] = ch /\ jobs[j].due}

\* The inner SELECT locks as many rows as LIMIT allows and skips locked ones.
ClaimLock(w, ch) ==
    /\ locks[w] = {}
    /\ Claimable(ch) # {}
    /\ \E S \in SUBSET Claimable(ch) :
         /\ \/ S = Claimable(ch) /\ Cardinality(S) <= Batch
            \/ Cardinality(S) = Batch
         /\ locks' = [locks EXCEPT ![w] = S]
    /\ UNCHANGED <<jobs, clients, runs, ghosts>>

\* The outer UPDATE commits.
GrantLeases(w) ==
    /\ locks[w] # {}
    /\ jobs' = [j \in Job |-> IF j \in locks[w] THEN Leased(jobs[j]) ELSE jobs[j]]
    /\ claims' = [j \in Job |-> IF j \in locks[w] THEN claims[j] + 1
                                                  ELSE claims[j]]
    /\ locks' = [locks EXCEPT ![w] = {}]
    /\ UNCHANGED <<clients, redrives, handled>>

ClaimCommit(w) ==
    /\ GrantLeases(w)
    /\ runs' = runs \cup {[by |-> w, job |-> j, nth |-> claims[j] + 1,
                           phase |-> "claimed", lapsed |-> FALSE] : j \in locks[w]}

\* It commits, but the rows never reach the worker: the connection broke, or
\* the task awaiting them was aborted.
ClaimLost(w) == GrantLeases(w) /\ UNCHANGED runs

-----------------------------------------------------------------------------
(* A job in a worker's hands: run_job. *)

Becomes(r, phase) == (runs \ {r}) \cup {[r EXCEPT !.phase = phase]}

StartJob(r) ==
    /\ r.phase = "claimed"
    /\ runs' = Becomes(r, "running")
    /\ UNCHANGED <<table, clients, ghosts>>

HandlerOk(r) ==
    /\ r.phase = "running"
    /\ runs' = Becomes(r, "ok")
    /\ handled' = handled \cup {r.job}
    /\ UNCHANGED <<table, clients, claims, redrives>>

HandlerErr(r) ==
    /\ r.phase = "running"
    /\ runs' = Becomes(r, "err")
    /\ UNCHANGED <<table, clients, ghosts>>

\* UPDATE ... WHERE id = $1: neither the status nor the lease is looked at.
Complete(r) ==
    /\ r.phase = "ok"
    /\ r.job \notin Locked
    /\ jobs' = [jobs EXCEPT ![r.job] = Released(@, "done", @.due, FALSE)]
    /\ runs' = runs \ {r}
    /\ UNCHANGED <<locks, clients, ghosts>>

\* Mutant: a status no reader of the table knows.
FailUnknownStatus(r) ==
    /\ r.phase = "err"
    /\ r.job \notin Locked
    /\ jobs' = [jobs EXCEPT ![r.job] = Released(@, "failed", @.due, TRUE)]
    /\ runs' = runs \ {r}
    /\ UNCHANGED <<locks, clients, ghosts>>

\* Mutant: locked_until is not reset.
FailKeepsLease(r) ==
    /\ r.phase = "err"
    /\ r.job \notin Locked
    /\ jobs' = [jobs EXCEPT ![r.job] =
         [@ EXCEPT !.status = IF IsLastAttempt(r.job) THEN "dead" ELSE "pending",
                   !.error = TRUE]]
    /\ runs' = runs \ {r}
    /\ UNCHANGED <<locks, clients, ghosts>>

\* Likewise; available_at is pushed back by retry_in unless the job is dead.
Fail(r) ==
    /\ r.phase = "err"
    /\ r.job \notin Locked
    /\ \E due \in BOOLEAN :
         jobs' = [jobs EXCEPT ![r.job] =
           IF IsLastAttempt(r.job) THEN Released(@, "dead", @.due, TRUE)
                                   ELSE Released(@, "pending", due, TRUE)]
    /\ runs' = runs \ {r}
    /\ UNCHANGED <<locks, clients, ghosts>>

\* complete or fail did not reach the database: run_job logs it and returns.
SettleError(r) ==
    /\ r.phase \in {"ok", "err"}
    /\ runs' = runs \ {r}
    /\ UNCHANGED <<table, clients, ghosts>>

\* The workers W of one process die: claims roll back, jobs are forgotten.
Crash(W) ==
    /\ locks' = [w \in Worker |-> IF w \in W THEN {} ELSE locks[w]]
    /\ runs' = {r \in runs : r.by \notin W}
    /\ UNCHANGED <<jobs, clients, ghosts>>

-----------------------------------------------------------------------------
(* Reaper, operator and clock. *)

\* Mutant: a job on its last attempt is left to its worker.
ExpiredWithAttemptsLeft ==
    {j \in With("processing") : jobs[j].lease = "expired" /\ ~IsLastAttempt(j)}

\* Mutant: locked_until is not looked at.
ExpiredOrNot == With("processing")

Expired == {j \in With("processing") : jobs[j].lease = "expired"}

\* Mutant: the expired lease leaves no reason in last_error.
ReclaimSilently ==
    /\ Expired # {}
    /\ jobs' = [j \in Job |->
         IF j \in Expired
         THEN Released(jobs[j], IF IsLastAttempt(j) THEN "dead" ELSE "pending",
                       jobs[j].due, jobs[j].error)
         ELSE jobs[j]]
    /\ UNCHANGED <<locks, clients, runs, ghosts>>

ReclaimExpired ==
    /\ Expired # {}
    /\ jobs' = [j \in Job |->
         IF j \in Expired
         THEN Released(jobs[j], IF IsLastAttempt(j) THEN "dead" ELSE "pending",
                       jobs[j].due, TRUE)
         ELSE jobs[j]]
    /\ UNCHANGED <<locks, clients, runs, ghosts>>

\* Mutant: redrive without its condition on the status.
SettledOn(ch) == {j \in With("dead") \cup With("done") : ChannelOf[j] = ch}

DeadOn(ch) == {j \in With("dead") : ChannelOf[j] = ch}

Redrive(ch) ==
    /\ DeadOn(ch) # {}
    /\ \A j \in DeadOn(ch) : redrives[j] < MaxRedrives
    /\ jobs' = [j \in Job |-> IF j \in DeadOn(ch) THEN Fresh(TRUE) ELSE jobs[j]]
    /\ redrives' = [j \in Job |-> IF j \in DeadOn(ch) THEN redrives[j] + 1
                                                      ELSE redrives[j]]
    /\ UNCHANGED <<locks, clients, runs, claims, handled>>

BecomeDue(j) ==
    /\ jobs[j].status # "absent"
    /\ ~jobs[j].due
    /\ jobs' = [jobs EXCEPT ![j].due = TRUE]
    /\ UNCHANGED <<locks, clients, runs, ghosts>>

\* Unless the job is in Overrun, its lease outlives every run it was given for, so
\* that it can only run out once nobody holds the job.
LeaseExpires(j) ==
    /\ jobs[j].lease = "live"
    /\ j \in Overrun \/ Held(j) = {}
    /\ jobs' = [jobs EXCEPT ![j].lease = "expired"]
    /\ runs' = {IF r.job = j THEN [r EXCEPT !.lapsed = TRUE] ELSE r : r \in runs}
    /\ UNCHANGED <<locks, clients, ghosts>>

-----------------------------------------------------------------------------
Publish(j) == \/ PublishInsert(j) \/ PublishConflict(j) \/ PublishNotify(j)
              \/ PublishSelect(j) \/ PublishFails(j)
Claim(w) == \/ \E ch \in Channel : ClaimLock(w, ch)
            \/ ClaimCommit(w) \/ ClaimLost(w)
Settle(r) == Complete(r) \/ Fail(r) \/ SettleError(r)
RunJob(r) == StartJob(r) \/ HandlerOk(r) \/ HandlerErr(r) \/ Settle(r)

Next ==
    \/ \E j \in Job : Publish(j) \/ BecomeDue(j) \/ LeaseExpires(j)
    \/ \E w \in Worker : Claim(w)
    \/ \E W \in SUBSET Worker : Crash(W)
    \/ \E r \in runs : RunJob(r)
    \/ ReclaimExpired
    \/ \E ch \in Channel : Redrive(ch)

Spec == Init /\ [][Next]_vars

-----------------------------------------------------------------------------
(* Properties that hold whatever the leases do. *)

\* A job is handed to workers at most max_attempts times per drive (claim counts
\* up, only redrive resets), and one that waits has an attempt left, although
\* complete and fail also act for workers whose lease was taken away.
RetryBudget ==
    \A j \in Job :
      /\ jobs[j].attempts <= Budget[j]
      /\ jobs[j].status = "pending" => jobs[j].attempts < Budget[j]
      /\ claims[j] <= redrives[j] * Budget[j] + jobs[j].attempts

\* The reaper looks at rows with status 'processing' and a locked_until: no row
\* is in processing without one, where nothing would ever pick it up, and no
\* other row keeps one.
LeasedIffProcessing ==
    \A j \in Job : jobs[j].status = "processing" <=> jobs[j].lease # "none"

\* The dead letter queue holds only jobs that used up their attempts, each with
\* the reason of a failure, and a row says done only if a handler of that job
\* returned Ok: nothing is lost silently.
OutcomeIsEarned ==
    \A j \in Job :
      /\ jobs[j].status = "dead" => jobs[j].attempts >= MaxOf[j] /\ jobs[j].error
      /\ jobs[j].status = "done" => j \in handled

\* PublishOptions::idempotency_key: calls with one key enqueue one row and those
\* that return are given that row's id, also when their statements interleave
\* and when the first caller was told its publish failed.
EnqueuedOnce ==
    \A i, j \in Job :
      /\ SameKey(i, j) /\ i # j =>
           \/ jobs[i].status = "absent"
           \/ jobs[j].status = "absent"
      /\ i \in answer[j] => jobs[i].status # "absent" /\ (i = j \/ SameKey(i, j))
      /\ SameKey(i, j) /\ call[i] = "returned" /\ call[j] = "returned" =>
           answer[i] = answer[j]

\* README, "at-least-once with a retry budget and a dead letter queue": with
\* workers polling, the reaper ticking and handlers returning, each job that was
\* inserted keeps coming to an outcome, whatever crashes and whoever is told so.
EveryJobSettles ==
    \A j \in Job :
      jobs[j].status # "absent" ~> jobs[j].status \in {"done", "dead"}

-----------------------------------------------------------------------------
(* Properties of the jobs whose leases do not run out under a worker, whatever *)
(* happens to the others.                                                      *)

Steady == Job \ Overrun

\* Such a job in a worker's hands is its own: the row is in processing under the
\* lease of that very claim, and nobody else holds the job.
ExclusiveRun ==
    \A r \in runs : r.job \in Steady =>
      /\ jobs[r.job].status = "processing"
      /\ jobs[r.job].lease = "live"
      /\ r.nth = claims[r.job]
      /\ Held(r.job) = {r}

\* Once done, such a job is never run, failed or buried again.
DoneIsFinal ==
    [][\A j \in Steady : jobs[j].status = "done" => jobs'[j].status = "done"]_vars

\* packages/queue/tests/queue.rs:197, "a leased job must not be claimed twice":
\* of the runs of one job, at most one is inside the lease it was claimed with.
LeasedOnce ==
    \A r, s \in runs : r.job = s.job /\ ~r.lapsed /\ ~s.lapsed => r = s

\* The lifecycle documented for a job, as the abstract specification.
State(j) ==
    IF jobs[j].status = "pending" THEN IF jobs[j].due THEN "ready" ELSE "waiting"
                                  ELSE jobs[j].status

Lifecycle == INSTANCE JobLifecycle WITH
    Job <- Steady,
    state <- [j \in Steady |-> State(j)],
    tries <- [j \in Steady |-> jobs[j].attempts]

FollowsLifecycle == Lifecycle!Spec

-----------------------------------------------------------------------------
(* The inductive invariants of JobQueueProofs. *)

\* The parts of RetryBudget, LeasedIffProcessing and OutcomeIsEarned for one row
\* claimed c times and redriven r times, where done are the jobs handled.  A row
\* not there has no attempts, one in processing has at least one.
RowInv(j, row, c, r, done) ==
    /\ row.status = "absent" => row.attempts = 0
    /\ row.status = "processing" => row.attempts >= 1
    /\ row.attempts <= Budget[j]
    /\ row.status = "pending" => row.attempts < Budget[j]
    /\ c <= r * Budget[j] + row.attempts
    /\ row.status = "processing" <=> row.lease # "none"
    /\ row.status = "dead" => row.attempts >= MaxOf[j] /\ row.error
    /\ row.status = "done" => j \in done

RowsInv == \A j \in Job : RowInv(j, jobs[j], claims[j], redrives[j], handled)

\* A claim in flight locks due pending rows that no other claim has locked.
LocksInv ==
    /\ \A w \in Worker : \A j \in locks[w] : jobs[j].status = "pending" /\ jobs[j].due
    /\ \A v, w \in Worker : \A j \in locks[v] : j \in locks[w] => v = w

RunsInv ==
    \A r \in runs : /\ jobs[r.job].status # "absent"
                    /\ r.phase = "ok" => r.job \in handled

\* Where a publish call is tells whether its row is there.
CallsInv ==
    \A j \in Job : /\ call[j] \in {"unsent", "select"} => jobs[j].status = "absent"
                   /\ call[j] = "notify" => jobs[j].status # "absent"

\* EnqueuedOnce, and that a call that returned has exactly one answer.
EnqueueInv ==
    \A i, j \in Job :
      /\ SameKey(i, j) /\ i # j =>
           jobs[i].status = "absent" \/ jobs[j].status = "absent"
      /\ i \in answer[j] => jobs[i].status # "absent" /\ (i = j \/ SameKey(i, j))
      /\ call[j] = "returned" => \E x \in Job : answer[j] = {x}

TableInv == RowsInv /\ LocksInv /\ RunsInv /\ CallsInv
=============================================================================
