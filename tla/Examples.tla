------------------------------ MODULE Examples ------------------------------
(***************************************************************************)
(* The example module from end to end: the service of apps/api, which      *)
(* writes examples and publishes jobs about them, and the consumers of     *)
(* apps/worker, which handle those jobs, on top of the table of JobQueue.  *)
(*                                                                         *)
(* Each publish call of JobQueue belongs to one request: create, which     *)
(* announces its own example on example_created, or publish_to_queue,      *)
(* which asks for an example to be published on example_published.  create *)
(* holds a transaction open while its publish runs on another pool, so the *)
(* job commits before the example does.  What a transaction has not        *)
(* committed is invisible, so an example shows up when its create commits. *)
(*                                                                         *)
(* Titles, contents and their limits are left out; a request that fails    *)
(* its validation has no effect and is left out too.                       *)
(***************************************************************************)
EXTENDS JobQueue

CONSTANTS
    Example,  \* the record that each create inserts, named by its request
    Target    \* [Job -> Example]: the example a request is about

ASSUME ExampleAssumption == Example \subseteq Job
ASSUME TargetAssumption ==
    Target \in [Job -> Example] /\ \A e \in Example : Target[e] = e
\* The key of a created-event is made of the id of its example.
ASSUME OwnKeyAssumption ==
    \A e \in Example, j \in Job : SameKey(j, e) => j = e

VARIABLES
    req,        \* where each request is; "open": its transaction is begun
    example,    \* the table of examples, as committed
    published   \* the column of that name

service == <<req, example, published>>
exampleVars == <<vars, service>>

Asked == Job \ Example

ExamplesTypeOK ==
    /\ req \in [Job -> {"new", "open", "found", "ok", "err"}]
    /\ example \in [Example -> {"none", "live", "deleted"}]
    /\ published \in [Example -> BOOLEAN]

ExamplesInit ==
    /\ Init
    /\ req = [j \in Job |-> "new"]
    /\ example = [e \in Example |-> "none"]
    /\ published = [e \in Example |-> FALSE]

Live == {e \in Example : example[e] = "live"}

-----------------------------------------------------------------------------
(* Requests. *)

\* create publishes inside its open transaction, publish_to_queue once it has
\* found the example.
Publishes(j) == IF j \in Example THEN {"open"} ELSE {"found"}

\* BEGIN and INSERT; validation has passed.  tx::run may do both over again.
CreateInserts(c) ==
    /\ req[c] = "new"
    /\ req' = [req EXCEPT ![c] = "open"]
    /\ UNCHANGED <<vars, example, published>>

\* Mutant: an answer that is neither.
FindOr404(p) ==
    /\ req[p] = "new"
    /\ req' = [req EXCEPT ![p] = IF Target[p] \in Live THEN "found" ELSE "404"]
    /\ UNCHANGED <<vars, example, published>>

\* publish_to_queue: find_by_id, or 404.
FindToPublish(p) ==
    /\ req[p] = "new"
    /\ req' = [req EXCEPT ![p] = IF Target[p] \in Live THEN "found" ELSE "err"]
    /\ UNCHANGED <<vars, example, published>>

PublishStep(j) ==
    /\ req[j] \in Publishes(j)
    /\ PublishInsert(j) \/ PublishConflict(j) \/ PublishNotify(j) \/ PublishSelect(j)
    /\ UNCHANGED service

\* The error of publish ends the request and rolls back what it inserted; so does
\* a request whose future is dropped: a timeout, a client gone, a crash.
RequestFails(j) ==
    /\ req[j] \in Publishes(j)
    /\ PublishFails(j)
    /\ req' = [req EXCEPT ![j] = "err"]
    /\ UNCHANGED <<example, published>>

\* Mutant: the transaction is over before the job is there.
CommitEarly(c) ==
    /\ req[c] = "open"
    /\ example' = [example EXCEPT ![c] = "live"]
    /\ req' = [req EXCEPT ![c] = "ok"]
    /\ UNCHANGED <<vars, published>>

CreateCommits(c) ==
    /\ req[c] = "open"
    /\ call[c] = "returned"
    /\ example' = [example EXCEPT ![c] = "live"]
    /\ req' = [req EXCEPT ![c] = "ok"]
    /\ UNCHANGED <<vars, published>>

\* COMMIT fails, or its answer is lost: tx::run returns the error.
CommitFails(c) ==
    /\ req[c] = "open"
    /\ call[c] = "returned"
    /\ example' \in {example, [example EXCEPT ![c] = "live"]}
    /\ req' = [req EXCEPT ![c] = "err"]
    /\ UNCHANGED <<vars, published>>

PublishAnswers(p) ==
    /\ req[p] = "found"
    /\ call[p] = "returned"
    /\ req' = [req EXCEPT ![p] = "ok"]
    /\ UNCHANGED <<vars, example, published>>

\* update and bulk_update, of the examples there are.
SetPublished(E, b) ==
    /\ published' = [e \in Example |-> IF e \in E THEN b ELSE published[e]]
    /\ UNCHANGED <<vars, req, example>>

\* delete and bulk_delete.
Delete(E) ==
    /\ example' = [e \in Example |-> IF e \in E THEN "deleted" ELSE example[e]]
    /\ UNCHANGED <<vars, req, published>>

-----------------------------------------------------------------------------
(* The consumers of the worker, each in a transaction. *)

Mark(e) == published' = [published EXCEPT ![e] = TRUE]

\* Mutant: an example that does not exist counts as handled.
HandleCreatedAnyway(r) ==
    /\ r.job \in Example
    /\ HandlerOk(r)
    /\ UNCHANGED service

\* on_created: find_by_id.
HandleCreated(r) ==
    /\ r.job \in Live
    /\ HandlerOk(r)
    /\ UNCHANGED service

\* on_published: mark_published.
HandlePublished(r) ==
    /\ r.job \in Asked
    /\ Target[r.job] \in Live
    /\ HandlerOk(r)
    /\ Mark(Target[r.job])
    /\ UNCHANGED <<req, example>>

\* The example does not exist, or a statement or COMMIT fails; of COMMIT the
\* effect may be there all the same.
HandleFails(r) ==
    /\ HandlerErr(r)
    /\ \/ UNCHANGED published
       \/ r.job \in Asked /\ Target[r.job] \in Live /\ Mark(Target[r.job])
    /\ UNCHANGED <<req, example>>

Handle(r) == HandleCreated(r) \/ HandlePublished(r) \/ HandleFails(r)

-----------------------------------------------------------------------------
(* The queue does the rest. *)

WorkerStep(w) == Claim(w) /\ UNCHANGED service
WorkersDie(W) == Crash(W) /\ UNCHANGED service
JobStep(r) == (StartJob(r) \/ Settle(r)) /\ UNCHANGED service
Reap == ReclaimExpired /\ UNCHANGED service
OperatorRedrives(ch) == Redrive(ch) /\ UNCHANGED service
Clock(j) == (BecomeDue(j) \/ LeaseExpires(j)) /\ UNCHANGED service

ExamplesNext ==
    \/ \E c \in Example : CreateInserts(c) \/ CreateCommits(c) \/ CommitFails(c)
    \/ \E p \in Asked : FindToPublish(p) \/ PublishAnswers(p)
    \/ \E j \in Job : PublishStep(j) \/ RequestFails(j) \/ Clock(j)
    \/ \E E \in (SUBSET Live) \ {{}} :
         Delete(E) \/ \E b \in BOOLEAN : SetPublished(E, b)
    \/ \E r \in runs : Handle(r) \/ JobStep(r)
    \/ \E w \in Worker : WorkerStep(w)
    \/ \E W \in SUBSET Worker : WorkersDie(W)
    \/ Reap
    \/ \E ch \in Channel : OperatorRedrives(ch)

ExamplesSpec == ExamplesInit /\ [][ExamplesNext]_exampleVars

\* The clock runs, the reaper ticks, every worker polls every channel and does
\* not crash in each of its claims; handlers return and their outcome is written
\* or given up.  Nothing is assumed of requests, of crashes or of operators.
ExamplesFairness ==
    /\ \A j \in Job : WF_exampleVars(BecomeDue(j) /\ UNCHANGED service)
                      /\ WF_exampleVars(LeaseExpires(j) /\ UNCHANGED service)
    /\ \A w \in Worker :
         /\ \A ch \in Channel : WF_exampleVars(ClaimLock(w, ch) /\ UNCHANGED service)
         /\ SF_exampleVars((ClaimCommit(w) \/ ClaimLost(w)) /\ UNCHANGED service)
         /\ WF_exampleVars(\E r \in runs : r.by = w /\ (Handle(r) \/ JobStep(r)))
    /\ WF_exampleVars(Reap)

ExamplesFairSpec == ExamplesSpec /\ ExamplesFairness

-----------------------------------------------------------------------------
(* Properties. *)

\* create publishes before it commits, on a connection of its own: an example
\* that anybody can see has its created-event in the queue, whichever step of
\* the request failed, and a request answered with success has left both.
AnnouncedIfCommitted ==
    \A e \in Example :
      /\ example[e] # "none" => jobs[e].status # "absent"
      /\ req[e] = "ok" => example[e] # "none"

\* The event may be claimed while its example is not committed, and for ever if
\* it is rolled back: it is done only once the example has been there.
DoneIsSeen ==
    \A j \in Job : jobs[j].status = "done" => example[Target[j]] # "none"

\* Delivery is at least once, but no late delivery marks: the mark of an example
\* changes by a user, or by a run of a job about it, and that run is the one of the
\* last claim of the job while it is in processing.  A run that was reclaimed, or of a
\* job that is done, does not overrule the user who took the mark back; a retry
\* before the job is done may.  Not so if the lease may run out under the worker.
UnpublishSticks ==
    [][\A e \in Example : published'[e] # published[e] =>
         \/ UNCHANGED vars
         \/ \E r \in runs \ runs' :
              /\ r.job \in Asked /\ Target[r.job] = e
              /\ r.job \in Steady => /\ jobs[r.job].status = "processing"
                                     /\ r.nth = claims[r.job]]_exampleVars

\* A created-event whose example was rolled back is not retried for ever: it
\* comes to the dead letter queue.
OrphanIsBuried ==
    \A e \in Example :
      (req[e] = "err" /\ example[e] = "none" /\ jobs[e].status # "absent")
        ~> jobs[e].status = "dead"

\* README, "Writes run inside one transaction and roll back together": a create
\* that failed and was rolled back leaves nothing in the database.
FailedCreateLeavesNothing ==
    \A e \in Example :
      req[e] = "err" /\ example[e] = "none" => jobs[e].status = "absent"
=============================================================================
