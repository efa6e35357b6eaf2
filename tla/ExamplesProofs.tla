--------------------------- MODULE ExamplesProofs ---------------------------
(***************************************************************************)
(* Proofs about Examples: requests and consumers touch the table of jobs   *)
(* by the statements of packages/queue only; an example that can be seen   *)
(* is announced; a job that is done had its example; and no late run marks *)
(* an example published.                                                   *)
(***************************************************************************)
EXTENDS Examples, JobQueueRefinement

USE DEF service, exampleVars, vars, table, clients, ghosts

LEMMA ExamplesNextIsQueueStep == ExamplesNext => [Next]_vars
<1> SUFFICES ASSUME ExamplesNext
             PROVE  [Next]_vars
  OBVIOUS
<1>1. ASSUME UNCHANGED vars
      PROVE  [Next]_vars
  BY <1>1
<1>2. ASSUME NEW j \in Job, PublishStep(j) \/ RequestFails(j) \/ Clock(j)
      PROVE  Next
  BY <1>2 DEF PublishStep, RequestFails, Clock, Publish, Next
<1>3. ASSUME NEW r \in runs, Handle(r) \/ JobStep(r)
      PROVE  Next
  BY <1>3 DEF Handle, HandleCreated, HandlePublished, HandleFails, JobStep, RunJob, Next
<1>4. ASSUME NEW w \in Worker, WorkerStep(w)
      PROVE  Next
  BY <1>4 DEF WorkerStep, Next
<1>5. ASSUME NEW W \in SUBSET Worker, WorkersDie(W)
      PROVE  Next
  BY <1>5 DEF WorkersDie, Next
<1>6. ASSUME NEW ch \in Channel, OperatorRedrives(ch)
      PROVE  Next
  BY <1>6 DEF OperatorRedrives, Next
<1>7. ASSUME Reap
      PROVE  Next
  BY <1>7 DEF Reap, Next
<1>8. QED
  BY <1>1, <1>2, <1>3, <1>4, <1>5, <1>6, <1>7
     DEF ExamplesNext, CreateInserts, CreateCommits, CommitFails, FindToPublish,
         PublishAnswers, Delete, SetPublished

\* Every behaviour of the example module is one of the job queue, so the retry
\* budget, deduplication and the earned outcomes hold of its jobs.
THEOREM ExamplesImplementQueue == ExamplesSpec => Spec
<1>1. ExamplesInit => Init
  BY DEF ExamplesInit
<1>2. [ExamplesNext]_exampleVars => [Next]_vars
  BY ExamplesNextIsQueueStep
<1>3. QED
  BY <1>1, <1>2, PTL DEF ExamplesSpec, Spec

-----------------------------------------------------------------------------
(* Types. *)

LEMMA ExamplesInitType == ExamplesInit => ExamplesTypeOK
  BY DEF ExamplesInit, ExamplesTypeOK

LEMMA ExamplesNextType == ExamplesTypeOK /\ [ExamplesNext]_exampleVars => ExamplesTypeOK'
<1> SUFFICES ASSUME ExamplesTypeOK, [ExamplesNext]_exampleVars
             PROVE  ExamplesTypeOK'
  OBVIOUS
<1> USE DEF ExamplesTypeOK
<1>1. CASE UNCHANGED service
  BY <1>1
<1>2. ASSUME NEW c \in Example, CreateInserts(c) \/ CreateCommits(c) \/ CommitFails(c)
      PROVE  ExamplesTypeOK'
  BY <1>2 DEF CreateInserts, CreateCommits, CommitFails
<1>3. ASSUME NEW p \in Asked, FindToPublish(p) \/ PublishAnswers(p)
      PROVE  ExamplesTypeOK'
  BY <1>3 DEF FindToPublish, PublishAnswers, Asked
<1>4. ASSUME NEW j \in Job, RequestFails(j)
      PROVE  ExamplesTypeOK'
  BY <1>4 DEF RequestFails
<1>5. ASSUME NEW E \in SUBSET Live, Delete(E)
      PROVE  ExamplesTypeOK'
  BY <1>5 DEF Delete
<1>6. ASSUME NEW E \in SUBSET Live, NEW b \in BOOLEAN, SetPublished(E, b)
      PROVE  ExamplesTypeOK'
  BY <1>6 DEF SetPublished
<1>7. ASSUME NEW r \in runs, Handle(r)
      PROVE  ExamplesTypeOK'
  BY <1>7 DEF Handle, HandleCreated, HandlePublished, HandleFails, Mark
<1>8. QED
  BY <1>1, <1>2, <1>3, <1>4, <1>5, <1>6, <1>7
     DEF ExamplesNext, PublishStep, Clock, JobStep, WorkerStep, WorkersDie, Reap,
         OperatorRedrives

\* The tables of the module stay well typed.
THEOREM ExamplesTypeCorrect == ExamplesSpec => []ExamplesTypeOK
  BY ExamplesInitType, ExamplesNextType, PTL DEF ExamplesSpec

-----------------------------------------------------------------------------
(* Announcements. *)

\* How far create has come tells what is in the tables.  Its key is its own, so
\* its publish never meets another row; an example is there only when that publish
\* has returned, and a handler was content only with an example that was there.
AnnounceInv ==
    /\ \A e \in Example :
         /\ call[e] # "select"
         /\ call[e] = "returned" => jobs[e].status # "absent"
         /\ example[e] # "none" => call[e] = "returned"
         /\ req[e] = "ok" => example[e] # "none"
    /\ \A j \in handled : example[Target[j]] # "none"

Known == TypeOK /\ TableInv /\ ExamplesTypeOK /\ AnnounceInv

LEMMA OwnKey ==
    ASSUME TypeOK, TableInv, NEW e \in Example, call[e] = "unsent"
    PROVE  Clashes(e) = {}
<1>1. e \in Job /\ jobs[e].status = "absent"
  BY ExampleAssumption DEF TableInv, CallsInv
<1>2. QED
  BY <1>1, OwnKeyAssumption DEF Clashes, With

\* No example is ever taken back to "none".
LEMMA ExamplesStay ==
    ASSUME Known, [ExamplesNext]_exampleVars, NEW e \in Example, example[e] # "none"
    PROVE  example'[e] # "none"
  BY DEF Known, ExamplesTypeOK, ExamplesNext, CreateInserts, CreateCommits, CommitFails,
         FindToPublish, PublishAnswers, Delete, SetPublished, PublishStep, RequestFails,
         Clock, Handle, HandleCreated, HandlePublished, HandleFails, JobStep, WorkerStep,
         WorkersDie, Reap, OperatorRedrives

\* Where the publish call of a create goes in one step, and the row with it.
LEMMA CallStep ==
    ASSUME Known, [ExamplesNext]_exampleVars, NEW e \in Example
    PROVE  /\ call'[e] # "select"
           /\ call'[e] = "returned" => jobs'[e].status # "absent"
           /\ call[e] = "returned" => call'[e] = "returned"
<1>0. e \in Job
  BY ExampleAssumption
<1>1. [Next]_vars
  BY ExamplesNextIsQueueStep
<1>2. jobs[e].status # "absent" => jobs'[e].status # "absent"
  <2>1. CASE UNCHANGED vars
    BY <2>1
  <2>2. CASE Next
    <3>1. CASE PublishInsert(e)
      BY <1>0, <3>1 DEF Known, TableInv, CallsInv, PublishInsert
    <3>2. CASE jobs'[e].status = "absent" <=> jobs[e].status = "absent"
      BY <3>2
    <3>3. QED
      BY <1>0, <2>2, <3>1, <3>2, RowsAppear DEF Known
  <2>3. QED
    BY <1>1, <2>1, <2>2
<1>3. CASE call'[e] = call[e]
  BY <1>2, <1>3 DEF Known, AnnounceInv
<1>4. ASSUME NEW j \in Job, PublishStep(j)
      PROVE  \/ call'[e] = call[e]
             \/ call'[e] = "notify" /\ call[e] = "unsent"
             \/ call'[e] = "returned" /\ call[e] = "notify"
  <2>1. CASE j # e
    BY <1>0, <1>4, <2>1
       DEF Known, TypeOK, PublishStep, PublishInsert, PublishConflict, PublishNotify,
           PublishSelect
  <2>2. CASE j = e
    <3>1. ~PublishConflict(e)
      BY OwnKey DEF Known, PublishConflict
    <3>2. ~PublishSelect(e)
      BY DEF Known, AnnounceInv, PublishSelect
    <3>3. QED
      BY <1>0, <1>4, <2>2, <3>1, <3>2
         DEF Known, TypeOK, PublishStep, PublishInsert, PublishNotify
  <2>3. QED
    BY <2>1, <2>2
<1>5. ASSUME NEW j \in Job, RequestFails(j)
      PROVE  \/ call'[e] = call[e]
             \/ call'[e] = "failed" /\ call[e] # "returned"
  BY <1>0, <1>5 DEF Known, TypeOK, RequestFails, PublishFails
<1>6. call[e] = "notify" => jobs[e].status # "absent"
  BY <1>0 DEF Known, TableInv, CallsInv
<1>7. \/ call'[e] = call[e]
      \/ \E j \in Job : PublishStep(j) \/ RequestFails(j)
  <2>1. CASE UNCHANGED exampleVars
    BY <2>1
  <2>2. ASSUME NEW r \in runs, Handle(r) \/ JobStep(r)
        PROVE  call' = call
    BY <2>2 DEF Handle, HandleCreated, HandlePublished, HandleFails, HandlerOk, HandlerErr,
                JobStep, StartJob, Settle, Complete, Fail, SettleError
  <2>3. ASSUME NEW w \in Worker, WorkerStep(w)
        PROVE  call' = call
    BY <2>3 DEF WorkerStep, Claim, ClaimLock, ClaimCommit, ClaimLost, GrantLeases
  <2>4. ASSUME NEW j \in Job, Clock(j)
        PROVE  call' = call
    BY <2>4 DEF Clock, BecomeDue, LeaseExpires
  <2>5. QED
    BY <2>1, <2>2, <2>3, <2>4
       DEF ExamplesNext, CreateInserts, CreateCommits, CommitFails, FindToPublish,
           PublishAnswers, Delete, SetPublished, WorkersDie, Crash, Reap, ReclaimExpired,
           OperatorRedrives, Redrive
<1>8. QED
  BY <1>2, <1>3, <1>4, <1>5, <1>6, <1>7

\* An example appears, and create succeeds, only when its publish has returned.
LEMMA CommitStep ==
    ASSUME Known, [ExamplesNext]_exampleVars, NEW e \in Example
    PROVE  /\ example'[e] # "none" => call'[e] = "returned"
           /\ req'[e] = "ok" => example'[e] # "none"
<1>0. e \in Job
  BY ExampleAssumption
<1>1. \/ example'[e] = example[e]
      \/ call[e] = "returned"
      \/ example[e] # "none"
  BY DEF Known, ExamplesTypeOK, ExamplesNext, CreateInserts, CreateCommits, CommitFails,
         FindToPublish, PublishAnswers, Delete, SetPublished, PublishStep, RequestFails,
         Clock, Handle, HandleCreated, HandlePublished, HandleFails, JobStep, WorkerStep,
         WorkersDie, Reap, OperatorRedrives, Live
<1>2. \/ req'[e] = req[e]
      \/ req'[e] # "ok"
      \/ example'[e] = "live"
  BY <1>0 DEF Known, ExamplesTypeOK, ExamplesNext, CreateInserts, CreateCommits, CommitFails,
         FindToPublish, PublishAnswers, Delete, SetPublished, PublishStep, RequestFails,
         Clock, Handle, HandleCreated, HandlePublished, HandleFails, JobStep, WorkerStep,
         WorkersDie, Reap, OperatorRedrives, Asked
<1>3. QED
  BY <1>1, <1>2, CallStep, ExamplesStay DEF Known, AnnounceInv

\* A handler returns Ok only for an example that is there.
LEMMA HandledStep ==
    ASSUME Known, [ExamplesNext]_exampleVars, NEW j \in handled'
    PROVE  example'[Target[j]] # "none"
<1>1. ASSUME NEW r \in runs, Handle(r)
      PROVE  j \in handled \/ (j = r.job /\ Target[j] \in Live)
  <2>1. \A e \in Example : Target[e] = e
    BY TargetAssumption
  <2>2. QED
    BY <1>1, <2>1 DEF Handle, HandleCreated, HandlePublished, HandleFails, HandlerOk,
                      HandlerErr, Live
<1>2. j \in handled \/ Target[j] \in Live
  <2>1. CASE UNCHANGED exampleVars
    BY <2>1
  <2>2. ASSUME NEW r \in runs, JobStep(r)
        PROVE  handled' = handled
    BY <2>2 DEF JobStep, StartJob, Settle, Complete, Fail, SettleError
  <2>3. ASSUME NEW w \in Worker, WorkerStep(w)
        PROVE  handled' = handled
    BY <2>3 DEF WorkerStep, Claim, ClaimLock, ClaimCommit, ClaimLost, GrantLeases
  <2>4. ASSUME NEW i \in Job, PublishStep(i) \/ RequestFails(i) \/ Clock(i)
        PROVE  handled' = handled
    BY <2>4 DEF PublishStep, PublishInsert, PublishConflict, PublishNotify, PublishSelect,
                RequestFails, PublishFails, Clock, BecomeDue, LeaseExpires
  <2>5. QED
    BY <1>1, <2>1, <2>2, <2>3, <2>4
       DEF ExamplesNext, CreateInserts, CreateCommits, CommitFails, FindToPublish,
           PublishAnswers, Delete, SetPublished, WorkersDie, Crash, Reap, ReclaimExpired,
           OperatorRedrives, Redrive
<1>3. Target[j] \in Example /\ example[Target[j]] # "none"
  <2>1. CASE j \in handled
    BY <2>1, TargetAssumption DEF Known, TypeOK, AnnounceInv
  <2>2. CASE Target[j] \in Live
    BY <2>2 DEF Live
  <2>3. QED
    BY <1>2, <2>1, <2>2
<1>4. QED
  BY <1>3, ExamplesStay

LEMMA AnnounceCorrect == ExamplesSpec => []AnnounceInv
<1>1. ExamplesInit => AnnounceInv
  BY ExampleAssumption DEF ExamplesInit, Init, AnnounceInv
<1>2. TypeOK /\ TableInv /\ ExamplesTypeOK /\ AnnounceInv /\ [ExamplesNext]_exampleVars
        => AnnounceInv'
  BY CallStep, CommitStep, HandledStep DEF Known, AnnounceInv
<1>3. Spec => []TypeOK /\ []TableInv
  BY TypeCorrect, TableCorrect
<1>4. QED
  BY <1>1, <1>2, <1>3, ExamplesImplementQueue, ExamplesTypeCorrect, PTL DEF ExamplesSpec

\* However create fails, an example that anybody can see has its created-event in
\* the queue.
THEOREM AnnouncedIfCommittedHolds == ExamplesSpec => []AnnouncedIfCommitted
<1>1. AnnounceInv => AnnouncedIfCommitted
  BY DEF AnnounceInv, AnnouncedIfCommitted
<1>2. QED
  BY <1>1, AnnounceCorrect, PTL

\* A job is done only once its example has been there, although it may be claimed
\* before its create commits.
THEOREM DoneIsSeenHolds == ExamplesSpec => []DoneIsSeen
<1>1. AnnounceInv /\ OutcomeIsEarned => DoneIsSeen
  BY DEF AnnounceInv, OutcomeIsEarned, DoneIsSeen
<1>2. QED
  BY <1>1, AnnounceCorrect, ExamplesImplementQueue, OutcomeIsEarnedHolds, PTL

-----------------------------------------------------------------------------
(* Marks of publication. *)

\* A consumer that marks an example has found it, and its run goes on to its outcome.
LEMMA MarksStep ==
    ASSUME TypeOK, ExamplesTypeOK, NEW r \in runs, Handle(r),
           NEW e \in Example, published'[e] # published[e]
    PROVE  r \notin runs' /\ r.job \in Asked /\ Target[r.job] = e
<1>1. r.job \in Asked /\ Mark(Target[r.job])
  BY DEF Handle, HandleCreated, HandlePublished, HandleFails
<1>2. Target[r.job] = e
  BY <1>1 DEF ExamplesTypeOK, Mark
<1>3. r.phase = "running" /\ (runs' = Becomes(r, "ok") \/ runs' = Becomes(r, "err"))
  BY DEF Handle, HandleCreated, HandlePublished, HandleFails, HandlerOk, HandlerErr
<1>4. r \notin runs'
  BY <1>3 DEF Becomes, TypeOK, Run
<1>5. QED
  BY <1>1, <1>2, <1>4

\* Only a user or a consumer changes a mark, and a user leaves the queue alone.
LEMMA MarkedByRun ==
    ASSUME ExamplesNext, published' # published, ~UNCHANGED vars
    PROVE  \E r \in runs : Handle(r)
  BY DEF ExamplesNext, CreateInserts, CreateCommits, CommitFails, FindToPublish,
         PublishAnswers, Delete, SetPublished, PublishStep, RequestFails, Clock,
         JobStep, WorkerStep, WorkersDie, Reap, OperatorRedrives

\* The run that marks an example published, if the leases of its job outlive its runs,
\* is the run of the last claim of a job in processing: a user who unpublishes is not
\* overruled by a run that was reclaimed, or by a job that is done.
THEOREM UnpublishSticksHolds == ExamplesSpec => UnpublishSticks
<1>1. ASSUME TypeOK, ExamplesTypeOK, ExclusiveRun, ExamplesNext,
             NEW e \in Example, published'[e] # published[e], ~UNCHANGED vars
      PROVE  \E r \in runs \ runs' :
               /\ r.job \in Asked /\ Target[r.job] = e
               /\ r.job \in Steady => /\ jobs[r.job].status = "processing"
                                      /\ r.nth = claims[r.job]
  <2>1. PICK r \in runs : Handle(r)
    BY <1>1, MarkedByRun
  <2>2. r \notin runs' /\ r.job \in Asked /\ Target[r.job] = e
    BY <1>1, <2>1, MarksStep
  <2>3. r.job \in Steady => jobs[r.job].status = "processing" /\ r.nth = claims[r.job]
    BY <1>1 DEF ExclusiveRun
  <2>4. QED
    BY <2>2, <2>3
<1>2. TypeOK /\ ExamplesTypeOK /\ ExclusiveRun /\ [ExamplesNext]_exampleVars =>
        [\A e \in Example : published'[e] # published[e] =>
           \/ UNCHANGED vars
           \/ \E r \in runs \ runs' :
                /\ r.job \in Asked /\ Target[r.job] = e
                /\ r.job \in Steady => /\ jobs[r.job].status = "processing"
                                       /\ r.nth = claims[r.job]]_exampleVars
  BY <1>1
<1>3. QED
  BY <1>2, ExamplesImplementQueue, TypeCorrect, ExamplesTypeCorrect, ExclusiveRunHolds, PTL
     DEF ExamplesSpec, UnpublishSticks
=============================================================================
