---------------------------- MODULE RunnerProofs ----------------------------
(***************************************************************************)
(* Proofs about Runner: the worker processes do nothing to the table but   *)
(* run statements of packages/queue, so what JobQueueProofs proves of the  *)
(* queue holds under them; and a poll loop finishes its batch.             *)
(***************************************************************************)
EXTENDS Runner, JobQueueRefinement, FiniteSetTheorems

USE DEF vars, loops, control, allVars, Goto

LEMMA LoopFacts ==
    /\ \A p \in Process : Poll(p) \in Worker /\ Listen(p) \in Worker
    /\ \A p, q \in Process : Poll(p) # Listen(q)
    /\ \A p, q \in Process : (Poll(p) = Poll(q) => p = q) /\ (Listen(p) = Listen(q) => p = q)
    /\ \A w \in Worker : \E p \in Process : w \in {Poll(p), Listen(p)}
  BY LoopAssumption DEF Poll, Listen

LEMMA RunnerNextIsQueueStep == RunnerNext => [Next]_vars
<1> SUFFICES ASSUME RunnerNext
             PROVE  [Next]_vars
  OBVIOUS
<1>1. ASSUME UNCHANGED vars
      PROVE  [Next]_vars
  BY <1>1
<1>2. ASSUME NEW p \in Process, PollStops(p) \/ Kill(p) \/ ReapTick(p)
      PROVE  Next
  <2>1. {Listen(p)} \in SUBSET Worker /\ LoopsOf(p) \in SUBSET Worker
    BY LoopFacts DEF LoopsOf
  <2>2. QED
    BY <1>2, <2>1 DEF PollStops, Kill, ReapTick, Next
<1>3. ASSUME NEW w \in Worker, Drain(w)
      PROVE  [Next]_vars
  <2>1. CASE NextChannel(w) \/ BatchDone(w)
    BY <2>1, <1>1 DEF NextChannel, BatchDone
  <2>2. CASE DrainClaim(w)
    <3>1. CASE chan[w] \in Channel
      BY <2>2, <3>1 DEF DrainClaim, Claim, Next
    <3>2. CASE chan[w] \notin Channel
      <4>1. Claimable(chan[w]) = {}
        BY <3>2, ChannelAssumption DEF Claimable, With
      <4>2. QED
        BY <2>2, <4>1 DEF DrainClaim, ClaimLock
    <3>3. QED
      BY <3>1, <3>2
  <2>3. CASE DrainClaimed(w)
    BY <2>3 DEF DrainClaimed, Claim, Next
  <2>4. CASE DrainEnds(w)
    <3>1. {w} \in SUBSET Worker
      OBVIOUS
    <3>2. QED
      BY <2>4, <3>1 DEF DrainEnds, Claim, Next
  <2>5. QED
    BY <1>3, <2>1, <2>2, <2>3, <2>4 DEF Drain
<1>4. ASSUME NEW r \in runs, Spawn(r) \/ JobStep(r)
      PROVE  Next
  BY <1>4 DEF Spawn, JobStep, RunJob, Next
<1>5. ASSUME NEW j \in Job, PublishStep(j) \/ Clock(j)
      PROVE  Next
  BY <1>5 DEF PublishStep, Publish, Clock, Next
<1>6. ASSUME NEW ch \in Channel, OperatorRedrives(ch)
      PROVE  Next
  BY <1>6 DEF OperatorRedrives, Next
<1>7. QED
  BY <1>1, <1>2, <1>3, <1>4, <1>5, <1>6
     DEF RunnerNext, PollTick, ListenWake, ListenConnect, ListenBreaks, ListenStops,
         ReapStops, Shutdown, Restart

\* Every behaviour of the worker processes is one of the queue: the runner touches
\* the table, the leases and the jobs in hand by the functions of packages/queue only.
THEOREM RunnerImplementsQueue == RunnerSpec => Spec
<1>1. RunnerInit => Init
  BY DEF RunnerInit
<1>2. [RunnerNext]_allVars => [Next]_vars
  BY RunnerNextIsQueueStep
<1>3. QED
  BY <1>1, <1>2, PTL DEF RunnerSpec, Spec

\* The retry budget of the queue bounds what the workers run.
THEOREM RunnerRetryBudget == RunnerSpec => []RetryBudget
  BY RunnerImplementsQueue, RetryBudgetHolds, PTL

\* However the processes are stopped, killed and started again, a job whose lease
\* outlives its runs is not in the hands of two of them.
THEOREM RunnerExclusiveRun == RunnerSpec => []ExclusiveRun
  BY RunnerImplementsQueue, ExclusiveRunHolds, PTL

\* From end to end: what the processes do to such a job, through whatever statements,
\* signals and kills, is a path through the documented lifecycle.
THEOREM RunnerFollowsLifecycle == RunnerSpec => FollowsLifecycle
  BY RunnerImplementsQueue, RefinesLifecycle

-----------------------------------------------------------------------------
(* Batches. *)

Pcs == [Worker -> {"connect", "idle", "next", "claim", "batch", "gone"}]

LoopsTyped == TypeOK /\ pc \in Pcs /\ stops \in Nat

LEMMA PcType == LoopsTyped /\ [RunnerNext]_allVars => pc' \in Pcs
<1> SUFFICES ASSUME LoopsTyped, [RunnerNext]_allVars
             PROVE  pc' \in Pcs
  OBVIOUS
<1>1. CASE UNCHANGED pc
  BY <1>1 DEF LoopsTyped
<1>2. ASSUME NEW w \in Worker,
             NEW to \in {"connect", "idle", "next", "claim", "batch", "gone"},
             pc' = [pc EXCEPT ![w] = to]
      PROVE  pc' \in Pcs
  BY <1>2 DEF LoopsTyped, Pcs
<1>3. ASSUME NEW p \in Process,
             \/ PollTick(p) \/ PollStops(p) \/ ListenWake(p) \/ ListenConnect(p)
             \/ ListenBreaks(p) \/ ListenStops(p)
      PROVE  pc' \in Pcs
  BY <1>2, <1>3, LoopFacts
     DEF PollTick, PollStops, ListenWake, ListenConnect, ListenBreaks, ListenStops,
         StartDrain, LoopsTyped, Pcs
<1>4. ASSUME NEW p \in Process, Kill(p) \/ Restart(p)
      PROVE  pc' \in Pcs
  BY <1>4 DEF Kill, Restart, StartPc, LoopsTyped, Pcs
<1>5. ASSUME NEW w \in Worker, Drain(w)
      PROVE  pc' \in Pcs
  BY <1>2, <1>5, <1>1 DEF Drain, NextChannel, DrainClaim, DrainClaimed, DrainEnds, BatchDone
<1>6. QED
  BY <1>1, <1>3, <1>4, <1>5
     DEF RunnerNext, ReapTick, ReapStops, Shutdown, Spawn, JobStep, PublishStep, Clock,
         OperatorRedrives

LEMMA StopsType == LoopsTyped /\ [RunnerNext]_allVars => stops' \in Nat
<1>1. LoopsTyped /\ [RunnerNext]_allVars => stops' = stops \/ stops' = stops + 1
  BY DEF RunnerNext, PollTick, PollStops, ListenWake, ListenConnect, ListenBreaks,
         ListenStops, ReapTick, ReapStops, Shutdown, Kill, Restart, Drain, NextChannel,
         DrainClaim, DrainClaimed, DrainEnds, BatchDone, Spawn, JobStep, PublishStep,
         Clock, OperatorRedrives
<1>2. QED
  BY <1>1 DEF LoopsTyped

LEMMA RunnerTyped == RunnerSpec => []LoopsTyped
<1>1. RunnerInit => LoopsTyped
  BY InitType DEF RunnerInit, LoopsTyped, Pcs, StartPc
<1>2. LoopsTyped /\ [RunnerNext]_allVars => LoopsTyped'
  BY PcType, StopsType, NextType, RunnerNextIsQueueStep DEF LoopsTyped
<1>3. QED
  BY <1>1, <1>2, PTL DEF RunnerSpec

\* Nothing new in a worker's hands and no loop leaves its batch with jobs in hand.
LEMMA FewerJobs ==
    ASSUME LoopsInv,
           \A s \in runs' : \E r \in runs : s.by = r.by /\ pc'[r.by] = pc[r.by]
    PROVE  \A s \in runs' : pc'[s.by] = "batch"
  BY DEF LoopsInv

\* Draining moves one loop, and never out of the process.
LEMMA DrainStays ==
    ASSUME LoopsTyped, NEW w \in Worker, Drain(w)
    PROVE  (\A v \in Worker : v # w => pc'[v] = pc[v]) /\ pc'[w] # "gone"
<1>1. CASE NextChannel(w)
  BY <1>1 DEF NextChannel, LoopsTyped, Pcs
<1>2. CASE DrainClaim(w)
  BY <1>2 DEF DrainClaim
<1>3. CASE DrainClaimed(w) \/ DrainEnds(w) \/ BatchDone(w)
  BY <1>3 DEF DrainClaimed, DrainEnds, BatchDone, LoopsTyped, Pcs
<1>4. QED
  BY <1>1, <1>2, <1>3 DEF Drain

LEMMA RunnerLoops ==
    ASSUME LoopsTyped, LoopsInv, RunnerNext
    PROVE  LoopsInv'
<1>0. \A r \in runs : r.by \in Worker
  BY DEF LoopsTyped, TypeOK, Run
<1>1. ASSUME NEW p \in Process,
             PollTick(p) \/ ListenWake(p) \/ ListenConnect(p) \/ ListenBreaks(p)
               \/ ListenStops(p)
      PROVE  LoopsInv'
  <2>1. PICK w \in LoopsOf(p), to \in {"connect", "idle", "next", "gone"} :
          /\ pc[w] \in {"idle", "connect"}
          /\ pc' = [pc EXCEPT ![w] = to]
          /\ runs' = runs
          /\ w = Poll(p) => to = "next"
    BY <1>1, LoopFacts DEF PollTick, ListenWake, ListenConnect, ListenBreaks, ListenStops,
                           StartDrain, LoopsOf
  <2>2. w \in Worker /\ w # Poll(p) => w = Listen(p)
    BY LoopFacts DEF LoopsOf
  <2>3. \A v \in Worker : v # w => pc'[v] = pc[v]
    BY <2>1 DEF LoopsTyped, Pcs
  <2>4. pc'[w] = to
    BY <2>1, LoopFacts DEF LoopsTyped, Pcs, LoopsOf
  <2>5. \A r \in runs' : pc'[r.by] = "batch"
    BY <1>0, <2>1, <2>3 DEF LoopsInv
  <2>6. \A q \in Process : pc'[Poll(q)] = "gone" => pc'[Listen(q)] = "gone"
    BY <1>1, <2>1, <2>3, <2>4, LoopFacts DEF LoopsInv, LoopsOf
  <2>7. QED
    BY <2>5, <2>6 DEF LoopsInv
<1>2. ASSUME NEW p \in Process, PollStops(p)
      PROVE  LoopsInv'
  <2>1. \A v \in Worker : pc'[v] = IF v \in LoopsOf(p) THEN "gone" ELSE pc[v]
    BY <1>2 DEF PollStops, LoopsTyped, Pcs, LoopsOf
  <2>2. \A r \in runs' : r \in runs /\ r.by # Listen(p) /\ r.by # Poll(p)
    BY <1>2 DEF PollStops, Crash, LoopsInv
  <2>3. \A q \in Process : pc'[Poll(q)] = "gone" => pc'[Listen(q)] = "gone"
    BY <2>1, LoopFacts DEF LoopsInv, LoopsOf
  <2>4. QED
    BY <1>0, <2>1, <2>2, <2>3 DEF LoopsInv, LoopsOf
<1>3. ASSUME NEW p \in Process, Kill(p)
      PROVE  LoopsInv'
  <2>1. \A v \in Worker : pc'[v] = IF v \in LoopsOf(p) THEN "gone" ELSE pc[v]
    BY <1>3 DEF Kill
  <2>2. \A r \in runs' : r \in runs /\ r.by \notin LoopsOf(p)
    BY <1>3 DEF Kill, Crash
  <2>3. \A q \in Process : pc'[Poll(q)] = "gone" => pc'[Listen(q)] = "gone"
    BY <2>1, LoopFacts DEF LoopsInv, LoopsOf
  <2>4. QED
    BY <1>0, <2>1, <2>2, <2>3 DEF LoopsInv
<1>4. ASSUME NEW p \in Process, Restart(p)
      PROVE  LoopsInv'
  <2>1. pc[Poll(p)] = "gone" /\ pc[Listen(p)] = "gone"
    BY <1>4 DEF Restart, Up, LoopsInv
  <2>2. \A v \in Worker : pc'[v] = IF v \in LoopsOf(p) THEN StartPc(v) ELSE pc[v]
    BY <1>4 DEF Restart
  <2>3. runs' = runs /\ \A r \in runs : r.by \notin LoopsOf(p)
    BY <1>4, <2>1 DEF Restart, LoopsInv, LoopsOf
  <2>4. \A q \in Process : pc'[Poll(q)] = "gone" => pc'[Listen(q)] = "gone"
    BY <2>1, <2>2, LoopFacts DEF LoopsInv, LoopsOf, StartPc
  <2>5. QED
    BY <1>0, <2>2, <2>3, <2>4 DEF LoopsInv
<1>5. ASSUME NEW w \in Worker, Drain(w)
      PROVE  LoopsInv'
  <2>1. \A v \in Worker : v # w => pc'[v] = pc[v]
    BY <1>5, DrainStays
  <2>2. pc[w] # "gone" /\ pc'[w] # "gone"
    BY <1>5, DrainStays DEF Drain, NextChannel, DrainClaim, DrainClaimed, DrainEnds,
                            BatchDone
  <2>3. \A q \in Process : pc'[Poll(q)] = "gone" => pc'[Listen(q)] = "gone"
    BY <2>1, <2>2, LoopFacts DEF LoopsInv
  <2>4. CASE DrainClaimed(w)
    <3>1. \A r \in runs' : r \in runs \/ r.by = w
      BY <2>4 DEF DrainClaimed, ClaimCommit
    <3>2. pc'[w] = "batch"
      BY <2>4 DEF DrainClaimed, LoopsTyped, Pcs
    <3>3. QED
      BY <1>0, <2>1, <2>3, <3>1, <3>2 DEF LoopsInv
  <2>5. CASE ~DrainClaimed(w)
    <3>1. runs' \subseteq runs
      BY <1>5, <2>5 DEF Drain, NextChannel, DrainClaim, DrainEnds, BatchDone, ClaimLock,
                        ClaimLost, Crash, vars
    <3>2. pc'[w] # pc[w] => \A r \in runs : r.by # w
      BY <1>5, <2>5 DEF Drain, NextChannel, DrainClaim, DrainEnds, BatchDone, HeldBy,
                        LoopsInv
    <3>3. QED
      BY <1>0, <2>1, <2>3, <3>1, <3>2 DEF LoopsInv
  <2>6. QED
    BY <2>4, <2>5
<1>6. ASSUME UNCHANGED pc, \A s \in runs' : \E r \in runs : s.by = r.by
      PROVE  LoopsInv'
  BY <1>6 DEF LoopsInv
<1>7. ASSUME NEW r \in runs, Spawn(r) \/ JobStep(r)
      PROVE  LoopsInv'
  <2>1. \E new : new.by = r.by /\ runs' \subseteq runs \cup {new}
    <3>1. \A phase : [r EXCEPT !.phase = phase].by = r.by
      BY DEF LoopsTyped, TypeOK, Run
    <3>2. CASE \E phase : runs' = Becomes(r, phase)
      BY <3>1, <3>2 DEF Becomes
    <3>3. CASE runs' = runs \ {r}
      BY <3>3
    <3>4. (\E phase : runs' = Becomes(r, phase)) \/ runs' = runs \ {r}
      BY <1>7 DEF Spawn, JobStep, StartJob, HandlerOk, HandlerErr, Settle, Complete,
                  Fail, SettleError
    <3>5. QED
      BY <3>2, <3>3, <3>4
  <2>2. \A s \in runs' : \E t \in runs : s.by = t.by
    BY <2>1
  <2>3. QED
    BY <1>6, <1>7, <2>2 DEF Spawn, JobStep, control
<1>8. ASSUME NEW j \in Job, Clock(j)
      PROVE  LoopsInv'
  <2>1. \A s \in runs' : \E t \in runs : s.by = t.by
    BY <1>8 DEF Clock, BecomeDue, LeaseExpires, LoopsTyped, TypeOK, Run
  <2>2. QED
    BY <1>6, <1>8, <2>1 DEF Clock
<1>9. CASE UNCHANGED <<pc, runs>>
  BY <1>6, <1>9
<1>10. QED
  BY <1>1, <1>2, <1>3, <1>4, <1>5, <1>7, <1>8, <1>9
     DEF RunnerNext, ReapTick, ReapStops, Shutdown, PublishStep, PublishNotify,
         PublishInsert, PublishConflict, PublishSelect, PublishFails, OperatorRedrives,
         ReclaimExpired, Redrive, vars

\* runner.rs:216 for the poll loop: unless it is killed, it returns with no job
\* leased to it, in whatever order signals, claims and handlers come.
THEOREM PollFinishesBatchHolds == RunnerSpec => PollFinishesBatch
<1>1. RunnerInit => LoopsInv
  BY LoopFacts DEF RunnerInit, Init, LoopsInv, StartPc, Poll
<1>2. LoopsTyped /\ LoopsInv /\ [RunnerNext]_allVars => LoopsInv'
  <2>1. LoopsInv /\ UNCHANGED allVars => LoopsInv'
    BY DEF LoopsInv, vars
  <2>2. QED
    BY <2>1, RunnerLoops
<1>3. LoopsTyped /\ LoopsInv /\ [RunnerNext]_allVars
        => [\A p \in Process :
              pc[Poll(p)] # "gone" /\ pc'[Poll(p)] = "gone" /\ HeldBy(Poll(p)) # {}
                => stops' # stops]_allVars
  <2> SUFFICES ASSUME LoopsTyped, LoopsInv, RunnerNext, NEW p \in Process,
                      pc[Poll(p)] # "gone", pc'[Poll(p)] = "gone", HeldBy(Poll(p)) # {}
               PROVE  stops' # stops
    OBVIOUS
  <2>1. pc[Poll(p)] = "batch"
    BY DEF HeldBy, LoopsInv
  <2>2. \A w \in Worker : Drain(w) => pc'[Poll(p)] # "gone"
    BY <2>1, LoopFacts, DrainStays
  <2>3. \A q \in Process :
          PollTick(q) \/ PollStops(q) \/ ListenWake(q) \/ ListenConnect(q)
            \/ ListenBreaks(q) \/ ListenStops(q) => pc'[Poll(p)] # "gone"
    BY <2>1, LoopFacts
       DEF PollTick, PollStops, ListenWake, ListenConnect, ListenBreaks, ListenStops,
           StartDrain, LoopsTyped, Pcs
  <2>4. \A q \in Process : Restart(q) => pc'[Poll(p)] # "gone"
    BY <2>1, LoopFacts DEF Restart, LoopsOf, StartPc
  <2>5. PICK q \in Process : Shutdown(q) \/ Kill(q)
    BY <2>1, <2>2, <2>3, <2>4
       DEF RunnerNext, ReapTick, ReapStops, Spawn, JobStep, PublishStep, Clock,
           OperatorRedrives
  <2>6. stops' = stops + 1 /\ stops \in Nat
    BY <2>5 DEF Shutdown, Kill, LoopsTyped
  <2>7. QED
    BY <2>6
<1>4. QED
  BY <1>1, <1>2, <1>3, RunnerTyped, PTL DEF RunnerSpec, PollFinishesBatch
-----------------------------------------------------------------------------
(* How many jobs a loop holds. *)

LEMMA ImageCardinality ==
    ASSUME NEW S, IsFiniteSet(S), NEW f, NEW T, T \subseteq {f[x] : x \in S}
    PROVE  /\ IsFiniteSet(T)
           /\ Cardinality(T) \in Nat /\ Cardinality(S) \in Nat
           /\ Cardinality(T) <= Cardinality(S)
<1> DEFINE U == {f[x] : x \in S}
           g == [x \in S |-> f[x]]
<1>1. g \in Surjection(S, U)
  BY DEF Surjection
<1>2. IsFiniteSet(U) /\ Cardinality(U) <= Cardinality(S)
  BY <1>1, FS_Surjection
<1>3. IsFiniteSet(T) /\ Cardinality(T) <= Cardinality(U)
  BY <1>2, FS_Subset
<1>4. QED
  BY <1>2, <1>3, FS_CardinalityType

\* A step that only changes, or forgets, jobs in hand, and starts none.
LEMMA HandsKept ==
    ASSUME HandsInv, NEW f,
           \A r \in runs : f[r].by = r.by /\ (f[r].phase # "claimed" => r.phase # "claimed"),
           runs' \subseteq {f[r] : r \in runs}
    PROVE  HandsInv'
<1>1. IsFiniteSet(runs')
  BY ImageCardinality DEF HandsInv
<1>2. ASSUME NEW w \in Worker
      PROVE  Cardinality(HeldBy(w))' <= Batch /\ Cardinality(InFlight(w))' <= Concurrency
  <2>1. IsFiniteSet(HeldBy(w)) /\ IsFiniteSet(InFlight(w))
    BY FS_Subset DEF HandsInv, HeldBy, InFlight
  <2>2. HeldBy(w)' \subseteq {f[r] : r \in HeldBy(w)}
    BY DEF HeldBy
  <2>3. InFlight(w)' \subseteq {f[r] : r \in InFlight(w)}
    BY DEF InFlight, HeldBy
  <2>4. /\ Cardinality(HeldBy(w)') <= Cardinality(HeldBy(w))
        /\ Cardinality(HeldBy(w)') \in Nat /\ Cardinality(HeldBy(w)) \in Nat
    BY <2>1, <2>2, ImageCardinality
  <2>5. /\ Cardinality(InFlight(w)') <= Cardinality(InFlight(w))
        /\ Cardinality(InFlight(w)') \in Nat /\ Cardinality(InFlight(w)) \in Nat
    BY <2>1, <2>3, ImageCardinality
  <2>6. QED
    BY <2>4, <2>5, BatchAssumption, ConcurrencyAssumption DEF HandsInv
<1>3. QED
  BY <1>1, <1>2 DEF HandsInv

LEMMA HandsFewer ==
    ASSUME HandsInv, runs' \subseteq runs
    PROVE  HandsInv'
<1> DEFINE f == [r \in runs |-> r]
<1>1. runs' \subseteq {f[r] : r \in runs}
  OBVIOUS
<1>2. \A r \in runs : f[r].by = r.by /\ (f[r].phase # "claimed" => r.phase # "claimed")
  OBVIOUS
<1> HIDE DEF f
<1>3. QED
  BY <1>1, <1>2, HandsKept

\* The claim of a loop with nothing in hand fills its batch.
LEMMA ClaimHands ==
    ASSUME LoopsTyped, LoopsInv, HandsInv, ClaimsInv, NEW w \in Worker, DrainClaimed(w)
    PROVE  HandsInv'
<1> DEFINE f == [j \in locks[w] |-> [by |-> w, job |-> j, nth |-> claims[j] + 1,
                                     phase |-> "claimed", lapsed |-> FALSE]]
           new == {f[j] : j \in locks[w]}
<1>1. runs' = runs \cup new /\ locks[w] # {}
  BY DEF DrainClaimed, ClaimCommit, GrantLeases
<1>2. IsFiniteSet(locks[w])
  BY BoundsAssumption, FS_Subset DEF LoopsTyped, TypeOK
<1>3. IsFiniteSet(new) /\ Cardinality(new) <= Cardinality(locks[w])
       /\ Cardinality(new) \in Nat /\ Cardinality(locks[w]) \in Nat
  BY <1>2, ImageCardinality
<1>4. HeldBy(w) = {} /\ \A r \in new : r.by = w /\ r.phase = "claimed"
  <2>1. HeldBy(w) = {}
    BY DEF DrainClaimed, LoopsInv, HeldBy
  <2>2. \A j \in locks[w] : f[j].by = w /\ f[j].phase = "claimed"
    OBVIOUS
  <2>3. \A r \in new : \E j \in locks[w] : r = f[j]
    OBVIOUS
  <2> HIDE DEF f, new
  <2>4. QED
    BY <2>1, <2>2, <2>3
<1> HIDE DEF new, f
<1>5. HeldBy(w)' = new /\ InFlight(w)' = {}
  BY <1>1, <1>4 DEF HeldBy, InFlight
<1>6. \A v \in Worker \ {w} : HeldBy(v)' = HeldBy(v) /\ InFlight(v)' = InFlight(v)
  BY <1>1, <1>4 DEF HeldBy, InFlight
<1>7. IsFiniteSet(runs')
  BY <1>1, <1>3, FS_Union DEF HandsInv
<1>8. Cardinality(new) <= Batch
  BY <1>1, <1>3, BatchAssumption DEF ClaimsInv
<1>9. Cardinality({}) <= Concurrency
  BY FS_EmptySet, ConcurrencyAssumption
<1>10. ASSUME NEW v \in Worker
       PROVE  Cardinality(HeldBy(v))' <= Batch /\ Cardinality(InFlight(v))' <= Concurrency
  BY <1>5, <1>6, <1>8, <1>9 DEF HandsInv
<1>11. QED
  BY <1>7, <1>10 DEF HandsInv

\* A job starts only while a permit is free.
LEMMA SpawnHands ==
    ASSUME LoopsTyped, HandsInv, NEW r \in runs, Spawn(r)
    PROVE  HandsInv'
<1> DEFINE new == [r EXCEPT !.phase = "running"]
           f == [s \in runs |-> IF s = r THEN new ELSE s]
<1>1. runs' = (runs \ {r}) \cup {new} /\ new.by = r.by
  BY DEF Spawn, StartJob, Becomes, LoopsTyped, TypeOK, Run
<1> HIDE DEF new
<1>2. runs' \subseteq {f[s] : s \in runs} /\ \A s \in runs : f[s].by = s.by
  BY <1>1
<1> HIDE DEF f
<1>3. IsFiniteSet(runs')
  BY <1>2, ImageCardinality DEF HandsInv
<1>4. ASSUME NEW w \in Worker
      PROVE  Cardinality(HeldBy(w))' <= Batch
  <2>1. IsFiniteSet(HeldBy(w))
    BY FS_Subset DEF HandsInv, HeldBy
  <2>2. HeldBy(w)' \subseteq {f[s] : s \in HeldBy(w)}
    BY <1>2 DEF HeldBy
  <2>3. /\ Cardinality(HeldBy(w)') <= Cardinality(HeldBy(w))
        /\ Cardinality(HeldBy(w)') \in Nat /\ Cardinality(HeldBy(w)) \in Nat
    BY <2>1, <2>2, ImageCardinality
  <2>4. QED
    BY <2>3, BatchAssumption DEF HandsInv
<1>5. ASSUME NEW w \in Worker
      PROVE  Cardinality(InFlight(w))' <= Concurrency
  <2>1. IsFiniteSet(InFlight(w))
    BY FS_Subset DEF HandsInv, HeldBy, InFlight
  <2>2. CASE w = r.by
    <3>1. InFlight(w)' \subseteq InFlight(w) \cup {new}
      BY <1>1 DEF InFlight, HeldBy
    <3>2. /\ IsFiniteSet(InFlight(w) \cup {new})
          /\ Cardinality(InFlight(w) \cup {new}) <= Cardinality(InFlight(w)) + 1
          /\ Cardinality(InFlight(w)) \in Nat
      <4>1. Cardinality(InFlight(w)) \in Nat
        BY <2>1, FS_CardinalityType
      <4>2. /\ IsFiniteSet(InFlight(w) \cup {new})
            /\ \/ Cardinality(InFlight(w) \cup {new}) = Cardinality(InFlight(w))
               \/ Cardinality(InFlight(w) \cup {new}) = Cardinality(InFlight(w)) + 1
        BY <2>1, FS_AddElement, Zenon
      <4>3. QED
        BY <4>1, <4>2
    <3>3. /\ Cardinality(InFlight(w)') <= Cardinality(InFlight(w) \cup {new})
          /\ Cardinality(InFlight(w)') \in Nat /\ Cardinality(InFlight(w) \cup {new}) \in Nat
      BY <3>1, <3>2, FS_Subset, FS_CardinalityType
    <3>4. Cardinality(InFlight(w)) < Concurrency
      BY <2>2 DEF Spawn
    <3>5. QED
      BY <3>2, <3>3, <3>4, ConcurrencyAssumption
  <2>3. CASE w # r.by
    <3>1. InFlight(w)' \subseteq InFlight(w)
      BY <1>1, <2>3 DEF InFlight, HeldBy
    <3>2. /\ Cardinality(InFlight(w)') <= Cardinality(InFlight(w))
          /\ Cardinality(InFlight(w)') \in Nat /\ Cardinality(InFlight(w)) \in Nat
      BY <2>1, <3>1, FS_Subset, FS_CardinalityType
    <3>3. QED
      BY <3>2, ConcurrencyAssumption DEF HandsInv
  <2>4. QED
    BY <2>2, <2>3
<1>6. QED
  BY <1>3, <1>4, <1>5 DEF HandsInv

LEMMA JobStepHands ==
    ASSUME LoopsTyped, HandsInv, NEW r \in runs, JobStep(r)
    PROVE  HandsInv'
<1>1. ASSUME NEW phase, r.phase = "running", runs' = Becomes(r, phase)
      PROVE  HandsInv'
  <2> DEFINE new == [r EXCEPT !.phase = phase]
             f == [s \in runs |-> IF s = r THEN new ELSE s]
  <2>1. new.by = r.by
    BY DEF LoopsTyped, TypeOK, Run
  <2>2. runs' \subseteq {f[s] : s \in runs}
    BY <1>1 DEF Becomes
  <2>3. \A s \in runs : f[s].by = s.by /\ (f[s].phase # "claimed" => s.phase # "claimed")
    BY <1>1, <2>1
  <2> HIDE DEF f
  <2>4. QED
    BY <2>2, <2>3, HandsKept
<1>2. CASE runs' = runs \ {r}
  BY <1>2, HandsFewer
<1>3. QED
  BY <1>1, <1>2 DEF JobStep, HandlerOk, HandlerErr, Settle, Complete, Fail, SettleError

LEMMA ClockHands ==
    ASSUME LoopsTyped, HandsInv, NEW j \in Job, Clock(j)
    PROVE  HandsInv'
<1>1. CASE BecomeDue(j)
  BY <1>1, HandsFewer DEF BecomeDue
<1>2. CASE LeaseExpires(j)
  <2> DEFINE f == [r \in runs |-> IF r.job = j THEN [r EXCEPT !.lapsed = TRUE] ELSE r]
  <2>1. runs' \subseteq {f[r] : r \in runs}
    BY <1>2 DEF LeaseExpires
  <2>2. \A r \in runs : f[r].by = r.by /\ f[r].phase = r.phase
    BY DEF LoopsTyped, TypeOK, Run
  <2> HIDE DEF f
  <2>3. QED
    BY <2>1, <2>2, HandsKept
<1>3. QED
  BY <1>1, <1>2 DEF Clock

LEMMA RunnerHands ==
    ASSUME LoopsTyped, LoopsInv, HandsInv, ClaimsInv, RunnerNext
    PROVE  HandsInv'
<1>1. ASSUME NEW w \in Worker, Drain(w)
      PROVE  HandsInv'
  <2>1. CASE DrainClaimed(w)
    BY <2>1, ClaimHands
  <2>2. CASE ~DrainClaimed(w)
    <3>1. runs' \subseteq runs
      BY <1>1, <2>2 DEF Drain, NextChannel, DrainClaim, DrainEnds, BatchDone, ClaimLock,
                        ClaimLost, Crash
    <3>2. QED
      BY <3>1, HandsFewer
  <2>3. QED
    BY <2>1, <2>2
<1>2. CASE runs' \subseteq runs
  BY <1>2, HandsFewer
<1>3. QED
  BY <1>1, <1>2, SpawnHands, JobStepHands, ClockHands
     DEF RunnerNext, PollTick, PollStops, ListenWake, ListenConnect, ListenBreaks,
         ListenStops, ReapTick, ReapStops, Shutdown, Kill, Restart, Crash, PublishStep,
         PublishNotify, PublishInsert, PublishConflict, PublishSelect, PublishFails,
         OperatorRedrives, ReclaimExpired, Redrive

\* A claim in flight belongs to a loop that waits for it, and asks for a batch.
LEMMA RunnerClaims ==
    ASSUME LoopsTyped, LoopsInv, ClaimsInv, RunnerNext
    PROVE  ClaimsInv'
<1>1. ASSUME NEW w \in Worker, pc[w] # "claim", locks' = locks,
             \A v \in Worker : v # w => pc'[v] = pc[v]
      PROVE  ClaimsInv'
  BY <1>1 DEF ClaimsInv
<1>2. ASSUME NEW p \in Process,
             PollTick(p) \/ ListenWake(p) \/ ListenConnect(p) \/ ListenBreaks(p)
               \/ ListenStops(p)
      PROVE  ClaimsInv'
  <2>1. PICK w \in {Poll(p), Listen(p)}, to \in {"connect", "idle", "next", "gone"} :
          pc[w] # "claim" /\ pc' = [pc EXCEPT ![w] = to] /\ locks' = locks
    BY <1>2 DEF PollTick, ListenWake, ListenConnect, ListenBreaks, ListenStops, StartDrain
  <2>2. w \in Worker /\ \A v \in Worker : v # w => pc'[v] = pc[v]
    BY <2>1, LoopFacts DEF LoopsTyped, Pcs
  <2>3. QED
    BY <1>1, <2>1, <2>2
<1>3. ASSUME NEW p \in Process, PollStops(p) \/ Kill(p)
      PROVE  ClaimsInv'
  <2>1. ASSUME NEW v \in Worker, locks'[v] # {}
        PROVE  locks'[v] = locks[v] /\ v \notin LoopsOf(p)
    BY <1>3, <2>1 DEF PollStops, Kill, Crash, LoopsOf, ClaimsInv
  <2>2. \A v \in Worker : v \notin LoopsOf(p) => pc'[v] = pc[v]
    BY <1>3 DEF PollStops, Kill, LoopsOf, LoopsTyped, Pcs
  <2>3. QED
    BY <2>1, <2>2 DEF ClaimsInv
<1>4. ASSUME NEW p \in Process, Restart(p)
      PROVE  ClaimsInv'
  <2>1. pc[Poll(p)] = "gone" /\ pc[Listen(p)] = "gone"
    BY <1>4 DEF Restart, Up, LoopsInv
  <2>2. locks' = locks /\ \A v \in Worker : v \notin LoopsOf(p) => pc'[v] = pc[v]
    BY <1>4 DEF Restart
  <2>3. QED
    BY <2>1, <2>2 DEF ClaimsInv, LoopsOf
<1>5. ASSUME NEW w \in Worker, Drain(w)
      PROVE  ClaimsInv'
  <2>1. \A v \in Worker : v # w => pc'[v] = pc[v]
    BY <1>5, DrainStays
  <2>2. CASE NextChannel(w) \/ BatchDone(w)
    <3>1. pc[w] # "claim" /\ locks' = locks
      BY <2>2 DEF NextChannel, BatchDone
    <3>2. QED
      BY <1>1, <2>1, <3>1
  <2>3. CASE DrainClaim(w)
    <3>1. PICK S \in SUBSET Claimable(chan[w]) :
            Cardinality(S) <= Batch /\ locks' = [locks EXCEPT ![w] = S]
      <4>1. PICK S \in SUBSET Claimable(chan[w]) :
              /\ Cardinality(S) <= Batch \/ Cardinality(S) = Batch
              /\ locks' = [locks EXCEPT ![w] = S]
        BY <2>3, Zenon DEF DrainClaim, ClaimLock
      <4>2. Cardinality(S) <= Batch
        BY <4>1, BatchAssumption
      <4>3. QED
        BY <4>1, <4>2, Zenon
    <3>2. \A v \in Worker : locks'[v] = IF v = w THEN S ELSE locks[v]
      BY <3>1 DEF LoopsTyped, TypeOK
    <3>3. pc' = pc /\ pc[w] = "claim"
      BY <2>3 DEF DrainClaim
    <3>4. QED
      BY <3>1, <3>2, <3>3 DEF ClaimsInv
  <2>4. CASE DrainClaimed(w) \/ DrainEnds(w)
    <3>1. \A v \in Worker : locks'[v] = IF v = w THEN {} ELSE locks[v]
      BY <2>4 DEF DrainClaimed, DrainEnds, ClaimCommit, ClaimLost, GrantLeases, Crash,
                  LoopsTyped, TypeOK
    <3>2. QED
      BY <2>1, <3>1 DEF ClaimsInv
  <2>5. QED
    BY <1>5, <2>2, <2>3, <2>4 DEF Drain
<1>6. CASE UNCHANGED <<pc, locks>>
  BY <1>6 DEF ClaimsInv
<1>7. ASSUME NEW r \in runs, Spawn(r) \/ JobStep(r)
      PROVE  UNCHANGED <<pc, locks>>
  BY <1>7 DEF Spawn, StartJob, JobStep, HandlerOk, HandlerErr, Settle, Complete, Fail,
              SettleError, table
<1>8. ASSUME NEW j \in Job, PublishStep(j) \/ Clock(j)
      PROVE  UNCHANGED <<pc, locks>>
  BY <1>8 DEF PublishStep, PublishNotify, PublishInsert, PublishConflict, PublishSelect,
              PublishFails, Clock, BecomeDue, LeaseExpires, table
<1>9. ASSUME NEW ch \in Channel, OperatorRedrives(ch)
      PROVE  UNCHANGED <<pc, locks>>
  BY <1>9 DEF OperatorRedrives, Redrive
<1>10. ASSUME NEW p \in Process, ReapTick(p) \/ ReapStops(p) \/ Shutdown(p)
       PROVE  UNCHANGED <<pc, locks>>
  BY <1>10 DEF ReapTick, ReclaimExpired, ReapStops, Shutdown
<1>11. QED
  BY <1>2, <1>3, <1>4, <1>5, <1>6, <1>7, <1>8, <1>9, <1>10 DEF RunnerNext

\* runner.rs:216, for every loop: it holds at most one batch of jobs and runs at
\* most Concurrency of them, and does not claim, poll or listen before it is done.
THEOREM BatchBoundsHold == RunnerSpec => []BatchBounds
<1> DEFINE IInv == LoopsInv /\ HandsInv /\ ClaimsInv
<1>1. RunnerInit => IInv
  <2> SUFFICES ASSUME RunnerInit
               PROVE  IInv
    OBVIOUS
  <2>1. LoopsInv
    BY LoopFacts DEF RunnerInit, Init, LoopsInv, StartPc, Poll
  <2>2. HandsInv
    BY FS_EmptySet, BatchAssumption, ConcurrencyAssumption
       DEF RunnerInit, Init, HandsInv, HeldBy, InFlight
  <2>3. ClaimsInv
    BY DEF RunnerInit, Init, ClaimsInv
  <2>4. QED
    BY <2>1, <2>2, <2>3
<1>2. LoopsTyped /\ IInv /\ [RunnerNext]_allVars => IInv'
  <2>1. IInv /\ UNCHANGED allVars => IInv'
    BY DEF LoopsInv, HandsInv, ClaimsInv, HeldBy, InFlight, vars
  <2>2. LoopsTyped /\ IInv /\ RunnerNext => IInv'
    BY RunnerLoops, RunnerHands, RunnerClaims
  <2>3. QED
    BY <2>1, <2>2
<1>3. IInv => BatchBounds
  BY DEF LoopsInv, HandsInv, ClaimsInv, BatchBounds, HeldBy
<1>4. QED
  BY <1>1, <1>2, <1>3, RunnerTyped, PTL DEF RunnerSpec

-----------------------------------------------------------------------------
(* The state of the loops. *)

LEMMA ControlType ==
    ASSUME LoopsTyped, RunnerTypeOK, [RunnerNext]_allVars
    PROVE  /\ chan' \in [Worker -> Channel] /\ todo' \in [Worker -> SUBSET Channel]
           /\ wake' \in [Process -> BOOLEAN]
<1>1. ASSUME NEW w \in Worker, Drain(w)
      PROVE  /\ chan' \in [Worker -> Channel] /\ todo' \in [Worker -> SUBSET Channel]
             /\ wake' = wake
  <2>1. CASE NextChannel(w)
    BY <2>1 DEF NextChannel, RunnerTypeOK
  <2>2. CASE DrainClaim(w) \/ DrainClaimed(w) \/ DrainEnds(w) \/ BatchDone(w)
    BY <2>2 DEF DrainClaim, DrainClaimed, DrainEnds, BatchDone, RunnerTypeOK
  <2>3. QED
    BY <1>1, <2>1, <2>2 DEF Drain
<1>2. ASSUME NEW p \in Process, PollTick(p) \/ ListenWake(p)
      PROVE  /\ chan' = chan /\ todo' \in [Worker -> SUBSET Channel]
             /\ wake' \in [Process -> BOOLEAN]
  BY <1>2 DEF PollTick, ListenWake, StartDrain, RunnerTypeOK
<1>3. ASSUME NEW p \in Process,
             PollStops(p) \/ ListenConnect(p) \/ ListenBreaks(p) \/ ListenStops(p)
               \/ ReapTick(p) \/ ReapStops(p) \/ Shutdown(p) \/ Kill(p) \/ Restart(p)
      PROVE  /\ chan' = chan /\ todo' = todo
             /\ wake' \in [Process -> BOOLEAN]
  BY <1>3 DEF PollStops, ListenConnect, ListenBreaks, ListenStops, ReapTick, ReapStops,
              Shutdown, Kill, Restart, RunnerTypeOK
<1>4. ASSUME NEW j \in Job, PublishStep(j)
      PROVE  /\ chan' = chan /\ todo' = todo
             /\ wake' \in [Process -> BOOLEAN]
  <2>1. \A p \in Process : (wake[p] \/ Connected(p)) \in BOOLEAN
    OBVIOUS
  <2>2. wake' = wake \/ wake' = [p \in Process |-> wake[p] \/ Connected(p)]
    BY <1>4 DEF PublishStep
  <2>3. wake' \in [Process -> BOOLEAN]
    BY <2>1, <2>2 DEF RunnerTypeOK
  <2>4. QED
    BY <1>4, <2>3 DEF PublishStep
<1>5. CASE UNCHANGED <<chan, todo, wake>>
  BY <1>5 DEF RunnerTypeOK
<1>6. QED
  BY <1>1, <1>2, <1>3, <1>4, <1>5, Zenon
     DEF RunnerNext, Spawn, JobStep, Clock, OperatorRedrives, control, allVars, loops,
         RunnerTypeOK

LEMMA SignalsType ==
    ASSUME LoopsTyped, RunnerTypeOK, [RunnerNext]_allVars
    PROVE  reaping' \subseteq Process /\ shutdown' \subseteq Process /\ stops' \in 0 .. MaxStops
<1>1. ASSUME NEW p \in Process, Shutdown(p) \/ Kill(p) \/ Restart(p) \/ ReapStops(p)
      PROVE  /\ reaping' \subseteq Process /\ shutdown' \subseteq Process
             /\ stops' \in 0 .. MaxStops
  BY <1>1, BoundsAssumption DEF Shutdown, Kill, Restart, ReapStops, RunnerTypeOK
<1>2. CASE UNCHANGED <<reaping, shutdown, stops>>
  BY <1>2 DEF RunnerTypeOK
<1>3. QED
  BY <1>1, <1>2
     DEF RunnerNext, PollTick, PollStops, ListenWake, ListenConnect, ListenBreaks,
         ListenStops, ReapTick, Drain, NextChannel, DrainClaim, DrainClaimed, DrainEnds,
         BatchDone, Spawn, JobStep, PublishStep, Clock, OperatorRedrives

\* The loops stay where run, poll_loop, listen_loop and drain can be, whatever comes.
THEOREM RunnerTypeCorrect == RunnerSpec => []RunnerTypeOK
<1>1. RunnerInit => RunnerTypeOK
  BY BoundsAssumption DEF RunnerInit, RunnerTypeOK, StartPc
<1>2. LoopsTyped /\ RunnerTypeOK /\ [RunnerNext]_allVars => RunnerTypeOK'
  BY PcType, ControlType, SignalsType DEF RunnerTypeOK, Pcs
<1>3. QED
  BY <1>1, <1>2, RunnerTyped, PTL DEF RunnerSpec
=============================================================================
