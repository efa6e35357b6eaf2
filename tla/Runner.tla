------------------------------- MODULE Runner -------------------------------
(***************************************************************************)
(* The worker process of apps/worker: Runner::run with its poll loop, its  *)
(* listen loop and its reaper, on top of the table of JobQueue.            *)
(*                                                                         *)
(* Each loop that drains is a Worker of JobQueue, and each action is the   *)
(* control of a loop conjoined with the statement it runs, so whatever     *)
(* holds of the queue holds of the workers.  drain and drain_all are       *)
(* program counters of the loops; the Semaphore made by each drain is the  *)
(* count of the loop's runs past "claimed"; a JoinSet is the set of the    *)
(* loop's runs.  Intervals and sleeps are steps that may come at any time. *)
(***************************************************************************)
EXTENDS JobQueue

CONSTANTS
    Process,      \* worker processes
    Concurrency,  \* permits of the Semaphore
    MaxStops      \* bound: how often processes are signalled or killed

Poll(p) == <<p, "poll">>
Listen(p) == <<p, "listen">>

ASSUME LoopAssumption == Worker = Process \X {"poll", "listen"}
ASSUME ConcurrencyAssumption == Concurrency \in Nat \ {0}
ASSUME BoundsAssumption == MaxStops \in Nat /\ IsFiniteSet(Job)

VARIABLES
    pc,        \* "connect": listener not up, "idle": in select, "next": between
               \* channels of drain_all, "claim", "batch", or "gone"
    chan,      \* the channel each loop drains
    todo,      \* channels drain_all has still to drain
    wake,      \* a notification waits on the listener's connection
    reaping,   \* processes whose reap loop runs
    shutdown,  \* processes whose cancellation token is cancelled
    stops

loops == <<pc, chan, todo>>
control == <<pc, chan, todo, wake, reaping, shutdown, stops>>
allVars == <<vars, control>>

RunnerTypeOK ==
    /\ pc \in [Worker -> {"connect", "idle", "next", "claim", "batch", "gone"}]
    /\ chan \in [Worker -> Channel]
    /\ todo \in [Worker -> SUBSET Channel]
    /\ wake \in [Process -> BOOLEAN]
    /\ reaping \subseteq Process
    /\ shutdown \subseteq Process
    /\ stops \in 0 .. MaxStops

Up == {p \in Process : pc[Poll(p)] # "gone" \/ p \in reaping}
\* Mutant: named for the loop.
StartPcOfLoop(w) == w[2]

StartPc(w) == IF w[2] = "poll" THEN "idle" ELSE "connect"
HeldBy(w) == {r \in runs : r.by = w}
InFlight(w) == {r \in HeldBy(w) : r.phase # "claimed"}

RunnerInit ==
    /\ Init
    /\ pc = [w \in Worker |-> StartPc(w)]
    /\ chan \in {f \in [Worker -> Channel] : \A v, w \in Worker : f[v] = f[w]}
    /\ todo = [w \in Worker |-> {}]
    /\ wake = [p \in Process |-> FALSE]
    /\ reaping = Process
    /\ shutdown = {}
    /\ stops = 0

Goto(w, from, to) == pc[w] = from /\ pc' = [pc EXCEPT ![w] = to]
Stopping(w) == w[1] \in shutdown

-----------------------------------------------------------------------------
(* The select loops. *)

\* drain_all starts with every channel.
StartDrain(w) ==
    /\ Goto(w, "idle", "next")
    /\ todo' = [todo EXCEPT ![w] = Channel]

\* Mutant: the poll waits for a notification too.
PollTickWhenNotified(p) ==
    /\ wake[p]
    /\ StartDrain(Poll(p))
    /\ UNCHANGED <<vars, chan, wake, reaping, shutdown, stops>>

\* A tick; select! may take it even when the token is cancelled.
PollTick(p) ==
    /\ StartDrain(Poll(p))
    /\ UNCHANGED <<vars, chan, wake, reaping, shutdown, stops>>

\* A notification drains all channels too.
ListenWake(p) ==
    /\ wake[p]
    /\ StartDrain(Listen(p))
    /\ wake' = [wake EXCEPT ![p] = FALSE]
    /\ UNCHANGED <<vars, chan, reaping, shutdown, stops>>

ListenConnect(p) ==
    /\ ~Stopping(Listen(p))
    /\ Goto(Listen(p), "connect", "idle")
    /\ UNCHANGED <<vars, chan, todo, wake, reaping, shutdown, stops>>

\* The connection breaks: what was notified and not read is gone.
ListenBreaks(p) ==
    /\ Goto(Listen(p), "idle", "connect")
    /\ wake' = [wake EXCEPT ![p] = FALSE]
    /\ UNCHANGED <<vars, chan, todo, reaping, shutdown, stops>>

ListenStops(p) ==
    /\ Stopping(Listen(p))
    /\ \/ Goto(Listen(p), "idle", "gone")
       \/ Goto(Listen(p), "connect", "gone")
    /\ UNCHANGED <<vars, chan, todo, wake, reaping, shutdown, stops>>

\* Mutant: the token also interrupts a drain under way.
PollStopsAnywhere(p) ==
    /\ Stopping(Poll(p))
    /\ pc[Poll(p)] # "gone"
    /\ pc' = [pc EXCEPT ![Poll(p)] = "gone", ![Listen(p)] = "gone"]
    /\ Crash({Listen(p)})
    /\ UNCHANGED <<chan, todo, wake, reaping, shutdown, stops>>

\* poll_loop returns and listener.abort() drops the listen loop, its claim in
\* flight and the JoinSet with the jobs it runs.
PollStops(p) ==
    /\ Stopping(Poll(p))
    /\ pc[Poll(p)] = "idle"
    /\ pc' = [pc EXCEPT ![Poll(p)] = "gone", ![Listen(p)] = "gone"]
    /\ Crash({Listen(p)})
    /\ UNCHANGED <<chan, todo, wake, reaping, shutdown, stops>>

ReapTick(p) ==
    /\ p \in reaping
    /\ ReclaimExpired
    /\ UNCHANGED control

\* Mutant: the reaper stays until the queue is empty.
ReapStopsLast(p) ==
    /\ p \in reaping \cap shutdown
    /\ With("pending") \cup With("processing") = {}
    /\ reaping' = reaping \ {p}
    /\ UNCHANGED <<vars, loops, wake, shutdown, stops>>

ReapStops(p) ==
    /\ p \in reaping \cap shutdown
    /\ reaping' = reaping \ {p}
    /\ UNCHANGED <<vars, loops, wake, shutdown, stops>>

-----------------------------------------------------------------------------
(* drain_all and drain. *)

\* The next channel, unless shutting down or all are drained.
NextChannel(w) ==
    /\ pc[w] = "next"
    /\ IF Stopping(w) \/ todo[w] = {}
       THEN /\ Goto(w, "next", "idle")
            /\ UNCHANGED <<chan, todo>>
       ELSE \E ch \in todo[w] :
              /\ Goto(w, "next", "claim")
              /\ chan' = [chan EXCEPT ![w] = ch]
              /\ todo' = [todo EXCEPT ![w] = @ \ {ch}]
    /\ UNCHANGED <<vars, wake, reaping, shutdown, stops>>

DrainClaim(w) ==
    /\ pc[w] = "claim"
    /\ ClaimLock(w, chan[w])
    /\ UNCHANGED control

DrainClaimed(w) ==
    /\ Goto(w, "claim", "batch")
    /\ ClaimCommit(w)
    /\ UNCHANGED <<chan, todo, wake, reaping, shutdown, stops>>

\* claim found no row, or failed and was rolled back, or failed to hear of its
\* commit.
DrainEnds(w) ==
    /\ Goto(w, "claim", "next")
    /\ Crash({w}) \/ ClaimLost(w)
    /\ UNCHANGED <<chan, todo, wake, reaping, shutdown, stops>>

\* A job of the batch gets a permit and is spawned.
Spawn(r) ==
    /\ pc[r.by] = "batch"
    /\ Cardinality(InFlight(r.by)) < Concurrency
    /\ StartJob(r)
    /\ UNCHANGED control

\* run_job, in a task of its own.
JobStep(r) ==
    /\ HandlerOk(r) \/ HandlerErr(r) \/ Settle(r)
    /\ UNCHANGED control

\* Mutant: the JoinSet is not awaited.
BatchSpawned(w) ==
    /\ {r \in HeldBy(w) : r.phase = "claimed"} = {}
    /\ Goto(w, "batch", IF Stopping(w) THEN "next" ELSE "claim")
    /\ UNCHANGED <<vars, chan, todo, wake, reaping, shutdown, stops>>

\* join_next() has returned None.
BatchDone(w) ==
    /\ HeldBy(w) = {}
    /\ Goto(w, "batch", IF Stopping(w) THEN "next" ELSE "claim")
    /\ UNCHANGED <<vars, chan, todo, wake, reaping, shutdown, stops>>

Drain(w) == \/ NextChannel(w) \/ DrainClaim(w) \/ DrainClaimed(w) \/ DrainEnds(w)
            \/ BatchDone(w)

-----------------------------------------------------------------------------
(* Signals, crashes, and the world around the worker. *)

Shutdown(p) ==
    /\ p \in Up \ shutdown
    /\ stops < MaxStops
    /\ shutdown' = shutdown \cup {p}
    /\ stops' = stops + 1
    /\ UNCHANGED <<vars, loops, wake, reaping>>

LoopsOf(p) == {Poll(p), Listen(p)}

Kill(p) ==
    /\ p \in Up
    /\ stops < MaxStops
    /\ Crash(LoopsOf(p))
    /\ pc' = [w \in Worker |-> IF w \in LoopsOf(p) THEN "gone" ELSE pc[w]]
    /\ reaping' = reaping \ {p}
    /\ stops' = stops + 1
    /\ UNCHANGED <<chan, todo, wake, shutdown>>

\* A supervisor starts the process anew.
Restart(p) ==
    /\ p \notin Up
    /\ pc' = [w \in Worker |-> IF w \in LoopsOf(p) THEN StartPc(w) ELSE pc[w]]
    /\ wake' = [wake EXCEPT ![p] = FALSE]
    /\ reaping' = reaping \cup {p}
    /\ shutdown' = shutdown \ {p}
    /\ UNCHANGED <<vars, chan, todo, stops>>

Connected(p) == pc[Listen(p)] \notin {"connect", "gone"}

PublishStep(j) ==
    /\ \/ /\ PublishNotify(j)
          /\ wake' = [p \in Process |-> wake[p] \/ Connected(p)]
       \/ /\ PublishInsert(j) \/ PublishConflict(j) \/ PublishSelect(j) \/ PublishFails(j)
          /\ UNCHANGED wake
    /\ UNCHANGED <<loops, reaping, shutdown, stops>>

Clock(j) == (BecomeDue(j) \/ LeaseExpires(j)) /\ UNCHANGED control

OperatorRedrives(ch) == Redrive(ch) /\ UNCHANGED control

RunnerNext ==
    \/ \E p \in Process :
         \/ PollTick(p) \/ PollStops(p)
         \/ ListenWake(p) \/ ListenConnect(p) \/ ListenBreaks(p) \/ ListenStops(p)
         \/ ReapTick(p) \/ ReapStops(p)
         \/ Shutdown(p) \/ Kill(p) \/ Restart(p)
    \/ \E w \in Worker : Drain(w)
    \/ \E r \in runs : Spawn(r) \/ JobStep(r)
    \/ \E j \in Job : PublishStep(j) \/ Clock(j)
    \/ \E ch \in Channel : OperatorRedrives(ch)

RunnerSpec == RunnerInit /\ [][RunnerNext]_allVars

\* Intervals tick, the token is seen among the branches of select!, statements
\* return, a poll that keeps finding rows gets some, handlers return, a stopped
\* process is started again.  Nothing makes the listener connect or be notified.
RunnerFairness ==
    /\ \A p \in Process :
         /\ WF_allVars(PollTick(p)) /\ SF_allVars(PollStops(p))
         /\ WF_allVars(ReapTick(p)) /\ WF_allVars(ReapStops(p))
         /\ WF_allVars(Restart(p))
         /\ SF_allVars(DrainClaim(Poll(p))) /\ SF_allVars(DrainClaimed(Poll(p)))
    /\ \A w \in Worker :
         /\ WF_allVars(Drain(w))
         /\ WF_allVars(\E r \in runs : r.by = w /\ (Spawn(r) \/ JobStep(r)))
    /\ \A j \in Job : WF_allVars(Clock(j))

\* The control the proofs rest on: only a loop in a batch holds jobs, and a poll
\* loop that is gone has taken its listen loop along.
LoopsInv ==
    /\ \A r \in runs : pc[r.by] = "batch"
    /\ \A p \in Process : pc[Poll(p)] = "gone" => pc[Listen(p)] = "gone"

\* What a loop has claimed and runs, and that a claim in flight is one of its own.
HandsInv ==
    /\ IsFiniteSet(runs)
    /\ \A w \in Worker : /\ Cardinality(HeldBy(w)) <= Batch
                         /\ Cardinality(InFlight(w)) <= Concurrency
ClaimsInv ==
    \A w \in Worker :
      locks[w] # {} => pc[w] = "claim" /\ Cardinality(locks[w]) <= Batch

RunnerFairSpec == RunnerSpec /\ RunnerFairness

-----------------------------------------------------------------------------
(* Properties. *)

\* A loop holds at most one batch, runs at most Concurrency of its jobs, and does
\* not poll, listen, claim or return before the batch is finished.
BatchBounds ==
    \A w \in Worker :
      /\ Cardinality(HeldBy(w)) <= Batch
      /\ Cardinality(InFlight(w)) <= Concurrency
      /\ HeldBy(w) # {} => pc[w] = "batch" /\ locks[w] = {}

\* runner.rs:216, for the jobs of the poll loop: a process that was not killed
\* returns from it with no job still leased to it.
PollFinishesBatch ==
    [][\A p \in Process :
         pc[Poll(p)] # "gone" /\ pc'[Poll(p)] = "gone" /\ HeldBy(Poll(p)) # {}
           => stops' # stops]_allVars

\* apps/worker/.env.example, WORKER_CONCURRENCY, "How many jobs one worker process
\* runs at the same time".
ProcessConcurrency ==
    \A p \in Process :
      Cardinality(InFlight(Poll(p)) \cup InFlight(Listen(p))) <= Concurrency

\* A signal is answered: the process finishes what it polled and stops.
ShutdownCompletes == \A p \in Process : p \in shutdown ~> p \notin Up
=============================================================================
