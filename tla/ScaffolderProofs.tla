-------------------------- MODULE ScaffolderProofs --------------------------
(***************************************************************************)
(* Whatever runs of the scaffolder are killed, repeated or overlap: no     *)
(* line is registered twice, no module is declared before it is written,   *)
(* and a run that has the files to itself writes over nothing the user has *)
(* changed and, if it says Done with no warning, has wired its module; and *)
(* as long as nothing of the kind has happened, what stands compiles.      *)
(***************************************************************************)
EXTENDS Scaffolder, SequenceTheorems, TLAPS

-----------------------------------------------------------------------------
(* The plan of a run: what its steps may be. *)

Whom == Name \cup {Example} \cup Channel \cup (Name \X (1..MaxRuns))
What == {"fixed", "use", "wiring", "routes use", "nest", "docs", "consumer wiring", "variant",
         "listed", "arm", "entities mod", "migration mod", "migration boxed", "api mod",
         "field", "repository", "wiring with pool", "value", "worker mod", "consumer use",
         "consumer repository", "consumer"}
AnyLine == What \X Whom

\* Lines that come in pairs.
Paired == {"repository", "wiring", "wiring with pool", "consumer repository", "consumer wiring"}

Pairs(n) == {{<<"repository", n>>, <<"wiring", n>>},
             {<<"repository", n>>, <<"wiring with pool", n>>},
             {<<"consumer repository", n>>, <<"consumer wiring", n>>}}

Block == {{l} : l \in {k \in AnyLine : k[1] \notin Paired}} \cup UNION {Pairs(n) : n \in Name}

WriteStep == [op : {"write"}, file : File, channel : Channel \cup {NoChannel}]
InsertStep == [op : {"append", "insert"}, file : Shared, anchor : AnyLine, block : Block]
CheckStep == [op : {"check"}, channel : Channel]
AnyStep == WriteStep \cup InsertStep \cup CheckStep

\* A write of the plan is of a file of the module.
LEMMA WriteIsStep ==
    ASSUME NEW n \in Name, NEW c \in Channel \cup {NoChannel},
           NEW k \in {"entity"} \cup Kinds("api") \cup Kinds("worker") \cup Kinds("web")
    PROVE  Write(k, n, c) \in AnyStep
<1>1. <<k, n>> \in File
  BY DEF File
<1>. QED
  BY <1>1 DEF Write, AnyStep, WriteStep

\* An insert of a single line, or of a pair of lines of one module.
LEMMA SingleIsBlock ==
    ASSUME NEW w \in What, w \notin Paired, NEW x \in Whom
    PROVE  {<<w, x>>} \in Block
<1>1. <<w, x>> \in {k \in AnyLine : k[1] \notin Paired}
  BY DEF AnyLine
<1>. QED
  BY <1>1 DEF Block

LEMMA PairIsBlock ==
    ASSUME NEW n \in Name, NEW B \in Pairs(n)
    PROVE  B \in Block
  BY DEF Block

LEMMA InsertIsStep ==
    ASSUME NEW f \in Shared, NEW a \in AnyLine, NEW B \in Block
    PROVE  InsertAfter(f, a, B) \in AnyStep
  BY DEF InsertAfter, AnyStep, InsertStep

LEMMA AnchorIsLine ==
    ASSUME NEW w \in What
    PROVE  <<w, Example>> \in AnyLine
  BY DEF AnyLine, Whom

LEMMA AppendIsStep ==
    ASSUME NEW f \in Shared, NEW w \in What, w \notin Paired, NEW n \in Name
    PROVE  AppendModule(f, <<w, n>>) \in AnyStep
<1>1. {<<w, n>>} \in Block
  BY SingleIsBlock DEF Whom
<1>2. Fixed \in AnyLine
  BY AnchorIsLine DEF Fixed, What
<1>. QED
  BY <1>1, <1>2 DEF AppendModule, AnyStep, InsertStep

LEMMA ThreeSteps ==
    ASSUME NEW S, NEW a \in S, NEW b \in S, NEW c \in S
    PROVE  <<a, b, c>> \in Seq(S)
OBVIOUS

LEMMA FiveSteps ==
    ASSUME NEW S, NEW a \in S, NEW b \in S, NEW c \in S, NEW d \in S, NEW e \in S
    PROVE  <<a, b, c, d, e>> \in Seq(S)
OBVIOUS

LEMMA SixSteps ==
    ASSUME NEW S, NEW a \in S, NEW b \in S, NEW c \in S, NEW d \in S, NEW e \in S, NEW f \in S
    PROVE  <<a, b, c, d, e, f>> \in Seq(S)
OBVIOUS

LEMMA EightSteps ==
    ASSUME NEW S, NEW a \in S, NEW b \in S, NEW c \in S, NEW d \in S, NEW e \in S, NEW f \in S,
           NEW g \in S, NEW h \in S
    PROVE  <<a, b, c, d, e, f, g, h>> \in Seq(S)
OBVIOUS

LEMMA AddQueueChannelSteps ==
    ASSUME NEW c \in Channel
    PROVE  AddQueueChannel(c) \in Seq(AnyStep)
<1>1. [op |-> "check", channel |-> c] \in AnyStep
  BY DEF AnyStep, CheckStep
<1>2. ASSUME NEW w \in {"variant", "listed", "arm"}
      PROVE  InsertAfter("queue/channel.rs", Fixed, {<<w, c>>}) \in AnyStep
  <2>1. w \in What /\ w \notin Paired
    BY DEF Paired, What
  <2>2. {<<w, c>>} \in Block
    BY <2>1, SingleIsBlock DEF Whom
  <2>3. Fixed \in AnyLine
    BY AnchorIsLine DEF Fixed, What
  <2>. QED
    BY <2>2, <2>3, InsertIsStep DEF Shared
<1>. QED
  BY <1>1, <1>2 DEF AddQueueChannel

LEMMA ScaffoldEntitySteps ==
    ASSUME NEW n \in Name, NEW s \in 1..MaxRuns
    PROVE  ScaffoldEntityAndMigration(n, s) \in Seq(AnyStep)
<1>1. Write("entity", n, NoChannel) \in AnyStep
  BY WriteIsStep
<1>2. AppendModule("entities/mod.rs", <<"entities mod", n>>) \in AnyStep
  BY AppendIsStep DEF Shared, Paired, What
<1>3. Write("migration", <<n, s>>, NoChannel) \in AnyStep
  <2>1. <<"migration", <<n, s>>>> \in File
    BY DEF File
  <2>. QED
    BY <2>1 DEF Write, AnyStep, WriteStep
<1>4. ASSUME NEW w \in {"migration mod", "migration boxed"}
      PROVE  InsertAfter("migration/lib.rs", Fixed, {<<w, <<n, s>>>>}) \in AnyStep
  <2>1. w \in What /\ w \notin Paired
    BY DEF Paired, What
  <2>2. {<<w, <<n, s>>>>} \in Block
    BY <2>1, SingleIsBlock DEF Whom
  <2>3. Fixed \in AnyLine
    BY AnchorIsLine DEF Fixed, What
  <2>. QED
    BY <2>2, <2>3, InsertIsStep DEF Shared
<1>5. InsertAfter("migration/lib.rs", Fixed, {<<"migration mod", <<n, s>>>>}) \in AnyStep
  BY <1>4
<1>6. InsertAfter("migration/lib.rs", Fixed, {<<"migration boxed", <<n, s>>>>}) \in AnyStep
  BY <1>4
<1>. QED
  BY <1>1, <1>2, <1>3, <1>5, <1>6, FiveSteps, Zenon DEF ScaffoldEntityAndMigration

LEMMA RegisterApiSteps ==
    ASSUME NEW n \in Name, NEW c \in Channel \cup {NoChannel}
    PROVE  RegisterApi(n, c) \in Seq(AnyStep)
<1>1. AppendModule("api/modules/mod.rs", <<"api mod", n>>) \in AnyStep
  BY AppendIsStep DEF Shared, Paired, What
<1>2. ASSUME NEW w \in {"use", "field", "value", "routes use", "nest", "docs"},
             NEW a \in What, NEW f \in Shared
      PROVE  InsertAfter(f, <<a, Example>>, {<<w, n>>}) \in AnyStep
  <2>1. w \in What /\ w \notin Paired
    BY DEF Paired, What
  <2>2. {<<w, n>>} \in Block
    BY <2>1, SingleIsBlock DEF Whom
  <2>. QED
    BY <2>2, AnchorIsLine, InsertIsStep
<1>3. InsertAfter("api/state.rs", <<"wiring", Example>>,
             {<<"repository", n>>, <<IF c = NoChannel THEN "wiring" ELSE "wiring with pool", n>>})
        \in AnyStep
  <2>1. {<<"repository", n>>, <<IF c = NoChannel THEN "wiring" ELSE "wiring with pool", n>>} \in Block
    <3>1. CASE c = NoChannel
      BY <3>1, PairIsBlock DEF Pairs
    <3>2. CASE c # NoChannel
      BY <3>2, PairIsBlock DEF Pairs
    <3>. QED
      BY <3>1, <3>2
  <2>. QED
    BY <2>1, AnchorIsLine, InsertIsStep DEF Shared, What
<1>4. "api/state.rs" \in Shared /\ "api/lib.rs" \in Shared
  BY DEF Shared
<1>5. /\ InsertAfter("api/state.rs", <<"use", Example>>, {<<"use", n>>}) \in AnyStep
      /\ InsertAfter("api/state.rs", Fixed, {<<"field", n>>}) \in AnyStep
      /\ InsertAfter("api/state.rs", Fixed, {<<"value", n>>}) \in AnyStep
  BY <1>2, <1>4 DEF Fixed, What
<1>6. /\ InsertAfter("api/lib.rs", <<"routes use", Example>>, {<<"routes use", n>>}) \in AnyStep
      /\ InsertAfter("api/lib.rs", <<"nest", Example>>, {<<"nest", n>>}) \in AnyStep
      /\ InsertAfter("api/lib.rs", <<"docs", Example>>, {<<"docs", n>>}) \in AnyStep
  BY <1>2, <1>4 DEF Fixed, What
<1>. QED
  BY <1>1, <1>3, <1>5, <1>6, EightSteps, Zenon DEF RegisterApi

LEMMA ScaffoldApiSteps ==
    ASSUME NEW n \in Name, NEW c \in Channel \cup {NoChannel}, NEW s \in 1..MaxRuns
    PROVE  ScaffoldApi(n, c, s) \in Seq(AnyStep)
<1>. DEFINE W == <<Write("api/dto", n, NoChannel), Write("api/repository", n, NoChannel),
                   Write("api/service", n, c), Write("api/controller", n, c),
                   Write("api/route", n, c), Write("api/mod", n, NoChannel)>>
            Q == IF c = NoChannel THEN <<>> ELSE AddQueueChannel(c)
<1>1. W \in Seq(AnyStep)
  BY WriteIsStep, SixSteps DEF Kinds
<1>2. Q \in Seq(AnyStep)
  BY AddQueueChannelSteps
<1>3. ScaffoldEntityAndMigration(n, s) \in Seq(AnyStep) /\ RegisterApi(n, c) \in Seq(AnyStep)
  BY ScaffoldEntitySteps, RegisterApiSteps
<1>. HIDE DEF W, Q
<1>4. ScaffoldEntityAndMigration(n, s) \o W \o RegisterApi(n, c) \o Q \in Seq(AnyStep)
  BY <1>1, <1>2, <1>3
<1>. QED
  BY <1>4 DEF ScaffoldApi, W, Q

LEMMA ScaffoldWorkerSteps ==
    ASSUME NEW n \in Name, NEW c \in Channel
    PROVE  ScaffoldWorker(n, c) \in Seq(AnyStep)
<1>. DEFINE W == <<Write("worker/dto", n, NoChannel), Write("worker/repository", n, NoChannel),
                   Write("worker/service", n, NoChannel), Write("worker/consumer", n, c),
                   Write("worker/mod", n, NoChannel),
                   AppendModule("worker/modules/mod.rs", <<"worker mod", n>>)>>
            I == <<InsertAfter("worker/state.rs", Fixed, {<<"consumer use", n>>}),
                   InsertAfter("worker/state.rs", <<"consumer wiring", Example>>,
                               {<<"consumer repository", n>>, <<"consumer wiring", n>>}),
                   InsertAfter("worker/state.rs", Fixed, {<<"consumer", n>>})>>
<1>1. W \in Seq(AnyStep)
  <2>1. AppendModule("worker/modules/mod.rs", <<"worker mod", n>>) \in AnyStep
    BY AppendIsStep DEF Shared, Paired, What
  <2>2. \A k \in Kinds("worker"), d \in Channel \cup {NoChannel} : Write(k, n, d) \in AnyStep
    BY WriteIsStep
  <2>. QED
    BY <2>1, <2>2, SixSteps DEF Kinds
<1>2. I \in Seq(AnyStep)
  <2>1. ASSUME NEW w \in {"consumer use", "consumer"}
        PROVE  InsertAfter("worker/state.rs", Fixed, {<<w, n>>}) \in AnyStep
    <3>1. w \in What /\ w \notin Paired
      BY DEF Paired, What
    <3>2. {<<w, n>>} \in Block
      BY <3>1, SingleIsBlock DEF Whom
    <3>3. Fixed \in AnyLine
      BY AnchorIsLine DEF Fixed, What
    <3>. QED
      BY <3>2, <3>3, InsertIsStep DEF Shared
  <2>2. InsertAfter("worker/state.rs", <<"consumer wiring", Example>>,
                    {<<"consumer repository", n>>, <<"consumer wiring", n>>}) \in AnyStep
    <3>1. {<<"consumer repository", n>>, <<"consumer wiring", n>>} \in Block
      BY PairIsBlock DEF Pairs
    <3>. QED
      BY <3>1, AnchorIsLine, InsertIsStep DEF Shared, What
  <2>3. /\ InsertAfter("worker/state.rs", Fixed, {<<"consumer use", n>>}) \in AnyStep
        /\ InsertAfter("worker/state.rs", Fixed, {<<"consumer", n>>}) \in AnyStep
    BY <2>1
  <2>. QED
    BY <2>2, <2>3, ThreeSteps, Zenon
<1>3. AddQueueChannel(c) \in Seq(AnyStep)
  BY AddQueueChannelSteps
<1>. HIDE DEF W, I
<1>4. W \o AddQueueChannel(c) \o I \in Seq(AnyStep)
  BY <1>1, <1>2, <1>3
<1>. QED
  BY <1>4 DEF ScaffoldWorker, W, I

LEMMA ScaffoldWebSteps ==
    ASSUME NEW n \in Name
    PROVE  ScaffoldWeb(n) \in Seq(AnyStep)
<1>1. \A k \in Kinds("web") : Write(k, n, NoChannel) \in AnyStep
  BY WriteIsStep
<1>. QED
  BY <1>1, FiveSteps DEF Kinds, ScaffoldWeb

\* Every step of a plan writes a file of its own, adds a line or a pair of lines
\* to a shared file, or asks for the channel.
LEMMA PlanSteps ==
    ASSUME NEW r \in Run
    PROVE  Plan(r) \in Seq(AnyStep)
<1>1. r.cmd \in Command /\ r.stamp \in 1..MaxRuns
  BY DEF Run
<1>2. CASE r.cmd.app = "api"
  <2>1. r.cmd.name \in Name /\ r.cmd.channel \in Channel \cup {NoChannel}
    BY <1>1, ConstantsAssumption DEF Command
  <2>. QED
    BY <2>1, <1>1, <1>2, ScaffoldApiSteps DEF Plan
<1>3. CASE r.cmd.app = "worker"
  <2>1. r.cmd.name \in Name /\ r.cmd.channel \in Channel
    BY <1>1, <1>3 DEF Command
  <2>. QED
    BY <2>1, <1>3, ScaffoldWorkerSteps DEF Plan
<1>4. CASE r.cmd.app = "web"
  <2>1. r.cmd.name \in Name
    BY <1>1, <1>4 DEF Command
  <2>. QED
    BY <2>1, <1>4, ScaffoldWebSteps DEF Plan
<1>5. r.cmd.app \in {"api", "worker", "web"}
  BY <1>1 DEF Command
<1>. QED
  BY <1>2, <1>3, <1>4, <1>5

-----------------------------------------------------------------------------
(* The runs: their type, and what a run that has looked may rely on. *)

RunType ==
    /\ run \in [Terminal -> Run \cup {Idle}]
    /\ DOMAIN text = Shared
    /\ seen = [t \in Terminal |-> seen[t]]
    /\ edited \subseteq DOMAIN made
    /\ started \in 0..MaxRuns

\* The step a run has come to is one of its plan.
LEMMA StepIsAny ==
    ASSUME RunType, NEW t \in Terminal, NEW op, AtStep(t, op)
    PROVE  /\ run[t] \in Run
           /\ Step(t) \in AnyStep
           /\ Step(t).op = op
           /\ op = "write" => Step(t) \in WriteStep
           /\ op \in {"append", "insert"} => Step(t) \in InsertStep
<1>1. run[t] \in Run
  <2>1. run[t].st = "running"
    BY DEF AtStep, Running
  <2>. QED
    BY <2>1 DEF RunType, Idle
<1>2. Plan(run[t]) \in Seq(AnyStep)
  BY <1>1, PlanSteps
<1>3. run[t].at \in 1..Len(Plan(run[t]))
  BY <1>1, <1>2 DEF AtStep, Run
<1>4. Step(t) \in AnyStep /\ Step(t).op = op
  BY <1>2, <1>3 DEF Step, AtStep
<1>. QED
  BY <1>1, <1>4 DEF AnyStep, WriteStep, InsertStep, CheckStep

LEMMA RunTypeInit == Init => RunType
  BY ConstantsAssumption DEF Init, RunType, EmptyBag, SetToBag

LEMMA RunTypeNext == RunType /\ [Next]_vars => RunType'
<1>. SUFFICES ASSUME RunType, [Next]_vars PROVE RunType'
  OBVIOUS
<1>0. \A t \in Running : t \in Terminal /\ run[t] \in Run
  BY DEF Running, RunType, Idle
<1>1. ASSUME NEW t \in Terminal, NEW cmd \in Asked[t], Start(t, cmd) PROVE RunType'
  <2>1. cmd \in Command
    BY AskedAssumption
  <2>2. started + 1 \in 1..MaxRuns
    BY <1>1, ConstantsAssumption DEF Start, RunType
  <2>3. run' \in [Terminal -> Run \cup {Idle}]
    <3>. DEFINE R(u) == CASE u = t -> [st |-> "running", cmd |-> cmd, stamp |-> started + 1, at |-> 1,
                                looked |-> FALSE, alone |-> Running = {},
                                warned |-> FALSE, silent |-> FALSE]
                          [] u # t /\ u \in Running -> [run[u] EXCEPT !.alone = FALSE]
                          [] OTHER -> run[u]
    <3>1. R(t) \in Run
      BY <2>1, <2>2 DEF Run
    <3>2. ASSUME NEW u \in Running, u # t PROVE R(u) \in Run
      BY <1>0, <3>2 DEF Run
    <3>3. ASSUME NEW u \in Terminal, u # t, u \notin Running PROVE R(u) \in Run \cup {Idle}
      BY <3>3 DEF RunType
    <3>4. \A u \in Terminal : R(u) \in Run \cup {Idle}
      BY <3>1, <3>2, <3>3
    <3>5. run' = [u \in Terminal |-> R(u)]
      BY <1>1 DEF Start
    <3>. QED
      BY <3>4, <3>5
  <2>. QED
    BY <1>1, <2>2, <2>3 DEF Start, RunType
<1>2. ASSUME NEW t \in Running PROVE t \in Terminal /\ run[t] \in Run
  BY <1>0
<1>18. ASSUME NEW t \in Running, NEW r \in Run, run' = [run EXCEPT ![t] = r]
       PROVE  run' \in [Terminal -> Run \cup {Idle}]
  BY <1>18, <1>0 DEF RunType
<1>19. ASSUME NEW t \in Running, NEW n \in Nat
       PROVE  run[t].at + n \in Nat \ {0}
  BY <1>0 DEF Run
<1>3. ASSUME NEW t \in Running, Looks(t) PROVE run' \in [Terminal -> Run \cup {Idle}]
  BY <1>0, <1>3 DEF Looks, RunType, Run
<1>4. ASSUME NEW t \in Running, Goes(t, 1) PROVE run' \in [Terminal -> Run \cup {Idle}]
  <2>1. [run[t] EXCEPT !.at = run[t].at + 1, !.looked = FALSE] \in Run
    BY <1>0, <1>19 DEF Run
  <2>2. run' = [run EXCEPT ![t] = [run[t] EXCEPT !.at = run[t].at + 1, !.looked = FALSE]]
    BY <1>0, <1>4 DEF Goes, RunType
  <2>. QED
    BY <2>1, <2>2, <1>18
<1>5. ASSUME NEW t \in Running, Warns(t) PROVE run' \in [Terminal -> Run \cup {Idle}]
  <2>1. [run[t] EXCEPT !.at = run[t].at + 1, !.looked = FALSE, !.warned = TRUE] \in Run
    BY <1>0, <1>19 DEF Run
  <2>2. run' = [run EXCEPT ![t] = [run[t] EXCEPT !.at = run[t].at + 1, !.looked = FALSE, !.warned = TRUE]]
    BY <1>0, <1>5 DEF Warns, RunType
  <2>. QED
    BY <2>1, <2>2, <1>18
<1>6. ASSUME NEW t \in Running, NEW z \in {"done", "failed"},
             run' = [run EXCEPT ![t].st = z]
      PROVE  run' \in [Terminal -> Run \cup {Idle}]
  BY <1>0, <1>6 DEF RunType, Run
<1>7. ASSUME NEW t \in Terminal, WriteLooks(t) PROVE RunType'
  <2>1. t \in Running
    BY <1>7 DEF WriteLooks, AtStep
  <2>. QED
    BY <2>1, <1>3, <1>6, <1>7 DEF WriteLooks, RunType
<1>8. ASSUME NEW t \in Terminal, Writes(t) PROVE RunType'
  <2>1. t \in Running
    BY <1>8 DEF Writes, AtStep
  <2>2. edited' \subseteq DOMAIN made'
    BY <1>8 DEF Writes, RunType
  <2>. QED
    BY <2>1, <2>2, <1>4, <1>8 DEF Writes, RunType
<1>9. ASSUME NEW t \in Terminal, InsertLooks(t) PROVE RunType'
  <2>1. t \in Running
    BY <1>9 DEF InsertLooks, AtStep
  <2>2. run' \in [Terminal -> Run \cup {Idle}]
    BY <2>1, <1>3, <1>4, <1>5, <1>9 DEF InsertLooks
  <2>. QED
    BY <2>2, <1>9 DEF InsertLooks, RunType
<1>10. ASSUME NEW t \in Terminal, Inserts(t) PROVE RunType'
  <2>1. t \in Running
    BY <1>10 DEF Inserts, AtStep
  <2>. QED
    BY <2>1, <1>4, <1>10 DEF Inserts, RunType
<1>11. ASSUME NEW t \in Terminal, ChecksChannel(t) PROVE RunType'
  <2>1. t \in Running
    BY <1>11 DEF ChecksChannel, AtStep
  <2>2. run' \in [Terminal -> Run \cup {Idle}]
    <3>1. CASE run' = [run EXCEPT ![t] = [@ EXCEPT !.at = run[t].at + 4, !.silent = TRUE]]
      <4>1. [run[t] EXCEPT !.at = run[t].at + 4, !.silent = TRUE] \in Run
        BY <2>1, <1>0, <1>19 DEF Run
      <4>2. run' = [run EXCEPT ![t] = [run[t] EXCEPT !.at = run[t].at + 4, !.silent = TRUE]]
        BY <2>1, <1>0, <3>1 DEF RunType
      <4>. QED
        BY <4>1, <4>2, <2>1, <1>18
    <3>. QED
      BY <2>1, <3>1, <1>4, <1>11 DEF ChecksChannel
  <2>. QED
    BY <2>2, <1>11 DEF ChecksChannel, RunType
<1>12. ASSUME NEW t \in Terminal, SaysDone(t) PROVE RunType'
  BY <1>6, <1>12 DEF SaysDone, RunType
<1>13. ASSUME NEW t \in Terminal, Killed(t) PROVE RunType'
  <2>1. run' \in [Terminal -> Run \cup {Idle}]
    <3>1. t \in Running
      BY <1>13 DEF Killed
    <3>2. [run[t] EXCEPT !.st = "killed", !.looked = FALSE] \in Run
      BY <3>1, <1>0 DEF Run
    <3>3. run' = [run EXCEPT ![t] = [run[t] EXCEPT !.st = "killed", !.looked = FALSE]]
      BY <1>13 DEF Killed, RunType
    <3>. QED
      BY <3>1, <3>2, <3>3, <1>18
  <2>. QED
    BY <2>1, <1>13 DEF Killed, RunType
<1>14. ASSUME NEW f \in DOMAIN made, Edits(f) PROVE RunType'
  BY <1>14 DEF Edits, RunType
<1>15. ASSUME NEW n \in Name, NEW kinds, Removes(n, kinds) PROVE RunType'
  BY <1>15 DEF Removes, RunType
<1>16. CASE DropsExample
  BY <1>16 DEF DropsExample, RunType
<1>17. CASE UNCHANGED vars
  BY <1>17 DEF vars, RunType
<1>. QED
  BY <1>1, <1>7, <1>8, <1>9, <1>10, <1>11, <1>12, <1>13, <1>14, <1>15, <1>16, <1>17
     DEF Next, RunStep

-----------------------------------------------------------------------------
(* The texts: what a run will write back is a text that lacked its lines.  *)

\* Every line once, but for the repositories; a binding never without its partner.
GoodText(b) ==
    /\ b = [l \in DOMAIN b |-> b[l]]
    /\ \A l \in DOMAIN b : l[1] # "repository" => b[l] = 1
    /\ \A n \in Name :
         /\ <<"wiring", n>> \in DOMAIN b => <<"repository", n>> \in DOMAIN b
         /\ <<"wiring with pool", n>> \in DOMAIN b => <<"repository", n>> \in DOMAIN b
         /\ <<"consumer wiring", n>> \in DOMAIN b <=> <<"consumer repository", n>> \in DOMAIN b

LEMMA BagSum ==
    ASSUME NEW b, b = [l \in DOMAIN b |-> b[l]], NEW B
    PROVE  /\ DOMAIN (b (+) SetToBag(B)) = DOMAIN b \cup B
           /\ b (+) SetToBag(B)
                = [l \in DOMAIN (b (+) SetToBag(B)) |-> (b (+) SetToBag(B))[l]]
           /\ \A l \in DOMAIN b \ B : b[l] = 1 => (b (+) SetToBag(B))[l] = 1
           /\ \A l \in B \ DOMAIN b : (b (+) SetToBag(B))[l] = 1
  BY DEF (+), SetToBag

LEMMA InsertGood ==
    ASSUME NEW b, GoodText(b), NEW B \in Block, ~(B \subseteq DOMAIN b)
    PROVE  GoodText(b (+) SetToBag(B))
<1>. DEFINE c == b (+) SetToBag(B)
<1>1. /\ DOMAIN c = DOMAIN b \cup B
      /\ c = [l \in DOMAIN c |-> c[l]]
      /\ \A l \in DOMAIN b \ B : b[l] = 1 => c[l] = 1
      /\ \A l \in B \ DOMAIN b : c[l] = 1
  BY BagSum DEF GoodText
<1>. HIDE DEF c
<1>2. \A l \in DOMAIN b \ B : l[1] # "repository" => c[l] = 1
  BY <1>1 DEF GoodText
<1>3. CASE \E l \in AnyLine : B = {l} /\ l[1] \notin Paired
  <2>1. PICK l \in AnyLine : B = {l} /\ l[1] \notin Paired
    BY <1>3
  <2>2. \A k \in DOMAIN c : k[1] # "repository" => c[k] = 1
    BY <2>1, <1>1, <1>2
  <2>3. \A n \in Name, w \in Paired : <<w, n>> \in DOMAIN c <=> <<w, n>> \in DOMAIN b
    BY <2>1, <1>1
  <2>4. \A n \in Name :
          /\ <<"wiring", n>> \in DOMAIN c => <<"repository", n>> \in DOMAIN c
          /\ <<"wiring with pool", n>> \in DOMAIN c => <<"repository", n>> \in DOMAIN c
          /\ <<"consumer wiring", n>> \in DOMAIN c <=> <<"consumer repository", n>> \in DOMAIN c
    BY <2>3 DEF GoodText, Paired
  <2>. QED
    BY <2>2, <2>4, <1>1 DEF GoodText, c
<1>4. ASSUME NEW n \in Name, NEW w \in {"wiring", "wiring with pool"},
             B = {<<"repository", n>>, <<w, n>>}
      PROVE  GoodText(c)
  <2>1. <<w, n>> \notin DOMAIN b
    BY <1>4 DEF GoodText
  <2>2. \A k \in DOMAIN c : k[1] # "repository" => c[k] = 1
    <3>1. ASSUME NEW k \in DOMAIN c, k[1] # "repository" PROVE c[k] = 1
      <4>1. CASE k \in B
        <5>2. <<"repository", n>>[1] = "repository"
          OBVIOUS
        <5>0. k # <<"repository", n>>
          BY <3>1, <5>2, Zenon
        <5>1. k = <<w, n>>
          BY <1>4, <5>0, <4>1, Zenon
        <5>. QED
          BY <5>1, <2>1, <4>1, <1>1
      <4>2. CASE k \notin B
        BY <4>2, <3>1, <1>1, <1>2
      <4>. QED
        BY <4>1, <4>2
    <3>. QED
      BY <3>1
  <2>3. \A m \in Name :
          /\ <<"wiring", m>> \in DOMAIN c => <<"repository", m>> \in DOMAIN c
          /\ <<"wiring with pool", m>> \in DOMAIN c => <<"repository", m>> \in DOMAIN c
          /\ <<"consumer wiring", m>> \in DOMAIN c <=> <<"consumer repository", m>> \in DOMAIN c
    BY <1>4, <1>1 DEF GoodText
  <2>. QED
    BY <2>2, <2>3, <1>1 DEF GoodText
<1>5. ASSUME NEW n \in Name, B = {<<"consumer repository", n>>, <<"consumer wiring", n>>}
      PROVE  GoodText(c)
  <2>1. <<"consumer repository", n>> \notin DOMAIN b /\ <<"consumer wiring", n>> \notin DOMAIN b
    BY <1>5 DEF GoodText
  <2>2. \A k \in DOMAIN c : k[1] # "repository" => c[k] = 1
    BY <2>1, <1>5, <1>1, <1>2
  <2>3. \A m \in Name :
          /\ <<"wiring", m>> \in DOMAIN c => <<"repository", m>> \in DOMAIN c
          /\ <<"wiring with pool", m>> \in DOMAIN c => <<"repository", m>> \in DOMAIN c
          /\ <<"consumer wiring", m>> \in DOMAIN c <=> <<"consumer repository", m>> \in DOMAIN c
    BY <1>5, <1>1 DEF GoodText
  <2>. QED
    BY <2>2, <2>3, <1>1 DEF GoodText
<1>. QED
  BY <1>3, <1>4, <1>5 DEF Block, Pairs, c

-----------------------------------------------------------------------------
(* The invariant. *)

PendingInsert(t) ==
    /\ t \in Running /\ run[t].looked
    /\ AtStep(t, "append") \/ AtStep(t, "insert")

PendingWrite(t) == t \in Running /\ run[t].looked /\ AtStep(t, "write")

Ready(b, s) == GoodText(b) /\ ~(s.block \subseteq DOMAIN b)

TextInv ==
    /\ \A f \in Shared : GoodText(text[f])
    /\ \A t \in Terminal :
         PendingInsert(t) => Ready(seen[t], Step(t))

FileInv ==
    \A t \in Terminal :
      /\ t \in Running /\ run[t].alone => Running = {t}
      /\ PendingWrite(t) /\ run[t].alone => Step(t).file \notin DOMAIN made

\* What a run is about to do depends on its own record only.
LEMMA SamePending ==
    ASSUME NEW t \in Terminal, run'[t].cmd = run[t].cmd, run'[t].stamp = run[t].stamp,
           run'[t].at = run[t].at, run'[t].st = run[t].st, run'[t].looked = run[t].looked
    PROVE  /\ Step(t)' = Step(t)
           /\ PendingInsert(t)' <=> PendingInsert(t)
           /\ PendingWrite(t)' <=> PendingWrite(t)
<1>1. Plan(run[t])' = Plan(run[t])
  BY DEF Plan
<1>2. Step(t)' = Step(t)
  BY <1>1 DEF Step
<1>. QED
  BY <1>1, <1>2 DEF PendingInsert, PendingWrite, AtStep, Running

LEMMA NotPending ==
    ASSUME NEW t \in Terminal, run'[t].st # "running" \/ run'[t].looked = FALSE
    PROVE  ~PendingInsert(t)' /\ ~PendingWrite(t)'
  BY DEF PendingInsert, PendingWrite, Running

LEMMA InvInit == Init => TextInv /\ FileInv
<1>. SUFFICES ASSUME Init PROVE TextInv /\ FileInv
  OBVIOUS
<1>1. Running = {}
  BY DEF Init, Running, Idle
<1>2. ASSUME NEW f \in Shared PROVE GoodText(text[f])
  <2>. DEFINE S == {Fixed} \cup ExampleLines(f)
             \cup IF f = "queue/channel.rs" THEN UNION {ChannelLines(c) : c \in Existing}
                  ELSE {}
  <2>1. text[f] = [l \in S |-> 1]
    BY DEF Init, StartText, SetToBag
  <2>2. \A n \in Name : \A w \in Paired : <<w, n>> \notin S
    <3>1. \A n \in Name : \A w \in Paired : <<w, n>> # Fixed /\ <<w, n>> \notin ExampleLines(f)
      BY ConstantsAssumption DEF Fixed, ExampleLines
    <3>2. \A n \in Name : \A w \in Paired, c \in Existing : <<w, n>> \notin ChannelLines(c)
      BY DEF Paired, ChannelLines
    <3>. QED
      BY <3>1, <3>2
  <2>. HIDE DEF S
  <2>. QED
    BY <2>1, <2>2 DEF GoodText, Paired
<1>. QED
  BY <1>1, <1>2 DEF TextInv, FileInv, PendingInsert, PendingWrite

LEMMA SameStep ==
    ASSUME NEW t \in Terminal, run'[t].cmd = run[t].cmd, run'[t].stamp = run[t].stamp,
           run'[t].at = run[t].at
    PROVE  Step(t)' = Step(t)
<1>1. Plan(run[t])' = Plan(run[t])
  BY DEF Plan
<1>. QED
  BY <1>1 DEF Step

\* A step of the run of t leaves those of the others alone, and what it does to
\* its own.
LEMMA OwnStep ==
    ASSUME RunType, NEW t \in Running
    PROVE  /\ t \in Terminal /\ run[t] \in Run
           /\ Looks(t) => /\ run'[t] = [run[t] EXCEPT !.looked = TRUE]
                          /\ \A u \in Terminal \ {t} : run'[u] = run[u]
           /\ \A n : Goes(t, n) => /\ run'[t].looked = FALSE /\ run'[t].alone = run[t].alone
                                   /\ run'[t].st = "running"
                                   /\ \A u \in Terminal \ {t} : run'[u] = run[u]
           /\ Warns(t) => /\ run'[t].looked = FALSE /\ run'[t].alone = run[t].alone
                          /\ run'[t].st = "running"
                          /\ \A u \in Terminal \ {t} : run'[u] = run[u]
<1>1. t \in Terminal /\ run[t] \in Run /\ run[t].st = "running"
  BY DEF Running, RunType, Idle
<1>2. ASSUME NEW r, run' = [run EXCEPT ![t] = r]
      PROVE  run'[t] = r /\ \A u \in Terminal \ {t} : run'[u] = run[u]
  BY <1>1, <1>2 DEF RunType
<1>3. ASSUME Looks(t)
      PROVE  /\ run'[t] = [run[t] EXCEPT !.looked = TRUE]
             /\ \A u \in Terminal \ {t} : run'[u] = run[u]
  BY <1>1, <1>2, <1>3 DEF Looks, RunType
<1>4. ASSUME NEW n, Goes(t, n)
      PROVE  /\ run'[t].looked = FALSE /\ run'[t].alone = run[t].alone
             /\ run'[t].st = "running"
             /\ \A u \in Terminal \ {t} : run'[u] = run[u]
  <2>. DEFINE r == [run[t] EXCEPT !.at = run[t].at + n, !.looked = FALSE]
  <2>1. run' = [run EXCEPT ![t] = r]
    BY <1>1, <1>4 DEF Goes, RunType
  <2>2. r.looked = FALSE /\ r.alone = run[t].alone /\ r.st = "running"
    BY <1>1 DEF Run
  <2>. HIDE DEF r
  <2>. QED
    BY <2>1, <2>2, <1>2
<1>5. ASSUME Warns(t)
      PROVE  /\ run'[t].looked = FALSE /\ run'[t].alone = run[t].alone
             /\ run'[t].st = "running"
             /\ \A u \in Terminal \ {t} : run'[u] = run[u]
  <2>. DEFINE r == [run[t] EXCEPT !.at = run[t].at + 1, !.looked = FALSE, !.warned = TRUE]
  <2>1. run' = [run EXCEPT ![t] = r]
    BY <1>1, <1>5 DEF Warns, RunType
  <2>2. r.looked = FALSE /\ r.alone = run[t].alone /\ r.st = "running"
    BY <1>1 DEF Run
  <2>. HIDE DEF r
  <2>. QED
    BY <2>1, <2>2, <1>2
<1>. QED
  BY <1>1, <1>3, <1>4, <1>5

LEMMA TextInvNext == RunType /\ TextInv /\ [Next]_vars => TextInv'
<1>. SUFFICES ASSUME RunType, TextInv, [Next]_vars PROVE TextInv'
  OBVIOUS
\* A step that keeps texts, and what others are about to do.
<1>1. ASSUME NEW t \in Terminal, text' = text,
             \A u \in Terminal \ {t} : run'[u] = run[u] /\ seen'[u] = seen[u],
             ~PendingInsert(t)'
      PROVE  TextInv'
  <2>1. ASSUME NEW u \in Terminal, PendingInsert(u)'
        PROVE  Ready(seen'[u], Step(u)')
    <3>1. u # t
      BY <1>1, <2>1
    <3>2. PendingInsert(u) /\ Step(u)' = Step(u) /\ seen'[u] = seen[u]
      BY <3>1, <2>1, <1>1, SamePending
    <3>. QED
      BY <3>2 DEF TextInv
  <2>2. \A f \in Shared : GoodText(text'[f])
    BY <1>1 DEF TextInv
  <2>. QED
    BY <2>1, <2>2 DEF TextInv
<1>2. ASSUME NEW t \in Terminal, NEW cmd, Start(t, cmd) PROVE TextInv'
  <2>1. run'[t].looked = FALSE
    BY <1>2 DEF Start
  <2>2. ~PendingInsert(t)'
    BY <2>1, NotPending
  <2>3. ASSUME NEW u \in Terminal, PendingInsert(u)'
        PROVE  Ready(seen'[u], Step(u)')
    <3>1. u # t
      BY <2>2, <2>3
    <3>2. CASE u \in Running
      <4>1. run[u] \in Run
        BY <3>2 DEF Running, RunType, Idle
      <4>2. run'[u] = [run[u] EXCEPT !.alone = FALSE]
        BY <3>1, <3>2, <1>2 DEF Start
      <4>3. /\ run'[u].cmd = run[u].cmd /\ run'[u].stamp = run[u].stamp
            /\ run'[u].at = run[u].at /\ run'[u].st = run[u].st
            /\ run'[u].looked = run[u].looked
        BY <4>1, <4>2 DEF Run
      <4>4. PendingInsert(u) /\ Step(u)' = Step(u) /\ seen'[u] = seen[u]
        BY <4>3, <2>3, <1>2, SamePending DEF Start
      <4>. QED
        BY <4>4 DEF TextInv
    <3>3. CASE u \notin Running
      <4>1. run'[u] = run[u]
        BY <3>1, <3>3, <1>2 DEF Start
      <4>. QED
        BY <4>1, <3>3, <2>3 DEF PendingInsert, Running
    <3>. QED
      BY <3>2, <3>3
  <2>4. \A f \in Shared : GoodText(text'[f])
    BY <1>2 DEF TextInv, Start
  <2>. QED
    BY <2>3, <2>4 DEF TextInv
<1>3. ASSUME NEW t \in Terminal, WriteLooks(t) PROVE TextInv'
  <2>1. t \in Running /\ AtStep(t, "write") /\ text' = text /\ seen' = seen
    BY <1>3 DEF WriteLooks, AtStep
  <2>2. run[t] \in Run
    BY <2>1, OwnStep
  <2>3. CASE run' = [run EXCEPT ![t].st = "failed"]
    <3>1. run'[t].st = "failed" /\ \A u \in Terminal \ {t} : run'[u] = run[u]
      BY <2>1, <2>2, <2>3 DEF RunType, Run
    <3>2. ~PendingInsert(t)'
      BY <3>1, NotPending
    <3>. QED
      BY <3>1, <3>2, <2>1, <1>1
  <2>4. CASE Looks(t)
    <3>1. run'[t] = [run[t] EXCEPT !.looked = TRUE] /\ \A u \in Terminal \ {t} : run'[u] = run[u]
      BY <2>1, <2>4, OwnStep
    <3>2. Step(t)' = Step(t)
      BY <3>1, <2>2, SameStep DEF Run
    <3>3. ~PendingInsert(t)'
      BY <3>2, <2>1 DEF PendingInsert, AtStep
    <3>. QED
      BY <3>1, <3>3, <2>1, <1>1
  <2>. QED
    BY <2>3, <2>4, <1>3 DEF WriteLooks
<1>4. ASSUME NEW t \in Running, Goes(t, 1) \/ Warns(t), text' = text,
             \A u \in Terminal \ {t} : seen'[u] = seen[u]
      PROVE  TextInv'
  BY <1>4, <1>1, OwnStep, NotPending
<1>5. ASSUME NEW t \in Terminal, Writes(t) PROVE TextInv'
  BY <1>5, <1>4 DEF Writes, AtStep
<1>6. ASSUME NEW t \in Terminal, InsertLooks(t) PROVE TextInv'
  <2>1. t \in Running
    BY <1>6 DEF InsertLooks, AtStep
  <2>2. CASE (Goes(t, 1) \/ Warns(t)) /\ seen' = seen
    BY <2>1, <2>2, <1>4, <1>6 DEF InsertLooks
  <2>3. CASE /\ Looks(t) /\ ~AlreadyPresent(Lines(Step(t).file), Step(t).block)
             /\ seen' = [seen EXCEPT ![t] = text[Step(t).file]]
    <3>1. Step(t) \in InsertStep /\ run[t] \in Run
      BY <1>6, StepIsAny DEF InsertLooks
    <3>2. run'[t] = [run[t] EXCEPT !.looked = TRUE] /\ \A u \in Terminal \ {t} : run'[u] = run[u]
      BY <2>1, <2>3, OwnStep
    <3>3. Step(t)' = Step(t)
      BY <3>1, <3>2, SameStep DEF Run
    <3>4. seen'[t] = text[Step(t).file] /\ \A u \in Terminal \ {t} : seen'[u] = seen[u]
      BY <2>3 DEF RunType
    <3>5. GoodText(text[Step(t).file])
      BY <3>1 DEF TextInv, InsertStep
    <3>6. ~(Step(t).block \subseteq DOMAIN text[Step(t).file])
      BY <2>3 DEF AlreadyPresent, Lines
    <3>7. Ready(seen'[t], Step(t)')
      BY <3>3, <3>4, <3>5, <3>6 DEF Ready
    <3>8. ASSUME NEW u \in Terminal, u # t, PendingInsert(u)'
          PROVE  Ready(seen'[u], Step(u)')
      <4>1. PendingInsert(u) /\ Step(u)' = Step(u) /\ seen'[u] = seen[u]
        BY <3>2, <3>4, <3>8, SamePending
      <4>. QED
        BY <4>1 DEF TextInv
    <3>9. \A f \in Shared : GoodText(text'[f])
      BY <1>6 DEF TextInv, InsertLooks
    <3>. QED
      BY <3>7, <3>8, <3>9 DEF TextInv
  <2>. QED
    BY <1>6, <2>2, <2>3 DEF InsertLooks
<1>7. ASSUME NEW t \in Terminal, Inserts(t) PROVE TextInv'
  <2>1. t \in Running /\ PendingInsert(t)
    BY <1>7 DEF Inserts, AtStep, PendingInsert
  <2>2. Step(t) \in InsertStep
    BY <1>7, StepIsAny DEF Inserts
  <2>3. GoodText(seen[t] (+) SetToBag(Step(t).block))
    BY <2>1, <2>2, InsertGood DEF TextInv, InsertStep, Ready
  <2>4. /\ run'[t].looked = FALSE
        /\ \A u \in Terminal \ {t} : run'[u] = run[u]
    BY <2>1, <1>7, OwnStep DEF Inserts
  <2>5. \A f \in Shared : GoodText(text'[f])
    <3>. DEFINE b == seen[t] (+) SetToBag(Step(t).block)
    <3>1. text' = [text EXCEPT ![Step(t).file] = b]
      BY <1>7 DEF Inserts
    <3>2. \A f \in Shared : text'[f] = b \/ text'[f] = text[f]
      BY <3>1 DEF RunType
    <3>3. GoodText(b)
      BY <2>3
    <3>. HIDE DEF b
    <3>. QED
      BY <3>2, <3>3 DEF TextInv
  <2>6. ASSUME NEW u \in Terminal, PendingInsert(u)'
        PROVE  Ready(seen'[u], Step(u)')
    <3>1. u # t
      BY <2>4, <2>6, NotPending
    <3>2. seen'[u] = seen[u]
      BY <3>1, <1>7 DEF Inserts, RunType
    <3>3. PendingInsert(u) /\ Step(u)' = Step(u)
      BY <3>1, <2>4, <2>6, SamePending
    <3>. QED
      BY <3>2, <3>3 DEF TextInv
  <2>. QED
    BY <2>5, <2>6 DEF TextInv
<1>8. ASSUME NEW t \in Terminal, ChecksChannel(t) PROVE TextInv'
  <2>1. t \in Running /\ AtStep(t, "check") /\ text' = text /\ seen' = seen
    BY <1>8 DEF ChecksChannel, AtStep
  <2>2. CASE run' = [run EXCEPT ![t] = [@ EXCEPT !.at = run[t].at + 4, !.silent = TRUE]]
    <3>. DEFINE r == [run[t] EXCEPT !.at = run[t].at + 4, !.silent = TRUE]
    <3>1. run' = [run EXCEPT ![t] = r]
      BY <2>1, <2>2, OwnStep DEF RunType
    <3>2. r.looked = run[t].looked
      BY <2>1, OwnStep DEF Run
    <3>. HIDE DEF r
    <3>3. run'[t].looked = run[t].looked /\ \A u \in Terminal \ {t} : run'[u] = run[u]
      BY <3>1, <3>2, <2>1, OwnStep DEF RunType
    <3>4. ~run[t].looked
      BY <1>8 DEF ChecksChannel
    <3>. QED
      BY <3>3, <3>4, <2>1, <1>1 DEF PendingInsert
  <2>. QED
    BY <2>1, <2>2, <1>4, <1>8 DEF ChecksChannel
<1>9. ASSUME NEW t \in Terminal, SaysDone(t) PROVE TextInv'
  <2>1. t \in Running /\ run[t] \in Run
    BY <1>9, OwnStep DEF SaysDone
  <2>2. run'[t].st = "done" /\ \A u \in Terminal \ {t} : run'[u] = run[u]
    BY <2>1, <1>9 DEF SaysDone, RunType, Run
  <2>. QED
    BY <2>2, <1>1, <1>9, NotPending DEF SaysDone
<1>10. ASSUME NEW t \in Terminal, Killed(t) PROVE TextInv'
  <2>1. t \in Running /\ run[t] \in Run
    BY <1>10, OwnStep DEF Killed
  <2>. DEFINE r == [run[t] EXCEPT !.st = "killed", !.looked = FALSE]
  <2>2. run' = [run EXCEPT ![t] = r] /\ r.looked = FALSE
    BY <2>1, <1>10 DEF Killed, RunType, Run
  <2>. HIDE DEF r
  <2>3. run'[t].looked = FALSE /\ \A u \in Terminal \ {t} : run'[u] = run[u]
    BY <2>1, <2>2 DEF RunType
  <2>4. \A u \in Terminal \ {t} : seen'[u] = seen[u]
    BY <1>10 DEF Killed, RunType
  <2>. QED
    BY <2>3, <2>4, <1>1, <1>10, NotPending DEF Killed
<1>11. ASSUME UNCHANGED <<run, seen>>, \A f \in Shared : GoodText(text'[f]) PROVE TextInv'
  <2>1. ASSUME NEW u \in Terminal, PendingInsert(u)'
        PROVE  Ready(seen'[u], Step(u)')
    <3>1. PendingInsert(u) /\ Step(u)' = Step(u)
      BY <2>1, <1>11, SamePending
    <3>. QED
      BY <3>1, <1>11 DEF TextInv
  <2>. QED
    BY <1>11, <2>1 DEF TextInv
<1>12. ASSUME UNCHANGED <<text, run, seen>> PROVE TextInv'
  BY <1>12, <1>11 DEF TextInv
<1>13. CASE DropsExample
  <2>1. ASSUME NEW f \in Shared PROVE GoodText(text'[f])
    <3>1. text'[f] = [l \in DOMAIN text[f] \ ExampleLines(f) |-> text[f][l]]
      BY <1>13 DEF DropsExample, Lines
    <3>2. \A n \in Name, w \in Paired : <<w, n>> \notin ExampleLines(f)
      BY ConstantsAssumption DEF ExampleLines
    <3>. QED
      BY <3>1, <3>2 DEF TextInv, GoodText, Paired
  <2>. QED
    BY <2>1, <1>13, <1>11 DEF DropsExample
<1>. QED
  BY <1>2, <1>3, <1>5, <1>6, <1>7, <1>8, <1>9, <1>10, <1>12, <1>13
     DEF Next, RunStep, Edits, Removes, vars

\* Runs that are killed, repeated or overlap never leave a line twice.
THEOREM NoneTwiceTheorem == Spec => []NoneTwice
<1>1. RunType /\ TextInv /\ [Next]_vars => (RunType /\ TextInv)'
  BY RunTypeNext, TextInvNext
<1>2. RunType /\ TextInv => NoneTwice
  BY DEF TextInv, GoodText, NoneTwice, Lines
<1>. QED
  BY <1>1, <1>2, RunTypeInit, InvInit, PTL DEF Spec

-----------------------------------------------------------------------------
(* The files: a run that is alone still finds what it has looked for.      *)

LEMMA FileInvNext == RunType /\ FileInv /\ [Next]_vars => FileInv'
<1>. SUFFICES ASSUME RunType, FileInv, [Next]_vars PROVE FileInv'
  OBVIOUS
\* A step of the run of t that is about to write nothing.
<1>1. ASSUME NEW t \in Running, run'[t].alone = run[t].alone, ~PendingWrite(t)',
             \A u \in Terminal \ {t} : run'[u] = run[u],
             DOMAIN made' = DOMAIN made \/ run[t].alone \/ \A u \in Running \ {t} : ~run[u].alone
      PROVE  FileInv'
  <2>1. Running' \subseteq Running /\ t \in Terminal
    BY <1>1 DEF Running
  <2>2. ASSUME NEW u \in Terminal, u \in Running', run'[u].alone PROVE Running' = {u}
    BY <2>1, <2>2, <1>1 DEF FileInv, Running
  <2>3. ASSUME NEW u \in Terminal, PendingWrite(u)', run'[u].alone
        PROVE  Step(u)'.file \notin DOMAIN made'
    <3>1. u # t
      BY <1>1, <2>3
    <3>2. PendingWrite(u) /\ Step(u)' = Step(u) /\ run[u].alone
      BY <3>1, <2>3, <1>1, SamePending
    <3>3. Running = {u}
      BY <3>2 DEF FileInv, PendingWrite
    <3>. QED
      BY <3>1, <3>3, <1>1
  <2>. QED
    BY <2>2, <2>3 DEF FileInv
<1>2. ASSUME NEW t \in Terminal, NEW cmd, Start(t, cmd) PROVE FileInv'
  <2>1. /\ run'[t].alone = (Running = {}) /\ run'[t].looked = FALSE
        /\ \A u \in Running : u # t => run'[u] = [run[u] EXCEPT !.alone = FALSE]
        /\ \A u \in Terminal : u # t /\ u \notin Running => run'[u] = run[u]
    BY <1>2 DEF Start, Running
  <2>2. ASSUME NEW u \in Running, u # t PROVE run'[u].alone = FALSE
    <3>1. run[u] \in Run
      BY DEF Running, RunType, Idle
    <3>2. run'[u] = [run[u] EXCEPT !.alone = FALSE]
      BY <2>1, <2>2
    <3>. QED
      BY <3>1, <3>2 DEF Run
  <2>3. \A u \in Terminal : u # t /\ u \notin Running => u \notin Running'
    BY <2>1 DEF Running
  <2>4. Running = {} => Running' \subseteq {t}
    BY <2>3 DEF Running
  <2>5. ~PendingWrite(t)'
    BY <2>1, NotPending
  <2>6. \A u \in Terminal : u \in Running' /\ run'[u].alone => u = t /\ Running = {}
    BY <2>1, <2>2, <2>3
  <2>. QED
    BY <2>4, <2>5, <2>6 DEF FileInv, PendingWrite
<1>3. ASSUME NEW t \in Terminal, WriteLooks(t) PROVE FileInv'
  <2>1. t \in Running /\ run[t] \in Run /\ made' = made
    BY <1>3, OwnStep DEF WriteLooks, AtStep
  <2>2. CASE run' = [run EXCEPT ![t].st = "failed"]
    <3>1. /\ run'[t].st = "failed" /\ run'[t].alone = run[t].alone
          /\ \A u \in Terminal \ {t} : run'[u] = run[u]
      BY <2>1, <2>2 DEF RunType, Run
    <3>. QED
      BY <3>1, <2>1, <1>1, NotPending
  <2>3. CASE Looks(t) /\ Step(t).file \notin DOMAIN made
    <3>1. run'[t] = [run[t] EXCEPT !.looked = TRUE] /\ \A u \in Terminal \ {t} : run'[u] = run[u]
      BY <2>1, <2>3, OwnStep
    <3>2. Step(t)' = Step(t) /\ run'[t].alone = run[t].alone /\ run'[t].st = run[t].st
      BY <3>1, <2>1, SameStep DEF Run
    <3>3. Running' = Running
      BY <3>1, <3>2 DEF Running
    <3>4. ASSUME NEW u \in Terminal, u # t
          PROVE  Step(u)' = Step(u) /\ (PendingWrite(u)' <=> PendingWrite(u)) /\ run'[u] = run[u]
      BY <3>1, <3>4, SamePending
    <3>5. ASSUME NEW u \in Terminal, PendingWrite(u)', run'[u].alone
          PROVE  Step(u)'.file \notin DOMAIN made'
      BY <3>2, <3>4, <3>5, <2>1, <2>3 DEF FileInv
    <3>6. ASSUME NEW u \in Terminal, u \in Running', run'[u].alone PROVE Running' = {u}
      BY <3>2, <3>3, <3>4, <3>6 DEF FileInv
    <3>. QED
      BY <3>5, <3>6 DEF FileInv
  <2>. QED
    BY <2>2, <2>3, <1>3 DEF WriteLooks
<1>4. ASSUME NEW t \in Running, Goes(t, 1) \/ Warns(t),
             DOMAIN made' = DOMAIN made \/ run[t].alone \/ \A u \in Running \ {t} : ~run[u].alone
      PROVE  FileInv'
  BY <1>4, <1>1, OwnStep, NotPending
<1>5. ASSUME NEW t \in Terminal, Writes(t) PROVE FileInv'
  <2>1. t \in Running
    BY <1>5 DEF Writes, AtStep
  <2>2. \A u \in Running \ {t} : ~run[u].alone
    BY <2>1 DEF FileInv, Running
  <2>. QED
    BY <2>1, <2>2, <1>5, <1>4 DEF Writes
<1>6. ASSUME NEW t \in Terminal, InsertLooks(t) PROVE FileInv'
  <2>1. t \in Running /\ run[t] \in Run /\ made' = made
    BY <1>6, OwnStep DEF InsertLooks, AtStep
  <2>2. CASE Goes(t, 1) \/ Warns(t)
    BY <2>1, <2>2, <1>4
  <2>3. CASE Looks(t)
    <3>1. run'[t] = [run[t] EXCEPT !.looked = TRUE] /\ \A u \in Terminal \ {t} : run'[u] = run[u]
      BY <2>1, <2>3, OwnStep
    <3>2. Step(t)' = Step(t) /\ run'[t].alone = run[t].alone
      BY <3>1, <2>1, SameStep DEF Run
    <3>3. ~PendingWrite(t)'
      BY <3>2, <1>6 DEF PendingWrite, AtStep, InsertLooks
    <3>. QED
      BY <3>1, <3>2, <3>3, <2>1, <1>1
  <2>. QED
    BY <2>2, <2>3, <1>6 DEF InsertLooks
<1>7. ASSUME NEW t \in Terminal, Inserts(t) PROVE FileInv'
  BY <1>7, <1>4 DEF Inserts, AtStep
<1>8. ASSUME NEW t \in Terminal, ChecksChannel(t) PROVE FileInv'
  <2>1. t \in Running /\ made' = made /\ ~run[t].looked
    BY <1>8 DEF ChecksChannel, AtStep
  <2>2. CASE run' = [run EXCEPT ![t] = [@ EXCEPT !.at = run[t].at + 4, !.silent = TRUE]]
    <3>. DEFINE r == [run[t] EXCEPT !.at = run[t].at + 4, !.silent = TRUE]
    <3>1. run' = [run EXCEPT ![t] = r]
      BY <2>1, <2>2, OwnStep DEF RunType
    <3>2. r.looked = run[t].looked /\ r.alone = run[t].alone
      BY <2>1, OwnStep DEF Run
    <3>. HIDE DEF r
    <3>3. /\ run'[t].looked = run[t].looked /\ run'[t].alone = run[t].alone
          /\ \A u \in Terminal \ {t} : run'[u] = run[u]
      BY <3>1, <3>2, <2>1, OwnStep DEF RunType
    <3>. QED
      BY <3>3, <2>1, <1>1 DEF PendingWrite
  <2>. QED
    BY <2>1, <2>2, <1>4, <1>8 DEF ChecksChannel
<1>9. ASSUME NEW t \in Terminal, SaysDone(t) PROVE FileInv'
  <2>1. t \in Running /\ run[t] \in Run /\ made' = made
    BY <1>9, OwnStep DEF SaysDone
  <2>2. /\ run'[t].st = "done" /\ run'[t].alone = run[t].alone
        /\ \A u \in Terminal \ {t} : run'[u] = run[u]
    BY <2>1, <1>9 DEF SaysDone, RunType, Run
  <2>. QED
    BY <2>1, <2>2, <1>1, NotPending
<1>10. ASSUME NEW t \in Terminal, Killed(t) PROVE FileInv'
  <2>1. t \in Running /\ run[t] \in Run /\ made' = made
    BY <1>10, OwnStep DEF Killed
  <2>. DEFINE r == [run[t] EXCEPT !.st = "killed", !.looked = FALSE]
  <2>2. run' = [run EXCEPT ![t] = r] /\ r.looked = FALSE /\ r.alone = run[t].alone
    BY <2>1, <1>10 DEF Killed, RunType, Run
  <2>. HIDE DEF r
  <2>3. /\ run'[t].looked = FALSE /\ run'[t].alone = run[t].alone
        /\ \A u \in Terminal \ {t} : run'[u] = run[u]
    BY <2>1, <2>2 DEF RunType
  <2>. QED
    BY <2>1, <2>3, <1>1, NotPending
<1>11. ASSUME run' = run, DOMAIN made' \subseteq DOMAIN made PROVE FileInv'
  <2>1. Running' = Running
    BY <1>11 DEF Running
  <2>2. \A u \in Terminal : Step(u)' = Step(u) /\ (PendingWrite(u)' <=> PendingWrite(u))
    BY <1>11, SamePending
  <2>. QED
    BY <2>1, <2>2, <1>11 DEF FileInv
<1>12. ASSUME NEW n, NEW kinds, Removes(n, kinds) PROVE FileInv'
  <2>1. DOMAIN made' \subseteq DOMAIN made
    BY <1>12 DEF Removes
  <2>. QED
    BY <2>1, <1>12, <1>11 DEF Removes
<1>. QED
  BY <1>2, <1>3, <1>5, <1>6, <1>7, <1>8, <1>9, <1>10, <1>11, <1>12
     DEF Next, RunStep, Edits, DropsExample, vars

\* The user's changes survive every run that has the files to itself.
THEOREM EditsKeptTheorem == Spec => EditsKept
<1>. DEFINE Kept == \A f \in edited \ edited' :
         \/ f[2] \in removed'
         \/ \E t \in Running : ~run[t].alone /\ AtStep(t, "write") /\ Step(t).file = f
<1>1. ASSUME RunType, FileInv, [Next]_vars PROVE [Kept]_vars
  <2>1. ASSUME NEW t \in Terminal, Writes(t) PROVE Kept
    <3>1. t \in Running /\ AtStep(t, "write") /\ PendingWrite(t)
      BY <2>1 DEF Writes, AtStep, PendingWrite
    <3>2. \A f \in edited \ edited' : f = Step(t).file
      BY <2>1 DEF Writes
    <3>3. CASE run[t].alone
      <4>1. Step(t).file \notin edited
        BY <3>1, <3>3, <1>1 DEF FileInv, RunType
      <4>. QED
        BY <4>1, <3>2
    <3>4. CASE ~run[t].alone
      BY <3>1, <3>2, <3>4
    <3>. QED
      BY <3>3, <3>4
  <2>2. ASSUME NEW n \in Name, NEW kinds, Removes(n, kinds) PROVE Kept
    <3>1. \A f \in edited \ edited' : f[2] = n
      BY <2>2 DEF Removes
    <3>. QED
      BY <3>1, <2>2 DEF Removes
  <2>3. ASSUME edited \subseteq edited' PROVE Kept
    BY <2>3
  <2>4. \/ \E t \in Terminal : Writes(t)
        \/ \E n \in Name, kinds \in {Kinds("api"), {"entity"}, Kinds("worker")} : Removes(n, kinds)
        \/ edited \subseteq edited'
    BY <1>1 DEF Next, RunStep, Start, WriteLooks, InsertLooks, Inserts, ChecksChannel, SaysDone,
       Killed, Edits, DropsExample, vars
  <2>. QED
    BY <2>1, <2>2, <2>3, <2>4
<1>2. RunType /\ FileInv /\ [Next]_vars => (RunType /\ FileInv)'
  BY RunTypeNext, FileInvNext
<1>3. RunType /\ FileInv /\ [Next]_vars => [Kept]_vars
  BY <1>1
<1>4. Init => RunType /\ FileInv
  BY RunTypeInit, InvInit
<1>5. Spec => [][Kept]_vars
  BY <1>2, <1>3, <1>4, PTL DEF Spec
<1>. QED
  BY <1>5 DEF EditsKept

-----------------------------------------------------------------------------
(* The plans, step by step.                                                *)

Writing(s, f, c) == s.op = "write" /\ s.file = f /\ s.channel = c
Adding(s, f, B) == s.op \in {"append", "insert"} /\ s.file = f /\ s.block = B
Asking(s, c) == s.op = "check" /\ s.channel = c

LEMMA WriteWrites ==
    ASSUME NEW k, NEW n, NEW c
    PROVE  Writing(Write(k, n, c), <<k, n>>, c)
  BY DEF Writing, Write

LEMMA AppendAdds ==
    ASSUME NEW f, NEW l
    PROVE  Adding(AppendModule(f, l), f, {l})
  BY DEF Adding, AppendModule

LEMMA InsertAdds ==
    ASSUME NEW f, NEW a, NEW B
    PROVE  Adding(InsertAfter(f, a, B), f, B)
  BY DEF Adding, InsertAfter

LEMMA CheckAsks ==
    ASSUME NEW c
    PROVE  Asking([op |-> "check", channel |-> c], c)
  BY DEF Asking

\* The four steps about the channel, from the i + 1st of p.
ChannelSteps(p, i, c) ==
    /\ Asking(p[i + 1], c)
    /\ Adding(p[i + 2], "queue/channel.rs", {<<"variant", c>>})
    /\ Adding(p[i + 3], "queue/channel.rs", {<<"listed", c>>})
    /\ Adding(p[i + 4], "queue/channel.rs", {<<"arm", c>>})

LEMMA AddQueueChannelTable ==
    ASSUME NEW c
    PROVE  /\ Len(AddQueueChannel(c)) = 4
           /\ Asking(AddQueueChannel(c)[1], c)
           /\ Adding(AddQueueChannel(c)[2], "queue/channel.rs", {<<"variant", c>>})
           /\ Adding(AddQueueChannel(c)[3], "queue/channel.rs", {<<"listed", c>>})
           /\ Adding(AddQueueChannel(c)[4], "queue/channel.rs", {<<"arm", c>>})
<1> DEFINE q == AddQueueChannel(c)
<1>1. /\ Len(q) = 4
      /\ q[1] = [op |-> "check", channel |-> c]
      /\ q[2] = InsertAfter("queue/channel.rs", Fixed, {<<"variant", c>>})
      /\ q[3] = InsertAfter("queue/channel.rs", Fixed, {<<"listed", c>>})
      /\ q[4] = InsertAfter("queue/channel.rs", Fixed, {<<"arm", c>>})
  BY DEF AddQueueChannel
<1> HIDE DEF q
<1>2. /\ Asking(q[1], c)
      /\ Adding(q[2], "queue/channel.rs", {<<"variant", c>>})
      /\ Adding(q[3], "queue/channel.rs", {<<"listed", c>>})
      /\ Adding(q[4], "queue/channel.rs", {<<"arm", c>>})
  BY <1>1, CheckAsks, InsertAdds, Zenon
<1> QED
  BY <1>1, <1>2 DEF q

EntitySteps(q, n, s) ==
    /\ Writing(q[1], <<"entity", n>>, NoChannel)
    /\ Adding(q[2], "entities/mod.rs", {<<"entities mod", n>>})
    /\ Writing(q[3], <<"migration", <<n, s>>>>, NoChannel)
    /\ Adding(q[4], "migration/lib.rs", {<<"migration mod", <<n, s>>>>})
    /\ Adding(q[5], "migration/lib.rs", {<<"migration boxed", <<n, s>>>>})

LEMMA EntityTable ==
    ASSUME NEW n, NEW s
    PROVE  Len(ScaffoldEntityAndMigration(n, s)) = 5
           /\ EntitySteps(ScaffoldEntityAndMigration(n, s), n, s)
<1> DEFINE q == ScaffoldEntityAndMigration(n, s)
<1>1. /\ Len(q) = 5
      /\ q[1] = Write("entity", n, NoChannel)
      /\ q[2] = AppendModule("entities/mod.rs", <<"entities mod", n>>)
      /\ q[3] = Write("migration", <<n, s>>, NoChannel)
      /\ q[4] = InsertAfter("migration/lib.rs", Fixed, {<<"migration mod", <<n, s>>>>})
      /\ q[5] = InsertAfter("migration/lib.rs", Fixed, {<<"migration boxed", <<n, s>>>>})
  BY DEF ScaffoldEntityAndMigration
<1> HIDE DEF q
<1>2. EntitySteps(q, n, s)
  BY <1>1, WriteWrites, AppendAdds, InsertAdds, Zenon DEF EntitySteps
<1> QED
  BY <1>1, <1>2 DEF q

\* The pair that binds the service of a module in the state of the api.
Binding(n, c) == {<<"repository", n>>, <<IF c = NoChannel THEN "wiring" ELSE "wiring with pool", n>>}

ApiSteps(p, n, c, s) ==
    /\ EntitySteps(p, n, s)
    /\ Writing(p[6], <<"api/dto", n>>, NoChannel)
    /\ Writing(p[7], <<"api/repository", n>>, NoChannel)
    /\ Writing(p[8], <<"api/service", n>>, c)
    /\ Writing(p[9], <<"api/controller", n>>, c)
    /\ Writing(p[10], <<"api/route", n>>, c)
    /\ Writing(p[11], <<"api/mod", n>>, NoChannel)
    /\ Adding(p[12], "api/modules/mod.rs", {<<"api mod", n>>})
    /\ Adding(p[13], "api/state.rs", {<<"use", n>>})
    /\ Adding(p[14], "api/state.rs", {<<"field", n>>})
    /\ Adding(p[15], "api/state.rs", Binding(n, c))
    /\ Adding(p[16], "api/state.rs", {<<"value", n>>})
    /\ Adding(p[17], "api/lib.rs", {<<"routes use", n>>})
    /\ Adding(p[18], "api/lib.rs", {<<"nest", n>>})
    /\ Adding(p[19], "api/lib.rs", {<<"docs", n>>})
    /\ c # NoChannel => ChannelSteps(p, 19, c)

LEMMA RegisterApiTable ==
    ASSUME NEW n, NEW c
    PROVE  /\ Len(RegisterApi(n, c)) = 8
           /\ Adding(RegisterApi(n, c)[1], "api/modules/mod.rs", {<<"api mod", n>>})
           /\ Adding(RegisterApi(n, c)[2], "api/state.rs", {<<"use", n>>})
           /\ Adding(RegisterApi(n, c)[3], "api/state.rs", {<<"field", n>>})
           /\ Adding(RegisterApi(n, c)[4], "api/state.rs", Binding(n, c))
           /\ Adding(RegisterApi(n, c)[5], "api/state.rs", {<<"value", n>>})
           /\ Adding(RegisterApi(n, c)[6], "api/lib.rs", {<<"routes use", n>>})
           /\ Adding(RegisterApi(n, c)[7], "api/lib.rs", {<<"nest", n>>})
           /\ Adding(RegisterApi(n, c)[8], "api/lib.rs", {<<"docs", n>>})
<1> DEFINE q == RegisterApi(n, c)
<1>1. Len(q) = 8
  BY DEF RegisterApi
<1>11. q[1] = AppendModule("api/modules/mod.rs", <<"api mod", n>>)
  BY DEF RegisterApi, Binding
<1>12. q[2] = InsertAfter("api/state.rs", <<"use", Example>>, {<<"use", n>>})
  BY DEF RegisterApi, Binding
<1>13. q[3] = InsertAfter("api/state.rs", Fixed, {<<"field", n>>})
  BY DEF RegisterApi, Binding
<1>14. q[4] = InsertAfter("api/state.rs", <<"wiring", Example>>, Binding(n, c))
  BY DEF RegisterApi, Binding
<1>15. q[5] = InsertAfter("api/state.rs", Fixed, {<<"value", n>>})
  BY DEF RegisterApi, Binding
<1>16. q[6] = InsertAfter("api/lib.rs", <<"routes use", Example>>, {<<"routes use", n>>})
  BY DEF RegisterApi, Binding
<1>17. q[7] = InsertAfter("api/lib.rs", <<"nest", Example>>, {<<"nest", n>>})
  BY DEF RegisterApi, Binding
<1>18. q[8] = InsertAfter("api/lib.rs", <<"docs", Example>>, {<<"docs", n>>})
  BY DEF RegisterApi, Binding
<1> HIDE DEF q
<1>2. Adding(q[1], "api/modules/mod.rs", {<<"api mod", n>>})
  BY <1>11, AppendAdds
<1>3. Adding(q[2], "api/state.rs", {<<"use", n>>})
  BY <1>12, InsertAdds, Zenon
<1>4. Adding(q[3], "api/state.rs", {<<"field", n>>})
  BY <1>13, InsertAdds, Zenon
<1>5. Adding(q[4], "api/state.rs", Binding(n, c))
  BY <1>14, InsertAdds, Zenon
<1>6. Adding(q[5], "api/state.rs", {<<"value", n>>})
  BY <1>15, InsertAdds, Zenon
<1>7. Adding(q[6], "api/lib.rs", {<<"routes use", n>>})
  BY <1>16, InsertAdds, Zenon
<1>8. Adding(q[7], "api/lib.rs", {<<"nest", n>>})
  BY <1>17, InsertAdds, Zenon
<1>9. Adding(q[8], "api/lib.rs", {<<"docs", n>>})
  BY <1>18, InsertAdds, Zenon
<1> QED
  BY <1>1, <1>2, <1>3, <1>4, <1>5, <1>6, <1>7, <1>8, <1>9 DEF q

LEMMA ApiTable ==
    ASSUME NEW n \in Name, NEW c \in Channel \cup {NoChannel}, NEW s \in 1..MaxRuns
    PROVE  /\ Len(ScaffoldApi(n, c, s)) = IF c = NoChannel THEN 19 ELSE 23
           /\ ApiSteps(ScaffoldApi(n, c, s), n, c, s)
<1>. DEFINE E == ScaffoldEntityAndMigration(n, s)
            W == <<Write("api/dto", n, NoChannel), Write("api/repository", n, NoChannel),
                   Write("api/service", n, c), Write("api/controller", n, c),
                   Write("api/route", n, c), Write("api/mod", n, NoChannel)>>
            R == RegisterApi(n, c)
            Q == IF c = NoChannel THEN <<>> ELSE AddQueueChannel(c)
            p == E \o W \o R \o Q
<1>1. W \in Seq(AnyStep)
  BY WriteIsStep, SixSteps DEF Kinds
<1>2. Q \in Seq(AnyStep)
  BY AddQueueChannelSteps
<1>3. E \in Seq(AnyStep) /\ R \in Seq(AnyStep)
  BY ScaffoldEntitySteps, RegisterApiSteps
<1>4. /\ Len(W) = 6
      /\ W[1] = Write("api/dto", n, NoChannel) /\ W[2] = Write("api/repository", n, NoChannel)
      /\ W[3] = Write("api/service", n, c) /\ W[4] = Write("api/controller", n, c)
      /\ W[5] = Write("api/route", n, c) /\ W[6] = Write("api/mod", n, NoChannel)
  OBVIOUS
<1>5. Len(E) = 5 /\ EntitySteps(E, n, s)
  BY EntityTable
<1>6. Len(R) = 8
  BY RegisterApiTable
<1>7. Len(Q) = IF c = NoChannel THEN 0 ELSE 4
  BY AddQueueChannelTable
<1>8. c # NoChannel =>
      /\ Asking(Q[1], c)
      /\ Adding(Q[2], "queue/channel.rs", {<<"variant", c>>})
      /\ Adding(Q[3], "queue/channel.rs", {<<"listed", c>>})
      /\ Adding(Q[4], "queue/channel.rs", {<<"arm", c>>})
  BY AddQueueChannelTable, Zenon
<1>9. ScaffoldApi(n, c, s) = p
  BY <1>1, <1>2, <1>3 DEF ScaffoldApi
<1>. HIDE DEF W, Q, E, R, p
<1>10. /\ Len(p) = Len(E) + Len(W) + Len(R) + Len(Q)
       /\ \A k \in 1..Len(E) : p[k] = E[k]
       /\ \A k \in 1..Len(W) : p[Len(E) + k] = W[k]
       /\ \A k \in 1..Len(R) : p[Len(E) + Len(W) + k] = R[k]
       /\ \A k \in 1..Len(Q) : p[Len(E) + Len(W) + Len(R) + k] = Q[k]
  <2>1. p = E \o W \o R \o Q
    BY DEF p
  <2>. QED
    BY <2>1, <1>1, <1>2, <1>3

<1>11. Len(p) = IF c = NoChannel THEN 19 ELSE 23
  BY <1>4, <1>5, <1>6, <1>7, <1>10
<1>12. c # NoChannel => /\ p[19 + 1] = Q[1] /\ p[19 + 2] = Q[2]
                       /\ p[19 + 3] = Q[3] /\ p[19 + 4] = Q[4]
  BY <1>4, <1>5, <1>6, <1>7, <1>10
<1>13. /\ p[1] = E[1] /\ p[2] = E[2] /\ p[3] = E[3] /\ p[4] = E[4] /\ p[5] = E[5]
       /\ p[6] = W[1] /\ p[7] = W[2] /\ p[8] = W[3] /\ p[9] = W[4] /\ p[10] = W[5] /\ p[11] = W[6]
  <2>1. \A k \in 1..5 : p[k] = E[k]
    BY <1>5, <1>10
  <2>2. \A k \in 1..6 : p[5 + k] = W[k]
    BY <1>4, <1>5, <1>10
  <2>. QED
    BY <2>1, <2>2
<1>14. /\ p[12] = R[1] /\ p[13] = R[2] /\ p[14] = R[3] /\ p[15] = R[4]
       /\ p[16] = R[5] /\ p[17] = R[6] /\ p[18] = R[7] /\ p[19] = R[8]
  <2>1. \A k \in 1..8 : p[11 + k] = R[k]
    BY <1>4, <1>5, <1>6, <1>10
  <2>. QED
    BY <2>1
<1>15. EntitySteps(p, n, s)
  BY <1>5, <1>13 DEF EntitySteps
<1>16. c # NoChannel => ChannelSteps(p, 19, c)
  BY <1>8, <1>12, Zenon DEF ChannelSteps
<1>17. /\ Writing(p[6], <<"api/dto", n>>, NoChannel)
       /\ Writing(p[7], <<"api/repository", n>>, NoChannel)
       /\ Writing(p[8], <<"api/service", n>>, c)
       /\ Writing(p[9], <<"api/controller", n>>, c)
       /\ Writing(p[10], <<"api/route", n>>, c)
       /\ Writing(p[11], <<"api/mod", n>>, NoChannel)
  BY <1>4, <1>13, WriteWrites, Zenon
<1>18. /\ Adding(p[12], "api/modules/mod.rs", {<<"api mod", n>>})
       /\ Adding(p[13], "api/state.rs", {<<"use", n>>})
       /\ Adding(p[14], "api/state.rs", {<<"field", n>>})
       /\ Adding(p[15], "api/state.rs", Binding(n, c))
       /\ Adding(p[16], "api/state.rs", {<<"value", n>>})
       /\ Adding(p[17], "api/lib.rs", {<<"routes use", n>>})
       /\ Adding(p[18], "api/lib.rs", {<<"nest", n>>})
       /\ Adding(p[19], "api/lib.rs", {<<"docs", n>>})
  BY <1>14, RegisterApiTable, Zenon DEF R
<1>. QED
  BY <1>9, <1>11, <1>15, <1>16, <1>17, <1>18, Zenon DEF ApiSteps

WorkerSteps(p, n, c) ==
    /\ Writing(p[1], <<"worker/dto", n>>, NoChannel)
    /\ Writing(p[2], <<"worker/repository", n>>, NoChannel)
    /\ Writing(p[3], <<"worker/service", n>>, NoChannel)
    /\ Writing(p[4], <<"worker/consumer", n>>, c)
    /\ Writing(p[5], <<"worker/mod", n>>, NoChannel)
    /\ Adding(p[6], "worker/modules/mod.rs", {<<"worker mod", n>>})
    /\ ChannelSteps(p, 6, c)
    /\ Adding(p[11], "worker/state.rs", {<<"consumer use", n>>})
    /\ Adding(p[12], "worker/state.rs", {<<"consumer repository", n>>, <<"consumer wiring", n>>})
    /\ Adding(p[13], "worker/state.rs", {<<"consumer", n>>})

LEMMA AnySix ==
    ASSUME NEW a, NEW b, NEW c, NEW d, NEW e, NEW f
    PROVE  \E S : <<a, b, c, d, e, f>> \in Seq(S)
<1>. DEFINE S == {a, b, c, d, e, f}
<1>1. a \in S /\ b \in S /\ c \in S /\ d \in S /\ e \in S /\ f \in S
  OBVIOUS
<1>. HIDE DEF S
<1>2. <<a, b, c, d, e, f>> \in Seq(S)
  BY <1>1, SixSteps
<1>. QED
  BY <1>2

LEMMA AnyThree ==
    ASSUME NEW a, NEW b, NEW c
    PROVE  \E S : <<a, b, c>> \in Seq(S)
<1>. <<a, b, c>> \in Seq({a, b, c})
  BY ThreeSteps
<1>. QED
  OBVIOUS

LEMMA SeqWider ==
    ASSUME NEW S, NEW T, NEW p \in Seq(S)
    PROVE  p \in Seq(S \cup T)
  OBVIOUS

LEMMA WorkerTable ==
    ASSUME NEW n \in Name, NEW c \in Channel
    PROVE  Len(ScaffoldWorker(n, c)) = 13 /\ WorkerSteps(ScaffoldWorker(n, c), n, c)
<1>. DEFINE W == <<Write("worker/dto", n, NoChannel), Write("worker/repository", n, NoChannel),
                   Write("worker/service", n, NoChannel), Write("worker/consumer", n, c),
                   Write("worker/mod", n, NoChannel),
                   AppendModule("worker/modules/mod.rs", <<"worker mod", n>>)>>
            Q == AddQueueChannel(c)
            I == <<InsertAfter("worker/state.rs", Fixed, {<<"consumer use", n>>}),
                   InsertAfter("worker/state.rs", <<"consumer wiring", Example>>,
                               {<<"consumer repository", n>>, <<"consumer wiring", n>>}),
                   InsertAfter("worker/state.rs", Fixed, {<<"consumer", n>>})>>
            p == W \o Q \o I
<1>1. \E S : W \in Seq(S) /\ Q \in Seq(S) /\ I \in Seq(S)
  <2>1. PICK U : W \in Seq(U)
    BY AnySix
  <2>2. PICK V : I \in Seq(V)
    BY AnyThree
  <2>3. Q \in Seq(AnyStep)
    BY AddQueueChannelSteps
  <2>. HIDE DEF W, Q, I
  <2>4. /\ W \in Seq(U \cup (V \cup AnyStep)) /\ I \in Seq(V \cup (U \cup AnyStep))
        /\ Q \in Seq(AnyStep \cup (U \cup V))
    BY <2>1, <2>2, <2>3, SeqWider, Zenon
  <2>5. V \cup (U \cup AnyStep) = U \cup (V \cup AnyStep) /\ AnyStep \cup (U \cup V) = U \cup (V \cup AnyStep)
    OBVIOUS
  <2>. QED
    BY <2>4, <2>5, Zenon
<1>3. Len(W) = 6 /\ Len(I) = 3
  OBVIOUS
<1>4. /\ W[1] = Write("worker/dto", n, NoChannel) /\ W[2] = Write("worker/repository", n, NoChannel)
      /\ W[3] = Write("worker/service", n, NoChannel) /\ W[4] = Write("worker/consumer", n, c)
      /\ W[5] = Write("worker/mod", n, NoChannel)
      /\ W[6] = AppendModule("worker/modules/mod.rs", <<"worker mod", n>>)
  OBVIOUS
<1>2. Len(Q) = 4
  BY AddQueueChannelTable
<1>5. /\ Asking(Q[1], c)
      /\ Adding(Q[2], "queue/channel.rs", {<<"variant", c>>})
      /\ Adding(Q[3], "queue/channel.rs", {<<"listed", c>>})
      /\ Adding(Q[4], "queue/channel.rs", {<<"arm", c>>})
  BY AddQueueChannelTable, Zenon
<1>6. /\ I[1] = InsertAfter("worker/state.rs", Fixed, {<<"consumer use", n>>})
      /\ I[2] = InsertAfter("worker/state.rs", <<"consumer wiring", Example>>,
                            {<<"consumer repository", n>>, <<"consumer wiring", n>>})
      /\ I[3] = InsertAfter("worker/state.rs", Fixed, {<<"consumer", n>>})
  OBVIOUS
<1>7. ScaffoldWorker(n, c) = p
  BY DEF ScaffoldWorker
<1>. HIDE DEF W, Q, I, p
<1>8. /\ Len(p) = Len(W) + Len(Q) + Len(I)
      /\ \A k \in 1..Len(W) : p[k] = W[k]
      /\ \A k \in 1..Len(Q) : p[Len(W) + k] = Q[k]
      /\ \A k \in 1..Len(I) : p[Len(W) + Len(Q) + k] = I[k]
  <2>1. p = W \o Q \o I
    BY DEF p
  <2>. QED
    BY <2>1, <1>1
<1>9. Len(p) = 13
  BY <1>2, <1>3, <1>8
<1>10. /\ p[1] = W[1] /\ p[2] = W[2] /\ p[3] = W[3] /\ p[4] = W[4] /\ p[5] = W[5] /\ p[6] = W[6]
  BY <1>3, <1>8
<1>11. p[6 + 1] = Q[1] /\ p[6 + 2] = Q[2] /\ p[6 + 3] = Q[3] /\ p[6 + 4] = Q[4]
  BY <1>2, <1>3, <1>8
<1>12. p[11] = I[1] /\ p[12] = I[2] /\ p[13] = I[3]
  BY <1>2, <1>3, <1>8
<1>13. ChannelSteps(p, 6, c)
  BY <1>5, <1>11, Zenon DEF ChannelSteps
<1>14. /\ Writing(p[1], <<"worker/dto", n>>, NoChannel)
       /\ Writing(p[2], <<"worker/repository", n>>, NoChannel)
       /\ Writing(p[3], <<"worker/service", n>>, NoChannel)
       /\ Writing(p[4], <<"worker/consumer", n>>, c)
       /\ Writing(p[5], <<"worker/mod", n>>, NoChannel)
  BY <1>4, <1>10, WriteWrites, Zenon
<1>15. Adding(p[6], "worker/modules/mod.rs", {<<"worker mod", n>>})
  BY <1>4, <1>10, AppendAdds, Zenon
<1>16. Adding(p[11], "worker/state.rs", {<<"consumer use", n>>})
  BY <1>6, <1>12, InsertAdds, Zenon
<1>17. Adding(p[12], "worker/state.rs", {<<"consumer repository", n>>, <<"consumer wiring", n>>})
  BY <1>6, <1>12, InsertAdds, Zenon
<1>18. Adding(p[13], "worker/state.rs", {<<"consumer", n>>})
  BY <1>6, <1>12, InsertAdds, Zenon
<1>. QED
  BY <1>7, <1>9, <1>13, <1>14, <1>15, <1>16, <1>17, <1>18, Zenon DEF WorkerSteps

WebSteps(p, n) ==
    /\ Writing(p[1], <<"web/dto", n>>, NoChannel)
    /\ Writing(p[2], <<"web/service", n>>, NoChannel)
    /\ Writing(p[3], <<"web/actions", n>>, NoChannel)
    /\ Writing(p[4], <<"web/crud", n>>, NoChannel)
    /\ Writing(p[5], <<"web/index", n>>, NoChannel)

LEMMA WebTable ==
    ASSUME NEW n
    PROVE  Len(ScaffoldWeb(n)) = 5 /\ WebSteps(ScaffoldWeb(n), n)
<1> DEFINE p == ScaffoldWeb(n)
<1>1. /\ Len(p) = 5
      /\ p[1] = Write("web/dto", n, NoChannel) /\ p[2] = Write("web/service", n, NoChannel)
      /\ p[3] = Write("web/actions", n, NoChannel) /\ p[4] = Write("web/crud", n, NoChannel)
      /\ p[5] = Write("web/index", n, NoChannel)
  BY DEF ScaffoldWeb
<1> HIDE DEF p
<1>2. WebSteps(p, n)
  BY <1>1, WriteWrites, Zenon DEF WebSteps
<1> QED
  BY <1>1, <1>2 DEF p

-----------------------------------------------------------------------------
(* What the plans have in common.                                          *)

IsInsert(s) == s.op \in {"append", "insert"}

\* The files that a line declares, and the module they belong to.
DeclaredBy(l) ==
    CASE l[1] = "entities mod" -> Of(l[2], {"entity"})
      [] l[1] = "api mod" -> Of(l[2], Kinds("api"))
      [] l[1] = "worker mod" -> Of(l[2], Kinds("worker"))
      [] l[1] = "migration mod" -> Of(l[2], {"migration"})
      [] OTHER -> {}

Declaring == {"entities mod", "api mod", "worker mod", "migration mod"}

LEMMA DeclaresNothing ==
    ASSUME NEW l, l[1] \notin Declaring
    PROVE  DeclaredBy(l) = {}
  BY DEF DeclaredBy, Declaring

LEMMA Declares ==
    ASSUME NEW x
    PROVE  /\ DeclaredBy(<<"entities mod", x>>) = {<<"entity", x>>}
           /\ DeclaredBy(<<"api mod", x>>) = Of(x, Kinds("api"))
           /\ DeclaredBy(<<"worker mod", x>>) = Of(x, Kinds("worker"))
           /\ DeclaredBy(<<"migration mod", x>>) = {<<"migration", x>>}
<1>1. DeclaredBy(<<"entities mod", x>>) = {<<"entity", x>>}
  BY DEF DeclaredBy, Of
<1>2. DeclaredBy(<<"api mod", x>>) = Of(x, Kinds("api"))
  BY DEF DeclaredBy
<1>3. DeclaredBy(<<"worker mod", x>>) = Of(x, Kinds("worker"))
  BY DEF DeclaredBy
<1>4. DeclaredBy(<<"migration mod", x>>) = {<<"migration", x>>}
  BY DEF DeclaredBy, Of
<1>. QED
  BY <1>1, <1>2, <1>3, <1>4

LEMMA KindsFiles ==
    ASSUME NEW x
    PROVE  /\ Of(x, Kinds("api")) = {<<"api/dto", x>>, <<"api/repository", x>>, <<"api/service", x>>,
                                     <<"api/controller", x>>, <<"api/route", x>>, <<"api/mod", x>>}
           /\ Of(x, Kinds("worker")) = {<<"worker/dto", x>>, <<"worker/repository", x>>,
                                        <<"worker/service", x>>, <<"worker/consumer", x>>,
                                        <<"worker/mod", x>>}
<1>1. Of(x, Kinds("api")) = {<<"api/dto", x>>, <<"api/repository", x>>, <<"api/service", x>>,
                             <<"api/controller", x>>, <<"api/route", x>>, <<"api/mod", x>>}
  BY DEF Of, Kinds
<1>2. Of(x, Kinds("worker")) = {<<"worker/dto", x>>, <<"worker/repository", x>>,
                                <<"worker/service", x>>, <<"worker/consumer", x>>,
                                <<"worker/mod", x>>}
  BY DEF Of, Kinds
<1>. QED
  BY <1>1, <1>2

\* A step that declares nothing, and that is of the module n or of a channel.
Harmless(s, n) ==
    /\ s.op = "write" => s.file[1] = "migration" \/ s.file[2] = n
    /\ IsInsert(s) => \A l \in s.block : l \notin ExampleLines(s.file)

Quiet(s) == IsInsert(s) => \A l \in s.block : DeclaredBy(l) = {}

LEMMA WritingHarmless ==
    ASSUME NEW s, NEW k, NEW n, NEW c, Writing(s, <<k, n>>, c)
    PROVE  Harmless(s, n) /\ Quiet(s) /\ s.op # "check"
  BY DEF Writing, Harmless, Quiet, IsInsert

LEMMA MigrationHarmless ==
    ASSUME NEW s, NEW n, NEW x, NEW c, Writing(s, <<"migration", x>>, c)
    PROVE  Harmless(s, n) /\ Quiet(s) /\ s.op # "check"
  BY DEF Writing, Harmless, Quiet, IsInsert

LEMMA AskingHarmless ==
    ASSUME NEW s, NEW n, NEW c, Asking(s, c)
    PROVE  Harmless(s, n) /\ Quiet(s)
  BY DEF Asking, Harmless, Quiet, IsInsert

LEMMA NotOfExample ==
    ASSUME NEW f, NEW w, NEW n \in Name
    PROVE  <<w, n>> \notin ExampleLines(f)
  BY ConstantsAssumption DEF ExampleLines

LEMMA NoExampleThere ==
    /\ ExampleLines("queue/channel.rs") = {}
    /\ ExampleLines("migration/lib.rs") = {}
  BY DEF ExampleLines

LEMMA AddingHarmless ==
    ASSUME NEW s, NEW f, NEW w, NEW n \in Name, Adding(s, f, {<<w, n>>})
    PROVE  Harmless(s, n) /\ s.op # "check" /\ (w \notin Declaring => Quiet(s))
<1>1. IsInsert(s) /\ s.op # "write" /\ s.op # "check" /\ s.file = f /\ s.block = {<<w, n>>}
  BY DEF Adding, IsInsert
<1>2. <<w, n>> \notin ExampleLines(f)
  BY NotOfExample
<1>3. w \notin Declaring => DeclaredBy(<<w, n>>) = {}
  BY DeclaresNothing
<1>. QED
  BY <1>1, <1>2, <1>3 DEF Harmless, Quiet

LEMMA AddingTwoHarmless ==
    ASSUME NEW s, NEW f, NEW w, NEW v, NEW n \in Name, Adding(s, f, {<<w, n>>, <<v, n>>})
    PROVE  Harmless(s, n) /\ s.op # "check" /\ (w \notin Declaring /\ v \notin Declaring => Quiet(s))
<1>1. IsInsert(s) /\ s.op # "write" /\ s.op # "check" /\ s.file = f /\ s.block = {<<w, n>>, <<v, n>>}
  BY DEF Adding, IsInsert
<1>2. <<w, n>> \notin ExampleLines(f) /\ <<v, n>> \notin ExampleLines(f)
  BY NotOfExample
<1>3. /\ w \notin Declaring => DeclaredBy(<<w, n>>) = {}
      /\ v \notin Declaring => DeclaredBy(<<v, n>>) = {}
  BY DeclaresNothing
<1>. QED
  BY <1>1, <1>2, <1>3 DEF Harmless, Quiet

LEMMA SharedHarmless ==
    ASSUME NEW s, NEW n, NEW f \in {"queue/channel.rs", "migration/lib.rs"}, NEW w, NEW x,
           Adding(s, f, {<<w, x>>})
    PROVE  Harmless(s, n) /\ s.op # "check" /\ (w \notin Declaring => Quiet(s))
<1>1. IsInsert(s) /\ s.op # "write" /\ s.op # "check" /\ s.file = f /\ s.block = {<<w, x>>}
  BY DEF Adding, IsInsert
<1>2. ExampleLines(f) = {}
  BY NoExampleThere
<1>3. w \notin Declaring => DeclaredBy(<<w, x>>) = {}
  BY DeclaresNothing
<1>. QED
  BY <1>1, <1>2, <1>3 DEF Harmless, Quiet

Backed(p, k) ==
    IsInsert(p[k]) =>
      \A l \in p[k].block : \A f \in DeclaredBy(l) :
        \E j \in 1..(k - 1) : p[j].op = "write" /\ p[j].file = f

\* A module is written before it is declared, and what a run may pass over is about
\* the channel.
Ordered(p, n) ==
    \A k \in 1..Len(p) :
      /\ Harmless(p[k], n)
      /\ Backed(p, k)
      /\ p[k].op = "check" =>
           /\ k + 3 <= Len(p)
           /\ \A j \in (k + 1)..(k + 3) : IsInsert(p[j]) /\ p[j].file = "queue/channel.rs"

LEMMA WritingIs ==
    ASSUME NEW s, NEW f, NEW d, Writing(s, f, d)
    PROVE  s.op = "write" /\ s.file = f
  BY DEF Writing

LEMMA QuietBacked ==
    ASSUME NEW p, NEW k, Quiet(p[k])
    PROVE  Backed(p, k)
  BY DEF Quiet, Backed

LEMMA ChannelOrdered ==
    ASSUME NEW p, NEW i \in Nat, NEW n, NEW c, ChannelSteps(p, i, c)
    PROVE  /\ \A k \in (i + 1)..(i + 4) : Harmless(p[k], n) /\ Quiet(p[k])
           /\ \A k \in (i + 2)..(i + 4) : IsInsert(p[k]) /\ p[k].file = "queue/channel.rs"
<1>1. /\ Asking(p[i + 1], c)
      /\ Adding(p[i + 2], "queue/channel.rs", {<<"variant", c>>})
      /\ Adding(p[i + 3], "queue/channel.rs", {<<"listed", c>>})
      /\ Adding(p[i + 4], "queue/channel.rs", {<<"arm", c>>})
  BY DEF ChannelSteps
<1>2. "variant" \notin Declaring /\ "listed" \notin Declaring /\ "arm" \notin Declaring
  BY DEF Declaring
<1>3. Harmless(p[i + 1], n) /\ Quiet(p[i + 1])
  BY <1>1, AskingHarmless
<1>4. ASSUME NEW k \in {i + 2, i + 3, i + 4}, NEW w, w \notin Declaring,
             Adding(p[k], "queue/channel.rs", {<<w, c>>})
      PROVE  Harmless(p[k], n) /\ Quiet(p[k]) /\ IsInsert(p[k]) /\ p[k].file = "queue/channel.rs"
  <2>1. Harmless(p[k], n) /\ Quiet(p[k])
    BY <1>4, SharedHarmless
  <2>2. IsInsert(p[k]) /\ p[k].file = "queue/channel.rs"
    BY <1>4 DEF Adding, IsInsert
  <2>. QED
    BY <2>1, <2>2
<1>5. \A k \in {i + 2, i + 3, i + 4} :
        Harmless(p[k], n) /\ Quiet(p[k]) /\ IsInsert(p[k]) /\ p[k].file = "queue/channel.rs"
  BY <1>1, <1>2, <1>4, Zenon
<1>6. \A k \in (i + 1)..(i + 4) : k = i + 1 \/ k \in {i + 2, i + 3, i + 4}
  OBVIOUS
<1>7. \A k \in (i + 2)..(i + 4) : k \in {i + 2, i + 3, i + 4}
  OBVIOUS
<1>. QED
  BY <1>3, <1>5, <1>6, <1>7, Zenon

LEMMA ApiOrdered ==
    ASSUME NEW n \in Name, NEW c, NEW s, NEW p, ApiSteps(p, n, c, s),
           Len(p) = IF c = NoChannel THEN 19 ELSE 23
    PROVE  Ordered(p, n)
<1>1. /\ Writing(p[1], <<"entity", n>>, NoChannel)
      /\ Adding(p[2], "entities/mod.rs", {<<"entities mod", n>>})
      /\ Writing(p[3], <<"migration", <<n, s>>>>, NoChannel)
      /\ Adding(p[4], "migration/lib.rs", {<<"migration mod", <<n, s>>>>})
      /\ Adding(p[5], "migration/lib.rs", {<<"migration boxed", <<n, s>>>>})
  BY Zenon DEF ApiSteps, EntitySteps
<1>2. /\ Writing(p[6], <<"api/dto", n>>, NoChannel)
      /\ Writing(p[7], <<"api/repository", n>>, NoChannel)
      /\ Writing(p[8], <<"api/service", n>>, c)
      /\ Writing(p[9], <<"api/controller", n>>, c)
      /\ Writing(p[10], <<"api/route", n>>, c)
      /\ Writing(p[11], <<"api/mod", n>>, NoChannel)
  BY Zenon DEF ApiSteps
<1>3. /\ Adding(p[12], "api/modules/mod.rs", {<<"api mod", n>>})
      /\ Adding(p[13], "api/state.rs", {<<"use", n>>})
      /\ Adding(p[14], "api/state.rs", {<<"field", n>>})
      /\ Adding(p[15], "api/state.rs", Binding(n, c))
      /\ Adding(p[16], "api/state.rs", {<<"value", n>>})
      /\ Adding(p[17], "api/lib.rs", {<<"routes use", n>>})
      /\ Adding(p[18], "api/lib.rs", {<<"nest", n>>})
      /\ Adding(p[19], "api/lib.rs", {<<"docs", n>>})
  BY Zenon DEF ApiSteps
\* The writes.
<1>4. \A k \in {1, 3, 6, 7, 8, 9, 10, 11} : Harmless(p[k], n) /\ Quiet(p[k]) /\ p[k].op # "check"
  <2>1. ASSUME NEW k, NEW w, NEW d, Writing(p[k], <<w, n>>, d)
        PROVE  Harmless(p[k], n) /\ Quiet(p[k]) /\ p[k].op # "check"
    BY <2>1, WritingHarmless
  <2>2. Harmless(p[3], n) /\ Quiet(p[3]) /\ p[3].op # "check"
    BY <1>1, MigrationHarmless
  <2>3. Harmless(p[1], n) /\ Quiet(p[1]) /\ p[1].op # "check"
    BY <1>1, <2>1, Zenon
  <2>4. \A k \in {6, 7, 8, 9, 10, 11} : Harmless(p[k], n) /\ Quiet(p[k]) /\ p[k].op # "check"
    BY <1>2, <2>1, Zenon
  <2>. QED
    BY <2>2, <2>3, <2>4
\* The lines that declare nothing.
<1>5. \A k \in {5, 13, 14, 15, 16, 17, 18, 19} : Harmless(p[k], n) /\ Quiet(p[k]) /\ p[k].op # "check"
  <2>1. ASSUME NEW k, NEW f, NEW w, w \notin Declaring, Adding(p[k], f, {<<w, n>>})
        PROVE  Harmless(p[k], n) /\ Quiet(p[k]) /\ p[k].op # "check"
    BY <2>1, AddingHarmless
  <2>2. \A w \in {"migration boxed", "use", "field", "value", "routes use", "nest", "docs",
                  "repository", "wiring", "wiring with pool"} : w \notin Declaring
    BY DEF Declaring
  <2>3. Harmless(p[5], n) /\ Quiet(p[5]) /\ p[5].op # "check"
    BY <1>1, <2>2, SharedHarmless
  <2>4. Harmless(p[15], n) /\ Quiet(p[15]) /\ p[15].op # "check"
    <3>1. CASE c = NoChannel
      <4>1. Adding(p[15], "api/state.rs", {<<"repository", n>>, <<"wiring", n>>})
        BY <1>3, <3>1 DEF Binding
      <4>. QED
        BY <4>1, <2>2, AddingTwoHarmless
    <3>2. CASE c # NoChannel
      <4>1. Adding(p[15], "api/state.rs", {<<"repository", n>>, <<"wiring with pool", n>>})
        BY <1>3, <3>2 DEF Binding
      <4>. QED
        BY <4>1, <2>2, AddingTwoHarmless
    <3>. QED
      BY <3>1, <3>2
  <2>5. \A k \in {13, 14} : Harmless(p[k], n) /\ Quiet(p[k]) /\ p[k].op # "check"
    BY <1>3, <2>1, <2>2, Zenon
  <2>6. \A k \in {16, 17, 18, 19} : Harmless(p[k], n) /\ Quiet(p[k]) /\ p[k].op # "check"
    BY <1>3, <2>1, <2>2, Zenon
  <2>. QED
    BY <2>3, <2>4, <2>5, <2>6
\* The lines that declare, after the writes.
<1>6. \A k \in {2, 4, 12} : Harmless(p[k], n) /\ p[k].op # "check"
  <2>1. Harmless(p[2], n) /\ p[2].op # "check"
    BY <1>1, AddingHarmless
  <2>2. Harmless(p[4], n) /\ p[4].op # "check"
    BY <1>1, SharedHarmless
  <2>3. Harmless(p[12], n) /\ p[12].op # "check"
    BY <1>3, AddingHarmless
  <2>. QED
    BY <2>1, <2>2, <2>3
<1>8. Backed(p, 2)
  <2>1. p[2].block = {<<"entities mod", n>>}
    BY <1>1 DEF Adding
  <2>2. p[1].op = "write" /\ p[1].file = <<"entity", n>>
    BY <1>1, WritingIs, Zenon
  <2>3. \E i \in 1..(2 - 1) : p[i].op = "write" /\ p[i].file = <<"entity", n>>
    BY <2>2
  <2>. QED
    BY <2>1, <2>3, Declares DEF Backed
<1>9. Backed(p, 4)
  <2>1. p[4].block = {<<"migration mod", <<n, s>>>>}
    BY <1>1 DEF Adding
  <2>2. p[3].op = "write" /\ p[3].file = <<"migration", <<n, s>>>>
    BY <1>1, WritingIs, Zenon
  <2>3. \E i \in 1..(4 - 1) : p[i].op = "write" /\ p[i].file = <<"migration", <<n, s>>>>
    BY <2>2
  <2>. QED
    BY <2>1, <2>3, Declares DEF Backed
<1>10. Backed(p, 12)
  <2>1. p[12].block = {<<"api mod", n>>}
    BY <1>3 DEF Adding
  <2>2. p[6].op = "write" /\ p[6].file = <<"api/dto", n>>
    BY <1>2, WritingIs, Zenon
  <2>3. p[7].op = "write" /\ p[7].file = <<"api/repository", n>>
    BY <1>2, WritingIs, Zenon
  <2>4. p[8].op = "write" /\ p[8].file = <<"api/service", n>>
    BY <1>2, WritingIs, Zenon
  <2>5. p[9].op = "write" /\ p[9].file = <<"api/controller", n>>
    BY <1>2, WritingIs, Zenon
  <2>6. p[10].op = "write" /\ p[10].file = <<"api/route", n>>
    BY <1>2, WritingIs, Zenon
  <2>7. p[11].op = "write" /\ p[11].file = <<"api/mod", n>>
    BY <1>2, WritingIs, Zenon
  <2>8. ASSUME NEW f \in Of(n, Kinds("api"))
        PROVE  \E i \in 1..(12 - 1) : p[i].op = "write" /\ p[i].file = f
    <3>1. \/ f = <<"api/dto", n>> \/ f = <<"api/repository", n>> \/ f = <<"api/service", n>>
          \/ f = <<"api/controller", n>> \/ f = <<"api/route", n>> \/ f = <<"api/mod", n>>
         
      BY KindsFiles
    <3>. QED
      BY <3>1, <2>2, <2>3, <2>4, <2>5, <2>6, <2>7
  <2>9. DeclaredBy(<<"api mod", n>>) = Of(n, Kinds("api"))
    BY Declares, Zenon
  <2>10. ASSUME NEW l \in p[12].block, NEW f \in DeclaredBy(l)
        PROVE  \E i \in 1..(12 - 1) : p[i].op = "write" /\ p[i].file = f
    <3>1. l = <<"api mod", n>>
      BY <2>1
    <3>2. f \in Of(n, Kinds("api"))
      BY <2>9, <3>1, Zenon
    <3>. QED
      BY <2>8, <3>2, Zenon
  <2>. QED
    BY <2>10 DEF Backed
<1>11. \A k \in 1..19 : Harmless(p[k], n) /\ Backed(p, k) /\ p[k].op # "check"
  <2>1. \A k \in 1..19 : k \in {1, 3, 6, 7, 8, 9, 10, 11} \/ k \in {5, 13, 14, 15, 16, 17, 18, 19}
                         \/ k \in {2, 4, 12}
    OBVIOUS
  <2>2. \A k \in {2, 4, 12} : Backed(p, k)
    BY <1>8, <1>9, <1>10
  <2>. QED
    BY <2>1, <2>2, <1>4, <1>5, <1>6, QuietBacked, Zenon
<1>12. CASE c = NoChannel
  BY <1>11, <1>12 DEF Ordered
<1>13. CASE c # NoChannel
  <2>1. Len(p) = 23
    BY <1>13
  <2>2. ChannelSteps(p, 19, c)
    BY <1>13 DEF ApiSteps
  <2>3. /\ \A k \in 20..23 : Harmless(p[k], n) /\ Quiet(p[k])
        /\ \A k \in 21..23 : IsInsert(p[k]) /\ p[k].file = "queue/channel.rs"
    <3>1. 19 \in Nat
      OBVIOUS
    <3>2. /\ \A k \in (19 + 1)..(19 + 4) : Harmless(p[k], n) /\ Quiet(p[k])
          /\ \A k \in (19 + 2)..(19 + 4) : IsInsert(p[k]) /\ p[k].file = "queue/channel.rs"
      BY <3>1, <2>2, ChannelOrdered, Zenon
    <3>. QED
      BY <3>2
  <2>4. \A k \in 20..23 : Backed(p, k)
    BY <2>3, QuietBacked
  <2>5. \A k \in 21..23 : p[k].op # "check"
    BY <2>3 DEF IsInsert
  <2>6. ASSUME NEW k \in 1..23, p[k].op = "check" PROVE k = 20
    BY <1>11, <2>5, <2>6
  <2>. QED
    BY <1>11, <2>1, <2>3, <2>4, <2>6 DEF Ordered
<1>. QED
  BY <1>12, <1>13

LEMMA WorkerOrdered ==
    ASSUME NEW n \in Name, NEW c, NEW p, WorkerSteps(p, n, c), Len(p) = 13
    PROVE  Ordered(p, n)
<1>1. /\ Writing(p[1], <<"worker/dto", n>>, NoChannel)
      /\ Writing(p[2], <<"worker/repository", n>>, NoChannel)
      /\ Writing(p[3], <<"worker/service", n>>, NoChannel)
      /\ Writing(p[4], <<"worker/consumer", n>>, c)
      /\ Writing(p[5], <<"worker/mod", n>>, NoChannel)
  BY Zenon DEF WorkerSteps
<1>2. /\ Adding(p[6], "worker/modules/mod.rs", {<<"worker mod", n>>})
      /\ ChannelSteps(p, 6, c)
      /\ Adding(p[11], "worker/state.rs", {<<"consumer use", n>>})
      /\ Adding(p[12], "worker/state.rs", {<<"consumer repository", n>>, <<"consumer wiring", n>>})
      /\ Adding(p[13], "worker/state.rs", {<<"consumer", n>>})
  BY Zenon DEF WorkerSteps
<1>3. \A k \in 1..5 : Harmless(p[k], n) /\ Quiet(p[k]) /\ p[k].op # "check"
  <2>1. ASSUME NEW k, NEW w, NEW d, Writing(p[k], <<w, n>>, d)
        PROVE  Harmless(p[k], n) /\ Quiet(p[k]) /\ p[k].op # "check"
    BY <2>1, WritingHarmless
  <2>2. \A k \in {1, 2, 3, 4, 5} : Harmless(p[k], n) /\ Quiet(p[k]) /\ p[k].op # "check"
    BY <1>1, <2>1, Zenon
  <2>3. \A k \in 1..5 : k \in {1, 2, 3, 4, 5}
    OBVIOUS
  <2>. QED
    BY <2>2, <2>3, Zenon
<1>4. \A k \in {11, 12, 13} : Harmless(p[k], n) /\ Quiet(p[k]) /\ p[k].op # "check"
  <2>1. \A w \in {"consumer use", "consumer repository", "consumer wiring", "consumer"} :
          w \notin Declaring
    BY DEF Declaring
  <2>2. Harmless(p[11], n) /\ Quiet(p[11]) /\ p[11].op # "check"
    BY <1>2, <2>1, AddingHarmless
  <2>3. Harmless(p[12], n) /\ Quiet(p[12]) /\ p[12].op # "check"
    BY <1>2, <2>1, AddingTwoHarmless
  <2>4. Harmless(p[13], n) /\ Quiet(p[13]) /\ p[13].op # "check"
    BY <1>2, <2>1, AddingHarmless
  <2>. QED
    BY <2>2, <2>3, <2>4
<1>5. Harmless(p[6], n) /\ p[6].op # "check"
  BY <1>2, AddingHarmless
<1>6. Backed(p, 6)
  <2>1. p[6].block = {<<"worker mod", n>>}
    BY <1>2 DEF Adding
  <2>2. p[1].op = "write" /\ p[1].file = <<"worker/dto", n>>
    BY <1>1, WritingIs, Zenon
  <2>3. p[2].op = "write" /\ p[2].file = <<"worker/repository", n>>
    BY <1>1, WritingIs, Zenon
  <2>4. p[3].op = "write" /\ p[3].file = <<"worker/service", n>>
    BY <1>1, WritingIs, Zenon
  <2>5. p[4].op = "write" /\ p[4].file = <<"worker/consumer", n>>
    BY <1>1, WritingIs, Zenon
  <2>6. p[5].op = "write" /\ p[5].file = <<"worker/mod", n>>
    BY <1>1, WritingIs, Zenon
  <2>7. ASSUME NEW f \in Of(n, Kinds("worker"))
        PROVE  \E i \in 1..(6 - 1) : p[i].op = "write" /\ p[i].file = f
    <3>1. \/ f = <<"worker/dto", n>> \/ f = <<"worker/repository", n>> \/ f = <<"worker/service", n>>
          \/ f = <<"worker/consumer", n>> \/ f = <<"worker/mod", n>>
      BY KindsFiles
    <3>. QED
      BY <3>1, <2>2, <2>3, <2>4, <2>5, <2>6
  <2>8. DeclaredBy(<<"worker mod", n>>) = Of(n, Kinds("worker"))
    BY Declares, Zenon
  <2>9. ASSUME NEW l \in p[6].block, NEW f \in DeclaredBy(l)
        PROVE  \E i \in 1..(6 - 1) : p[i].op = "write" /\ p[i].file = f
    <3>1. l = <<"worker mod", n>>
      BY <2>1
    <3>2. f \in Of(n, Kinds("worker"))
      BY <2>8, <3>1, Zenon
    <3>. QED
      BY <2>7, <3>2, Zenon
  <2>. QED
    BY <2>9 DEF Backed
<1>7. /\ \A k \in 7..10 : Harmless(p[k], n) /\ Quiet(p[k])
      /\ \A k \in 8..10 : IsInsert(p[k]) /\ p[k].file = "queue/channel.rs"
  <2>1. 6 \in Nat
    OBVIOUS
  <2>2. /\ \A k \in (6 + 1)..(6 + 4) : Harmless(p[k], n) /\ Quiet(p[k])
        /\ \A k \in (6 + 2)..(6 + 4) : IsInsert(p[k]) /\ p[k].file = "queue/channel.rs"
    BY <2>1, <1>2, ChannelOrdered, Zenon
  <2>. QED
    BY <2>2
<1>8. \A k \in 1..13 : Harmless(p[k], n) /\ Backed(p, k)
  <2>1. \A k \in 1..13 : k \in 1..5 \/ k = 6 \/ k \in 7..10 \/ k \in {11, 12, 13}
    OBVIOUS
  <2>. QED
    BY <2>1, <1>3, <1>4, <1>5, <1>6, <1>7, QuietBacked, Zenon
<1>9. ASSUME NEW k \in 1..13, p[k].op = "check" PROVE k = 7
  <2>1. \A j \in 8..10 : p[j].op # "check"
    BY <1>7 DEF IsInsert
  <2>2. k \in 1..5 \/ k = 6 \/ k = 7 \/ k \in 8..10 \/ k \in {11, 12, 13}
    OBVIOUS
  <2>. QED
    BY <2>1, <2>2, <1>3, <1>4, <1>5, <1>9, Zenon
<1>. QED
  BY <1>7, <1>8, <1>9 DEF Ordered

LEMMA WebOrdered ==
    ASSUME NEW n \in Name, NEW p, WebSteps(p, n), Len(p) = 5
    PROVE  Ordered(p, n)
<1>1. ASSUME NEW k, NEW w, NEW d, Writing(p[k], <<w, n>>, d)
      PROVE  Harmless(p[k], n) /\ Quiet(p[k]) /\ p[k].op # "check"
  BY <1>1, WritingHarmless
<1>2. \A k \in {1, 2, 3, 4, 5} : Harmless(p[k], n) /\ Quiet(p[k]) /\ p[k].op # "check"
  BY <1>1, Zenon DEF WebSteps
<1>3. \A k \in 1..5 : Harmless(p[k], n) /\ Backed(p, k) /\ p[k].op # "check"
  BY <1>2, QuietBacked
<1>. QED
  BY <1>3 DEF Ordered

\* Every run does things in order.
LEMMA PlanOrdered ==
    ASSUME NEW r \in Run
    PROVE  Ordered(Plan(r), r.cmd.name)
<1>1. r.cmd \in Command /\ r.stamp \in 1..MaxRuns
  BY DEF Run
<1>2. CASE r.cmd.app = "api"
  <2>1. r.cmd.name \in Name /\ r.cmd.channel \in Channel \cup {NoChannel}
    BY <1>1, ConstantsAssumption DEF Command
  <2>2. Plan(r) = ScaffoldApi(r.cmd.name, r.cmd.channel, r.stamp)
    BY <1>2 DEF Plan
  <2>. QED
    BY <2>1, <2>2, <1>1, ApiTable, ApiOrdered
<1>3. CASE r.cmd.app = "worker"
  <2>1. r.cmd.name \in Name /\ r.cmd.channel \in Channel
    BY <1>1, <1>3 DEF Command
  <2>2. Plan(r) = ScaffoldWorker(r.cmd.name, r.cmd.channel)
    BY <1>3 DEF Plan
  <2>. QED
    BY <2>1, <2>2, WorkerTable, WorkerOrdered
<1>4. CASE r.cmd.app = "web"
  <2>1. r.cmd.name \in Name
    BY <1>1, <1>4 DEF Command
  <2>2. Plan(r) = ScaffoldWeb(r.cmd.name)
    BY <1>4 DEF Plan
  <2>. QED
    BY <2>1, <2>2, WebTable, WebOrdered
<1>5. r.cmd.app \in {"api", "worker", "web"}
  BY <1>1 DEF Command
<1>. QED
  BY <1>2, <1>3, <1>4, <1>5

-----------------------------------------------------------------------------
(* What runs have written, declared and wired.                             *)

\* The module that a line belongs to.
OwnerOf(l) == IF l[1] = "migration mod" THEN l[2][1] ELSE l[2]

\* The steps a run that was neither killed nor failed has behind it.
Behind(t) == {k \in 1..Len(Plan(run[t])) : k < run[t].at}
Going(t) == run[t].st \in {"running", "done"}

WrittenInv ==
    \A t \in Terminal : Going(t) =>
      \A k \in Behind(t) : Plan(run[t])[k].op = "write" =>
        \/ Plan(run[t])[k].file \in DOMAIN made
        \/ run[t].st = "done" /\ run[t].cmd.name \in removed

Kept(l) == OwnerOf(l) \in removed \/ DeclaredBy(l) \subseteq DOMAIN made

DeclInv ==
    /\ \A f \in Shared : \A l \in DOMAIN text[f] : Kept(l)
    /\ \A t \in Terminal : PendingInsert(t) => \A l \in DOMAIN seen[t] : Kept(l)

\* A line is in a file, and in whatever is about to be written over it.
Settled(f, l) ==
    /\ l \in DOMAIN text[f]
    /\ \A u \in Terminal : PendingInsert(u) /\ Step(u).file = f => l \in DOMAIN seen[u]

WiredInv ==
    \A t \in Terminal : Going(t) =>
      /\ run[t].st = "done" => run[t].at > Len(Plan(run[t]))
      /\ run[t].alone /\ ~run[t].warned =>
           \A k \in Behind(t) : IsInsert(Plan(run[t])[k]) =>
             \/ run[t].silent /\ Plan(run[t])[k].file = "queue/channel.rs"
             \/ \A l \in Plan(run[t])[k].block : Settled(Plan(run[t])[k].file, l)

\* What is left as it was in the record of a run that takes a step, and elsewhere.
Same(t) ==
    /\ run'[t].cmd = run[t].cmd /\ run'[t].stamp = run[t].stamp /\ run'[t].alone = run[t].alone
    /\ \A u \in Terminal \ {t} : run'[u] = run[u]

LookedAt(t) ==
    /\ Same(t) /\ run'[t].at = run[t].at /\ run'[t].st = run[t].st /\ run'[t].looked = TRUE
    /\ run'[t].warned = run[t].warned /\ run'[t].silent = run[t].silent

WentOn(t, n) ==
    /\ Same(t) /\ run'[t].at = run[t].at + n /\ run'[t].st = run[t].st /\ run'[t].looked = FALSE

Ended(t, z) ==
    /\ Same(t) /\ run'[t].at = run[t].at /\ run'[t].st = z
    /\ run'[t].warned = run[t].warned /\ run'[t].silent = run[t].silent

LEMMA LooksFields ==
    ASSUME RunType, NEW t \in Running, Looks(t)
    PROVE  LookedAt(t)
<1>1. t \in Terminal /\ run[t] \in Run
  BY OwnStep
<1>2. run'[t] = [run[t] EXCEPT !.looked = TRUE] /\ \A u \in Terminal \ {t} : run'[u] = run[u]
  BY OwnStep
<1>. QED
  BY <1>1, <1>2 DEF LookedAt, Same, Run

LEMMA GoesFields ==
    ASSUME RunType, NEW t \in Running, NEW n \in Nat, Goes(t, n)
    PROVE  WentOn(t, n) /\ run'[t].warned = run[t].warned /\ run'[t].silent = run[t].silent
<1>1. t \in Terminal /\ run[t] \in Run
  BY OwnStep
<1>. DEFINE r == [run[t] EXCEPT !.at = run[t].at + n, !.looked = FALSE]
<1>2. run' = [run EXCEPT ![t] = r]
  BY <1>1 DEF Goes, RunType
<1>3. /\ r.cmd = run[t].cmd /\ r.stamp = run[t].stamp /\ r.alone = run[t].alone
      /\ r.at = run[t].at + n /\ r.st = run[t].st /\ r.looked = FALSE
      /\ r.warned = run[t].warned /\ r.silent = run[t].silent
  BY <1>1 DEF Run
<1>. HIDE DEF r
<1>4. run'[t] = r /\ \A u \in Terminal \ {t} : run'[u] = run[u]
  BY <1>1, <1>2 DEF RunType
<1>. QED
  BY <1>3, <1>4 DEF WentOn, Same

LEMMA WarnsFields ==
    ASSUME RunType, NEW t \in Running, Warns(t)
    PROVE  WentOn(t, 1) /\ run'[t].warned = TRUE /\ run'[t].silent = run[t].silent
<1>1. t \in Terminal /\ run[t] \in Run
  BY OwnStep
<1>. DEFINE r == [run[t] EXCEPT !.at = run[t].at + 1, !.looked = FALSE, !.warned = TRUE]
<1>2. run' = [run EXCEPT ![t] = r]
  BY <1>1 DEF Warns, RunType
<1>3. /\ r.cmd = run[t].cmd /\ r.stamp = run[t].stamp /\ r.alone = run[t].alone
      /\ r.at = run[t].at + 1 /\ r.st = run[t].st /\ r.looked = FALSE
      /\ r.warned = TRUE /\ r.silent = run[t].silent
  BY <1>1 DEF Run
<1>. HIDE DEF r
<1>4. run'[t] = r /\ \A u \in Terminal \ {t} : run'[u] = run[u]
  BY <1>1, <1>2 DEF RunType
<1>. QED
  BY <1>3, <1>4 DEF WentOn, Same

LEMMA SkipsFields ==
    ASSUME RunType, NEW t \in Running,
           run' = [run EXCEPT ![t] = [@ EXCEPT !.at = run[t].at + 4, !.silent = TRUE]]
    PROVE  /\ Same(t) /\ run'[t].at = run[t].at + 4 /\ run'[t].st = run[t].st
           /\ run'[t].looked = run[t].looked
           /\ run'[t].warned = run[t].warned /\ run'[t].silent = TRUE
<1>1. t \in Terminal /\ run[t] \in Run
  BY OwnStep
<1>. DEFINE r == [run[t] EXCEPT !.at = run[t].at + 4, !.silent = TRUE]
<1>2. run' = [run EXCEPT ![t] = r]
  BY <1>1 DEF RunType
<1>3. /\ r.cmd = run[t].cmd /\ r.stamp = run[t].stamp /\ r.alone = run[t].alone
      /\ r.at = run[t].at + 4 /\ r.st = run[t].st /\ r.looked = run[t].looked
      /\ r.warned = run[t].warned /\ r.silent = TRUE
  BY <1>1 DEF Run
<1>. HIDE DEF r
<1>4. run'[t] = r /\ \A u \in Terminal \ {t} : run'[u] = run[u]
  BY <1>1, <1>2 DEF RunType
<1>. QED
  BY <1>3, <1>4 DEF Same

LEMMA EndsFields ==
    ASSUME RunType, NEW t \in Running, NEW z, run' = [run EXCEPT ![t].st = z]
    PROVE  Ended(t, z)
<1>1. t \in Terminal /\ run[t] \in Run
  BY OwnStep
<1>. DEFINE r == [run[t] EXCEPT !.st = z]
<1>2. run' = [run EXCEPT ![t] = r]
  BY <1>1 DEF RunType
<1>3. /\ r.cmd = run[t].cmd /\ r.stamp = run[t].stamp /\ r.alone = run[t].alone
      /\ r.at = run[t].at /\ r.st = z
      /\ r.warned = run[t].warned /\ r.silent = run[t].silent
  BY <1>1 DEF Run
<1>. HIDE DEF r
<1>4. run'[t] = r /\ \A u \in Terminal \ {t} : run'[u] = run[u]
  BY <1>1, <1>2 DEF RunType
<1>. QED
  BY <1>3, <1>4 DEF Ended, Same

LEMMA KilledFields ==
    ASSUME RunType, NEW t \in Terminal, Killed(t)
    PROVE  Ended(t, "killed")
<1>1. t \in Running /\ run[t] \in Run
  BY OwnStep DEF Killed
<1>. DEFINE r == [run[t] EXCEPT !.st = "killed", !.looked = FALSE]
<1>2. run' = [run EXCEPT ![t] = r]
  BY <1>1 DEF Killed, RunType
<1>3. /\ r.cmd = run[t].cmd /\ r.stamp = run[t].stamp /\ r.alone = run[t].alone
      /\ r.at = run[t].at /\ r.st = "killed"
      /\ r.warned = run[t].warned /\ r.silent = run[t].silent
  BY <1>1 DEF Run
<1>. HIDE DEF r
<1>4. run'[t] = r /\ \A u \in Terminal \ {t} : run'[u] = run[u]
  BY <1>1, <1>2 DEF RunType
<1>. QED
  BY <1>3, <1>4 DEF Ended, Same

\* A new run is at its first step; the others only lose that they are alone.
LEMMA StartFields ==
    ASSUME RunType, NEW t \in Terminal, NEW cmd, Start(t, cmd)
    PROVE  /\ run'[t].st = "running" /\ run'[t].at = 1 /\ run'[t].looked = FALSE
           /\ run'[t].cmd = cmd /\ run'[t].warned = FALSE
           /\ run'[t].alone = (Running = {})
           /\ run'[t].stamp = started + 1 /\ run'[t].silent = FALSE
           /\ \A u \in Terminal \ {t} :
                /\ run'[u].st = run[u].st /\ run'[u].cmd = run[u].cmd
                /\ run'[u].stamp = run[u].stamp /\ run'[u].at = run[u].at
                /\ run'[u].looked = run[u].looked /\ run'[u].warned = run[u].warned
                /\ run'[u].silent = run[u].silent
                /\ run'[u].alone = run[u].alone \/ (u \in Running /\ run'[u].alone = FALSE)
<1>1. /\ run'[t].st = "running" /\ run'[t].at = 1 /\ run'[t].looked = FALSE
      /\ run'[t].cmd = cmd /\ run'[t].warned = FALSE
      /\ run'[t].alone = (Running = {})
      /\ run'[t].stamp = started + 1 /\ run'[t].silent = FALSE
  BY DEF Start
<1>2. ASSUME NEW u \in Terminal, u # t, u \notin Running PROVE run'[u] = run[u]
  BY <1>2 DEF Start
<1>3. ASSUME NEW u \in Terminal, u # t, u \in Running
      PROVE  /\ run'[u].st = run[u].st /\ run'[u].cmd = run[u].cmd
             /\ run'[u].stamp = run[u].stamp /\ run'[u].at = run[u].at
             /\ run'[u].looked = run[u].looked /\ run'[u].warned = run[u].warned
             /\ run'[u].silent = run[u].silent /\ run'[u].alone = FALSE
  <2>1. run[u] \in Run
    BY <1>3, OwnStep
  <2>. DEFINE r == [run[u] EXCEPT !.alone = FALSE]
  <2>2. run'[u] = r
    BY <1>3 DEF Start
  <2>3. /\ r.st = run[u].st /\ r.cmd = run[u].cmd /\ r.stamp = run[u].stamp /\ r.at = run[u].at
        /\ r.looked = run[u].looked /\ r.warned = run[u].warned
        /\ r.silent = run[u].silent /\ r.alone = FALSE
    BY <2>1 DEF Run
  <2>. HIDE DEF r
  <2>. QED
    BY <2>2, <2>3
<1>. QED
  BY <1>1, <1>2, <1>3

\* The moves of a run: it looks, passes a step, inserts, passes over the channel or ends.
MoveLooks(t) ==
    /\ LookedAt(t) /\ text' = text /\ ~run[t].looked
    /\ \/ AtStep(t, "write") /\ seen' = seen
       \/ /\ AtStep(t, "append") \/ AtStep(t, "insert")
          /\ seen' = [seen EXCEPT ![t] = text[Step(t).file]]

MovePasses(t) ==
    /\ WentOn(t, 1) /\ text' = text /\ seen' = seen /\ run'[t].silent = run[t].silent
    /\ \/ AtStep(t, "write") /\ Step(t).file \in DOMAIN made' /\ run'[t].warned = run[t].warned
       \/ AtStep(t, "check") /\ run'[t].warned = run[t].warned
       \/ /\ (AtStep(t, "append") \/ AtStep(t, "insert")) /\ ~run[t].looked
          /\ \/ Step(t).block \subseteq DOMAIN text[Step(t).file] /\ run'[t].warned = run[t].warned
             \/ run'[t].warned = TRUE

MoveInserts(t) ==
    /\ Inserts(t) /\ WentOn(t, 1)
    /\ run'[t].warned = run[t].warned /\ run'[t].silent = run[t].silent

MoveSkips(t) ==
    /\ AtStep(t, "check") /\ ~run[t].looked /\ text' = text /\ seen' = seen
    /\ Same(t) /\ run'[t].at = run[t].at + 4 /\ run'[t].st = run[t].st
    /\ run'[t].looked = run[t].looked
    /\ run'[t].warned = run[t].warned /\ run'[t].silent = TRUE

MoveEnds(t) ==
    /\ \/ Ended(t, "failed") \/ Ended(t, "killed")
       \/ Ended(t, "done") /\ run[t].at > Len(Plan(run[t]))
    /\ text' = text /\ \A u \in Terminal \ {t} : seen'[u] = seen[u]

LEMMA RunMoves ==
    ASSUME RunType, NEW t \in Terminal, RunStep(t) \/ Killed(t)
    PROVE  /\ t \in Running /\ run[t] \in Run
           /\ removed' = removed /\ DOMAIN made \subseteq DOMAIN made'
           /\ MoveLooks(t) \/ MovePasses(t) \/ MoveInserts(t) \/ MoveSkips(t) \/ MoveEnds(t)
<1>0. t \in Running
  BY DEF RunStep, Killed, WriteLooks, Writes, InsertLooks, Inserts, ChecksChannel, SaysDone, AtStep
<1>1. run[t] \in Run
  BY <1>0, OwnStep
<1>2. removed' = removed /\ DOMAIN made \subseteq DOMAIN made'
  BY DEF RunStep, Killed, WriteLooks, Writes, InsertLooks, Inserts, ChecksChannel, SaysDone
<1>3. CASE WriteLooks(t)
  <2>1. text' = text /\ seen' = seen /\ AtStep(t, "write") /\ ~run[t].looked
    BY <1>3 DEF WriteLooks
  <2>2. CASE run' = [run EXCEPT ![t].st = "failed"]
    <3>1. Ended(t, "failed")
      BY <1>0, <2>2, EndsFields
    <3>. QED
      BY <3>1, <2>1, <1>0, <1>1, <1>2 DEF MoveEnds
  <2>3. CASE Looks(t)
    <3>1. LookedAt(t)
      BY <1>0, <2>3, LooksFields
    <3>. QED
      BY <3>1, <2>1, <1>0, <1>1, <1>2 DEF MoveLooks
  <2>. QED
    BY <2>2, <2>3, <1>3 DEF WriteLooks
<1>4. CASE Writes(t)
  <2>1. text' = text /\ seen' = seen /\ AtStep(t, "write")
    BY <1>4 DEF Writes
  <2>2. Step(t).file \in DOMAIN made'
    BY <1>4 DEF Writes
  <2>3. WentOn(t, 1) /\ run'[t].warned = run[t].warned /\ run'[t].silent = run[t].silent
    BY <1>0, <1>4, GoesFields DEF Writes
  <2>. QED
    BY <2>1, <2>2, <2>3, <1>0, <1>1, <1>2 DEF MovePasses
<1>5. CASE InsertLooks(t)
  <2>1. text' = text /\ (AtStep(t, "append") \/ AtStep(t, "insert")) /\ ~run[t].looked
    BY <1>5 DEF InsertLooks
  <2>2. CASE AlreadyPresent(Lines(Step(t).file), Step(t).block) /\ Goes(t, 1) /\ seen' = seen
    <3>1. Step(t).block \subseteq DOMAIN text[Step(t).file]
      BY <2>2 DEF AlreadyPresent, Lines
    <3>2. WentOn(t, 1) /\ run'[t].warned = run[t].warned /\ run'[t].silent = run[t].silent
      BY <1>0, <2>2, GoesFields
    <3>. QED
      BY <3>1, <3>2, <2>1, <2>2, <1>0, <1>1, <1>2 DEF MovePasses
  <2>3. CASE Warns(t) /\ seen' = seen
    <3>1. WentOn(t, 1) /\ run'[t].warned = TRUE /\ run'[t].silent = run[t].silent
      BY <1>0, <2>3, WarnsFields
    <3>. QED
      BY <3>1, <2>1, <2>3, <1>0, <1>1, <1>2 DEF MovePasses
  <2>4. CASE Looks(t) /\ seen' = [seen EXCEPT ![t] = text[Step(t).file]]
    <3>1. LookedAt(t)
      BY <1>0, <2>4, LooksFields
    <3>. QED
      BY <3>1, <2>1, <2>4, <1>0, <1>1, <1>2 DEF MoveLooks
  <2>. QED
    BY <2>2, <2>3, <2>4, <1>5 DEF InsertLooks
<1>6. CASE Inserts(t)
  <2>1. WentOn(t, 1) /\ run'[t].warned = run[t].warned /\ run'[t].silent = run[t].silent
    BY <1>0, <1>6, GoesFields DEF Inserts
  <2>. QED
    BY <2>1, <1>6, <1>0, <1>1, <1>2 DEF MoveInserts
<1>7. CASE ChecksChannel(t)
  <2>1. text' = text /\ seen' = seen /\ AtStep(t, "check") /\ ~run[t].looked
    BY <1>7 DEF ChecksChannel
  <2>2. CASE Goes(t, 1)
    <3>1. WentOn(t, 1) /\ run'[t].warned = run[t].warned /\ run'[t].silent = run[t].silent
      BY <1>0, <2>2, GoesFields
    <3>. QED
      BY <3>1, <2>1, <1>0, <1>1, <1>2 DEF MovePasses
  <2>3. CASE run' = [run EXCEPT ![t] = [@ EXCEPT !.at = run[t].at + 4, !.silent = TRUE]]
    <3>1. /\ Same(t) /\ run'[t].at = run[t].at + 4 /\ run'[t].st = run[t].st
          /\ run'[t].looked = run[t].looked
          /\ run'[t].warned = run[t].warned /\ run'[t].silent = TRUE
      BY <1>0, <2>3, SkipsFields
    <3>. QED
      BY <3>1, <2>1, <1>0, <1>1, <1>2 DEF MoveSkips
  <2>. QED
    BY <2>2, <2>3, <1>7 DEF ChecksChannel
<1>8. CASE SaysDone(t)
  <2>1. Ended(t, "done")
    BY <1>0, <1>8, EndsFields DEF SaysDone
  <2>. QED
    BY <2>1, <1>8, <1>0, <1>1, <1>2 DEF MoveEnds, SaysDone
<1>9. CASE Killed(t)
  <2>1. Ended(t, "killed")
    BY <1>9, KilledFields
  <2>2. text' = text /\ \A u \in Terminal \ {t} : seen'[u] = seen[u]
    BY <1>9 DEF Killed, RunType
  <2>. QED
    BY <2>1, <2>2, <1>0, <1>1, <1>2 DEF MoveEnds
<1>. QED
  BY <1>3, <1>4, <1>5, <1>6, <1>7, <1>8, <1>9 DEF RunStep

LEMMA SamePlan ==
    ASSUME NEW t \in Terminal, run'[t].cmd = run[t].cmd, run'[t].stamp = run[t].stamp
    PROVE  Plan(run'[t]) = Plan(run[t])
  BY DEF Plan

\* A step of the plan that a run has come to, among those of its plan.
LEMMA StepIsOfPlan ==
    ASSUME RunType, NEW t \in Running, NEW op, AtStep(t, op)
    PROVE  /\ run[t].at \in 1..Len(Plan(run[t])) /\ Len(Plan(run[t])) \in Nat
           /\ Step(t) = Plan(run[t])[run[t].at] /\ Step(t).op = op
<1>1. run[t] \in Run
  BY OwnStep
<1>2. Plan(run[t]) \in Seq(AnyStep)
  BY <1>1, PlanSteps
<1>. QED
  BY <1>1, <1>2 DEF AtStep, Run, Step

-----------------------------------------------------------------------------
(* What a run has written is there as long as it runs, and longer.         *)

LEMMA WrittenInvInit == Init => WrittenInv
  BY DEF Init, WrittenInv, Going, Idle

LEMMA WrittenInvNext == RunType /\ WrittenInv /\ [Next]_vars => WrittenInv'
<1>. SUFFICES ASSUME RunType, WrittenInv, [Next]_vars PROVE WrittenInv'
  OBVIOUS
<1>. DEFINE Has(r, k) == \/ Plan(r)[k].file \in DOMAIN made
                         \/ r.st = "done" /\ r.cmd.name \in removed
\* A run that keeps its record.
<1>1. ASSUME NEW t \in Terminal, Going(t)', Going(t),
             run'[t].cmd = run[t].cmd, run'[t].stamp = run[t].stamp,
             run[t].st = "done" => run'[t].st = "done",
             DOMAIN made \subseteq DOMAIN made', removed \subseteq removed',
             NEW k \in Behind(t)', k \in Behind(t) \/ Plan(run[t])[k].op # "write",
             Plan(run'[t])[k].op = "write"
      PROVE  Has(run[t], k)'
  <2>1. Plan(run'[t]) = Plan(run[t])
    BY <1>1, SamePlan
  <2>2. k \in Behind(t) /\ Plan(run[t])[k].op = "write"
    BY <1>1, <2>1
  <2>3. Has(run[t], k)
    BY <1>1, <2>2 DEF WrittenInv
  <2>. QED
    BY <1>1, <2>1, <2>3
<1>2. ASSUME NEW t \in Terminal, run'[t] = run[t], DOMAIN made \subseteq DOMAIN made',
             removed \subseteq removed', Going(t)', NEW k \in Behind(t)',
             Plan(run'[t])[k].op = "write"
      PROVE  Has(run[t], k)'
  BY <1>1, <1>2 DEF Going, Behind
<1>3. ASSUME NEW t \in Terminal, NEW cmd, Start(t, cmd) PROVE WrittenInv'
  <2>1. ASSUME NEW u \in Terminal, Going(u)', NEW k \in Behind(u)', Plan(run'[u])[k].op = "write"
        PROVE  Has(run[u], k)'
    <3>1. u # t
      <4>1. run'[t].at = 1
        BY <1>3, StartFields
      <4>2. k < run'[u].at /\ k \in 1..Len(Plan(run'[u]))
        BY DEF Behind
      <4>3. ~(k < 1)
        BY <4>2
      <4>. QED
        BY <4>1, <4>2, <4>3
    <3>2. /\ run'[u].st = run[u].st /\ run'[u].cmd = run[u].cmd
          /\ run'[u].stamp = run[u].stamp /\ run'[u].at = run[u].at
      BY <1>3, <3>1, StartFields
    <3>3. made' = made /\ removed' = removed
      BY <1>3 DEF Start
    <3>4. Going(u) /\ k \in Behind(u)
      BY <2>1, <3>2, SamePlan DEF Going, Behind
    <3>. QED
      BY <1>1, <2>1, <3>2, <3>3, <3>4
  <2>. QED
    BY <2>1 DEF WrittenInv
<1>4. ASSUME NEW t \in Terminal, RunStep(t) \/ Killed(t) PROVE WrittenInv'
  <2>0. /\ t \in Running /\ run[t] \in Run
        /\ removed' = removed /\ DOMAIN made \subseteq DOMAIN made'
    BY <1>4, RunMoves
  <2>1. MoveLooks(t) \/ MovePasses(t) \/ MoveInserts(t) \/ MoveSkips(t) \/ MoveEnds(t)
    BY <1>4, RunMoves
  <2>2. Same(t)
    BY <2>1 DEF MoveLooks, MovePasses, MoveInserts, MoveSkips, MoveEnds, LookedAt, WentOn, Ended
  <2>3. Plan(run'[t]) = Plan(run[t])
    BY <2>2, SamePlan DEF Same
  <2>4. Going(t) /\ run[t].at \in Nat
    BY <2>0 DEF Going, Running, Run
  <2>5. ASSUME Going(t)', NEW k \in Behind(t)', Plan(run'[t])[k].op = "write"
        PROVE  Has(run[t], k)'
    <3>1. CASE k \in Behind(t)
      BY <1>1, <2>0, <2>2, <2>4, <2>5, <3>1 DEF Same, Running
    <3>2. CASE k \notin Behind(t)
      <4>1. k \in 1..Len(Plan(run[t])) /\ k >= run[t].at /\ k < run'[t].at
        BY <2>3, <2>4, <2>5, <3>2 DEF Behind
      <4>2. CASE MovePasses(t)
        <5>1. k = run[t].at
          BY <4>1, <4>2, <2>4 DEF MovePasses, WentOn
        <5>2. AtStep(t, "write") /\ Step(t).file \in DOMAIN made'
          BY <4>2, <5>1, <2>3, <2>5 DEF MovePasses, AtStep, Step
        <5>. QED
          BY <5>1, <5>2, <2>3 DEF Step
      <4>3. CASE MoveInserts(t)
        <5>1. k = run[t].at
          BY <4>1, <4>3, <2>4 DEF MoveInserts, WentOn
        <5>. QED
          BY <4>3, <5>1, <2>3, <2>5 DEF MoveInserts, Inserts, AtStep, Step
      <4>4. CASE MoveSkips(t)
        <5>1. Ordered(Plan(run[t]), run[t].cmd.name)
          BY <2>0, PlanOrdered
        <5>2. run[t].at \in 1..Len(Plan(run[t])) /\ Plan(run[t])[run[t].at].op = "check"
          BY <2>0, <4>4, StepIsOfPlan DEF MoveSkips
        <5>3. k \in run[t].at..(run[t].at + 3)
          BY <4>1, <4>4, <2>4 DEF MoveSkips
        <5>4. k = run[t].at \/ IsInsert(Plan(run[t])[k])
          BY <5>1, <5>2, <5>3, <2>4 DEF Ordered
        <5>. QED
          BY <5>2, <5>4, <2>3, <2>5 DEF IsInsert
      <4>5. CASE MoveLooks(t) \/ MoveEnds(t)
        BY <4>1, <4>5, <2>4 DEF MoveLooks, MoveEnds, LookedAt, Ended
      <4>. QED
        BY <2>1, <4>2, <4>3, <4>4, <4>5
    <3>. QED
      BY <3>1, <3>2
  <2>6. ASSUME NEW u \in Terminal, u # t, Going(u)', NEW k \in Behind(u)',
               Plan(run'[u])[k].op = "write"
        PROVE  Has(run[u], k)'
    BY <1>2, <2>0, <2>2, <2>6 DEF Same
  <2>. QED
    BY <2>5, <2>6 DEF WrittenInv
<1>5. ASSUME run' = run, DOMAIN made \subseteq DOMAIN made', removed' = removed PROVE WrittenInv'
  BY <1>2, <1>5 DEF WrittenInv
<1>6. ASSUME NEW n \in Name, NEW kinds \in {Kinds("api"), {"entity"}, Kinds("worker")},
             Removes(n, kinds)
      PROVE  WrittenInv'
  <2>1. ASSUME NEW u \in Terminal, Going(u)', NEW k \in Behind(u)', Plan(run'[u])[k].op = "write"
        PROVE  Has(run[u], k)'
    <3>1. run' = run /\ Running = {} /\ removed' = removed \cup {n}
      BY <1>6 DEF Removes
    <3>2. Going(u) /\ k \in Behind(u) /\ run[u].st = "done"
      BY <2>1, <3>1 DEF Going, Behind, Running
    <3>3. Has(run[u], k)
      BY <2>1, <3>1, <3>2 DEF WrittenInv
    <3>4. CASE run[u].cmd.name \in removed
      BY <3>1, <3>2, <3>4
    <3>5. CASE Plan(run[u])[k].file \in DOMAIN made
      <4>1. run[u] \in Run
        BY <3>2 DEF RunType, Idle
      <4>2. Plan(run[u])[k].file[1] = "migration" \/ Plan(run[u])[k].file[2] = run[u].cmd.name
        BY <4>1, <3>1, <3>2, <2>1, PlanOrdered DEF Ordered, Harmless, Behind
      <4>3. \A f \in DOMAIN made \ DOMAIN made' : f[1] \in kinds /\ f[2] = n
        BY <1>6 DEF Removes
      <4>4. "migration" \notin kinds
        BY DEF Kinds
      <4>. QED
        BY <4>2, <4>3, <4>4, <3>1, <3>2, <3>5
    <3>. QED
      BY <3>3, <3>4, <3>5
  <2>. QED
    BY <2>1 DEF WrittenInv
<1>. QED
  BY <1>3, <1>4, <1>5, <1>6 DEF Next, Edits, DropsExample, vars

-----------------------------------------------------------------------------
(* Nothing is declared that has not been written.                          *)

LEMMA OfMembers ==
    ASSUME NEW n, NEW whats, NEW f \in Of(n, whats)
    PROVE  f[1] \in whats /\ f[2] = n
  BY DEF Of

LEMMA DeclaredFiles ==
    ASSUME NEW l, NEW f \in DeclaredBy(l)
    PROVE  f[2] = l[2] /\ (l[1] = "migration mod" => f[1] = "migration")
<1>1. CASE l[1] = "entities mod"
  <2>1. DeclaredBy(l) = Of(l[2], {"entity"})
    BY <1>1 DEF DeclaredBy
  <2>2. f[2] = l[2]
    BY <2>1, OfMembers
  <2>. QED
    BY <2>2, <1>1
<1>2. CASE l[1] = "api mod"
  <2>1. DeclaredBy(l) = Of(l[2], Kinds("api"))
    BY <1>2 DEF DeclaredBy
  <2>2. f[2] = l[2]
    BY <2>1, OfMembers
  <2>. QED
    BY <2>2, <1>2
<1>3. CASE l[1] = "worker mod"
  <2>1. DeclaredBy(l) = Of(l[2], Kinds("worker"))
    BY <1>3 DEF DeclaredBy
  <2>2. f[2] = l[2]
    BY <2>1, OfMembers
  <2>. QED
    BY <2>2, <1>3
<1>4. CASE l[1] = "migration mod"
  <2>1. DeclaredBy(l) = Of(l[2], {"migration"})
    BY <1>4 DEF DeclaredBy
  <2>2. f[1] \in {"migration"} /\ f[2] = l[2]
    BY <2>1, OfMembers
  <2>. QED
    BY <2>2
<1>5. CASE l[1] \notin Declaring
  BY <1>5, DeclaresNothing
<1>. QED
  BY <1>1, <1>2, <1>3, <1>4, <1>5 DEF Declaring

ExampleWords == {"use", "wiring", "routes use", "nest", "docs", "consumer wiring"}

LEMMA ExampleLinesAre ==
    ASSUME NEW f, NEW k \in ExampleLines(f)
    PROVE  k[1] \in ExampleWords /\ k[2] = Example
<1>1. CASE f = "api/state.rs"
  <2>. DEFINE W == {"use", "wiring"}
  <2>1. ExampleLines(f) = Of(Example, W)
    BY <1>1 DEF ExampleLines, Of
  <2>. HIDE DEF W
  <2>2. k[1] \in W /\ k[2] = Example
    BY <2>1, OfMembers
  <2>. QED
    BY <2>2 DEF ExampleWords, W
<1>2. CASE f = "api/lib.rs"
  <2>. DEFINE W == {"routes use", "nest", "docs"}
  <2>1. ExampleLines(f) = Of(Example, W)
    BY <1>2 DEF ExampleLines, Of
  <2>. HIDE DEF W
  <2>2. k[1] \in W /\ k[2] = Example
    BY <2>1, OfMembers
  <2>. QED
    BY <2>2 DEF ExampleWords, W
<1>3. CASE f = "worker/state.rs"
  <2>. DEFINE W == {"consumer wiring"}
  <2>1. ExampleLines(f) = Of(Example, W)
    BY <1>3 DEF ExampleLines, Of
  <2>. HIDE DEF W
  <2>2. k[1] \in W /\ k[2] = Example
    BY <2>1, OfMembers
  <2>. QED
    BY <2>2 DEF ExampleWords, W
<1>4. CASE f \notin {"api/state.rs", "api/lib.rs", "worker/state.rs"}
  BY <1>4 DEF ExampleLines
<1>. QED
  BY <1>1, <1>2, <1>3, <1>4

LEMMA ChannelLinesAre ==
    ASSUME NEW c, NEW k \in ChannelLines(c)
    PROVE  k[1] \in {"variant", "listed", "arm"} /\ k[2] = c
  BY DEF ChannelLines

LEMMA DeclInvInit == Init => DeclInv
<1>. SUFFICES ASSUME Init PROVE DeclInv
  OBVIOUS
<1>1. ASSUME NEW f \in Shared, NEW l \in DOMAIN text[f] PROVE Kept(l)
  <2>. DEFINE S == {Fixed} \cup ExampleLines(f)
             \cup IF f = "queue/channel.rs" THEN UNION {ChannelLines(c) : c \in Existing}
                  ELSE {}
  <2>1. DOMAIN text[f] = S
    BY DEF Init, StartText, SetToBag
  <2>2. Fixed[1] \notin Declaring
    BY DEF Fixed, Declaring
  <2>3. \A k \in ExampleLines(f) : k[1] \notin Declaring
    BY ExampleLinesAre DEF ExampleWords, Declaring
  <2>4. \A c \in Existing : \A k \in ChannelLines(c) : k[1] \notin Declaring
    BY ChannelLinesAre DEF Declaring
  <2>5. l = Fixed \/ l \in ExampleLines(f) \/ \E c \in Existing : l \in ChannelLines(c)
    BY <2>1
  <2>6. l[1] \notin Declaring
    BY <2>2, <2>3, <2>4, <2>5
  <2>. QED
    BY <2>6, DeclaresNothing DEF Kept
<1>2. Running = {}
  BY DEF Init, Running, Idle
<1>. QED
  BY <1>1, <1>2 DEF DeclInv, PendingInsert

LEMMA KeptGrows ==
    ASSUME DOMAIN made \subseteq DOMAIN made', removed \subseteq removed', NEW l, Kept(l)
    PROVE  Kept(l)'
  BY DEF Kept

\* Who removes files of a module is no longer owed its lines.
LEMMA KeptByRemoval ==
    ASSUME NEW n \in Name, NEW kinds \in {Kinds("api"), {"entity"}, Kinds("worker")},
           Removes(n, kinds), NEW l, Kept(l)
    PROVE  Kept(l)'
<1>1. removed' = removed \cup {n}
  BY DEF Removes
<1>2. \A f \in DOMAIN made \ DOMAIN made' : f[1] \in kinds /\ f[2] = n
  BY DEF Removes
<1>3. CASE OwnerOf(l) \in removed
  BY <1>1, <1>3 DEF Kept, OwnerOf
<1>4. CASE OwnerOf(l) = n
  BY <1>1, <1>4 DEF Kept, OwnerOf
<1>5. CASE OwnerOf(l) # n /\ DeclaredBy(l) \subseteq DOMAIN made
  <2>1. ASSUME NEW f \in DeclaredBy(l), f \notin DOMAIN made' PROVE FALSE
    <3>1. f[1] \in kinds /\ f[2] = n
      BY <1>2, <1>5, <2>1
    <3>2. f[2] = l[2]
      BY DeclaredFiles
    <3>3. l[1] = "migration mod"
      BY <1>5, <3>1, <3>2 DEF OwnerOf
    <3>4. f[1] = "migration"
      BY <3>3, DeclaredFiles
    <3>. QED
      BY <3>1, <3>4 DEF Kinds
  <2>. QED
    BY <2>1 DEF Kept
<1>. QED
  BY <1>3, <1>4, <1>5 DEF Kept

\* What a run is about to insert, it has written.
LEMMA BlockKept ==
    ASSUME RunType, WrittenInv, NEW t \in Running, AtStep(t, "append") \/ AtStep(t, "insert"),
           NEW l \in Step(t).block
    PROVE  Kept(l)
<1>1. t \in Terminal /\ run[t] \in Run /\ run[t].st = "running"
  BY OwnStep DEF Running
<1>. DEFINE p == Plan(run[t])
            k == run[t].at
<1>2. k \in 1..Len(p) /\ Len(p) \in Nat /\ Step(t) = p[k] /\ IsInsert(p[k])
  BY StepIsOfPlan DEF IsInsert
<1>3. Backed(p, k)
  BY <1>1, <1>2, PlanOrdered DEF Ordered
<1>. HIDE DEF p, k
<1>4. ASSUME NEW f \in DeclaredBy(l) PROVE f \in DOMAIN made
  <2>1. PICK j \in 1..(k - 1) : p[j].op = "write" /\ p[j].file = f
    BY <1>2, <1>3, Zenon DEF Backed
  <2>2. j \in Behind(t)
    BY <1>2 DEF Behind, p, k
  <2>. QED
    BY <1>1, <2>1, <2>2 DEF WrittenInv, Going, p
<1>. QED
  BY <1>4 DEF Kept

LEMMA DeclInvNext == RunType /\ WrittenInv /\ DeclInv /\ [Next]_vars => DeclInv'
<1>. SUFFICES ASSUME RunType, WrittenInv, DeclInv, [Next]_vars PROVE DeclInv'
  OBVIOUS
\* A step that keeps texts, and what others are about to do.
<1>1. ASSUME NEW t \in Terminal, text' = text,
             DOMAIN made \subseteq DOMAIN made', removed' = removed,
             \A u \in Terminal \ {t} : run'[u] = run[u] /\ seen'[u] = seen[u],
             PendingInsert(t)' => \A l \in DOMAIN seen'[t] : Kept(l)
      PROVE  DeclInv'
  <2>1. ASSUME NEW u \in Terminal, PendingInsert(u)', NEW l \in DOMAIN seen'[u] PROVE Kept(l)'
    <3>1. CASE u = t
      BY <1>1, <2>1, <3>1, KeptGrows
    <3>2. CASE u # t
      <4>1. PendingInsert(u) /\ seen'[u] = seen[u]
        BY <1>1, <2>1, <3>2, SamePending
      <4>. QED
        BY <4>1, <1>1, KeptGrows DEF DeclInv
    <3>. QED
      BY <3>1, <3>2
  <2>2. \A f \in Shared : \A l \in DOMAIN text'[f] : Kept(l)'
    BY <1>1, KeptGrows DEF DeclInv
  <2>. QED
    BY <2>1, <2>2 DEF DeclInv
<1>2. ASSUME NEW t \in Terminal, NEW cmd, Start(t, cmd) PROVE DeclInv'
  <2>1. text' = text /\ made' = made /\ removed' = removed /\ seen' = seen
    BY <1>2 DEF Start
  <2>2. ASSUME NEW u \in Terminal, PendingInsert(u)' PROVE PendingInsert(u)
    <3>1. u # t
      BY <1>2, <2>2, StartFields, NotPending
    <3>. QED
      BY <1>2, <2>2, <3>1, StartFields, SamePending
  <2>. QED
    BY <2>1, <2>2, KeptGrows DEF DeclInv
<1>3. ASSUME NEW t \in Terminal, RunStep(t) \/ Killed(t) PROVE DeclInv'
  <2>0. /\ t \in Running /\ run[t] \in Run
        /\ removed' = removed /\ DOMAIN made \subseteq DOMAIN made'
    BY <1>3, RunMoves
  <2>1. CASE MoveLooks(t)
    <3>1. \A u \in Terminal \ {t} : run'[u] = run[u] /\ seen'[u] = seen[u]
      BY <2>1 DEF MoveLooks, LookedAt, Same, RunType
    <3>2. CASE AtStep(t, "write") /\ seen' = seen
      <4>1. Step(t)' = Step(t)
        BY <2>1, SameStep DEF MoveLooks, LookedAt, Same
      <4>2. ~PendingInsert(t)'
        BY <4>1, <3>2 DEF PendingInsert, AtStep
      <4>. QED
        BY <4>2, <3>1, <2>0, <2>1, <1>1 DEF MoveLooks
    <3>3. CASE /\ AtStep(t, "append") \/ AtStep(t, "insert")
               /\ seen' = [seen EXCEPT ![t] = text[Step(t).file]]
      <4>1. Step(t).file \in Shared
        BY <3>3, StepIsAny DEF InsertStep
      <4>2. seen'[t] = text[Step(t).file]
        BY <3>3 DEF RunType
      <4>3. \A l \in DOMAIN seen'[t] : Kept(l)
        BY <4>1, <4>2 DEF DeclInv
      <4>. QED
        BY <4>3, <3>1, <2>0, <2>1, <1>1 DEF MoveLooks
    <3>. QED
      BY <2>1, <3>2, <3>3 DEF MoveLooks
  <2>2. CASE MovePasses(t)
    <3>1. ~PendingInsert(t)'
      BY <2>2, NotPending DEF MovePasses, WentOn
    <3>. QED
      BY <3>1, <2>0, <2>2, <1>1 DEF MovePasses, WentOn, Same
  <2>3. CASE MoveInserts(t)
    <3>1. Inserts(t) /\ PendingInsert(t)
      BY <2>0, <2>3 DEF MoveInserts, Inserts, PendingInsert
    <3>2. Step(t) \in InsertStep
      BY <3>1, StepIsAny DEF Inserts
    <3>3. \A l \in Step(t).block : Kept(l)
      BY <2>0, <3>1, BlockKept DEF Inserts
    <3>4. \A l \in DOMAIN seen[t] : Kept(l)
      BY <3>1 DEF DeclInv
    <3>5. ASSUME NEW f \in Shared, NEW l \in DOMAIN text'[f] PROVE Kept(l)
      <4>1. CASE f = Step(t).file
        <5>1. text'[f] = seen[t] (+) SetToBag(Step(t).block)
          BY <4>1, <3>1 DEF Inserts, RunType
        <5>2. DOMAIN (seen[t] (+) SetToBag(Step(t).block)) = DOMAIN seen[t] \cup Step(t).block
          BY DEF (+), SetToBag
        <5>. QED
          BY <5>1, <5>2, <3>3, <3>4, <3>5
      <4>2. CASE f # Step(t).file
        BY <4>2, <3>1, <3>5 DEF Inserts, RunType, DeclInv
      <4>. QED
        BY <4>1, <4>2
    <3>6. ASSUME NEW u \in Terminal, PendingInsert(u)', NEW l \in DOMAIN seen'[u] PROVE Kept(l)
      <4>1. u # t
        BY <2>3, <3>6, NotPending DEF MoveInserts, WentOn
      <4>2. seen'[u] = seen[u] /\ run'[u] = run[u]
        BY <4>1, <2>3, <3>1 DEF MoveInserts, WentOn, Same, Inserts, RunType
      <4>3. PendingInsert(u)
        BY <4>2, <3>6, SamePending
      <4>. QED
        BY <4>2, <4>3, <3>6 DEF DeclInv
    <3>. QED
      BY <3>5, <3>6, <2>0, KeptGrows DEF DeclInv
  <2>4. CASE MoveSkips(t)
    <3>1. ~PendingInsert(t)'
      BY <2>4, NotPending, OwnStep, <2>0 DEF MoveSkips, Run
    <3>. QED
      BY <3>1, <2>0, <2>4, <1>1 DEF MoveSkips, Same
  <2>5. CASE MoveEnds(t)
    <3>1. ~PendingInsert(t)'
      BY <2>5, NotPending DEF MoveEnds, Ended
    <3>. QED
      BY <3>1, <2>0, <2>5, <1>1 DEF MoveEnds, Ended, Same
  <2>. QED
    BY <2>1, <2>2, <2>3, <2>4, <2>5, <1>3, RunMoves
<1>4. ASSUME run' = run, seen' = seen, \A l : Kept(l) => Kept(l)',
             \A f \in Shared : DOMAIN text'[f] \subseteq DOMAIN text[f]
      PROVE  DeclInv'
  <2>1. \A u \in Terminal : PendingInsert(u)' => PendingInsert(u)
    BY <1>4, SamePending
  <2>. QED
    BY <2>1, <1>4 DEF DeclInv
<1>5. ASSUME NEW n \in Name, NEW kinds \in {Kinds("api"), {"entity"}, Kinds("worker")},
             Removes(n, kinds)
      PROVE  DeclInv'
  <2>1. \A l : Kept(l) => Kept(l)'
    BY <1>5, KeptByRemoval
  <2>. QED
    BY <2>1, <1>4, <1>5 DEF Removes
<1>6. CASE DropsExample
  <2>1. \A f \in Shared : DOMAIN text'[f] \subseteq DOMAIN text[f]
    BY <1>6 DEF DropsExample, Lines
  <2>2. run' = run /\ seen' = seen /\ made' = made /\ removed' = removed
    BY <1>6 DEF DropsExample
  <2>. QED
    BY <2>1, <2>2, <1>4, KeptGrows
<1>7. ASSUME UNCHANGED <<text, run, seen, made, removed>> PROVE DeclInv'
  BY <1>7, <1>4, KeptGrows
<1>. QED
  BY <1>2, <1>3, <1>5, <1>6, <1>7 DEF Next, Edits, vars

LEMMA DeclaredFromInv == DeclInv => DeclaredHasFiles
<1>. SUFFICES ASSUME DeclInv, NEW n \in Name, n \notin removed
              PROVE  /\ <<"entities mod", n>> \in AllLines => <<"entity", n>> \in DOMAIN made
                     /\ <<"api mod", n>> \in AllLines => Of(n, Kinds("api")) \subseteq DOMAIN made
                     /\ <<"worker mod", n>> \in AllLines => Of(n, Kinds("worker")) \subseteq DOMAIN made
                     /\ \A s \in 1..MaxRuns :
                          <<"migration mod", <<n, s>>>> \in AllLines
                            => <<"migration", <<n, s>>>> \in DOMAIN made
  BY DEF DeclaredHasFiles
<1>1. \A l \in AllLines : Kept(l)
  BY DEF AllLines, Lines, DeclInv
<1>2. ASSUME NEW w \in {"entities mod", "api mod", "worker mod"}, <<w, n>> \in AllLines
      PROVE  DeclaredBy(<<w, n>>) \subseteq DOMAIN made
  <2>1. OwnerOf(<<w, n>>) = n
    BY DEF OwnerOf
  <2>. QED
    BY <1>1, <1>2, <2>1 DEF Kept
<1>3. ASSUME NEW s, <<"migration mod", <<n, s>>>> \in AllLines
      PROVE  <<"migration", <<n, s>>>> \in DOMAIN made
  <2>1. OwnerOf(<<"migration mod", <<n, s>>>>) = n
    BY DEF OwnerOf
  <2>2. DeclaredBy(<<"migration mod", <<n, s>>>>) \subseteq DOMAIN made
    BY <1>1, <1>3, <2>1 DEF Kept
  <2>. QED
    BY <2>2, Declares
<1>. QED
  BY <1>2, <1>3, Declares

\* Whatever runs are killed, repeated or overlap, the tree of modules is never ahead of
\* the files: what declares a module comes after it, and nobody else takes it away.
THEOREM DeclaredHasFilesHolds == Spec => []DeclaredHasFiles
<1>1. RunType /\ WrittenInv /\ DeclInv /\ [Next]_vars => (RunType /\ WrittenInv /\ DeclInv)'
  BY RunTypeNext, WrittenInvNext, DeclInvNext
<1>2. Init => RunType /\ WrittenInv /\ DeclInv
  BY RunTypeInit, WrittenInvInit, DeclInvInit
<1>. QED
  BY <1>1, <1>2, DeclaredFromInv, PTL DEF Spec

-----------------------------------------------------------------------------
(* What a run has wired stays wired.                                       *)

\* A line that is in a file, and in whatever is about to be written over it, stays.
LEMMA SettledNext ==
    ASSUME RunType, [Next]_vars, NEW f \in Shared, NEW l, l \notin ExampleLines(f), Settled(f, l)
    PROVE  Settled(f, l)'
<1>1. ASSUME NEW t \in Terminal, text' = text,
             \A u \in Terminal \ {t} : run'[u] = run[u] /\ seen'[u] = seen[u],
             PendingInsert(t)' /\ Step(t)'.file = f => l \in DOMAIN seen'[t]
      PROVE  Settled(f, l)'
  <2>1. ASSUME NEW u \in Terminal, PendingInsert(u)', Step(u)'.file = f PROVE l \in DOMAIN seen'[u]
    <3>1. CASE u # t
      <4>1. PendingInsert(u) /\ Step(u)' = Step(u) /\ seen'[u] = seen[u]
        BY <1>1, <2>1, <3>1, SamePending
      <4>. QED
        BY <4>1, <2>1 DEF Settled
    <3>. QED
      BY <3>1, <1>1, <2>1
  <2>. QED
    BY <2>1, <1>1 DEF Settled
<1>2. ASSUME NEW t \in Terminal, NEW cmd, Start(t, cmd) PROVE Settled(f, l)'
  <2>1. text' = text /\ seen' = seen
    BY <1>2 DEF Start
  <2>2. ASSUME NEW u \in Terminal, PendingInsert(u)' PROVE PendingInsert(u) /\ Step(u)' = Step(u)
    <3>1. u # t
      BY <1>2, <2>2, StartFields, NotPending
    <3>. QED
      BY <1>2, <2>2, <3>1, StartFields, SamePending
  <2>. QED
    BY <2>1, <2>2 DEF Settled
<1>3. ASSUME NEW t \in Terminal, RunStep(t) \/ Killed(t) PROVE Settled(f, l)'
  <2>0. t \in Running /\ run[t] \in Run
    BY <1>3, RunMoves
  <2>1. CASE MoveLooks(t)
    <3>0. Step(t)' = Step(t)
      BY <2>1, SameStep DEF MoveLooks, LookedAt, Same
    <3>1. \A u \in Terminal \ {t} : run'[u] = run[u] /\ seen'[u] = seen[u]
      BY <2>1 DEF MoveLooks, LookedAt, Same, RunType
    <3>2. CASE AtStep(t, "write") /\ seen' = seen
      <4>2. ~PendingInsert(t)'
        BY <3>0, <3>2 DEF PendingInsert, AtStep
      <4>. QED
        BY <4>2, <3>1, <2>1, <1>1 DEF MoveLooks
    <3>3. CASE seen' = [seen EXCEPT ![t] = text[Step(t).file]]
      <4>1. seen'[t] = text[Step(t).file]
        BY <3>3 DEF RunType
      <4>2. Step(t)'.file = f => l \in DOMAIN seen'[t]
        BY <4>1, <3>0 DEF Settled
      <4>. QED
        BY <4>2, <3>1, <2>1, <1>1 DEF MoveLooks
    <3>. QED
      BY <2>1, <3>2, <3>3 DEF MoveLooks
  <2>2. CASE MovePasses(t)
    <3>1. ~PendingInsert(t)'
      BY <2>2, NotPending DEF MovePasses, WentOn
    <3>. QED
      BY <3>1, <2>2, <1>1 DEF MovePasses, WentOn, Same
  <2>3. CASE MoveInserts(t)
    <3>1. Inserts(t) /\ PendingInsert(t)
      BY <2>0, <2>3 DEF MoveInserts, Inserts, PendingInsert
    <3>2. l \in DOMAIN text'[f]
      <4>1. CASE f = Step(t).file
        <5>1. text'[f] = seen[t] (+) SetToBag(Step(t).block)
          BY <4>1, <3>1 DEF Inserts, RunType
        <5>2. DOMAIN (seen[t] (+) SetToBag(Step(t).block)) = DOMAIN seen[t] \cup Step(t).block
          BY DEF (+), SetToBag
        <5>3. l \in DOMAIN seen[t]
          BY <4>1, <3>1 DEF Settled
        <5>. QED
          BY <5>1, <5>2, <5>3
      <4>2. CASE f # Step(t).file
        BY <4>2, <3>1 DEF Inserts, RunType, Settled
      <4>. QED
        BY <4>1, <4>2
    <3>3. ASSUME NEW u \in Terminal, PendingInsert(u)', Step(u)'.file = f PROVE l \in DOMAIN seen'[u]
      <4>1. u # t
        BY <2>3, <3>3, NotPending DEF MoveInserts, WentOn
      <4>2. seen'[u] = seen[u] /\ run'[u] = run[u]
        BY <4>1, <2>3, <3>1 DEF MoveInserts, WentOn, Same, Inserts, RunType
      <4>3. PendingInsert(u) /\ Step(u)' = Step(u)
        BY <4>2, <3>3, SamePending
      <4>. QED
        BY <4>2, <4>3, <3>3 DEF Settled
    <3>. QED
      BY <3>2, <3>3 DEF Settled
  <2>4. CASE MoveSkips(t)
    <3>1. ~PendingInsert(t)'
      BY <2>4, NotPending, OwnStep, <2>0 DEF MoveSkips, Run
    <3>. QED
      BY <3>1, <2>4, <1>1 DEF MoveSkips, Same
  <2>5. CASE MoveEnds(t)
    <3>1. ~PendingInsert(t)'
      BY <2>5, NotPending DEF MoveEnds, Ended
    <3>. QED
      BY <3>1, <2>5, <1>1 DEF MoveEnds, Ended, Same
  <2>. QED
    BY <2>1, <2>2, <2>3, <2>4, <2>5, <1>3, RunMoves
<1>4. ASSUME run' = run, seen' = seen, l \in DOMAIN text'[f] PROVE Settled(f, l)'
  <2>1. \A u \in Terminal : (PendingInsert(u)' => PendingInsert(u)) /\ Step(u)' = Step(u)
    BY <1>4, SamePending
  <2>. QED
    BY <2>1, <1>4 DEF Settled
<1>5. CASE DropsExample
  <2>1. text'[f] = [k \in Lines(f) \ ExampleLines(f) |-> text[f][k]]
    BY <1>5 DEF DropsExample
  <2>2. l \in DOMAIN text'[f]
    BY <2>1 DEF Settled, Lines
  <2>. QED
    BY <2>2, <1>4, <1>5 DEF DropsExample
<1>6. ASSUME UNCHANGED <<text, run, seen>> PROVE Settled(f, l)'
  BY <1>6, <1>4 DEF Settled
<1>. QED
  BY <1>2, <1>3, <1>5, <1>6 DEF Next, Edits, Removes, vars

\* A step that a run has behind it: it has passed over it, or what it adds is there.
Wired(r, k) ==
    IsInsert(Plan(r)[k]) =>
      \/ r.silent /\ Plan(r)[k].file = "queue/channel.rs"
      \/ \A l \in Plan(r)[k].block : Settled(Plan(r)[k].file, l)

LEMMA WiredStays ==
    ASSUME RunType, [Next]_vars, NEW t \in Terminal, run[t] \in Run,
           run'[t].cmd = run[t].cmd, run'[t].stamp = run[t].stamp,
           run[t].silent => run'[t].silent, NEW k \in 1..Len(Plan(run[t])), Wired(run[t], k)
    PROVE  Wired(run[t], k)'
<1>. DEFINE s == Plan(run[t])[k]
<1>1. Plan(run'[t])[k] = s
  BY SamePlan
<1>2. s \in AnyStep /\ Harmless(s, run[t].cmd.name)
  BY PlanSteps, PlanOrdered DEF Ordered
<1>3. IsInsert(s) => \/ run[t].silent /\ s.file = "queue/channel.rs"
                     \/ \A l \in s.block : Settled(s.file, l)
  BY DEF Wired
<1>. HIDE DEF s
<1>4. ASSUME IsInsert(s), NEW l \in s.block, Settled(s.file, l)
      PROVE  l \in DOMAIN text'[s.file]
             /\ \A u \in Terminal : PendingInsert(u)' /\ Step(u)'.file = s.file => l \in DOMAIN seen'[u]
  <2>1. PICK f \in Shared : f = s.file
    BY <1>2, <1>4 DEF AnyStep, WriteStep, InsertStep, CheckStep, IsInsert
  <2>2. l \notin ExampleLines(f)
    BY <1>2, <1>4, <2>1 DEF Harmless
  <2>3. Settled(f, l)'
    BY <1>4, <2>1, <2>2, SettledNext
  <2>. QED
    BY <2>1, <2>3 DEF Settled
<1>. QED
  BY <1>1, <1>3, <1>4 DEF Wired, Settled

LEMMA WiredInvAlt ==
    WiredInv <=> \A t \in Terminal : Going(t) =>
                   /\ run[t].st = "done" => run[t].at > Len(Plan(run[t]))
                   /\ run[t].alone /\ ~run[t].warned => \A k \in Behind(t) : Wired(run[t], k)
  BY DEF WiredInv, Wired

LEMMA WiredInvInit == Init => WiredInv
  BY DEF Init, WiredInv, Going, Idle

LEMMA WiredInvNext == RunType /\ FileInv /\ WiredInv /\ [Next]_vars => WiredInv'
<1>. SUFFICES ASSUME RunType, FileInv, WiredInv, [Next]_vars PROVE WiredInv'
  OBVIOUS
<1>. DEFINE Good(t) == Going(t) =>
              /\ run[t].st = "done" => run[t].at > Len(Plan(run[t]))
              /\ run[t].alone /\ ~run[t].warned => \A k \in Behind(t) : Wired(run[t], k)
<1>0. \A t \in Terminal : Good(t)
  BY WiredInvAlt
<1>1. ASSUME \A t \in Terminal : Good(t)' PROVE WiredInv'
  BY <1>1 DEF WiredInv, Wired
\* A run that keeps its record, or only loses that it is alone.
<1>2. ASSUME NEW t \in Terminal, run'[t].cmd = run[t].cmd, run'[t].stamp = run[t].stamp,
             run'[t].at = run[t].at, run'[t].st = run[t].st, run'[t].silent = run[t].silent,
             run'[t].warned = run[t].warned, run'[t].alone => run[t].alone
      PROVE  Good(t)'
  <2>1. Plan(run'[t]) = Plan(run[t])
    BY <1>2, SamePlan
  <2>2. (Going(t)' <=> Going(t)) /\ Behind(t)' = Behind(t)
    BY <2>1, <1>2 DEF Going, Behind
  <2>3. ASSUME Going(t), run'[t].alone, ~run'[t].warned, NEW k \in Behind(t)
        PROVE  Wired(run[t], k)'
    <3>1. run[t] \in Run /\ Wired(run[t], k) /\ k \in 1..Len(Plan(run[t]))
      BY <1>0, <1>2, <2>3 DEF RunType, Idle, Going, Behind
    <3>. QED
      BY <3>1, <1>2, WiredStays
  <2>. QED
    BY <2>1, <2>2, <2>3, <1>0, <1>2
<1>3. ASSUME NEW t \in Terminal, NEW cmd, Start(t, cmd) PROVE WiredInv'
  <2>1. ASSUME NEW u \in Terminal, u # t PROVE Good(u)'
    <3>1. /\ run'[u].st = run[u].st /\ run'[u].cmd = run[u].cmd
          /\ run'[u].stamp = run[u].stamp /\ run'[u].at = run[u].at
          /\ run'[u].warned = run[u].warned /\ run'[u].silent = run[u].silent
          /\ run'[u].alone => run[u].alone
      BY <1>3, <2>1, StartFields
    <3>. QED
      BY <3>1, <1>2
  <2>2. Good(t)'
    <3>1. run'[t].st = "running" /\ run'[t].at = 1
      BY <1>3, StartFields
    <3>2. ASSUME NEW k \in Behind(t)' PROVE FALSE
      <4>1. k < run'[t].at /\ k \in 1..Len(Plan(run'[t]))
        BY DEF Behind
      <4>2. ~(k < 1)
        BY <4>1
      <4>. QED
        BY <3>1, <4>1, <4>2
    <3>. QED
      BY <3>1, <3>2
  <2>. QED
    BY <2>1, <2>2, <1>1
<1>4. ASSUME NEW t \in Terminal, RunStep(t) \/ Killed(t) PROVE WiredInv'
  <2>0. t \in Running /\ run[t] \in Run /\ run[t].st = "running" /\ run[t].at \in Nat /\ Going(t)
    BY <1>4, RunMoves DEF Running, Run, Going
  <2>1. MoveLooks(t) \/ MovePasses(t) \/ MoveInserts(t) \/ MoveSkips(t) \/ MoveEnds(t)
    BY <1>4, RunMoves
  <2>2. Same(t)
    BY <2>1 DEF MoveLooks, MovePasses, MoveInserts, MoveSkips, MoveEnds, LookedAt, WentOn, Ended
  <2>3. Plan(run'[t]) = Plan(run[t])
    BY <2>2, SamePlan DEF Same
  <2>4. ASSUME NEW u \in Terminal, u # t PROVE Good(u)'
    BY <2>2, <2>4, <1>2 DEF Same
  <2>5. CASE MoveLooks(t)
    BY <2>4, <2>5, <1>1, <1>2 DEF MoveLooks, LookedAt, Same
  \* What it had behind it, and what it has behind it now.
  <2>6. ASSUME run'[t].at >= run[t].at,
               run[t].silent => run'[t].silent, run[t].warned => run'[t].warned,
               run'[t].st = "done" => run[t].at > Len(Plan(run[t])) /\ run'[t].at = run[t].at,
               run'[t].alone /\ ~run'[t].warned =>
                  \A k \in Behind(t)' \ Behind(t) : Wired(run[t], k)'
        PROVE  WiredInv'
    <3>1. ASSUME run'[t].alone, ~run'[t].warned, NEW k \in Behind(t)' PROVE Wired(run[t], k)'
      <4>1. CASE k \in Behind(t)
        <5>1. Wired(run[t], k) /\ k \in 1..Len(Plan(run[t]))
          BY <1>0, <2>0, <2>2, <2>6, <3>1, <4>1 DEF Same, Behind
        <5>. QED
          BY <5>1, <2>0, <2>2, <2>6, WiredStays DEF Same
      <4>2. CASE k \notin Behind(t)
        BY <2>6, <3>1, <4>2
      <4>. QED
        BY <4>1, <4>2
    <3>2. Good(t)'
      BY <3>1, <2>3, <2>6
    <3>. QED
      BY <3>2, <2>4, <1>1
  <2>7. ASSUME NEW k \in Behind(t)' \ Behind(t)
        PROVE  k \in 1..Len(Plan(run[t])) /\ k >= run[t].at /\ k < run'[t].at
    BY <2>0, <2>3 DEF Behind
  \* Alone, it has nobody beside it, and has not looked at its next step.
  <2>8. ASSUME run'[t].alone, run'[t].looked = FALSE, run'[t].st = "running",
               NEW k \in 1..Len(Plan(run[t])), IsInsert(Plan(run[t])[k]),
               Plan(run[t])[k].block \subseteq DOMAIN text'[Plan(run[t])[k].file]
        PROVE  Wired(run[t], k)'
    <3>. DEFINE s == Plan(run[t])[k]
    <3>1. s \in InsertStep
      BY <2>0, <2>8, PlanSteps DEF AnyStep, WriteStep, InsertStep, CheckStep, IsInsert
    <3>2. Running = {t}
      BY <2>0, <2>2, <2>8 DEF FileInv, Same
    <3>3. Running' \subseteq {t}
      BY <3>2, <2>2 DEF Same, Running
    <3>4. Plan(run'[t])[k] = s
      BY <2>3
    <3>5. s.block \subseteq DOMAIN text'[s.file] /\ s.file \in Shared
      BY <2>8, <3>1 DEF InsertStep
    <3>. HIDE DEF s
    <3>6. ASSUME NEW l \in s.block
          PROVE  l \in DOMAIN text'[s.file] /\ \A u \in Terminal : ~PendingInsert(u)'
      BY <2>8, <3>3, <3>5 DEF PendingInsert
    <3>. QED
      BY <3>4, <3>6 DEF Wired, Settled
  <2>9. CASE MovePasses(t)
    <3>1. /\ run'[t].at = run[t].at + 1 /\ run'[t].st = "running" /\ run'[t].looked = FALSE
          /\ run'[t].silent = run[t].silent /\ text' = text
          /\ run[t].warned => run'[t].warned
      BY <2>0, <2>9 DEF MovePasses, WentOn
    <3>2. ASSUME run'[t].alone, ~run'[t].warned, NEW k \in Behind(t)' \ Behind(t)
          PROVE  Wired(run[t], k)'
      <4>1. k = run[t].at /\ k \in 1..Len(Plan(run[t]))
        BY <2>0, <2>7, <3>1
      <4>2. CASE ~IsInsert(Plan(run[t])[k])
        BY <4>2, <2>3 DEF Wired
      <4>3. CASE IsInsert(Plan(run[t])[k])
        <5>1. Step(t) = Plan(run[t])[k]
          BY <4>1 DEF Step
        <5>2. Step(t).block \subseteq DOMAIN text[Step(t).file]
          BY <5>1, <4>3, <3>2, <2>9 DEF MovePasses, AtStep, IsInsert
        <5>. QED
          BY <5>1, <5>2, <4>1, <4>3, <3>1, <3>2, <2>8
      <4>. QED
        BY <4>2, <4>3
    <3>. QED
      BY <3>1, <3>2, <2>0, <2>6
  <2>10. CASE MoveInserts(t)
    <3>1. /\ run'[t].at = run[t].at + 1 /\ run'[t].st = "running" /\ run'[t].looked = FALSE
          /\ run'[t].silent = run[t].silent /\ run'[t].warned = run[t].warned /\ Inserts(t)
      BY <2>0, <2>10 DEF MoveInserts, WentOn
    <3>2. ASSUME run'[t].alone, ~run'[t].warned, NEW k \in Behind(t)' \ Behind(t)
          PROVE  Wired(run[t], k)'
      <4>1. k = run[t].at /\ k \in 1..Len(Plan(run[t]))
        BY <2>0, <2>7, <3>1
      <4>2. Step(t) = Plan(run[t])[k] /\ Step(t) \in InsertStep /\ IsInsert(Step(t))
        BY <4>1, <3>1, StepIsAny DEF Step, Inserts, IsInsert, InsertStep
      <4>3. text'[Step(t).file] = seen[t] (+) SetToBag(Step(t).block)
        BY <4>2, <3>1 DEF Inserts, RunType, InsertStep
      <4>4. DOMAIN (seen[t] (+) SetToBag(Step(t).block)) = DOMAIN seen[t] \cup Step(t).block
        BY DEF (+), SetToBag
      <4>. QED
        BY <4>1, <4>2, <4>3, <4>4, <3>1, <3>2, <2>8
    <3>. QED
      BY <3>1, <3>2, <2>0, <2>6
  <2>11. CASE MoveSkips(t)
    <3>1. /\ run'[t].at = run[t].at + 4 /\ run'[t].st = "running" /\ run'[t].silent = TRUE
          /\ run'[t].warned = run[t].warned /\ AtStep(t, "check")
      BY <2>0, <2>11 DEF MoveSkips
    <3>2. ASSUME NEW k \in Behind(t)' \ Behind(t) PROVE Wired(run[t], k)'
      <4>1. Ordered(Plan(run[t]), run[t].cmd.name)
        BY <2>0, PlanOrdered
      <4>2. run[t].at \in 1..Len(Plan(run[t])) /\ Plan(run[t])[run[t].at].op = "check"
        BY <2>0, <3>1, StepIsOfPlan
      <4>3. k \in run[t].at..(run[t].at + 3)
        BY <2>0, <2>7, <3>1
      <4>4. k = run[t].at \/ Plan(run[t])[k].file = "queue/channel.rs"
        BY <4>1, <4>2, <4>3, <2>0 DEF Ordered
      <4>. QED
        BY <4>2, <4>4, <2>3, <3>1 DEF Wired, IsInsert
    <3>. QED
      BY <3>1, <3>2, <2>0, <2>6
  <2>12. CASE MoveEnds(t)
    <3>1. /\ run'[t].at = run[t].at
          /\ run'[t].silent = run[t].silent /\ run'[t].warned = run[t].warned
          /\ run'[t].st = "done" => run[t].at > Len(Plan(run[t]))
      BY <2>12 DEF MoveEnds, Ended
    <3>2. Behind(t)' = Behind(t)
      BY <3>1, <2>3 DEF Behind
    <3>. QED
      BY <3>1, <3>2, <2>0, <2>6
  <2>. QED
    BY <2>1, <2>5, <2>9, <2>10, <2>11, <2>12
<1>5. ASSUME run' = run PROVE WiredInv'
  BY <1>5, <1>1, <1>2
<1>. QED
  BY <1>3, <1>4, <1>5 DEF Next, Edits, Removes, DropsExample, vars

-----------------------------------------------------------------------------
(* What a run that says Done has wired.                                    *)

\* A run that says Done, alone and with no warning, has every step of its plan behind it.
LEMMA DoneHasAll ==
    ASSUME RunType, WrittenInv, WiredInv, NEW t \in Terminal, run[t].st = "done",
           run[t].alone, ~run[t].warned
    PROVE  /\ run[t] \in Run
           /\ \A k \in 1..Len(Plan(run[t])), f \in Shared : \A B : \A l \in B :
                Adding(Plan(run[t])[k], f, B) =>
                  (run[t].silent /\ f = "queue/channel.rs") \/ l \in AllLines
           /\ \A k \in 1..Len(Plan(run[t])) : \A f, c :
                Writing(Plan(run[t])[k], f, c) => run[t].cmd.name \in removed \/ f \in DOMAIN made
<1>1. run[t] \in Run
  BY DEF RunType, Idle
<1>2. Going(t)
  BY DEF Going
<1>3. run[t].at \in Nat /\ run[t].at > Len(Plan(run[t]))
  BY <1>1, <1>2 DEF WiredInv, Run
<1>4. Len(Plan(run[t])) \in Nat
  BY <1>1, PlanSteps
<1>5. \A k \in 1..Len(Plan(run[t])) : k \in Behind(t)
  BY <1>3, <1>4 DEF Behind
<1>6. ASSUME NEW k \in 1..Len(Plan(run[t])), NEW f \in Shared, NEW B, NEW l \in B,
             Adding(Plan(run[t])[k], f, B), ~(run[t].silent /\ f = "queue/channel.rs")
      PROVE  l \in AllLines
  <2>1. /\ IsInsert(Plan(run[t])[k]) /\ Plan(run[t])[k].file = f /\ Plan(run[t])[k].block = B
    BY <1>6 DEF Adding, IsInsert
  <2>2. k \in Behind(t)
    BY <1>5
  <2>3. Settled(f, l)
    BY <2>1, <2>2, <1>2, <1>6 DEF WiredInv
  <2>. QED
    BY <2>3 DEF Settled, AllLines, Lines
<1>7. ASSUME NEW k \in 1..Len(Plan(run[t])), NEW f, NEW c, Writing(Plan(run[t])[k], f, c)
      PROVE  run[t].cmd.name \in removed \/ f \in DOMAIN made
  BY <1>2, <1>5, <1>7 DEF WrittenInv, Writing
<1>. QED
  BY <1>1, <1>6, <1>7

\* The channel of a plan, unless it was passed over.
LEMMA ChannelWired ==
    ASSUME RunType, WrittenInv, WiredInv, NEW t \in Terminal, run[t].st = "done",
           run[t].alone, ~run[t].warned, ~run[t].silent,
           NEW i \in Nat, NEW c, ChannelSteps(Plan(run[t]), i, c), i + 4 <= Len(Plan(run[t]))
    PROVE  ChannelLines(c) \subseteq AllLines
<1>1. Len(Plan(run[t])) \in Nat
  BY DoneHasAll, PlanSteps
<1>2. i + 2 \in 1..Len(Plan(run[t])) /\ i + 3 \in 1..Len(Plan(run[t])) /\ i + 4 \in 1..Len(Plan(run[t]))
  BY <1>1
<1>3. "queue/channel.rs" \in Shared
  BY DEF Shared
<1>4. \A k \in 1..Len(Plan(run[t])) : \A l :
        Adding(Plan(run[t])[k], "queue/channel.rs", {l}) => l \in AllLines
  BY <1>3, DoneHasAll
<1>5. /\ Adding(Plan(run[t])[i + 2], "queue/channel.rs", {<<"variant", c>>})
      /\ Adding(Plan(run[t])[i + 3], "queue/channel.rs", {<<"listed", c>>})
      /\ Adding(Plan(run[t])[i + 4], "queue/channel.rs", {<<"arm", c>>})
  BY Zenon DEF ChannelSteps
<1>6. <<"variant", c>> \in AllLines /\ <<"listed", c>> \in AllLines /\ <<"arm", c>> \in AllLines
  BY <1>2, <1>4, <1>5, Zenon
<1>. QED
  BY <1>6 DEF ChannelLines

LEMMA DoneIsWiredFromInv == RunType /\ WrittenInv /\ WiredInv => DoneIsWired
<1>. SUFFICES ASSUME RunType, WrittenInv, WiredInv, NEW t \in Terminal, run[t].st = "done",
                     run[t].alone, ~run[t].warned
              PROVE  LET r == run[t]  n == r.cmd.name  c == r.cmd.channel IN
                     /\ r.cmd.app = "api" =>
                          Of(n, {"api mod", "value", "nest", "docs"})
                            \cup {<<"migration boxed", <<n, r.stamp>>>>} \subseteq AllLines
                     /\ r.cmd.app = "worker" => Of(n, {"worker mod", "consumer"}) \subseteq AllLines
                     /\ r.cmd.app = "web" => n \in removed \/ Of(n, Kinds("web")) \subseteq DOMAIN made
                     /\ c # NoChannel /\ ~r.silent => ChannelLines(c) \subseteq AllLines
  BY DEF DoneIsWired
<1>. DEFINE n == run[t].cmd.name  c == run[t].cmd.channel  p == Plan(run[t])
<1>1. run[t] \in Run
  BY DoneHasAll
<1>2. run[t].cmd \in Command /\ run[t].stamp \in 1..MaxRuns
  BY <1>1 DEF Run
<1>3. ASSUME NEW k \in 1..Len(p), NEW f \in Shared, f # "queue/channel.rs", NEW l,
             Adding(p[k], f, {l})
      PROVE  l \in AllLines
  BY <1>3, DoneHasAll
<1>4. /\ "api/modules/mod.rs" \in Shared /\ "api/state.rs" \in Shared /\ "api/lib.rs" \in Shared
      /\ "migration/lib.rs" \in Shared
      /\ "worker/modules/mod.rs" \in Shared /\ "worker/state.rs" \in Shared
  BY DEF Shared
<1>5. ASSUME run[t].cmd.app = "api"
      PROVE  /\ Of(n, {"api mod", "value", "nest", "docs"})
                  \cup {<<"migration boxed", <<n, run[t].stamp>>>>} \subseteq AllLines
             /\ c # NoChannel /\ ~run[t].silent => ChannelLines(c) \subseteq AllLines
  <2>1. n \in Name /\ c \in Channel \cup {NoChannel}
    BY <1>2, <1>5, ConstantsAssumption DEF Command
  <2>2. p = ScaffoldApi(n, c, run[t].stamp)
    BY <1>5 DEF Plan
  <2>3. Len(p) = (IF c = NoChannel THEN 19 ELSE 23) /\ ApiSteps(p, n, c, run[t].stamp)
    <3>1. /\ Len(ScaffoldApi(n, c, run[t].stamp)) = IF c = NoChannel THEN 19 ELSE 23
          /\ ApiSteps(ScaffoldApi(n, c, run[t].stamp), n, c, run[t].stamp)
      BY <2>1, <1>2, ApiTable
    <3>. QED
      BY <2>2, <3>1
  <2>4. 5 \in 1..Len(p) /\ 12 \in 1..Len(p) /\ 16 \in 1..Len(p) /\ 18 \in 1..Len(p) /\ 19 \in 1..Len(p)
    BY <2>3
  <2>5. /\ Adding(p[5], "migration/lib.rs", {<<"migration boxed", <<n, run[t].stamp>>>>})
        /\ Adding(p[12], "api/modules/mod.rs", {<<"api mod", n>>})
        /\ Adding(p[16], "api/state.rs", {<<"value", n>>})
        /\ Adding(p[18], "api/lib.rs", {<<"nest", n>>})
        /\ Adding(p[19], "api/lib.rs", {<<"docs", n>>})
    BY <2>3, Zenon DEF ApiSteps, EntitySteps
  <2>6. <<"migration boxed", <<n, run[t].stamp>>>> \in AllLines
    BY <2>4, <2>5, <1>3, <1>4
  <2>7. <<"api mod", n>> \in AllLines
    BY <2>4, <2>5, <1>3, <1>4
  <2>8. <<"value", n>> \in AllLines
    BY <2>4, <2>5, <1>3, <1>4
  <2>9. <<"nest", n>> \in AllLines
    BY <2>4, <2>5, <1>3, <1>4
  <2>10. <<"docs", n>> \in AllLines
    BY <2>4, <2>5, <1>3, <1>4
  <2>11. ASSUME c # NoChannel, ~run[t].silent PROVE ChannelLines(c) \subseteq AllLines
    <3>1. ChannelSteps(p, 19, c)
      BY <2>3, <2>11, Zenon DEF ApiSteps
    <3>2. 19 + 4 <= Len(p) /\ 19 \in Nat
      BY <2>3, <2>11
    <3>. HIDE DEF c
    <3>. QED
      BY <3>1, <3>2, <2>11, ChannelWired
  <2>. HIDE DEF n
  <2>12. Of(n, {"api mod", "value", "nest", "docs"}) =
           {<<"api mod", n>>, <<"value", n>>, <<"nest", n>>, <<"docs", n>>}
    BY DEF Of
  <2>. QED
    BY <2>6, <2>7, <2>8, <2>9, <2>10, <2>11, <2>12
<1>6. ASSUME run[t].cmd.app = "worker"
      PROVE  /\ Of(n, {"worker mod", "consumer"}) \subseteq AllLines
             /\ ~run[t].silent => ChannelLines(c) \subseteq AllLines
  <2>1. n \in Name /\ c \in Channel
    BY <1>2, <1>6 DEF Command
  <2>2. p = ScaffoldWorker(n, c)
    BY <1>6 DEF Plan
  <2>3. Len(p) = 13 /\ WorkerSteps(p, n, c)
    BY <2>1, <2>2, WorkerTable, Zenon
  <2>4. 6 \in 1..Len(p) /\ 13 \in 1..Len(p)
    BY <2>3
  <2>5. /\ Adding(p[6], "worker/modules/mod.rs", {<<"worker mod", n>>})
        /\ Adding(p[13], "worker/state.rs", {<<"consumer", n>>})
    BY <2>3, Zenon DEF WorkerSteps
  <2>6. <<"worker mod", n>> \in AllLines
    BY <2>4, <2>5, <1>3, <1>4
  <2>7. <<"consumer", n>> \in AllLines
    BY <2>4, <2>5, <1>3, <1>4
  <2>8. ASSUME ~run[t].silent PROVE ChannelLines(c) \subseteq AllLines
    <3>1. ChannelSteps(p, 6, c)
      BY <2>3, Zenon DEF WorkerSteps
    <3>2. 6 + 4 <= Len(p) /\ 6 \in Nat
      BY <2>3
    <3>. HIDE DEF c
    <3>. QED
      BY <3>1, <3>2, <2>8, ChannelWired
  <2>. HIDE DEF n
  <2>9. Of(n, {"worker mod", "consumer"}) = {<<"worker mod", n>>, <<"consumer", n>>}
    BY DEF Of
  <2>. QED
    BY <2>6, <2>7, <2>8, <2>9
<1>7. ASSUME run[t].cmd.app = "web"
      PROVE  (n \in removed \/ Of(n, Kinds("web")) \subseteq DOMAIN made) /\ c = NoChannel
  <2>1. n \in Name /\ c = NoChannel
    BY <1>2, <1>7 DEF Command
  <2>2. p = ScaffoldWeb(n)
    BY <1>7 DEF Plan
  <2>3. Len(p) = 5 /\ WebSteps(p, n)
    BY <2>2, WebTable, Zenon
  <2>4. 1 \in 1..Len(p) /\ 2 \in 1..Len(p) /\ 3 \in 1..Len(p) /\ 4 \in 1..Len(p) /\ 5 \in 1..Len(p)
    BY <2>3
  <2>5. \A k \in 1..Len(p) : \A f, d : Writing(p[k], f, d) => n \in removed \/ f \in DOMAIN made
    BY DoneHasAll
  <2>6. /\ Writing(p[1], <<"web/dto", n>>, NoChannel) /\ Writing(p[2], <<"web/service", n>>, NoChannel)
        /\ Writing(p[3], <<"web/actions", n>>, NoChannel) /\ Writing(p[4], <<"web/crud", n>>, NoChannel)
        /\ Writing(p[5], <<"web/index", n>>, NoChannel)
    BY <2>3, Zenon DEF WebSteps
  <2>7. n \in removed \/ /\ <<"web/dto", n>> \in DOMAIN made /\ <<"web/service", n>> \in DOMAIN made
                         /\ <<"web/actions", n>> \in DOMAIN made /\ <<"web/crud", n>> \in DOMAIN made
                         /\ <<"web/index", n>> \in DOMAIN made
    BY <2>4, <2>5, <2>6, Zenon
  <2>. HIDE DEF n
  <2>8. Of(n, Kinds("web")) = {<<"web/dto", n>>, <<"web/service", n>>, <<"web/actions", n>>,
                              <<"web/crud", n>>, <<"web/index", n>>}
    BY DEF Of, Kinds
  <2>. QED
    BY <2>1, <2>7, <2>8
<1>8. run[t].cmd.app \in {"api", "worker", "web"}
  BY <1>2 DEF Command
<1>. QED
  BY <1>5, <1>6, <1>7, <1>8

\* A run that says Done with no warning, and that overlapped no other, has wired its module.
THEOREM DoneIsWiredHolds == Spec => []DoneIsWired
<1>. DEFINE I == RunType /\ FileInv /\ WrittenInv /\ WiredInv
<1>1. Init => I
  BY RunTypeInit, InvInit, WrittenInvInit, WiredInvInit
<1>2. I /\ [Next]_vars => I'
  BY RunTypeNext, FileInvNext, WrittenInvNext, WiredInvNext
<1>3. I => DoneIsWired
  BY DoneIsWiredFromInv
<1>. QED
  BY <1>1, <1>2, <1>3, PTL DEF Spec

-----------------------------------------------------------------------------
(* The types of what the runs leave behind.                                *)

FilesType ==
    /\ \A f \in Shared : IsABag(text[f])
    /\ DOMAIN made \subseteq File /\ made \in [DOMAIN made -> Channel \cup {NoChannel}]
    /\ DOMAIN seen = Terminal /\ \A t \in Terminal : IsABag(seen[t])
    /\ removed \subseteq Name
    /\ clean \in BOOLEAN

LEMMA SetIsBag ==
    ASSUME NEW B
    PROVE  IsABag(SetToBag(B)) /\ IsABag(EmptyBag)
  BY DEF IsABag, SetToBag, EmptyBag

LEMMA SumIsBag ==
    ASSUME NEW b, NEW B, IsABag(b)
    PROVE  IsABag(b (+) SetToBag(B))
  BY DEF IsABag, SetToBag, (+)

LEMMA FilesTypeInit == Init => FilesType
<1>. SUFFICES ASSUME Init PROVE FilesType
  OBVIOUS
<1>1. \A f \in Shared : IsABag(text[f])
  BY SetIsBag DEF Init, StartText
<1>2. DOMAIN seen = Terminal /\ \A t \in Terminal : IsABag(seen[t])
  BY SetIsBag DEF Init
<1>3. DOMAIN made = {} /\ made \in [DOMAIN made -> Channel \cup {NoChannel}]
  BY DEF Init, EmptyBag, SetToBag
<1>. QED
  BY <1>1, <1>2, <1>3 DEF Init, FilesType

LEMMA FilesTypeNext == RunType /\ FilesType /\ [Next]_vars => FilesType'
<1>. SUFFICES ASSUME RunType, FilesType, [Next]_vars PROVE FilesType'
  OBVIOUS
<1>1. ASSUME NEW t \in Terminal, Writes(t) PROVE FilesType'
  <2>1. Step(t) \in WriteStep
    BY <1>1, StepIsAny DEF Writes
  <2>2. Step(t).file \in File /\ Step(t).channel \in Channel \cup {NoChannel}
    BY <2>1 DEF WriteStep
  <2>3. DOMAIN made' \subseteq File /\ made' \in [DOMAIN made' -> Channel \cup {NoChannel}]
    BY <1>1, <2>2 DEF Writes, FilesType
  <2>. QED
    BY <2>3, <1>1 DEF Writes, FilesType
<1>2. ASSUME NEW t \in Terminal, InsertLooks(t) PROVE FilesType'
  <2>1. Step(t) \in InsertStep
    BY <1>2, StepIsAny DEF InsertLooks
  <2>2. IsABag(text[Step(t).file])
    BY <2>1 DEF InsertStep, FilesType
  <2>3. DOMAIN seen' = Terminal /\ \A u \in Terminal : IsABag(seen'[u])
    BY <2>2, <1>2 DEF InsertLooks, FilesType
  <2>4. clean' \in BOOLEAN
    BY <1>2 DEF InsertLooks, FilesType
  <2>. QED
    BY <2>3, <2>4, <1>2 DEF InsertLooks, FilesType
<1>3. ASSUME NEW t \in Terminal, Inserts(t) PROVE FilesType'
  <2>1. IsABag(seen[t] (+) SetToBag(Step(t).block)) /\ IsABag(EmptyBag)
    BY SumIsBag, SetIsBag DEF FilesType
  <2>. DEFINE b == seen[t] (+) SetToBag(Step(t).block)
  <2>2. text' = [text EXCEPT ![Step(t).file] = b] /\ seen' = [seen EXCEPT ![t] = EmptyBag]
    BY <1>3 DEF Inserts
  <2>. HIDE DEF b
  <2>3. \A f \in Shared : IsABag(text'[f])
    <3>1. \A f \in Shared : text'[f] = b \/ text'[f] = text[f]
      BY <2>2 DEF RunType
    <3>. QED
      BY <2>1, <3>1 DEF FilesType, b
  <2>4. DOMAIN seen' = Terminal /\ \A u \in Terminal : IsABag(seen'[u])
    BY <2>1, <2>2 DEF FilesType
  <2>. QED
    BY <2>3, <2>4, <1>3 DEF Inserts, FilesType
<1>4. ASSUME NEW t \in Terminal, Killed(t) PROVE FilesType'
  <2>1. DOMAIN seen' = Terminal /\ \A u \in Terminal : IsABag(seen'[u])
    BY <1>4, SetIsBag DEF Killed, FilesType
  <2>. QED
    BY <2>1, <1>4 DEF Killed, FilesType
<1>5. ASSUME NEW t \in Terminal, NEW cmd, Start(t, cmd) PROVE FilesType'
  BY <1>5 DEF Start, FilesType
<1>6. ASSUME NEW t \in Terminal, WriteLooks(t) PROVE FilesType'
  <2>1. clean' \in BOOLEAN
    BY <1>6 DEF WriteLooks, FilesType
  <2>. QED
    BY <2>1, <1>6 DEF WriteLooks, FilesType
<1>7. ASSUME NEW t \in Terminal, ChecksChannel(t) \/ SaysDone(t) PROVE FilesType'
  BY <1>7 DEF ChecksChannel, SaysDone, FilesType
<1>8. ASSUME NEW n \in Name, NEW kinds, Removes(n, kinds) PROVE FilesType'
  BY <1>8 DEF Removes, FilesType
<1>9. CASE DropsExample
  <2>1. ASSUME NEW f \in Shared PROVE IsABag(text'[f])
    <3>1. text'[f] = [l \in DOMAIN text[f] \ ExampleLines(f) |-> text[f][l]]
      BY <1>9 DEF DropsExample, Lines
    <3>2. IsABag(text[f])
      BY DEF FilesType
    <3>. QED
      BY <3>1, <3>2 DEF IsABag
  <2>. QED
    BY <2>1, <1>9 DEF DropsExample, FilesType
<1>10. ASSUME UNCHANGED <<text, made, seen, removed, clean>> PROVE FilesType'
  BY <1>10 DEF FilesType
<1>. QED
  BY <1>1, <1>2, <1>3, <1>4, <1>5, <1>6, <1>7, <1>8, <1>9, <1>10 DEF Next, RunStep, Edits, vars

\* What every run finds and leaves has its type: bags of lines that are there at
\* least once, files that a command may generate, naming a channel or none.
THEOREM ScaffolderTypeOKHolds == Spec => []TypeOK
<1>1. Init => RunType /\ FilesType
  BY RunTypeInit, FilesTypeInit
<1>2. RunType /\ FilesType /\ [Next]_vars => (RunType /\ FilesType)'
  BY RunTypeNext, FilesTypeNext
<1>3. RunType /\ FilesType => TypeOK
  BY DEF RunType, FilesType, TypeOK
<1>. QED
  BY <1>1, <1>2, <1>3, PTL DEF Spec

-----------------------------------------------------------------------------
(* What stands between runs compiles.                                      *)

\* The lines of the example module, and the variants that are not vouched for.
Stock == UNION {ExampleLines(f) : f \in Shared}
Exempt == {<<"variant", c>> : c \in Mistaken}

\* What is present but does not hang on the example module.
OwnLines == AllLines \ Stock
Bindings == {<<"binding", l[2]>> : l \in {m \in OwnLines : m[1] \in {"wiring", "wiring with pool"}}}
Firm == DOMAIN made \cup OwnLines \cup (UNION {Offers(f) : f \in DOMAIN made}) \cup Bindings
Sound == Firm \cup Exempt

\* The lines and the files of the steps that the run of t has behind it.
PassedOver(t, k) == run[t].silent /\ Plan(run[t])[k].file = "queue/channel.rs"
Brings(t, f, l) ==
    \E k \in Behind(t) :
      /\ IsInsert(Plan(run[t])[k]) /\ ~PassedOver(t, k)
      /\ Plan(run[t])[k].file = f /\ l \in Plan(run[t])[k].block
Wrote(t, f) ==
    \E k \in Behind(t) : Plan(run[t])[k].op = "write" /\ Plan(run[t])[k].file = f

\* The run of t by itself: its files name the channels of its plan, it writes back all
\* that it has read, and if it passed over the channel it did so where the plan asks,
\* for a variant that is there or not vouched for.
CleanRun(t) ==
    /\ run[t].alone /\ ~run[t].warned
    /\ \A k \in Behind(t) : Plan(run[t])[k].op = "write" =>
         /\ Plan(run[t])[k].file \in DOMAIN made
         /\ made[Plan(run[t])[k].file] = Plan(run[t])[k].channel
    /\ PendingInsert(t) => DOMAIN seen[t] = Lines(Step(t).file)
    /\ run[t].silent =>
         /\ <<"variant", run[t].cmd.channel>> \in Sound
         /\ \E j \in 1..Len(Plan(run[t])) : Plan(run[t])[j].op = "check" /\ j + 4 <= run[t].at

CleanInv ==
    clean =>
      /\ \A t \in Running : CleanRun(t)
      /\ \A f \in Shared : \A l \in Lines(f) \ Stock :
           LineNeeds(l) \subseteq Sound \/ \E t \in Running : Brings(t, f, l)
      /\ \A f \in DOMAIN made :
           FileNeeds(f) \subseteq Sound \/ \E t \in Running : Wrote(t, f)

\* What the lines need of others.
LEMMA LineNeedsTable ==
    ASSUME NEW x
    PROVE  /\ LineNeeds(<<"entities mod", x>>) = {<<"entity", x>>}
           /\ LineNeeds(<<"migration mod", x>>) = {<<"migration", x>>}
           /\ LineNeeds(<<"migration boxed", x>>) = {<<"migration mod", x>>}
           /\ LineNeeds(<<"api mod", x>>) = {<<"api/mod", x>>}
           /\ LineNeeds(<<"use", x>>) = {<<"api mod", x>>}
           /\ LineNeeds(<<"routes use", x>>) = {<<"api mod", x>>}
           /\ LineNeeds(<<"field", x>>) = {<<"use", x>>, <<"value", x>>}
           /\ LineNeeds(<<"repository", x>>) = {<<"use", x>>}
           /\ LineNeeds(<<"wiring", x>>) = {<<"repository", x>>, <<"service without pool", x>>}
           /\ LineNeeds(<<"wiring with pool", x>>) = {<<"repository", x>>, <<"service with pool", x>>}
           /\ LineNeeds(<<"value", x>>) = {<<"field", x>>, <<"binding", x>>}
           /\ LineNeeds(<<"nest", x>>) = {<<"routes use", x>>}
           /\ LineNeeds(<<"docs", x>>) = {<<"routes use", x>>}
           /\ LineNeeds(<<"worker mod", x>>) = {<<"worker/mod", x>>}
           /\ LineNeeds(<<"consumer use", x>>) = {<<"worker mod", x>>}
           /\ LineNeeds(<<"consumer repository", x>>) = {<<"consumer use", x>>}
           /\ LineNeeds(<<"consumer wiring", x>>) = {<<"consumer repository", x>>}
           /\ LineNeeds(<<"consumer", x>>) = {<<"consumer use", x>>, <<"consumer wiring", x>>}
           /\ LineNeeds(<<"variant", x>>) = {<<"arm", x>>}
           /\ LineNeeds(<<"listed", x>>) = {<<"variant", x>>}
           /\ LineNeeds(<<"arm", x>>) = {<<"variant", x>>}
  BY DEF LineNeeds, Of

\* What the files need of others; what they name is in their text.
LEMMA FileNeedsTable ==
    ASSUME NEW n
    PROVE  /\ FileNeeds(<<"entity", n>>) = {} /\ FileNeeds(<<"migration", n>>) = {}
           /\ FileNeeds(<<"api/dto", n>>) = {<<"entity", n>>, <<"entities mod", n>>}
           /\ FileNeeds(<<"api/repository", n>>) =
                {<<"entity", n>>, <<"entities mod", n>>, <<"api/dto", n>>}
           /\ FileNeeds(<<"api/service", n>>) =
                {<<"api/dto", n>>, <<"api/repository", n>>}
                \cup IF made[<<"api/service", n>>] = NoChannel THEN {}
                     ELSE {<<"variant", made[<<"api/service", n>>]>>}
           /\ FileNeeds(<<"api/controller", n>>) =
                {<<"api/dto", n>>, <<"field", n>>}
                \cup IF made[<<"api/controller", n>>] = NoChannel THEN {}
                     ELSE {<<"service publishes", n>>}
           /\ FileNeeds(<<"api/route", n>>) =
                {<<"api/controller", n>>}
                \cup IF made[<<"api/route", n>>] = NoChannel THEN {}
                     ELSE {<<"controller publishes", n>>}
           /\ FileNeeds(<<"api/mod", n>>) =
                {<<"api/dto", n>>, <<"api/repository", n>>, <<"api/service", n>>,
                 <<"api/controller", n>>, <<"api/route", n>>}
<1>1. FileNeeds(<<"entity", n>>) = {} /\ FileNeeds(<<"migration", n>>) = {}
  BY DEF FileNeeds, EntityNeeds, MigrationNeeds
<1>2. FileNeeds(<<"api/dto", n>>) = {<<"entity", n>>, <<"entities mod", n>>}
  BY DEF FileNeeds, ApiDtoNeeds, Of
<1>3. FileNeeds(<<"api/repository", n>>) = {<<"entity", n>>, <<"entities mod", n>>, <<"api/dto", n>>}
  BY DEF FileNeeds, ApiRepositoryNeeds, Of
<1>4. FileNeeds(<<"api/service", n>>) =
        {<<"api/dto", n>>, <<"api/repository", n>>}
        \cup IF made[<<"api/service", n>>] = NoChannel THEN {}
             ELSE {<<"variant", made[<<"api/service", n>>]>>}
  BY DEF FileNeeds, ApiServiceNeeds, Of
<1>5. FileNeeds(<<"api/controller", n>>) =
        {<<"api/dto", n>>, <<"field", n>>}
        \cup IF made[<<"api/controller", n>>] = NoChannel THEN {}
             ELSE {<<"service publishes", n>>}
  BY DEF FileNeeds, ApiControllerNeeds, Of
<1>6. FileNeeds(<<"api/route", n>>) =
        {<<"api/controller", n>>}
        \cup IF made[<<"api/route", n>>] = NoChannel THEN {}
             ELSE {<<"controller publishes", n>>}
  BY DEF FileNeeds, ApiRouteNeeds, Of
<1>7. FileNeeds(<<"api/mod", n>>) =
        {<<"api/dto", n>>, <<"api/repository", n>>, <<"api/service", n>>,
         <<"api/controller", n>>, <<"api/route", n>>}
  <2>1. FileNeeds(<<"api/mod", n>>) = ApiModNeeds(n)
    BY DEF FileNeeds
  <2>2. Kinds("api") \ {"api/mod"} =
          {"api/dto", "api/repository", "api/service", "api/controller", "api/route"}
    BY DEF Kinds
  <2>. QED
    BY <2>1, <2>2 DEF ApiModNeeds, Of
<1>. QED
  BY <1>1, <1>2, <1>3, <1>4, <1>5, <1>6, <1>7

LEMMA WorkerNeedsTable ==
    ASSUME NEW n
    PROVE  /\ FileNeeds(<<"worker/dto", n>>) = {} /\ FileNeeds(<<"worker/repository", n>>) = {}
           /\ FileNeeds(<<"worker/service", n>>) = {<<"worker/repository", n>>}
           /\ FileNeeds(<<"worker/consumer", n>>) =
                {<<"worker/dto", n>>, <<"worker/service", n>>,
                 <<"variant", made[<<"worker/consumer", n>>]>>}
           /\ FileNeeds(<<"worker/mod", n>>) =
                {<<"worker/dto", n>>, <<"worker/repository", n>>, <<"worker/service", n>>,
                 <<"worker/consumer", n>>}
<1>1. FileNeeds(<<"worker/dto", n>>) = {} /\ FileNeeds(<<"worker/repository", n>>) = {}
  BY DEF FileNeeds, WorkerDtoNeeds, WorkerRepositoryNeeds
<1>2. FileNeeds(<<"worker/service", n>>) = {<<"worker/repository", n>>}
  BY DEF FileNeeds, WorkerServiceNeeds, Of
<1>3. FileNeeds(<<"worker/consumer", n>>) =
        {<<"worker/dto", n>>, <<"worker/service", n>>,
         <<"variant", made[<<"worker/consumer", n>>]>>}
  BY DEF FileNeeds, WorkerConsumerNeeds, Of
<1>4. FileNeeds(<<"worker/mod", n>>) =
        {<<"worker/dto", n>>, <<"worker/repository", n>>, <<"worker/service", n>>,
         <<"worker/consumer", n>>}
  <2>1. FileNeeds(<<"worker/mod", n>>) = WorkerModNeeds(n)
    BY DEF FileNeeds
  <2>2. Kinds("worker") \ {"worker/mod"} =
          {"worker/dto", "worker/repository", "worker/service", "worker/consumer"}
    BY DEF Kinds
  <2>. QED
    BY <2>1, <2>2 DEF WorkerModNeeds, Of
<1>. QED
  BY <1>1, <1>2, <1>3, <1>4

LEMMA WebNeedsTable ==
    ASSUME NEW n
    PROVE  /\ FileNeeds(<<"web/dto", n>>) = {}
           /\ FileNeeds(<<"web/service", n>>) = {<<"web/dto", n>>}
           /\ FileNeeds(<<"web/actions", n>>) = {<<"web/dto", n>>}
           /\ FileNeeds(<<"web/crud", n>>) = {<<"web/actions", n>>, <<"web/dto", n>>}
           /\ FileNeeds(<<"web/index", n>>) =
                {<<"web/crud", n>>, <<"web/dto", n>>, <<"web/service", n>>}
  BY DEF FileNeeds, WebDtoNeeds, WebServiceNeeds, WebActionsNeeds, WebCrudNeeds, WebIndexNeeds, Of

-----------------------------------------------------------------------------
(* A plan whose every step has been done compiles. *)

\* All that the plan p writes and adds is there, but for the files it passes over.
Stands(p, over) ==
    \A k \in 1..Len(p) :
      /\ p[k].op = "write" => p[k].file \in DOMAIN made /\ made[p[k].file] = p[k].channel
      /\ IsInsert(p[k]) => p[k].file \in over \/ p[k].block \subseteq AllLines

Grounded(s, over) ==
    /\ s.op = "write" => FileNeeds(s.file) \subseteq Sound
    /\ IsInsert(s) => \/ s.file \in over
                      \/ \A l \in s.block : LineNeeds(l) \subseteq Sound

LEMMA WriteStands ==
    ASSUME NEW p, NEW over, Stands(p, over), NEW k \in 1..Len(p), NEW f, NEW d, Writing(p[k], f, d)
    PROVE  f \in DOMAIN made /\ made[f] = d /\ f \in Sound /\ Offers(f) \subseteq Sound
  BY DEF Stands, Writing, Sound, Firm

LEMMA NotOfStock ==
    ASSUME NEW l, l[2] # Example \/ l[1] \notin ExampleWords
    PROVE  l \notin Stock
  BY ExampleLinesAre DEF Stock

LEMMA AddStands ==
    ASSUME NEW p, NEW over, Stands(p, over), NEW k \in 1..Len(p), NEW f, NEW B, Adding(p[k], f, B),
           f \notin over, NEW l \in B,
           l[2] # Example \/ l[1] \notin ExampleWords
    PROVE  l \in OwnLines /\ l \in Sound
<1>1. IsInsert(p[k]) /\ p[k].file = f /\ p[k].block = B
  BY DEF Adding, IsInsert
<1>2. l \in AllLines
  BY <1>1 DEF Stands
<1>3. l \notin Stock
  BY NotOfStock
<1>. QED
  BY <1>2, <1>3 DEF OwnLines, Sound, Firm

LEMMA LineStands ==
    ASSUME NEW p, NEW over, Stands(p, over), NEW k \in 1..Len(p), NEW f, NEW w, NEW x,
           Adding(p[k], f, {<<w, x>>}), f \notin over,
           x # Example \/ w \notin ExampleWords
    PROVE  <<w, x>> \in Sound
<1>. DEFINE l == <<w, x>>
<1>1. Adding(p[k], f, {l}) /\ (l[2] # Example \/ l[1] \notin ExampleWords)
  OBVIOUS
<1>. HIDE DEF l
<1>2. l \in {l}
  OBVIOUS
<1>3. l \in Sound
  BY <1>1, <1>2, AddStands
<1>. QED
  BY <1>3 DEF l

LEMMA BindingStands ==
    ASSUME NEW l \in OwnLines, l[1] \in {"wiring", "wiring with pool"}
    PROVE  <<"binding", l[2]>> \in Sound
<1>1. <<"binding", l[2]>> \in Bindings
  BY DEF Bindings
<1>. QED
  BY <1>1 DEF Sound, Firm

LEMMA WriteIsGrounded ==
    ASSUME NEW s, NEW over, NEW f, NEW d, Writing(s, f, d), FileNeeds(f) \subseteq Sound
    PROVE  Grounded(s, over)
  BY DEF Writing, Grounded, IsInsert

LEMMA AddIsGrounded ==
    ASSUME NEW s, NEW over, NEW f, NEW B, Adding(s, f, B),
           f \in over \/ \A l \in B : LineNeeds(l) \subseteq Sound
    PROVE  Grounded(s, over)
  BY DEF Adding, Grounded, IsInsert

LEMMA AskIsGrounded ==
    ASSUME NEW s, NEW over, NEW c, Asking(s, c)
    PROVE  Grounded(s, over)
  BY DEF Asking, Grounded, IsInsert

LEMMA OffersTable ==
    ASSUME NEW n
    PROVE  /\ LET c == made[<<"api/service", n>>] IN
              Offers(<<"api/service", n>>) =
                IF c = NoChannel THEN {<<"service without pool", n>>}
                ELSE {<<"service with pool", n>>, <<"service publishes", n>>}
           /\ made[<<"api/controller", n>>] # NoChannel =>
                Offers(<<"api/controller", n>>) = {<<"controller publishes", n>>}
  BY DEF Offers, Of

\* The steps about the channel, whether they were passed over or not.
LEMMA ChannelIsGrounded ==
    ASSUME NEW p, NEW over, Stands(p, over), NEW i \in Nat, NEW c, ChannelSteps(p, i, c),
           Len(p) \in Nat, i + 4 <= Len(p), "queue/channel.rs" \in over => <<"variant", c>> \in Sound
    PROVE  <<"variant", c>> \in Sound /\ \A k \in (i + 1)..(i + 4) : Grounded(p[k], over)
<1>1. /\ Asking(p[i + 1], c)
      /\ Adding(p[i + 2], "queue/channel.rs", {<<"variant", c>>})
      /\ Adding(p[i + 3], "queue/channel.rs", {<<"listed", c>>})
      /\ Adding(p[i + 4], "queue/channel.rs", {<<"arm", c>>})
  BY Zenon DEF ChannelSteps
<1>2. \A k \in (i + 1)..(i + 4) : k = i + 1 \/ k = i + 2 \/ k = i + 3 \/ k = i + 4
  OBVIOUS
<1>3. i + 2 \in 1..Len(p) /\ i + 3 \in 1..Len(p) /\ i + 4 \in 1..Len(p)
  OBVIOUS
<1>4. Grounded(p[i + 1], over)
  BY <1>1, AskIsGrounded
<1>5. CASE "queue/channel.rs" \in over
  <2>1. \A k \in {i + 2, i + 3, i + 4} : \A B :
          Adding(p[k], "queue/channel.rs", B) => Grounded(p[k], over)
    BY <1>5, AddIsGrounded
  <2>2. Grounded(p[i + 2], over) /\ Grounded(p[i + 3], over) /\ Grounded(p[i + 4], over)
    BY <1>1, <2>1, Zenon
  <2>. QED
    BY <1>2, <1>4, <1>5, <2>2
<1>6. CASE "queue/channel.rs" \notin over
  <2>1. "variant" \notin ExampleWords /\ "arm" \notin ExampleWords
    BY DEF ExampleWords
  <2>2. <<"variant", c>> \in Sound
    BY <1>1, <1>3, <1>6, <2>1, LineStands, Zenon
  <2>3. <<"arm", c>> \in Sound
    BY <1>1, <1>3, <1>6, <2>1, LineStands, Zenon
  <2>4. /\ LineNeeds(<<"variant", c>>) \subseteq Sound /\ LineNeeds(<<"listed", c>>) \subseteq Sound
        /\ LineNeeds(<<"arm", c>>) \subseteq Sound
    <3>1. /\ LineNeeds(<<"variant", c>>) = {<<"arm", c>>}
          /\ LineNeeds(<<"listed", c>>) = {<<"variant", c>>}
          /\ LineNeeds(<<"arm", c>>) = {<<"variant", c>>}
      BY LineNeedsTable, Zenon
    <3>. QED
      BY <2>2, <2>3, <3>1
  <2>5. ASSUME NEW s, NEW l, LineNeeds(l) \subseteq Sound, Adding(s, "queue/channel.rs", {l})
        PROVE  Grounded(s, over)
    BY <2>5, AddIsGrounded
  <2>6. Grounded(p[i + 2], over) /\ Grounded(p[i + 3], over) /\ Grounded(p[i + 4], over)
    BY <1>1, <2>4, <2>5, Zenon
  <2>. QED
    BY <1>2, <1>4, <2>2, <2>6
<1>. QED
  BY <1>5, <1>6

LEMMA ApiIsGrounded ==
    ASSUME NEW n \in Name, NEW c, NEW s, NEW p, ApiSteps(p, n, c, s),
           Len(p) = (IF c = NoChannel THEN 19 ELSE 23),
           NEW over, over \subseteq {"queue/channel.rs"}, Stands(p, over),
           "queue/channel.rs" \in over /\ c # NoChannel => <<"variant", c>> \in Sound
    PROVE  \A k \in 1..Len(p) : Grounded(p[k], over)
<1>1. /\ Writing(p[1], <<"entity", n>>, NoChannel)
      /\ Adding(p[2], "entities/mod.rs", {<<"entities mod", n>>})
      /\ Writing(p[3], <<"migration", <<n, s>>>>, NoChannel)
      /\ Adding(p[4], "migration/lib.rs", {<<"migration mod", <<n, s>>>>})
      /\ Adding(p[5], "migration/lib.rs", {<<"migration boxed", <<n, s>>>>})
  BY Zenon DEF ApiSteps, EntitySteps
<1>2. /\ Writing(p[6], <<"api/dto", n>>, NoChannel)
      /\ Writing(p[7], <<"api/repository", n>>, NoChannel)
      /\ Writing(p[8], <<"api/service", n>>, c)
      /\ Writing(p[9], <<"api/controller", n>>, c)
      /\ Writing(p[10], <<"api/route", n>>, c)
      /\ Writing(p[11], <<"api/mod", n>>, NoChannel)
  BY Zenon DEF ApiSteps
<1>3. /\ Adding(p[12], "api/modules/mod.rs", {<<"api mod", n>>})
      /\ Adding(p[13], "api/state.rs", {<<"use", n>>})
      /\ Adding(p[14], "api/state.rs", {<<"field", n>>})
      /\ Adding(p[15], "api/state.rs", Binding(n, c))
      /\ Adding(p[16], "api/state.rs", {<<"value", n>>})
      /\ Adding(p[17], "api/lib.rs", {<<"routes use", n>>})
      /\ Adding(p[18], "api/lib.rs", {<<"nest", n>>})
      /\ Adding(p[19], "api/lib.rs", {<<"docs", n>>})
  BY Zenon DEF ApiSteps
<1>4. \A k \in 1..19 : k \in 1..Len(p)
  OBVIOUS
<1>5. n # Example
  BY ConstantsAssumption
\* Whatever a step writes or adds is there.
<1>6. ASSUME NEW k \in 1..19, NEW f, NEW d, Writing(p[k], f, d)
      PROVE  f \in DOMAIN made /\ made[f] = d /\ f \in Sound /\ Offers(f) \subseteq Sound
  BY <1>4, <1>6, WriteStands
<1>7. ASSUME NEW k \in 1..19, NEW f, NEW w, NEW x, Adding(p[k], f, {<<w, x>>}),
             f # "queue/channel.rs", x # Example \/ w \notin ExampleWords
      PROVE  <<w, x>> \in Sound
  <2>. DEFINE l == <<w, x>>  B == {l}
  <2>1. /\ k \in 1..Len(p) /\ Adding(p[k], f, B) /\ l \in B
        /\ l[2] # Example \/ l[1] \notin ExampleWords
        /\ f \notin over
    BY <1>4, <1>7
  <2>. HIDE DEF l, B
  <2>2. l \in Sound
    BY <2>1, AddStands, Zenon
  <2>. QED
    BY <2>2 DEF l
<1>8. /\ 1 \in 1..19 /\ 2 \in 1..19 /\ 3 \in 1..19 /\ 4 \in 1..19 /\ 5 \in 1..19 /\ 6 \in 1..19
      /\ 7 \in 1..19 /\ 8 \in 1..19 /\ 9 \in 1..19 /\ 10 \in 1..19 /\ 11 \in 1..19 /\ 12 \in 1..19
      /\ 13 \in 1..19 /\ 14 \in 1..19 /\ 15 \in 1..19 /\ 16 \in 1..19 /\ 17 \in 1..19
      /\ 18 \in 1..19 /\ 19 \in 1..19
  OBVIOUS
<1>9. /\ "entities/mod.rs" # "queue/channel.rs" /\ "migration/lib.rs" # "queue/channel.rs"
      /\ "api/modules/mod.rs" # "queue/channel.rs" /\ "api/state.rs" # "queue/channel.rs"
      /\ "api/lib.rs" # "queue/channel.rs" /\ "migration mod" \notin ExampleWords
  BY DEF ExampleWords
<1>10. /\ <<"entity", n>> \in Sound /\ <<"migration", <<n, s>>>> \in Sound
       /\ <<"api/dto", n>> \in Sound /\ <<"api/repository", n>> \in Sound
       /\ <<"api/service", n>> \in Sound /\ <<"api/controller", n>> \in Sound
       /\ <<"api/route", n>> \in Sound /\ <<"api/mod", n>> \in Sound
  <2>1. <<"entity", n>> \in Sound /\ <<"migration", <<n, s>>>> \in Sound
    BY <1>1, <1>6, <1>8, Zenon
  <2>2. <<"api/dto", n>> \in Sound /\ <<"api/repository", n>> \in Sound /\ <<"api/service", n>> \in Sound
    BY <1>2, <1>6, <1>8, Zenon
  <2>3. <<"api/controller", n>> \in Sound /\ <<"api/route", n>> \in Sound /\ <<"api/mod", n>> \in Sound
    BY <1>2, <1>6, <1>8, Zenon
  <2>. QED
    BY <2>1, <2>2, <2>3
<1>11. <<"entities mod", n>> \in Sound /\ <<"migration mod", <<n, s>>>> \in Sound
  BY <1>1, <1>5, <1>7, <1>8, <1>9, Zenon
<1>12. /\ <<"api mod", n>> \in Sound /\ <<"use", n>> \in Sound /\ <<"field", n>> \in Sound
       /\ <<"value", n>> \in Sound /\ <<"routes use", n>> \in Sound
  <2>1. <<"api mod", n>> \in Sound /\ <<"use", n>> \in Sound /\ <<"field", n>> \in Sound
    BY <1>3, <1>5, <1>7, <1>8, <1>9, Zenon
  <2>2. <<"value", n>> \in Sound /\ <<"routes use", n>> \in Sound
    BY <1>3, <1>5, <1>7, <1>8, <1>9, Zenon
  <2>. QED
    BY <2>1, <2>2
<1>13. /\ made[<<"api/service", n>>] = c /\ made[<<"api/controller", n>>] = c
       /\ made[<<"api/route", n>>] = c
       /\ Offers(<<"api/service", n>>) \subseteq Sound /\ Offers(<<"api/controller", n>>) \subseteq Sound
  <2>1. made[<<"api/service", n>>] = c /\ Offers(<<"api/service", n>>) \subseteq Sound
    BY <1>2, <1>6, <1>8
  <2>2. made[<<"api/controller", n>>] = c /\ Offers(<<"api/controller", n>>) \subseteq Sound
    BY <1>2, <1>6, <1>8
  <2>3. made[<<"api/route", n>>] = c
    BY <1>2, <1>6, <1>8
  <2>. QED
    BY <2>1, <2>2, <2>3
<1>14. /\ <<IF c = NoChannel THEN "service without pool" ELSE "service with pool", n>> \in Sound
       /\ c # NoChannel => <<"service publishes", n>> \in Sound /\ <<"controller publishes", n>> \in Sound
  BY <1>13, OffersTable
<1>15. c # NoChannel => <<"variant", c>> \in Sound /\ \A k \in 20..23 : Grounded(p[k], over)
  <2>. SUFFICES ASSUME c # NoChannel
                PROVE  <<"variant", c>> \in Sound /\ \A k \in 20..23 : Grounded(p[k], over)
    OBVIOUS
  <2>1. ChannelSteps(p, 19, c)
    BY Zenon DEF ApiSteps
  <2>2. Len(p) \in Nat /\ 19 + 4 <= Len(p) /\ 19 \in Nat
    OBVIOUS
  <2>3. <<"variant", c>> \in Sound /\ \A k \in (19 + 1)..(19 + 4) : Grounded(p[k], over)
    BY <2>1, <2>2, ChannelIsGrounded
  <2>. QED
    BY <2>3
\* The two lines that bind the service.
<1>16. \A l \in Binding(n, c) : LineNeeds(l) \subseteq Sound
  <2>1. /\ LineNeeds(<<"repository", n>>) = {<<"use", n>>}
        /\ LineNeeds(<<"wiring", n>>) = {<<"repository", n>>, <<"service without pool", n>>}
        /\ LineNeeds(<<"wiring with pool", n>>) = {<<"repository", n>>, <<"service with pool", n>>}
    BY LineNeedsTable, Zenon
  <2>2. <<"repository", n>> \in Sound
    <3>1. <<"repository", n>> \in Binding(n, c)
      BY DEF Binding
    <3>. DEFINE l == <<"repository", n>>
    <3>2. l \in Binding(n, c) /\ l[2] # Example
      BY <3>1, <1>5
    <3>. HIDE DEF l
    <3>3. l \in Sound
      BY <3>2, <1>3, <1>4, <1>8, <1>9, AddStands, Zenon
    <3>. QED
      BY <3>3 DEF l
  <2>. QED
    BY <2>1, <2>2, <1>12, <1>14 DEF Binding
<1>17. <<"binding", n>> \in Sound
  <2>1. \E l \in Binding(n, c) : l[1] \in {"wiring", "wiring with pool"} /\ l[2] = n
    <3>1. /\ <<"wiring", n>>[1] = "wiring" /\ <<"wiring", n>>[2] = n
          /\ <<"wiring with pool", n>>[1] = "wiring with pool" /\ <<"wiring with pool", n>>[2] = n
      OBVIOUS
    <3>2. <<"wiring", n>> \in Binding(n, c) \/ <<"wiring with pool", n>> \in Binding(n, c)
      BY DEF Binding
    <3>. QED
      BY <3>1, <3>2
  <2>2. PICK l \in Binding(n, c) : l[1] \in {"wiring", "wiring with pool"} /\ l[2] = n
    BY <2>1
  <2>3. l \in OwnLines
    BY <2>2, <1>3, <1>4, <1>5, <1>8, <1>9, AddStands, Zenon
  <2>. QED
    BY <2>2, <2>3, BindingStands
\* What every step asks for.
<1>18. ASSUME NEW k, NEW f, NEW d, Writing(p[k], f, d), FileNeeds(f) \subseteq Sound
       PROVE  Grounded(p[k], over)
  BY <1>18, WriteIsGrounded
<1>19. ASSUME NEW k, NEW f, NEW l, Adding(p[k], f, {l}), LineNeeds(l) \subseteq Sound
       PROVE  Grounded(p[k], over)
  BY <1>19, AddIsGrounded
<1>20. \A k \in {1, 3, 6, 7, 8, 9, 10, 11} : Grounded(p[k], over)
  <2>1. /\ FileNeeds(<<"entity", n>>) \subseteq Sound
        /\ FileNeeds(<<"migration", <<n, s>>>>) \subseteq Sound
    BY FileNeedsTable
  <2>2. /\ FileNeeds(<<"api/dto", n>>) \subseteq Sound /\ FileNeeds(<<"api/repository", n>>) \subseteq Sound
        /\ FileNeeds(<<"api/mod", n>>) \subseteq Sound
    <3>1. /\ FileNeeds(<<"api/dto", n>>) = {<<"entity", n>>, <<"entities mod", n>>}
          /\ FileNeeds(<<"api/repository", n>>) =
               {<<"entity", n>>, <<"entities mod", n>>, <<"api/dto", n>>}
          /\ FileNeeds(<<"api/mod", n>>) =
               {<<"api/dto", n>>, <<"api/repository", n>>, <<"api/service", n>>,
                <<"api/controller", n>>, <<"api/route", n>>}
      BY FileNeedsTable, Zenon
    <3>. QED
      BY <1>10, <1>11, <3>1
  <2>3. /\ FileNeeds(<<"api/service", n>>) \subseteq Sound
        /\ FileNeeds(<<"api/controller", n>>) \subseteq Sound
        /\ FileNeeds(<<"api/route", n>>) \subseteq Sound
    <3>1. /\ FileNeeds(<<"api/service", n>>) =
               {<<"api/dto", n>>, <<"api/repository", n>>}
               \cup IF made[<<"api/service", n>>] = NoChannel THEN {}
                    ELSE {<<"variant", made[<<"api/service", n>>]>>}
          /\ FileNeeds(<<"api/controller", n>>) =
               {<<"api/dto", n>>, <<"field", n>>}
               \cup IF made[<<"api/controller", n>>] = NoChannel THEN {}
                    ELSE {<<"service publishes", n>>}
          /\ FileNeeds(<<"api/route", n>>) =
               {<<"api/controller", n>>}
               \cup IF made[<<"api/route", n>>] = NoChannel THEN {}
                    ELSE {<<"controller publishes", n>>}
      BY FileNeedsTable, Zenon
    <3>2. FileNeeds(<<"api/service", n>>) \subseteq Sound
      BY <3>1, <1>10, <1>13, <1>15
    <3>3. FileNeeds(<<"api/controller", n>>) \subseteq Sound
      BY <3>1, <1>10, <1>12, <1>13, <1>14
    <3>4. FileNeeds(<<"api/route", n>>) \subseteq Sound
      BY <3>1, <1>10, <1>13, <1>14
    <3>. QED
      BY <3>2, <3>3, <3>4
  <2>4. Grounded(p[1], over) /\ Grounded(p[3], over) /\ Grounded(p[6], over) /\ Grounded(p[7], over)
    BY <1>1, <1>2, <1>18, <2>1, <2>2, Zenon
  <2>5. Grounded(p[8], over) /\ Grounded(p[9], over) /\ Grounded(p[10], over) /\ Grounded(p[11], over)
    BY <1>2, <1>18, <2>2, <2>3, Zenon
  <2>. QED
    BY <2>4, <2>5
<1>21. \A k \in {2, 4, 5, 12, 13, 14, 15, 16, 17, 18, 19} : Grounded(p[k], over)
  <2>1. /\ LineNeeds(<<"entities mod", n>>) \subseteq Sound
        /\ LineNeeds(<<"migration mod", <<n, s>>>>) \subseteq Sound
        /\ LineNeeds(<<"migration boxed", <<n, s>>>>) \subseteq Sound
    <3>1. /\ LineNeeds(<<"entities mod", n>>) = {<<"entity", n>>}
          /\ LineNeeds(<<"migration mod", <<n, s>>>>) = {<<"migration", <<n, s>>>>}
          /\ LineNeeds(<<"migration boxed", <<n, s>>>>) = {<<"migration mod", <<n, s>>>>}
      BY LineNeedsTable, Zenon
    <3>. QED
      BY <1>10, <1>11, <3>1
  <2>2. /\ LineNeeds(<<"api mod", n>>) \subseteq Sound /\ LineNeeds(<<"use", n>>) \subseteq Sound
        /\ LineNeeds(<<"field", n>>) \subseteq Sound /\ LineNeeds(<<"value", n>>) \subseteq Sound
    <3>1. /\ LineNeeds(<<"api mod", n>>) = {<<"api/mod", n>>}
          /\ LineNeeds(<<"use", n>>) = {<<"api mod", n>>}
          /\ LineNeeds(<<"field", n>>) = {<<"use", n>>, <<"value", n>>}
          /\ LineNeeds(<<"value", n>>) = {<<"field", n>>, <<"binding", n>>}
      BY LineNeedsTable, Zenon
    <3>. QED
      BY <1>10, <1>12, <1>17, <3>1
  <2>3. /\ LineNeeds(<<"routes use", n>>) \subseteq Sound /\ LineNeeds(<<"nest", n>>) \subseteq Sound
        /\ LineNeeds(<<"docs", n>>) \subseteq Sound
    <3>1. /\ LineNeeds(<<"routes use", n>>) = {<<"api mod", n>>}
          /\ LineNeeds(<<"nest", n>>) = {<<"routes use", n>>}
          /\ LineNeeds(<<"docs", n>>) = {<<"routes use", n>>}
      BY LineNeedsTable, Zenon
    <3>. QED
      BY <1>12, <3>1
  <2>4. Grounded(p[2], over) /\ Grounded(p[4], over) /\ Grounded(p[5], over)
    BY <1>1, <1>19, <2>1, Zenon
  <2>5. Grounded(p[12], over) /\ Grounded(p[13], over) /\ Grounded(p[14], over) /\ Grounded(p[16], over)
    BY <1>3, <1>19, <2>2, Zenon
  <2>6. Grounded(p[17], over) /\ Grounded(p[18], over) /\ Grounded(p[19], over)
    BY <1>3, <1>19, <2>3, Zenon
  <2>7. Grounded(p[15], over)
    <3>. DEFINE B == Binding(n, c)
    <3>1. Adding(p[15], "api/state.rs", B) /\ \A l \in B : LineNeeds(l) \subseteq Sound
      BY <1>3, <1>16
    <3>. HIDE DEF B
    <3>. QED
      BY <3>1, AddIsGrounded
  <2>. QED
    BY <2>4, <2>5, <2>6, <2>7
<1>22. \A k \in 1..19 : Grounded(p[k], over)
  <2>1. \A k \in 1..19 : k \in {1, 3, 6, 7, 8, 9, 10, 11}
                         \/ k \in {2, 4, 5, 12, 13, 14, 15, 16, 17, 18, 19}
    OBVIOUS
  <2>. QED
    BY <2>1, <1>20, <1>21, Zenon
<1>23. \A k \in 1..Len(p) : k \in 1..19 \/ (c # NoChannel /\ k \in 20..23)
  OBVIOUS
<1>. QED
  BY <1>15, <1>22, <1>23, Zenon

LEMMA WorkerIsGrounded ==
    ASSUME NEW n \in Name, NEW c, NEW p, WorkerSteps(p, n, c), Len(p) = 13,
           NEW over, over \subseteq {"queue/channel.rs"}, Stands(p, over),
           "queue/channel.rs" \in over => <<"variant", c>> \in Sound
    PROVE  \A k \in 1..Len(p) : Grounded(p[k], over)
<1>1. /\ Writing(p[1], <<"worker/dto", n>>, NoChannel)
      /\ Writing(p[2], <<"worker/repository", n>>, NoChannel)
      /\ Writing(p[3], <<"worker/service", n>>, NoChannel)
      /\ Writing(p[4], <<"worker/consumer", n>>, c)
      /\ Writing(p[5], <<"worker/mod", n>>, NoChannel)
  BY Zenon DEF WorkerSteps
<1>2. /\ Adding(p[6], "worker/modules/mod.rs", {<<"worker mod", n>>})
      /\ ChannelSteps(p, 6, c)
      /\ Adding(p[11], "worker/state.rs", {<<"consumer use", n>>})
      /\ Adding(p[12], "worker/state.rs", {<<"consumer repository", n>>, <<"consumer wiring", n>>})
      /\ Adding(p[13], "worker/state.rs", {<<"consumer", n>>})
  BY Zenon DEF WorkerSteps
<1>3. n # Example
  BY ConstantsAssumption
<1>4. ASSUME NEW k \in 1..13, NEW f, NEW d, Writing(p[k], f, d)
      PROVE  f \in DOMAIN made /\ made[f] = d /\ f \in Sound
  <2>1. k \in 1..Len(p)
    OBVIOUS
  <2>2. f \in DOMAIN made /\ made[f] = d /\ f \in Sound /\ Offers(f) \subseteq Sound
    BY <2>1, <1>4, WriteStands
  <2>. QED
    BY <2>2
<1>5. ASSUME NEW k \in 1..13, NEW f, NEW B, Adding(p[k], f, B), f # "queue/channel.rs",
             NEW l \in B, l[2] # Example
      PROVE  l \in Sound
  <2>1. k \in 1..Len(p) /\ f \notin over
    BY <1>5
  <2>. QED
    BY <2>1, <1>5, AddStands, Zenon
<1>6. /\ 1 \in 1..13 /\ 2 \in 1..13 /\ 3 \in 1..13 /\ 4 \in 1..13 /\ 5 \in 1..13 /\ 6 \in 1..13
      /\ 11 \in 1..13 /\ 12 \in 1..13
  OBVIOUS
<1>7. "worker/modules/mod.rs" # "queue/channel.rs" /\ "worker/state.rs" # "queue/channel.rs"
  OBVIOUS
<1>8. /\ <<"worker/dto", n>> \in Sound /\ <<"worker/repository", n>> \in Sound
      /\ <<"worker/service", n>> \in Sound /\ <<"worker/consumer", n>> \in Sound
      /\ <<"worker/mod", n>> \in Sound
  BY <1>1, <1>4, <1>6, Zenon
<1>9. made[<<"worker/consumer", n>>] = c
  BY <1>1, <1>4, <1>6
<1>10. <<"variant", c>> \in Sound /\ \A k \in 7..10 : Grounded(p[k], over)
  <2>1. Len(p) \in Nat /\ 6 + 4 <= Len(p) /\ 6 \in Nat
    OBVIOUS
  <2>2. <<"variant", c>> \in Sound /\ \A k \in (6 + 1)..(6 + 4) : Grounded(p[k], over)
    BY <1>2, <2>1, ChannelIsGrounded
  <2>. QED
    BY <2>2
<1>11. ASSUME NEW k \in 1..13, NEW f, NEW B, Adding(p[k], f, B), f # "queue/channel.rs", NEW w,
              <<w, n>> \in B
       PROVE  <<w, n>> \in Sound
  <2>. DEFINE l == <<w, n>>
  <2>1. l \in B /\ l[2] # Example
    BY <1>3, <1>11
  <2>. HIDE DEF l
  <2>2. l \in Sound
    BY <2>1, <1>5, <1>11
  <2>. QED
    BY <2>2 DEF l
<1>12. /\ <<"worker mod", n>> \in Sound /\ <<"consumer use", n>> \in Sound
       /\ <<"consumer repository", n>> \in Sound /\ <<"consumer wiring", n>> \in Sound
  <2>. DEFINE M == {<<"worker mod", n>>}  U == {<<"consumer use", n>>}
              W == {<<"consumer repository", n>>, <<"consumer wiring", n>>}
  <2>1. /\ <<"worker mod", n>> \in M /\ <<"consumer use", n>> \in U
        /\ <<"consumer repository", n>> \in W /\ <<"consumer wiring", n>> \in W
        /\ Adding(p[6], "worker/modules/mod.rs", M) /\ Adding(p[11], "worker/state.rs", U)
        /\ Adding(p[12], "worker/state.rs", W)
    BY <1>2
  <2>. HIDE DEF M, U, W
  <2>. QED
    BY <2>1, <1>6, <1>7, <1>11, Zenon
<1>13. Grounded(p[1], over) /\ Grounded(p[2], over) /\ Grounded(p[3], over) /\ Grounded(p[4], over)
       /\ Grounded(p[5], over)
  <2>1. /\ FileNeeds(<<"worker/dto", n>>) = {} /\ FileNeeds(<<"worker/repository", n>>) = {}
        /\ FileNeeds(<<"worker/service", n>>) = {<<"worker/repository", n>>}
        /\ FileNeeds(<<"worker/consumer", n>>) =
             {<<"worker/dto", n>>, <<"worker/service", n>>,
              <<"variant", made[<<"worker/consumer", n>>]>>}
        /\ FileNeeds(<<"worker/mod", n>>) =
             {<<"worker/dto", n>>, <<"worker/repository", n>>, <<"worker/service", n>>,
              <<"worker/consumer", n>>}
    BY WorkerNeedsTable, Zenon
  <2>2. /\ FileNeeds(<<"worker/dto", n>>) \subseteq Sound
        /\ FileNeeds(<<"worker/repository", n>>) \subseteq Sound
        /\ FileNeeds(<<"worker/service", n>>) \subseteq Sound
        /\ FileNeeds(<<"worker/consumer", n>>) \subseteq Sound
        /\ FileNeeds(<<"worker/mod", n>>) \subseteq Sound
    BY <2>1, <1>8, <1>9, <1>10
  <2>. QED
    BY <1>1, <2>2, WriteIsGrounded, Zenon
<1>14. Grounded(p[6], over) /\ Grounded(p[11], over) /\ Grounded(p[12], over) /\ Grounded(p[13], over)
  <2>1. /\ LineNeeds(<<"worker mod", n>>) = {<<"worker/mod", n>>}
        /\ LineNeeds(<<"consumer use", n>>) = {<<"worker mod", n>>}
        /\ LineNeeds(<<"consumer repository", n>>) = {<<"consumer use", n>>}
        /\ LineNeeds(<<"consumer wiring", n>>) = {<<"consumer repository", n>>}
        /\ LineNeeds(<<"consumer", n>>) = {<<"consumer use", n>>, <<"consumer wiring", n>>}
    BY LineNeedsTable, Zenon
  <2>2. ASSUME NEW k, NEW f, NEW B, Adding(p[k], f, B), \A l \in B : LineNeeds(l) \subseteq Sound
        PROVE  Grounded(p[k], over)
    BY <2>2, AddIsGrounded
  <2>3. /\ \A l \in {<<"worker mod", n>>} : LineNeeds(l) \subseteq Sound
        /\ \A l \in {<<"consumer use", n>>} : LineNeeds(l) \subseteq Sound
        /\ \A l \in {<<"consumer repository", n>>, <<"consumer wiring", n>>} :
             LineNeeds(l) \subseteq Sound
        /\ \A l \in {<<"consumer", n>>} : LineNeeds(l) \subseteq Sound
    BY <2>1, <1>8, <1>12
  <2>4. Grounded(p[6], over)
    BY <1>2, <2>2, <2>3
  <2>5. Grounded(p[11], over)
    BY <1>2, <2>2, <2>3
  <2>6. Grounded(p[12], over)
    BY <1>2, <2>2, <2>3
  <2>7. Grounded(p[13], over)
    BY <1>2, <2>2, <2>3
  <2>. QED
    BY <2>4, <2>5, <2>6, <2>7
<1>. QED
  <2>1. \A k \in 1..Len(p) :
          \/ k = 1 \/ k = 2 \/ k = 3 \/ k = 4 \/ k = 5 \/ k = 6 \/ k \in 7..10
          \/ k = 11 \/ k = 12 \/ k = 13
    OBVIOUS
  <2>. QED
    BY <2>1, <1>10, <1>13, <1>14, Zenon

LEMMA WebIsGrounded ==
    ASSUME NEW n, NEW p, WebSteps(p, n), Len(p) = 5, NEW over, Stands(p, over)
    PROVE  \A k \in 1..Len(p) : Grounded(p[k], over)
<1>1. /\ Writing(p[1], <<"web/dto", n>>, NoChannel)
      /\ Writing(p[2], <<"web/service", n>>, NoChannel)
      /\ Writing(p[3], <<"web/actions", n>>, NoChannel)
      /\ Writing(p[4], <<"web/crud", n>>, NoChannel)
      /\ Writing(p[5], <<"web/index", n>>, NoChannel)
  BY Zenon DEF WebSteps
<1>2. ASSUME NEW k \in 1..5, NEW f, NEW d, Writing(p[k], f, d) PROVE f \in Sound
  BY <1>2, WriteStands
<1>3. 1 \in 1..5 /\ 2 \in 1..5 /\ 3 \in 1..5 /\ 4 \in 1..5
  OBVIOUS
<1>4. /\ <<"web/dto", n>> \in Sound /\ <<"web/service", n>> \in Sound
      /\ <<"web/actions", n>> \in Sound /\ <<"web/crud", n>> \in Sound
  BY <1>1, <1>2, <1>3, Zenon
<1>5. /\ FileNeeds(<<"web/dto", n>>) = {}
      /\ FileNeeds(<<"web/service", n>>) = {<<"web/dto", n>>}
      /\ FileNeeds(<<"web/actions", n>>) = {<<"web/dto", n>>}
      /\ FileNeeds(<<"web/crud", n>>) = {<<"web/actions", n>>, <<"web/dto", n>>}
      /\ FileNeeds(<<"web/index", n>>) = {<<"web/crud", n>>, <<"web/dto", n>>, <<"web/service", n>>}
  BY WebNeedsTable, Zenon
<1>6. /\ FileNeeds(<<"web/dto", n>>) \subseteq Sound /\ FileNeeds(<<"web/service", n>>) \subseteq Sound
      /\ FileNeeds(<<"web/actions", n>>) \subseteq Sound /\ FileNeeds(<<"web/crud", n>>) \subseteq Sound
      /\ FileNeeds(<<"web/index", n>>) \subseteq Sound
  BY <1>4, <1>5
<1>7. /\ Grounded(p[1], over) /\ Grounded(p[2], over) /\ Grounded(p[3], over)
      /\ Grounded(p[4], over) /\ Grounded(p[5], over)
  BY <1>1, <1>6, WriteIsGrounded, Zenon
<1>8. \A k \in 1..Len(p) : k = 1 \/ k = 2 \/ k = 3 \/ k = 4 \/ k = 5
  OBVIOUS
<1>. QED
  BY <1>7, <1>8, Zenon

\* Every plan that has been done compiles.
LEMMA PlanIsGrounded ==
    ASSUME NEW r \in Run, NEW over, over \subseteq {"queue/channel.rs"}, Stands(Plan(r), over),
           over # {} => <<"variant", r.cmd.channel>> \in Sound
    PROVE  \A k \in 1..Len(Plan(r)) : Grounded(Plan(r)[k], over)
<1>. DEFINE n == r.cmd.name  c == r.cmd.channel  p == Plan(r)
<1>1. r.cmd \in Command /\ r.stamp \in 1..MaxRuns
  BY DEF Run
<1>2. "queue/channel.rs" \in over => <<"variant", c>> \in Sound
  OBVIOUS
<1>3. CASE r.cmd.app = "api"
  <2>1. n \in Name /\ c \in Channel \cup {NoChannel}
    BY <1>1, ConstantsAssumption DEF Command
  <2>2. p = ScaffoldApi(n, c, r.stamp)
    BY <1>3 DEF Plan
  <2>3. Len(p) = (IF c = NoChannel THEN 19 ELSE 23) /\ ApiSteps(p, n, c, r.stamp)
    <3>1. /\ Len(ScaffoldApi(n, c, r.stamp)) = IF c = NoChannel THEN 19 ELSE 23
          /\ ApiSteps(ScaffoldApi(n, c, r.stamp), n, c, r.stamp)
      BY <2>1, <1>1, ApiTable
    <3>. QED
      BY <2>2, <3>1
  <2>. HIDE DEF n, c, p
  <2>4. \A k \in 1..Len(p) : Grounded(p[k], over)
    <3>1. Stands(p, over)
      BY DEF p
    <3>. QED
      BY <1>2, <2>1, <2>3, <3>1, ApiIsGrounded
  <2>. QED
    BY <2>4 DEF p
<1>4. CASE r.cmd.app = "worker"
  <2>1. n \in Name /\ c \in Channel
    BY <1>1, <1>4 DEF Command
  <2>2. p = ScaffoldWorker(n, c)
    BY <1>4 DEF Plan
  <2>3. Len(p) = 13 /\ WorkerSteps(p, n, c)
    BY <2>1, <2>2, WorkerTable, Zenon
  <2>. HIDE DEF n, c, p
  <2>4. \A k \in 1..Len(p) : Grounded(p[k], over)
    <3>1. Stands(p, over)
      BY DEF p
    <3>. QED
      BY <1>2, <2>1, <2>3, <3>1, WorkerIsGrounded
  <2>. QED
    BY <2>4 DEF p
<1>5. CASE r.cmd.app = "web"
  <2>1. p = ScaffoldWeb(n)
    BY <1>5 DEF Plan
  <2>2. Len(p) = 5 /\ WebSteps(p, n)
    BY <2>1, WebTable, Zenon
  <2>. HIDE DEF n, c, p
  <2>3. \A k \in 1..Len(p) : Grounded(p[k], over)
    <3>1. Stands(p, over)
      BY DEF p
    <3>. QED
      BY <2>2, <3>1, WebIsGrounded
  <2>. QED
    BY <2>3 DEF p
<1>6. r.cmd.app \in {"api", "worker", "web"}
  BY <1>1 DEF Command
<1>. QED
  BY <1>3, <1>4, <1>5, <1>6

-----------------------------------------------------------------------------
(* Nothing that is sound ceases to be, as long as nothing goes wrong. *)

LEMMA OfChannel ==
    ASSUME NEW c, NEW l \in {<<"listed", c>>, <<"arm", c>>}
    PROVE  l[1] \notin ExampleWords
<1>1. l[1] = "listed" \/ l[1] = "arm"
  <2>1. CASE l = <<"listed", c>>
    BY <2>1
  <2>2. CASE l = <<"arm", c>>
    BY <2>2
  <2>. QED
    BY <2>1, <2>2
<1>. QED
  BY <1>1 DEF ExampleWords

LEMMA SoundGrows ==
    ASSUME OwnLines \subseteq OwnLines', DOMAIN made \subseteq DOMAIN made',
           \A f \in DOMAIN made : made'[f] = made[f]
    PROVE  /\ Sound \subseteq Sound'
           /\ \A f \in DOMAIN made : FileNeeds(f)' = FileNeeds(f)
<1>1. \A f \in DOMAIN made : Offers(f)' = Offers(f)
  BY DEF Offers
<1>2. Bindings \subseteq Bindings'
  BY DEF Bindings
<1>3. \A f \in DOMAIN made : FileNeeds(f)' = FileNeeds(f)
  BY DEF FileNeeds
<1>4. Firm \subseteq Firm'
  BY <1>1, <1>2 DEF Firm
<1>5. ASSUME NEW c \in Mistaken
      PROVE  c \in Mistaken'
  <2>1. CASE c \in InAll
    BY <2>1 DEF Mistaken
  <2>2. CASE c \notin InAll
    <3>1. PICK d \in Begins[c] \ {c} : {<<"listed", d>>, <<"arm", d>>} \cap AllLines # {}
      BY <2>2 DEF Mistaken
    <3>2. PICK l \in {<<"listed", d>>, <<"arm", d>>} : l \in AllLines
      BY <3>1
    <3>3. l[1] \notin ExampleWords
      BY <3>2, OfChannel
    <3>4. l \in OwnLines
      BY <3>2, <3>3, ExampleLinesAre DEF OwnLines, Stock
    <3>5. l \in AllLines'
      BY <3>4 DEF OwnLines
    <3>. QED
      BY <3>1, <3>2, <3>5 DEF Mistaken
  <2>. QED
    BY <2>1, <2>2
<1>6. Exempt \subseteq Exempt'
  BY <1>5 DEF Exempt
<1>. QED
  BY <1>3, <1>4, <1>6 DEF Sound

\* Steps that are not about the channel.
Elsewhere(s) == s.op # "check" /\ (IsInsert(s) => s.file # "queue/channel.rs")

LEMMA WritingElsewhere ==
    ASSUME NEW s, NEW f, NEW d, Writing(s, f, d)
    PROVE  Elsewhere(s)
  BY DEF Writing, Elsewhere, IsInsert

LEMMA AddingElsewhere ==
    ASSUME NEW s, NEW f, NEW B, Adding(s, f, B), f # "queue/channel.rs"
    PROVE  Elsewhere(s)
  BY DEF Adding, Elsewhere, IsInsert

LEMMA ChannelPlaces ==
    ASSUME NEW p, NEW i \in Nat, NEW c, ChannelSteps(p, i, c)
    PROVE  /\ ~IsInsert(p[i + 1]) /\ p[i + 1].channel = c
           /\ \A k \in (i + 2)..(i + 4) : p[k].op # "check"
<1>1. /\ Asking(p[i + 1], c)
      /\ Adding(p[i + 2], "queue/channel.rs", {<<"variant", c>>})
      /\ Adding(p[i + 3], "queue/channel.rs", {<<"listed", c>>})
      /\ Adding(p[i + 4], "queue/channel.rs", {<<"arm", c>>})
  BY Zenon DEF ChannelSteps
<1>2. ASSUME NEW s, NEW f, NEW B, Adding(s, f, B) PROVE s.op # "check"
  BY <1>2 DEF Adding
<1>3. p[i + 2].op # "check" /\ p[i + 3].op # "check" /\ p[i + 4].op # "check"
  BY <1>1, <1>2, Zenon
<1>4. ~IsInsert(p[i + 1]) /\ p[i + 1].channel = c
  BY <1>1 DEF Asking, IsInsert
<1>5. \A k \in (i + 2)..(i + 4) : k = i + 2 \/ k = i + 3 \/ k = i + 4
  OBVIOUS
<1>. QED
  BY <1>3, <1>4, <1>5, Zenon

\* A plan asks about its own channel, and adds to the file of the channels right after.
Together(p, c) ==
    \A j \in 1..Len(p) : p[j].op = "check" =>
      /\ p[j].channel = c
      /\ \A k \in 1..Len(p) :
           IsInsert(p[k]) /\ p[k].file = "queue/channel.rs" => k > j /\ k < j + 4

LEMMA ApiTogether ==
    ASSUME NEW n, NEW c, NEW s, NEW p, ApiSteps(p, n, c, s),
           Len(p) = (IF c = NoChannel THEN 19 ELSE 23)
    PROVE  Together(p, c)
<1>1. /\ Writing(p[1], <<"entity", n>>, NoChannel)
      /\ Adding(p[2], "entities/mod.rs", {<<"entities mod", n>>})
      /\ Writing(p[3], <<"migration", <<n, s>>>>, NoChannel)
      /\ Adding(p[4], "migration/lib.rs", {<<"migration mod", <<n, s>>>>})
      /\ Adding(p[5], "migration/lib.rs", {<<"migration boxed", <<n, s>>>>})
  BY Zenon DEF ApiSteps, EntitySteps
<1>2. /\ Writing(p[6], <<"api/dto", n>>, NoChannel)
      /\ Writing(p[7], <<"api/repository", n>>, NoChannel)
      /\ Writing(p[8], <<"api/service", n>>, c)
      /\ Writing(p[9], <<"api/controller", n>>, c)
      /\ Writing(p[10], <<"api/route", n>>, c)
      /\ Writing(p[11], <<"api/mod", n>>, NoChannel)
  BY Zenon DEF ApiSteps
<1>3. /\ Adding(p[12], "api/modules/mod.rs", {<<"api mod", n>>})
      /\ Adding(p[13], "api/state.rs", {<<"use", n>>})
      /\ Adding(p[14], "api/state.rs", {<<"field", n>>})
      /\ Adding(p[15], "api/state.rs", Binding(n, c))
      /\ Adding(p[16], "api/state.rs", {<<"value", n>>})
      /\ Adding(p[17], "api/lib.rs", {<<"routes use", n>>})
      /\ Adding(p[18], "api/lib.rs", {<<"nest", n>>})
      /\ Adding(p[19], "api/lib.rs", {<<"docs", n>>})
  BY Zenon DEF ApiSteps
<1>4. /\ "entities/mod.rs" # "queue/channel.rs" /\ "migration/lib.rs" # "queue/channel.rs"
      /\ "api/modules/mod.rs" # "queue/channel.rs" /\ "api/state.rs" # "queue/channel.rs"
      /\ "api/lib.rs" # "queue/channel.rs"
  OBVIOUS
<1>5. /\ Elsewhere(p[1]) /\ Elsewhere(p[2]) /\ Elsewhere(p[3]) /\ Elsewhere(p[4]) /\ Elsewhere(p[5])
  BY <1>1, <1>4, WritingElsewhere, AddingElsewhere, Zenon
<1>6. /\ Elsewhere(p[6]) /\ Elsewhere(p[7]) /\ Elsewhere(p[8]) /\ Elsewhere(p[9])
      /\ Elsewhere(p[10]) /\ Elsewhere(p[11])
  BY <1>2, WritingElsewhere, Zenon
<1>7. /\ Elsewhere(p[12]) /\ Elsewhere(p[13]) /\ Elsewhere(p[14]) /\ Elsewhere(p[15])
      /\ Elsewhere(p[16]) /\ Elsewhere(p[17]) /\ Elsewhere(p[18]) /\ Elsewhere(p[19])
  BY <1>3, <1>4, AddingElsewhere, Zenon
<1>8. \A k \in 1..19 : Elsewhere(p[k])
  <2>1. \A k \in 1..19 :
          \/ k = 1 \/ k = 2 \/ k = 3 \/ k = 4 \/ k = 5 \/ k = 6 \/ k = 7 \/ k = 8 \/ k = 9 \/ k = 10
          \/ k = 11 \/ k = 12 \/ k = 13 \/ k = 14 \/ k = 15 \/ k = 16 \/ k = 17 \/ k = 18 \/ k = 19
    OBVIOUS
  <2>. QED
    BY <2>1, <1>5, <1>6, <1>7, Zenon
<1>9. CASE c = NoChannel
  BY <1>8, <1>9 DEF Together, Elsewhere
<1>10. CASE c # NoChannel
  <2>1. ChannelSteps(p, 19, c) /\ 19 \in Nat
    BY <1>10 DEF ApiSteps
  <2>2. ~IsInsert(p[19 + 1]) /\ p[19 + 1].channel = c /\ \A k \in (19 + 2)..(19 + 4) : p[k].op # "check"
    BY <2>1, ChannelPlaces
  <2>3. Len(p) = 23
    BY <1>10
  <2>4. ~IsInsert(p[20]) /\ p[20].channel = c /\ \A k \in 21..23 : p[k].op # "check"
    BY <2>2
  <2>5. \A k \in 1..Len(p) : p[k].op = "check" => k = 20
    BY <1>8, <2>3, <2>4 DEF Elsewhere
  <2>6. \A k \in 1..Len(p) : IsInsert(p[k]) /\ p[k].file = "queue/channel.rs" => k \in 21..23
    BY <1>8, <2>3, <2>4 DEF Elsewhere
  <2>. QED
    BY <2>4, <2>5, <2>6 DEF Together
<1>. QED
  BY <1>9, <1>10

LEMMA WorkerTogether ==
    ASSUME NEW n, NEW c, NEW p, WorkerSteps(p, n, c), Len(p) = 13
    PROVE  Together(p, c)
<1>1. /\ Writing(p[1], <<"worker/dto", n>>, NoChannel)
      /\ Writing(p[2], <<"worker/repository", n>>, NoChannel)
      /\ Writing(p[3], <<"worker/service", n>>, NoChannel)
      /\ Writing(p[4], <<"worker/consumer", n>>, c)
      /\ Writing(p[5], <<"worker/mod", n>>, NoChannel)
  BY Zenon DEF WorkerSteps
<1>2. /\ Adding(p[6], "worker/modules/mod.rs", {<<"worker mod", n>>})
      /\ ChannelSteps(p, 6, c)
      /\ Adding(p[11], "worker/state.rs", {<<"consumer use", n>>})
      /\ Adding(p[12], "worker/state.rs", {<<"consumer repository", n>>, <<"consumer wiring", n>>})
      /\ Adding(p[13], "worker/state.rs", {<<"consumer", n>>})
  BY Zenon DEF WorkerSteps
<1>3. "worker/modules/mod.rs" # "queue/channel.rs" /\ "worker/state.rs" # "queue/channel.rs"
  OBVIOUS
<1>4. /\ Elsewhere(p[1]) /\ Elsewhere(p[2]) /\ Elsewhere(p[3]) /\ Elsewhere(p[4]) /\ Elsewhere(p[5])
  BY <1>1, WritingElsewhere, Zenon
<1>5. Elsewhere(p[6]) /\ Elsewhere(p[11]) /\ Elsewhere(p[12]) /\ Elsewhere(p[13])
  BY <1>2, <1>3, AddingElsewhere, Zenon
<1>6. ~IsInsert(p[6 + 1]) /\ p[6 + 1].channel = c /\ \A k \in (6 + 2)..(6 + 4) : p[k].op # "check"
  <2>1. 6 \in Nat
    OBVIOUS
  <2>. QED
    BY <1>2, <2>1, ChannelPlaces
<1>7. \A k \in 1..Len(p) : k \in 7..10 \/ Elsewhere(p[k])
  <2>1. \A k \in 1..Len(p) :
          \/ k = 1 \/ k = 2 \/ k = 3 \/ k = 4 \/ k = 5 \/ k = 6 \/ k \in 7..10
          \/ k = 11 \/ k = 12 \/ k = 13
    OBVIOUS
  <2>. QED
    BY <2>1, <1>4, <1>5, Zenon
<1>8. ~IsInsert(p[7]) /\ p[7].channel = c /\ \A k \in 8..10 : p[k].op # "check"
  BY <1>6
<1>9. \A k \in 1..Len(p) : p[k].op = "check" => k = 7
  BY <1>7, <1>8 DEF Elsewhere
<1>10. \A k \in 1..Len(p) : IsInsert(p[k]) /\ p[k].file = "queue/channel.rs" => k \in 8..10
  BY <1>7, <1>8 DEF Elsewhere
<1>. QED
  BY <1>8, <1>9, <1>10 DEF Together

LEMMA WebTogether ==
    ASSUME NEW n, NEW c, NEW p, WebSteps(p, n), Len(p) = 5
    PROVE  Together(p, c)
<1>1. /\ Writing(p[1], <<"web/dto", n>>, NoChannel)
      /\ Writing(p[2], <<"web/service", n>>, NoChannel)
      /\ Writing(p[3], <<"web/actions", n>>, NoChannel)
      /\ Writing(p[4], <<"web/crud", n>>, NoChannel)
      /\ Writing(p[5], <<"web/index", n>>, NoChannel)
  BY Zenon DEF WebSteps
<1>2. /\ Elsewhere(p[1]) /\ Elsewhere(p[2]) /\ Elsewhere(p[3]) /\ Elsewhere(p[4]) /\ Elsewhere(p[5])
  BY <1>1, WritingElsewhere, Zenon
<1>3. \A k \in 1..Len(p) : k = 1 \/ k = 2 \/ k = 3 \/ k = 4 \/ k = 5
  OBVIOUS
<1>4. \A k \in 1..Len(p) : Elsewhere(p[k])
  BY <1>2, <1>3, Zenon
<1>. QED
  BY <1>4 DEF Together, Elsewhere

LEMMA PlanTogether ==
    ASSUME NEW r \in Run
    PROVE  Together(Plan(r), r.cmd.channel)
<1>. DEFINE n == r.cmd.name  c == r.cmd.channel  p == Plan(r)
<1>1. r.cmd \in Command /\ r.stamp \in 1..MaxRuns
  BY DEF Run
<1>3. CASE r.cmd.app = "api"
  <2>1. n \in Name /\ c \in Channel \cup {NoChannel}
    BY <1>1, ConstantsAssumption DEF Command
  <2>2. p = ScaffoldApi(n, c, r.stamp)
    BY <1>3 DEF Plan
  <2>3. Len(p) = (IF c = NoChannel THEN 19 ELSE 23) /\ ApiSteps(p, n, c, r.stamp)
    <3>1. /\ Len(ScaffoldApi(n, c, r.stamp)) = IF c = NoChannel THEN 19 ELSE 23
          /\ ApiSteps(ScaffoldApi(n, c, r.stamp), n, c, r.stamp)
      BY <2>1, <1>1, ApiTable
    <3>. QED
      BY <2>2, <3>1
  <2>. HIDE DEF n, c, p
  <2>4. Together(p, c)
    BY <2>3, ApiTogether
  <2>. QED
    BY <2>4 DEF p, c
<1>4. CASE r.cmd.app = "worker"
  <2>1. n \in Name /\ c \in Channel
    BY <1>1, <1>4 DEF Command
  <2>2. p = ScaffoldWorker(n, c)
    BY <1>4 DEF Plan
  <2>3. Len(p) = 13 /\ WorkerSteps(p, n, c)
    BY <2>1, <2>2, WorkerTable, Zenon
  <2>. HIDE DEF n, c, p
  <2>4. Together(p, c)
    BY <2>3, WorkerTogether
  <2>. QED
    BY <2>4 DEF p, c
<1>5. CASE r.cmd.app = "web"
  <2>1. p = ScaffoldWeb(n)
    BY <1>5 DEF Plan
  <2>2. Len(p) = 5 /\ WebSteps(p, n)
    BY <2>1, WebTable, Zenon
  <2>. HIDE DEF n, c, p
  <2>3. Together(p, c)
    BY <2>2, WebTogether
  <2>. QED
    BY <2>3 DEF p, c
<1>6. r.cmd.app \in {"api", "worker", "web"}
  BY <1>1 DEF Command
<1>. QED
  BY <1>3, <1>4, <1>5, <1>6

-----------------------------------------------------------------------------
(* The invariant. *)

LEMMA CleanBuildsFromInv == CleanInv => CleanBuilds
<1>. SUFFICES ASSUME CleanInv, clean, Running = {}, NEW x \in Missing PROVE x \in Exempt
  BY DEF CleanBuilds, Exempt
<1>1. Firm \subseteq Present
  <2>1. Bindings \subseteq Present
    BY DEF Bindings, Present, OwnLines
  <2>. QED
    BY <2>1 DEF Firm, Present, OwnLines
<1>2. x \in Sound
  <2>1. CASE \E f \in DOMAIN made : x \in FileNeeds(f)
    BY <2>1 DEF CleanInv
  <2>2. CASE \E l \in AllLines : l[2] # Example /\ x \in LineNeeds(l)
    <3>1. PICK l \in AllLines : l[2] # Example /\ x \in LineNeeds(l)
      BY <2>2
    <3>2. PICK f \in Shared : l \in Lines(f) \ Stock
      BY <3>1, NotOfStock DEF AllLines
    <3>. QED
      BY <3>1, <3>2 DEF CleanInv
  <2>. QED
    BY <2>1, <2>2 DEF Missing
<1>. QED
  BY <1>1, <1>2 DEF Sound, Missing

LEMMA CleanInvInit == Init => CleanInv
<1>. SUFFICES ASSUME Init PROVE CleanInv
  OBVIOUS
<1>1. Running = {}
  BY DEF Init, Running, Idle
<1>2. DOMAIN made = {}
  BY DEF Init, EmptyBag, SetToBag
<1>3. \A f \in Shared : DOMAIN text[f] =
        {Fixed} \cup ExampleLines(f)
        \cup IF f = "queue/channel.rs" THEN UNION {ChannelLines(c) : c \in Existing} ELSE {}
  BY DEF Init, StartText, SetToBag
<1>4. ASSUME NEW f \in Shared, NEW l \in Lines(f) \ Stock PROVE LineNeeds(l) \subseteq Sound
  <2>1. l \in DOMAIN text[f]
    BY DEF Lines
  <2>2. l \notin ExampleLines(f)
    BY DEF Stock
  <2>3. l = Fixed \/ (f = "queue/channel.rs" /\ \E c \in Existing : l \in ChannelLines(c))
    BY <2>1, <2>2, <1>3
  <2>4. CASE l = Fixed
    BY <2>4 DEF LineNeeds, Fixed, Of
  <2>5. CASE f = "queue/channel.rs" /\ \E c \in Existing : l \in ChannelLines(c)
    <3>1. PICK c \in Existing : l \in ChannelLines(c)
      BY <2>5
    <3>2. ASSUME NEW k \in ChannelLines(c) PROVE k \in Sound
      <4>1. k \in AllLines
        BY <2>5, <1>3, <3>1, <3>2 DEF AllLines, Lines
      <4>2. k[1] \notin ExampleWords
        BY <3>2, ChannelLinesAre DEF ExampleWords
      <4>. QED
        BY <4>1, <4>2, NotOfStock DEF Sound, Firm, OwnLines
    <3>3. <<"variant", c>> \in Sound /\ <<"arm", c>> \in Sound
      BY <3>2 DEF ChannelLines
    <3>4. l = <<"variant", c>> \/ l = <<"listed", c>> \/ l = <<"arm", c>>
      BY <3>1 DEF ChannelLines
    <3>5. /\ LineNeeds(<<"variant", c>>) = {<<"arm", c>>}
          /\ LineNeeds(<<"listed", c>>) = {<<"variant", c>>}
          /\ LineNeeds(<<"arm", c>>) = {<<"variant", c>>}
      BY LineNeedsTable, Zenon
    <3>. QED
      BY <3>3, <3>4, <3>5
  <2>. QED
    BY <2>3, <2>4, <2>5
<1>. QED
  BY <1>1, <1>2, <1>4 DEF CleanInv

\* A run by itself goes on, and accounts for whatever is new.
LEMMA CleanGoesOn ==
    ASSUME CleanInv, clean, NEW t \in Running, Running = {t}, Running' = {t},
           \A f \in Shared : Lines(f) \subseteq Lines(f)',
           DOMAIN made \subseteq DOMAIN made', \A f \in DOMAIN made : made'[f] = made[f],
           \A f \in Shared : \A l \in Lines(f)' : l \in Lines(f) \/ Brings(t, f, l)',
           \A f \in DOMAIN made' : f \in DOMAIN made \/ Wrote(t, f)',
           \A f, l : Brings(t, f, l) => Brings(t, f, l)',
           \A f : Wrote(t, f) => Wrote(t, f)',
           CleanRun(t)'
    PROVE  CleanInv'
<1>1. OwnLines \subseteq OwnLines'
  BY DEF OwnLines, AllLines, Stock
<1>2. Sound \subseteq Sound' /\ \A f \in DOMAIN made : FileNeeds(f)' = FileNeeds(f)
  BY <1>1, SoundGrows
<1>3. ASSUME NEW f \in Shared, NEW l \in Lines(f)' \ Stock
      PROVE  LineNeeds(l) \subseteq Sound' \/ Brings(t, f, l)'
  BY <1>2 DEF CleanInv
<1>4. ASSUME NEW f \in DOMAIN made'
      PROVE  FileNeeds(f)' \subseteq Sound' \/ Wrote(t, f)'
  <2>1. CASE f \in DOMAIN made
    BY <2>1, <1>2 DEF CleanInv
  <2>2. CASE f \notin DOMAIN made
    BY <2>2
  <2>. QED
    BY <2>1, <2>2
<1>5. \A f \in Shared : \A l \in Lines(f)' \ Stock' :
        LineNeeds(l)' \subseteq Sound' \/ \E u \in Running' : Brings(u, f, l)'
  BY <1>3 DEF Stock, LineNeeds
<1>6. \A f \in DOMAIN made' :
        FileNeeds(f)' \subseteq Sound' \/ \E u \in Running' : Wrote(u, f)'
  BY <1>4
<1>7. \A u \in Running' : CleanRun(u)'
  OBVIOUS
<1>. QED
  BY <1>5, <1>6, <1>7 DEF CleanInv

\* A run by itself comes to an end with everything it did accounted for.
LEMMA CleanComesToRest ==
    ASSUME CleanInv, clean, NEW t \in Running, Running = {t}, Running' = {},
           text' = text, made' = made,
           \A f, l : Brings(t, f, l) => LineNeeds(l) \subseteq Sound,
           \A f : Wrote(t, f) => FileNeeds(f) \subseteq Sound
    PROVE  CleanInv'
<1>1. OwnLines' = OwnLines /\ \A f \in Shared : Lines(f)' = Lines(f)
  BY DEF OwnLines, AllLines, Stock, Lines
<1>2. Sound \subseteq Sound' /\ \A f \in DOMAIN made : FileNeeds(f)' = FileNeeds(f)
  BY <1>1, SoundGrows
<1>3. ASSUME NEW f \in Shared, NEW l \in Lines(f)' \ Stock
      PROVE  LineNeeds(l) \subseteq Sound'
  BY <1>1, <1>2 DEF CleanInv
<1>4. ASSUME NEW f \in DOMAIN made'
      PROVE  FileNeeds(f)' \subseteq Sound'
  BY <1>2 DEF CleanInv
<1>. QED
  BY <1>3, <1>4 DEF CleanInv, Stock, LineNeeds

\* What is known of a run while nothing has gone wrong.
LEMMA CleanIsAlone ==
    ASSUME RunType, FileInv, CleanInv, clean, NEW t \in Running
    PROVE  /\ CleanRun(t) /\ Running = {t} /\ t \in Terminal /\ run[t] \in Run
           /\ run[t].at \in Nat \ {0} /\ Len(Plan(run[t])) \in Nat
<1>1. CleanRun(t)
  BY DEF CleanInv
<1>2. t \in Terminal /\ run[t] \in Run
  BY OwnStep
<1>3. Running = {t}
  BY <1>1, <1>2 DEF FileInv, CleanRun
<1>4. Len(Plan(run[t])) \in Nat
  BY <1>2, PlanSteps
<1>. QED
  BY <1>1, <1>2, <1>3, <1>4 DEF Run

\* A run that goes on, and has passed over no more than before, has what it had behind it.
LEMMA BehindStays ==
    ASSUME NEW t \in Terminal, run[t].at \in Nat, run'[t].at \in Nat, run'[t].at >= run[t].at,
           run'[t].cmd = run[t].cmd, run'[t].stamp = run[t].stamp
    PROVE  /\ Plan(run'[t]) = Plan(run[t]) /\ Behind(t) \subseteq Behind(t)'
           /\ \A f : Wrote(t, f) => Wrote(t, f)'
           /\ run'[t].silent = run[t].silent =>
                \A f, l : Brings(t, f, l) => Brings(t, f, l)'
           /\ run'[t].at = run[t].at => Behind(t)' = Behind(t)
           /\ run'[t].at = run[t].at + 1 => \A k \in Behind(t)' : k \in Behind(t) \/ k = run[t].at
<1>1. Plan(run'[t]) = Plan(run[t])
  BY SamePlan
<1>2. Behind(t) \subseteq Behind(t)' /\ (run'[t].at = run[t].at => Behind(t)' = Behind(t))
  BY <1>1 DEF Behind
<1>3. run'[t].at = run[t].at + 1 => \A k \in Behind(t)' : k \in Behind(t) \/ k = run[t].at
  BY <1>1 DEF Behind
<1>4. \A f : Wrote(t, f) => Wrote(t, f)'
  BY <1>1, <1>2 DEF Wrote
<1>5. run'[t].silent = run[t].silent => \A f, l : Brings(t, f, l) => Brings(t, f, l)'
  BY <1>1, <1>2 DEF Brings, PassedOver
<1>. QED
  BY <1>1, <1>2, <1>3, <1>4, <1>5

\* A run that takes a step is still the only one, if it runs at all.
LEMMA StillAlone ==
    ASSUME RunType, NEW t \in Running, Running = {t}, Same(t)
    PROVE  Running' = IF run'[t].st = "running" THEN {t} ELSE {}
<1>1. t \in Terminal
  BY DEF Running
<1>2. \A u \in Terminal \ {t} : run'[u] = run[u] /\ u \notin Running
  BY DEF Same
<1>. QED
  BY <1>1, <1>2 DEF Running

\* A step that changes no file, but for the one a run looks at.
LEMMA QuietStep ==
    ASSUME RunType, FileInv, CleanInv, clean, NEW t \in Running, Same(t),
           text' = text, made' = made, run'[t].st = "running",
           run'[t].at = run[t].at \/ run'[t].at = run[t].at + 1,
           run'[t].warned = run[t].warned, run'[t].silent = run[t].silent,
           PendingInsert(t)' => DOMAIN seen'[t] = Lines(Step(t).file)',
           run'[t].at = run[t].at + 1 => Step(t).op # "write"
    PROVE  CleanInv'
<1>1. /\ CleanRun(t) /\ Running = {t} /\ t \in Terminal /\ run[t] \in Run
      /\ run[t].at \in Nat \ {0} /\ Len(Plan(run[t])) \in Nat
  BY CleanIsAlone
<1>2. Running' = {t}
  BY <1>1, StillAlone
<1>3. run'[t].at \in Nat /\ run'[t].at >= run[t].at /\ run[t].at \in Nat
  BY <1>1
<1>4. run'[t].cmd = run[t].cmd /\ run'[t].stamp = run[t].stamp /\ run'[t].alone = run[t].alone
  BY DEF Same
<1>5. /\ Plan(run'[t]) = Plan(run[t]) /\ Behind(t) \subseteq Behind(t)'
      /\ \A f : Wrote(t, f) => Wrote(t, f)'
      /\ \A f, l : Brings(t, f, l) => Brings(t, f, l)'
      /\ \A k \in Behind(t)' : k \in Behind(t) \/ (k = run[t].at /\ run'[t].at = run[t].at + 1)
  BY <1>1, <1>3, <1>4, BehindStays
<1>6. /\ \A f \in Shared : Lines(f)' = Lines(f)
      /\ OwnLines' = OwnLines
  BY DEF Lines, OwnLines, AllLines, Stock
<1>7. Sound \subseteq Sound'
  BY <1>6, SoundGrows
<1>8. CleanRun(t)'
  <2>1. run'[t].alone /\ ~run'[t].warned
    BY <1>1, <1>4 DEF CleanRun
  <2>2. ASSUME NEW k \in Behind(t)', Plan(run'[t])[k].op = "write"
        PROVE  /\ Plan(run'[t])[k].file \in DOMAIN made'
               /\ made'[Plan(run'[t])[k].file] = Plan(run'[t])[k].channel
    <3>1. k \in Behind(t)
      <4>1. k \in 1..Len(Plan(run[t]))
        BY <1>5 DEF Behind
      <4>. QED
        BY <4>1, <1>5, <2>2 DEF Step
    <3>. QED
      BY <3>1, <1>1, <1>5, <2>2 DEF CleanRun
  <2>3. PendingInsert(t)' => DOMAIN seen'[t] = Lines(Step(t).file)'
    OBVIOUS
  <2>4. ASSUME run'[t].silent
        PROVE  /\ <<"variant", run'[t].cmd.channel>> \in Sound'
               /\ \E j \in 1..Len(Plan(run'[t])) :
                    Plan(run'[t])[j].op = "check" /\ j + 4 <= run'[t].at
    <3>1. /\ <<"variant", run[t].cmd.channel>> \in Sound
          /\ \E j \in 1..Len(Plan(run[t])) : Plan(run[t])[j].op = "check" /\ j + 4 <= run[t].at
      BY <1>1, <2>4 DEF CleanRun
    <3>. QED
      BY <3>1, <1>3, <1>4, <1>5, <1>7
  <2>. QED
    BY <2>1, <2>2, <2>3, <2>4 DEF CleanRun
<1>. QED
  BY <1>1, <1>2, <1>5, <1>6, <1>8, CleanGoesOn

-----------------------------------------------------------------------------
(* The steps of a run. *)

LEMMA CleanWriteLooks ==
    ASSUME RunType, FileInv, CleanInv, NEW t \in Running, WriteLooks(t), clean'
    PROVE  CleanInv'
<1>0. text' = text /\ made' = made /\ AtStep(t, "write")
  BY DEF WriteLooks
<1>1. CASE run' = [run EXCEPT ![t].st = "failed"] /\ clean' = (clean /\ run[t].at = 1)
  <2>1. clean /\ run[t].at = 1
    BY <1>1
  <2>2. Running = {t} /\ Len(Plan(run[t])) \in Nat
    BY <2>1, CleanIsAlone
  <2>3. Ended(t, "failed")
    BY <1>1, EndsFields
  <2>4. Running' = {}
    BY <2>2, <2>3, StillAlone DEF Ended
  <2>5. \A k \in Behind(t) : FALSE
    BY <2>1, <2>2 DEF Behind
  <2>6. \A f, l : ~Brings(t, f, l) /\ ~Wrote(t, f)
    BY <2>5 DEF Brings, Wrote
  <2>. QED
    BY <1>0, <2>1, <2>2, <2>4, <2>6, CleanComesToRest
<1>2. CASE Looks(t) /\ clean' = clean
  <2>1. LookedAt(t)
    BY <1>2, LooksFields
  <2>2. run[t].st = "running" /\ t \in Terminal
    BY DEF Running
  <2>3. Step(t)' = Step(t)
    BY <2>1, <2>2, SameStep DEF LookedAt, Same
  <2>4. ~PendingInsert(t)'
    BY <1>0, <2>3 DEF PendingInsert, AtStep
  <2>5. clean /\ run[t].at \in Nat
    BY <1>2, CleanIsAlone
  <2>6. /\ Same(t) /\ run'[t].st = "running" /\ run'[t].at = run[t].at /\ run'[t].at # run[t].at + 1
        /\ run'[t].warned = run[t].warned /\ run'[t].silent = run[t].silent
    BY <2>1, <2>2, <2>5 DEF LookedAt
  <2>. QED
    BY <1>0, <2>4, <2>5, <2>6, QuietStep
<1>. QED
  BY <1>1, <1>2 DEF WriteLooks

LEMMA CleanWrites ==
    ASSUME RunType, FileInv, CleanInv, NEW t \in Running, Writes(t), clean'
    PROVE  CleanInv'
<1>f. PICK f, c : f = Step(t).file /\ c = Step(t).channel
  OBVIOUS
<1>0. /\ clean /\ text' = text /\ AtStep(t, "write") /\ run[t].looked
      /\ DOMAIN made' = DOMAIN made \cup {f} /\ made'[f] = c
      /\ \A g \in DOMAIN made \ {f} : made'[g] = made[g]
  BY <1>f DEF Writes
<1>1. /\ CleanRun(t) /\ Running = {t} /\ t \in Terminal /\ run[t] \in Run
      /\ run[t].at \in Nat \ {0} /\ Len(Plan(run[t])) \in Nat
  BY <1>0, CleanIsAlone
<1>2. f \notin DOMAIN made
  BY <1>f, <1>0, <1>1 DEF FileInv, PendingWrite, CleanRun
<1>3. /\ DOMAIN made \subseteq DOMAIN made' /\ \A g \in DOMAIN made : made'[g] = made[g]
  BY <1>0, <1>2
<1>4. WentOn(t, 1) /\ run'[t].warned = run[t].warned /\ run'[t].silent = run[t].silent
  BY GoesFields DEF Writes
<1>5. /\ run[t].at \in 1..Len(Plan(run[t])) /\ Step(t) = Plan(run[t])[run[t].at]
      /\ Step(t).op = "write"
  BY <1>0, StepIsOfPlan
<1>6. /\ Same(t) /\ run'[t].at = run[t].at + 1 /\ run'[t].st = "running" /\ run'[t].looked = FALSE
      /\ run'[t].cmd = run[t].cmd /\ run'[t].stamp = run[t].stamp /\ run'[t].alone = run[t].alone
  BY <1>4 DEF WentOn, Same, Running
<1>7. Running' = {t}
  BY <1>1, <1>6, StillAlone
<1>8. run'[t].at \in Nat /\ run'[t].at >= run[t].at /\ run[t].at \in Nat
  BY <1>1, <1>6
<1>9. /\ Plan(run'[t]) = Plan(run[t]) /\ Behind(t) \subseteq Behind(t)'
      /\ \A g : Wrote(t, g) => Wrote(t, g)'
      /\ \A g, l : Brings(t, g, l) => Brings(t, g, l)'
      /\ \A k \in Behind(t)' : k \in Behind(t) \/ k = run[t].at
  BY <1>1, <1>4, <1>6, <1>8, BehindStays
<1>10. Wrote(t, f)'
  <2>1. run[t].at \in Behind(t)'
    BY <1>5, <1>6, <1>9 DEF Behind
  <2>. QED
    BY <2>1, <1>f, <1>5, <1>9 DEF Wrote
<1>11. /\ \A g \in Shared : Lines(g)' = Lines(g)
       /\ OwnLines' = OwnLines
  BY <1>0 DEF Lines, OwnLines, AllLines, Stock
<1>12. Sound \subseteq Sound'
  BY <1>3, <1>11, SoundGrows
<1>13. CleanRun(t)'
  <2>1. run'[t].alone /\ ~run'[t].warned
    BY <1>1, <1>4, <1>6 DEF CleanRun
  <2>2. ASSUME NEW k \in Behind(t)', Plan(run'[t])[k].op = "write"
        PROVE  /\ Plan(run'[t])[k].file \in DOMAIN made'
               /\ made'[Plan(run'[t])[k].file] = Plan(run'[t])[k].channel
    <3>1. CASE k \in Behind(t)
      BY <3>1, <1>1, <1>3, <1>9, <2>2 DEF CleanRun
    <3>2. CASE k = run[t].at
      BY <3>2, <1>f, <1>0, <1>5, <1>9
    <3>. QED
      BY <3>1, <3>2, <1>9
  <2>3. ~PendingInsert(t)'
    BY <1>1, <1>6, NotPending
  <2>4. ASSUME run'[t].silent
        PROVE  /\ <<"variant", run'[t].cmd.channel>> \in Sound'
               /\ \E j \in 1..Len(Plan(run'[t])) :
                    Plan(run'[t])[j].op = "check" /\ j + 4 <= run'[t].at
    <3>1. /\ <<"variant", run[t].cmd.channel>> \in Sound
          /\ \E j \in 1..Len(Plan(run[t])) : Plan(run[t])[j].op = "check" /\ j + 4 <= run[t].at
      BY <1>1, <1>4, <2>4 DEF CleanRun
    <3>. QED
      BY <3>1, <1>6, <1>8, <1>9, <1>12
  <2>. QED
    BY <2>1, <2>2, <2>3, <2>4 DEF CleanRun
<1>. QED
  BY <1>0, <1>1, <1>3, <1>7, <1>9, <1>10, <1>11, <1>13, CleanGoesOn

LEMMA CleanInsertLooks ==
    ASSUME RunType, FileInv, CleanInv, NEW t \in Running, InsertLooks(t), clean'
    PROVE  CleanInv'
<1>0. /\ text' = text /\ made' = made /\ ~run[t].looked
      /\ AtStep(t, "append") \/ AtStep(t, "insert")
  BY DEF InsertLooks
<1>1. run[t].st = "running" /\ t \in Terminal /\ run[t] \in Run /\ run[t].at \in Nat
  BY OwnStep DEF Running, Run
<1>2. Step(t).op # "write" /\ Step(t).file \in Shared
  <2>1. Step(t) \in InsertStep
    BY <1>0, <1>1, StepIsAny
  <2>. QED
    BY <2>1 DEF InsertStep
<1>3. CASE Goes(t, 1) /\ clean' = clean
  <2>1. WentOn(t, 1) /\ run'[t].warned = run[t].warned /\ run'[t].silent = run[t].silent
    BY <1>3, GoesFields
  <2>2. ~PendingInsert(t)'
    BY <1>1, <2>1, NotPending DEF WentOn
  <2>3. Same(t) /\ run'[t].at = run[t].at + 1 /\ run'[t].st = "running"
    BY <1>1, <2>1 DEF WentOn
  <2>. QED
    BY <1>0, <1>2, <1>3, <2>1, <2>2, <2>3, QuietStep
<1>4. CASE Looks(t) /\ clean' = clean /\ seen' = [seen EXCEPT ![t] = text[Step(t).file]]
  <2>1. LookedAt(t)
    BY <1>4, LooksFields
  <2>2. Step(t)' = Step(t)
    BY <1>1, <2>1, SameStep DEF LookedAt, Same
  <2>3. seen'[t] = text[Step(t).file]
    BY <1>1, <1>4 DEF RunType
  <2>4. DOMAIN seen'[t] = Lines(Step(t).file)'
    BY <1>0, <2>2, <2>3 DEF Lines
  <2>5. /\ Same(t) /\ run'[t].st = "running" /\ run'[t].at = run[t].at
        /\ run'[t].warned = run[t].warned /\ run'[t].silent = run[t].silent
    BY <1>1, <2>1 DEF LookedAt
  <2>. QED
    BY <1>0, <1>2, <1>4, <2>4, <2>5, QuietStep
<1>. QED
  BY <1>3, <1>4 DEF InsertLooks

LEMMA CleanInserts ==
    ASSUME RunType, FileInv, CleanInv, NEW t \in Running, Inserts(t), clean'
    PROVE  CleanInv'
<1>f. PICK f, B : f = Step(t).file /\ B = Step(t).block
  OBVIOUS
<1>0. /\ clean /\ made' = made /\ run[t].looked
      /\ AtStep(t, "append") \/ AtStep(t, "insert")
  BY DEF Inserts
<1>1. /\ CleanRun(t) /\ Running = {t} /\ t \in Terminal /\ run[t] \in Run
      /\ run[t].at \in Nat \ {0} /\ Len(Plan(run[t])) \in Nat
  BY <1>0, CleanIsAlone
<1>2. /\ run[t].at \in 1..Len(Plan(run[t])) /\ Step(t) = Plan(run[t])[run[t].at]
      /\ IsInsert(Step(t)) /\ f \in Shared /\ Step(t).op # "write"
  <2>1. /\ run[t].at \in 1..Len(Plan(run[t])) /\ Step(t) = Plan(run[t])[run[t].at]
        /\ Step(t).op = "append" \/ Step(t).op = "insert"
    BY <1>0, StepIsOfPlan
  <2>2. Step(t).file \in Shared
    BY <1>0, <1>1, StepIsAny DEF InsertStep
  <2>. QED
    BY <1>f, <2>1, <2>2 DEF IsInsert
\* The file as it was, and the block.
<1>3. /\ Lines(f)' = Lines(f) \cup B
      /\ \A g \in Shared \ {f} : Lines(g)' = Lines(g)
  <2>1. text' = [text EXCEPT ![f] = seen[t] (+) SetToBag(B)]
    BY <1>f DEF Inserts
  <2>2. DOMAIN (seen[t] (+) SetToBag(B)) = DOMAIN seen[t] \cup B
    BY DEF (+), SetToBag
  <2>3. DOMAIN seen[t] = Lines(f)
    BY <1>f, <1>0, <1>1 DEF CleanRun, PendingInsert
  <2>4. text'[f] = seen[t] (+) SetToBag(B) /\ \A g \in Shared \ {f} : text'[g] = text[g]
    BY <1>2, <2>1 DEF RunType
  <2>. QED
    BY <2>2, <2>3, <2>4 DEF Lines
<1>4. WentOn(t, 1) /\ run'[t].warned = run[t].warned /\ run'[t].silent = run[t].silent
  BY GoesFields DEF Inserts
<1>5. /\ Same(t) /\ run'[t].at = run[t].at + 1 /\ run'[t].st = "running" /\ run'[t].looked = FALSE
      /\ run'[t].cmd = run[t].cmd /\ run'[t].stamp = run[t].stamp /\ run'[t].alone = run[t].alone
  BY <1>4 DEF WentOn, Same, Running
<1>6. Running' = {t}
  BY <1>1, <1>5, StillAlone
<1>7. run'[t].at \in Nat /\ run'[t].at >= run[t].at /\ run[t].at \in Nat
  BY <1>1, <1>5
<1>8. /\ Plan(run'[t]) = Plan(run[t]) /\ Behind(t) \subseteq Behind(t)'
      /\ \A g : Wrote(t, g) => Wrote(t, g)'
      /\ \A g, l : Brings(t, g, l) => Brings(t, g, l)'
      /\ \A k \in Behind(t)' : k \in Behind(t) \/ k = run[t].at
  BY <1>1, <1>4, <1>5, <1>7, BehindStays
\* It does not add to the file of the channels if it has passed over it.
<1>9. ~(run[t].silent /\ f = "queue/channel.rs")
  <2>1. SUFFICES ASSUME run[t].silent, f = "queue/channel.rs" PROVE FALSE
    OBVIOUS
  <2>2. PICK j \in 1..Len(Plan(run[t])) : Plan(run[t])[j].op = "check" /\ j + 4 <= run[t].at
    BY <1>1, <2>1 DEF CleanRun
  <2>3. run[t].at < j + 4
    BY <1>f, <1>1, <1>2, <2>1, <2>2, PlanTogether DEF Together
  <2>. QED
    BY <2>2, <2>3, <1>7
<1>10. \A l \in B : Brings(t, f, l)'
  <2>. SUFFICES ASSUME NEW l \in B PROVE Brings(t, f, l)'
    OBVIOUS
  <2>0. PICK i : i = run[t].at
    OBVIOUS
  <2>1. i \in Behind(t)'
    BY <2>0, <1>2, <1>5, <1>7, <1>8 DEF Behind
  <2>2. ~PassedOver(t, i)'
    BY <2>0, <1>f, <1>2, <1>4, <1>8, <1>9 DEF PassedOver
  <2>. QED
    BY <2>0, <2>1, <2>2, <1>f, <1>2, <1>8 DEF Brings
<1>11. /\ \A g \in Shared : Lines(g) \subseteq Lines(g)'
       /\ \A g \in Shared : \A l \in Lines(g)' : l \in Lines(g) \/ Brings(t, g, l)'
  BY <1>3, <1>10
<1>12. OwnLines \subseteq OwnLines'
  BY <1>11 DEF OwnLines, AllLines, Stock
<1>13. Sound \subseteq Sound'
  BY <1>0, <1>12, SoundGrows
<1>14. CleanRun(t)'
  <2>1. run'[t].alone /\ ~run'[t].warned
    BY <1>1, <1>4, <1>5 DEF CleanRun
  <2>2. ASSUME NEW k \in Behind(t)', Plan(run'[t])[k].op = "write"
        PROVE  /\ Plan(run'[t])[k].file \in DOMAIN made'
               /\ made'[Plan(run'[t])[k].file] = Plan(run'[t])[k].channel
    <3>1. k \in Behind(t)
      BY <1>2, <1>8, <2>2
    <3>. QED
      BY <3>1, <1>0, <1>1, <1>8, <2>2 DEF CleanRun
  <2>3. ~PendingInsert(t)'
    BY <1>1, <1>5, NotPending
  <2>4. ASSUME run'[t].silent
        PROVE  /\ <<"variant", run'[t].cmd.channel>> \in Sound'
               /\ \E j \in 1..Len(Plan(run'[t])) :
                    Plan(run'[t])[j].op = "check" /\ j + 4 <= run'[t].at
    <3>1. /\ <<"variant", run[t].cmd.channel>> \in Sound
          /\ \E j \in 1..Len(Plan(run[t])) : Plan(run[t])[j].op = "check" /\ j + 4 <= run[t].at
      BY <1>1, <1>4, <2>4 DEF CleanRun
    <3>. QED
      BY <3>1, <1>5, <1>7, <1>8, <1>13
  <2>. QED
    BY <2>1, <2>2, <2>3, <2>4 DEF CleanRun
<1>. QED
  BY <1>0, <1>1, <1>6, <1>8, <1>11, <1>14, CleanGoesOn

\* What is found in the file of the channels has what it needs: the run asks before it adds.
LEMMA ChannelIsSound ==
    ASSUME RunType, FileInv, CleanInv, clean, NEW t \in Running, AtStep(t, "check"),
           ChannelIncluded(Step(t).channel)
    PROVE  <<"variant", run[t].cmd.channel>> \in Sound
<1>. DEFINE c == run[t].cmd.channel
<1>1. /\ CleanRun(t) /\ Running = {t} /\ t \in Terminal /\ run[t] \in Run
      /\ run[t].at \in Nat \ {0} /\ Len(Plan(run[t])) \in Nat
  BY CleanIsAlone
<1>2. /\ run[t].at \in 1..Len(Plan(run[t])) /\ Step(t) = Plan(run[t])[run[t].at]
      /\ Step(t).op = "check"
  BY StepIsOfPlan
<1>3. Together(Plan(run[t]), c)
  BY <1>1, PlanTogether
<1>4. Step(t).channel = c /\ c \in Channel
  <2>1. Step(t).channel = c
    BY <1>2, <1>3 DEF Together
  <2>2. Step(t) \in AnyStep
    BY <1>1, StepIsAny
  <2>3. Step(t) \in CheckStep
    BY <2>2, <1>2 DEF AnyStep, WriteStep, InsertStep, CheckStep
  <2>. QED
    BY <2>1, <2>3 DEF CheckStep
<1>. HIDE DEF c
<1>7. Lines("queue/channel.rs") \subseteq AllLines
  BY DEF AllLines, Shared
<1>5. CASE c \in Mistaken
  BY <1>5 DEF Sound, Exempt, c
<1>6. CASE c \notin Mistaken
  <2>1. {<<"listed", c>>, <<"arm", c>>} \cap Lines("queue/channel.rs") # {}
    <3>1. c \notin InAll
      BY <1>4, <1>6 DEF Mistaken
    <3>2. PICK d \in Begins[c] : {<<"listed", d>>, <<"arm", d>>} \cap Lines("queue/channel.rs") # {}
      BY <1>4, <3>1 DEF ChannelIncluded
    <3>3. d = c
      BY <1>4, <1>6, <1>7, <3>2 DEF Mistaken
    <3>. QED
      BY <3>2, <3>3
  <2>2. PICK l \in {<<"listed", c>>, <<"arm", c>>} : l \in Lines("queue/channel.rs")
    BY <2>1
  <2>3. l[1] \notin ExampleWords
    BY <2>2, OfChannel
  <2>4. "queue/channel.rs" \in Shared /\ l \in Lines("queue/channel.rs") \ Stock
    BY <2>2, <2>3, NotOfStock DEF Shared
  <2>5. ~Brings(t, "queue/channel.rs", l)
    <3>1. ASSUME NEW k \in Behind(t), IsInsert(Plan(run[t])[k]),
                 Plan(run[t])[k].file = "queue/channel.rs"
          PROVE  FALSE
      <4>1. k \in 1..Len(Plan(run[t])) /\ k < run[t].at
        BY DEF Behind
      <4>2. k > run[t].at
        BY <1>2, <1>3, <3>1, <4>1 DEF Together
      <4>. QED
        BY <4>1, <4>2, <1>1
    <3>. QED
      BY <3>1 DEF Brings
  <2>6. LineNeeds(l) \subseteq Sound
    BY <2>4, <2>5, <1>1 DEF CleanInv
  <2>7. <<"variant", c>> \in LineNeeds(l)
    <3>1. /\ LineNeeds(<<"listed", c>>) = {<<"variant", c>>}
          /\ LineNeeds(<<"arm", c>>) = {<<"variant", c>>}
      BY LineNeedsTable, Zenon
    <3>. QED
      BY <2>2, <3>1
  <2>. QED
    BY <2>6, <2>7 DEF c
<1>. QED
  BY <1>5, <1>6

LEMMA CleanChecksChannel ==
    ASSUME RunType, FileInv, CleanInv, NEW t \in Running, ChecksChannel(t), clean'
    PROVE  CleanInv'
<1>0. /\ clean /\ text' = text /\ made' = made /\ seen' = seen
      /\ AtStep(t, "check") /\ ~run[t].looked
  BY DEF ChecksChannel
<1>1. /\ CleanRun(t) /\ Running = {t} /\ t \in Terminal /\ run[t] \in Run
      /\ run[t].at \in Nat \ {0} /\ Len(Plan(run[t])) \in Nat /\ run[t].st = "running"
  BY <1>0, CleanIsAlone DEF Running
<1>2. /\ run[t].at \in 1..Len(Plan(run[t])) /\ Step(t) = Plan(run[t])[run[t].at]
      /\ Step(t).op = "check"
  BY <1>0, StepIsOfPlan
<1>3. CASE Goes(t, 1)
  <2>1. WentOn(t, 1) /\ run'[t].warned = run[t].warned /\ run'[t].silent = run[t].silent
    BY <1>3, GoesFields
  <2>2. ~PendingInsert(t)'
    BY <1>1, <2>1, NotPending DEF WentOn
  <2>3. Same(t) /\ run'[t].at = run[t].at + 1 /\ run'[t].st = "running"
    BY <1>1, <2>1 DEF WentOn
  <2>. QED
    BY <1>0, <1>2, <2>1, <2>2, <2>3, QuietStep
<1>4. CASE /\ ChannelIncluded(Step(t).channel)
           /\ run' = [run EXCEPT ![t] = [@ EXCEPT !.at = run[t].at + 4, !.silent = TRUE]]
  <2>1. /\ Same(t) /\ run'[t].at = run[t].at + 4 /\ run'[t].st = run[t].st
        /\ run'[t].looked = run[t].looked
        /\ run'[t].warned = run[t].warned /\ run'[t].silent = TRUE
    BY <1>4, SkipsFields
  <2>2. run'[t].cmd = run[t].cmd /\ run'[t].stamp = run[t].stamp /\ run'[t].alone = run[t].alone
    BY <2>1 DEF Same
  <2>3. run'[t].at \in Nat /\ run'[t].at >= run[t].at /\ run[t].at \in Nat
    BY <1>1, <2>1
  <2>4. /\ Plan(run'[t]) = Plan(run[t]) /\ Behind(t) \subseteq Behind(t)'
        /\ \A f : Wrote(t, f) => Wrote(t, f)'
    BY <1>1, <2>2, <2>3, BehindStays
  <2>5. Running' = {t}
    BY <1>1, <2>1, StillAlone
  <2>6. /\ \A f \in Shared : Lines(f)' = Lines(f)
        /\ OwnLines' = OwnLines
    BY <1>0 DEF Lines, OwnLines, AllLines, Stock
  <2>7. Sound \subseteq Sound'
    BY <1>0, <2>6, SoundGrows
  <2>8. Together(Plan(run[t]), run[t].cmd.channel) /\ Ordered(Plan(run[t]), run[t].cmd.name)
    BY <1>1, PlanTogether, PlanOrdered
  \* It has added nothing yet to the file that it now passes over.
  <2>9. ASSUME NEW f, NEW l, Brings(t, f, l) PROVE Brings(t, f, l)'
    <3>1. PICK k \in Behind(t) :
            /\ IsInsert(Plan(run[t])[k]) /\ Plan(run[t])[k].file = f /\ l \in Plan(run[t])[k].block
      BY <2>9 DEF Brings
    <3>2. k \in 1..Len(Plan(run[t])) /\ k < run[t].at
      BY DEF Behind
    <3>3. Plan(run[t])[k].file # "queue/channel.rs"
      <4>1. SUFFICES ASSUME Plan(run[t])[k].file = "queue/channel.rs" PROVE FALSE
        OBVIOUS
      <4>2. k > run[t].at
        BY <1>2, <2>8, <3>1, <3>2, <4>1 DEF Together
      <4>. QED
        BY <3>2, <4>2, <1>1
    <3>4. k \in Behind(t)' /\ ~PassedOver(t, k)'
      BY <2>4, <3>1, <3>3 DEF PassedOver
    <3>. QED
      BY <2>4, <3>1, <3>4 DEF Brings
  <2>10. CleanRun(t)'
    <3>1. run'[t].alone /\ ~run'[t].warned
      BY <1>1, <2>1, <2>2 DEF CleanRun
    <3>2. ASSUME NEW k \in Behind(t)', Plan(run'[t])[k].op = "write"
          PROVE  /\ Plan(run'[t])[k].file \in DOMAIN made'
                 /\ made'[Plan(run'[t])[k].file] = Plan(run'[t])[k].channel
      <4>1. k \in 1..Len(Plan(run[t])) /\ k < run[t].at + 4
        BY <2>1, <2>4 DEF Behind
      <4>2. k < run[t].at
        <5>1. k # run[t].at
          BY <1>2, <2>4, <3>2
        <5>2. k \notin (run[t].at + 1)..(run[t].at + 3)
          <6>1. \A j \in (run[t].at + 1)..(run[t].at + 3) : IsInsert(Plan(run[t])[j])
            BY <1>2, <2>8 DEF Ordered
          <6>. QED
            BY <6>1, <2>4, <3>2 DEF IsInsert
        <5>. QED
          BY <4>1, <5>1, <5>2, <1>1
      <4>3. k \in Behind(t)
        BY <4>1, <4>2 DEF Behind
      <4>. QED
        BY <4>3, <1>0, <1>1, <2>4, <3>2 DEF CleanRun
    <3>3. ~PendingInsert(t)'
      BY <1>0, <2>1 DEF PendingInsert
    <3>4. <<"variant", run'[t].cmd.channel>> \in Sound'
      BY <1>0, <1>4, <2>2, <2>7, ChannelIsSound
    <3>5. \E j \in 1..Len(Plan(run'[t])) : Plan(run'[t])[j].op = "check" /\ j + 4 <= run'[t].at
      BY <1>1, <1>2, <2>1, <2>4
    <3>. QED
      BY <3>1, <3>2, <3>3, <3>4, <3>5 DEF CleanRun
  <2>. QED
    BY <1>0, <1>1, <2>4, <2>5, <2>6, <2>9, <2>10, CleanGoesOn
<1>. QED
  BY <1>3, <1>4 DEF ChecksChannel

\* A run that has come to the end of its plan has all that the plan asks for.
LEMMA CleanSaysDone ==
    ASSUME RunType, FileInv, WiredInv, CleanInv, NEW t \in Running, SaysDone(t), clean'
    PROVE  CleanInv'
<1>. DEFINE p == Plan(run[t])
            over == IF run[t].silent THEN {"queue/channel.rs"} ELSE {}
<1>0. /\ clean /\ text' = text /\ made' = made /\ run[t].at > Len(p)
      /\ run' = [run EXCEPT ![t].st = "done"]
  BY DEF SaysDone
<1>1. /\ CleanRun(t) /\ Running = {t} /\ t \in Terminal /\ run[t] \in Run
      /\ run[t].at \in Nat \ {0} /\ Len(p) \in Nat
  BY <1>0, CleanIsAlone
<1>2. Ended(t, "done")
  BY <1>0, EndsFields
<1>3. Running' = {}
  BY <1>1, <1>2, StillAlone DEF Ended
<1>4. \A k \in 1..Len(p) : k \in Behind(t)
  BY <1>0, <1>1 DEF Behind
<1>5. Stands(p, over)
  <2>1. ASSUME NEW k \in 1..Len(p), p[k].op = "write"
        PROVE  p[k].file \in DOMAIN made /\ made[p[k].file] = p[k].channel
    BY <1>1, <1>4, <2>1 DEF CleanRun
  <2>2. ASSUME NEW k \in 1..Len(p), IsInsert(p[k])
        PROVE  p[k].file \in over \/ p[k].block \subseteq AllLines
    <3>1. Going(t) /\ run[t].alone /\ ~run[t].warned /\ k \in Behind(t)
      BY <1>1, <1>4 DEF Going, Running, CleanRun
    <3>2. \/ run[t].silent /\ p[k].file = "queue/channel.rs"
          \/ \A l \in p[k].block : Settled(p[k].file, l)
      BY <1>1, <2>2, <3>1 DEF WiredInv
    <3>3. p[k].file \in Shared
      BY <1>1, <2>2, PlanSteps DEF AnyStep, WriteStep, InsertStep, CheckStep, IsInsert
    <3>. QED
      BY <3>2, <3>3 DEF Settled, AllLines, Lines
  <2>. QED
    BY <2>1, <2>2 DEF Stands
<1>6. over # {} => <<"variant", run[t].cmd.channel>> \in Sound
  BY <1>1 DEF CleanRun
<1>7. \A k \in 1..Len(p) : Grounded(p[k], over)
  <2>1. over \subseteq {"queue/channel.rs"}
    OBVIOUS
  <2>. HIDE DEF over
  <2>. QED
    BY <2>1, <1>1, <1>5, <1>6, PlanIsGrounded
<1>8. ASSUME NEW f, NEW l, Brings(t, f, l) PROVE LineNeeds(l) \subseteq Sound
  <2>1. PICK k \in Behind(t) : IsInsert(p[k]) /\ ~PassedOver(t, k) /\ l \in p[k].block
    BY <1>8 DEF Brings
  <2>2. k \in 1..Len(p) /\ p[k].file \notin over
    BY <2>1 DEF Behind, PassedOver
  <2>. QED
    BY <2>1, <2>2, <1>7 DEF Grounded
<1>9. ASSUME NEW f, Wrote(t, f) PROVE FileNeeds(f) \subseteq Sound
  <2>1. PICK k \in Behind(t) : p[k].op = "write" /\ p[k].file = f
    BY <1>9 DEF Wrote
  <2>2. k \in 1..Len(p)
    BY DEF Behind
  <2>. QED
    BY <2>1, <2>2, <1>7 DEF Grounded
<1>. HIDE DEF p, over
<1>. QED
  BY <1>0, <1>1, <1>3, <1>8, <1>9, CleanComesToRest

\* A run that starts by itself has nothing behind it.
LEMMA CleanStart ==
    ASSUME RunType, CleanInv, NEW t \in Terminal, NEW cmd, Start(t, cmd), clean'
    PROVE  CleanInv'
<1>0. clean /\ Running = {} /\ text' = text /\ made' = made
  BY DEF Start
<1>1. /\ run'[t].st = "running" /\ run'[t].at = 1 /\ run'[t].looked = FALSE
      /\ run'[t].warned = FALSE /\ run'[t].alone = (Running = {}) /\ run'[t].silent = FALSE
      /\ \A u \in Terminal \ {t} : run'[u].st = run[u].st
  BY StartFields
<1>2. Running' = {t}
  BY <1>0, <1>1 DEF Running
<1>3. Behind(t)' = {}
  BY <1>1 DEF Behind
<1>4. ~PendingInsert(t)'
  BY <1>1, NotPending
<1>5. CleanRun(t)'
  <2>1. run'[t].alone /\ ~run'[t].warned /\ ~run'[t].silent
    BY <1>0, <1>1
  <2>. QED
    BY <2>1, <1>3, <1>4 DEF CleanRun
<1>6. /\ \A f \in Shared : Lines(f)' = Lines(f)
      /\ OwnLines' = OwnLines /\ Stock' = Stock
  BY <1>0 DEF Lines, OwnLines, AllLines, Stock
<1>7. Sound \subseteq Sound' /\ \A f \in DOMAIN made : FileNeeds(f)' = FileNeeds(f)
  BY <1>0, <1>6, SoundGrows
<1>8. ASSUME NEW f \in Shared, NEW l \in Lines(f)' \ Stock'
      PROVE  LineNeeds(l) \subseteq Sound'
  BY <1>0, <1>6, <1>7 DEF CleanInv
<1>9. ASSUME NEW f \in DOMAIN made'
      PROVE  FileNeeds(f)' \subseteq Sound'
  BY <1>0, <1>7 DEF CleanInv
<1>. QED
  BY <1>2, <1>5, <1>8, <1>9 DEF CleanInv, LineNeeds

\* Without the lines of the example module what stands is what stood.
LEMMA CleanDropsExample ==
    ASSUME CleanInv, DropsExample, clean'
    PROVE  CleanInv'
<1>0. clean /\ Running = {} /\ made' = made /\ run' = run
  BY DEF DropsExample
<1>1. \A f \in Shared : Lines(f)' = Lines(f) \ ExampleLines(f)
  BY DEF DropsExample, Lines
<1>2. OwnLines' = OwnLines /\ Stock' = Stock
  BY <1>1 DEF OwnLines, AllLines, Stock
<1>3. Sound \subseteq Sound' /\ \A f \in DOMAIN made : FileNeeds(f)' = FileNeeds(f)
  BY <1>0, <1>2, SoundGrows
<1>4. Running' = {}
  BY <1>0 DEF Running
<1>5. ASSUME NEW f \in Shared, NEW l \in Lines(f)' \ Stock'
      PROVE  LineNeeds(l) \subseteq Sound'
  BY <1>0, <1>1, <1>2, <1>3 DEF CleanInv
<1>6. ASSUME NEW f \in DOMAIN made'
      PROVE  FileNeeds(f)' \subseteq Sound'
  BY <1>0, <1>3 DEF CleanInv
<1>. QED
  BY <1>4, <1>5, <1>6 DEF CleanInv, LineNeeds

\* Nothing that the invariant speaks of has changed.
LEMMA CleanStays ==
    ASSUME CleanInv, text' = text, made' = made, run' = run, seen' = seen, clean' = clean
    PROVE  CleanInv'
<1>1. /\ \A f \in Shared : Lines(f)' = Lines(f)
      /\ OwnLines' = OwnLines /\ Stock' = Stock
  BY DEF Lines, OwnLines, AllLines, Stock
<1>2. Sound \subseteq Sound' /\ \A f \in DOMAIN made : FileNeeds(f)' = FileNeeds(f)
  BY <1>1, SoundGrows
<1>3. /\ Running' = Running
      /\ \A t : Behind(t)' = Behind(t) /\ Step(t)' = Step(t)
      /\ \A r : Plan(r)' = Plan(r)
  BY DEF Running, Behind, Step
<1>4. ASSUME NEW t PROVE \A f, l : Brings(t, f, l) => Brings(t, f, l)'
  BY <1>3 DEF Brings, PassedOver
<1>5. ASSUME clean', NEW t \in Running' PROVE CleanRun(t)'
  <2>1. CleanRun(t)
    BY <1>5, <1>3 DEF CleanInv
  <2>2. PendingInsert(t)' => DOMAIN seen'[t] = Lines(Step(t).file)'
    <3>1. PendingInsert(t) => DOMAIN seen[t] = Lines(Step(t).file)
      BY <2>1 DEF CleanRun
    <3>2. PendingInsert(t)' => PendingInsert(t)
      BY <1>3 DEF PendingInsert, AtStep
    <3>3. Lines(Step(t).file)' = Lines(Step(t).file)
      BY DEF Lines, Step
    <3>. QED
      BY <3>1, <3>2, <3>3
  <2>. QED
    BY <2>1, <2>2, <1>2, <1>3 DEF CleanRun
<1>6. ASSUME clean', NEW f \in Shared, NEW l \in Lines(f)' \ Stock'
      PROVE  LineNeeds(l) \subseteq Sound' \/ \E t \in Running' : Brings(t, f, l)'
  BY <1>6, <1>1, <1>2, <1>3, <1>4 DEF CleanInv
<1>7. ASSUME clean', NEW f \in DOMAIN made'
      PROVE  FileNeeds(f)' \subseteq Sound' \/ \E t \in Running' : Wrote(t, f)'
  <2>1. f \in DOMAIN made /\ clean
    BY <1>7
  <2>2. FileNeeds(f) \subseteq Sound \/ \E t \in Running : Wrote(t, f)
    BY <2>1 DEF CleanInv
  <2>3. ASSUME NEW t \in Running, Wrote(t, f) PROVE t \in Running' /\ Wrote(t, f)'
    BY <2>3, <1>3 DEF Wrote
  <2>. QED
    BY <2>1, <2>2, <2>3, <1>2
<1>. QED
  BY <1>5, <1>6, <1>7 DEF CleanInv, LineNeeds

LEMMA CleanInvNext == RunType /\ FileInv /\ WiredInv /\ CleanInv /\ [Next]_vars => CleanInv'
<1>. SUFFICES ASSUME RunType, FileInv, WiredInv, CleanInv, [Next]_vars, clean' PROVE CleanInv'
  BY DEF CleanInv
<1>1. ASSUME NEW t \in Terminal, NEW cmd, Start(t, cmd) PROVE CleanInv'
  BY <1>1, CleanStart
<1>2. ASSUME NEW t \in Terminal, RunStep(t) PROVE CleanInv'
  <2>1. t \in Running
    BY <1>2, RunMoves
  <2>2. CASE WriteLooks(t)
    BY <2>1, <2>2, CleanWriteLooks
  <2>3. CASE Writes(t)
    BY <2>1, <2>3, CleanWrites
  <2>4. CASE InsertLooks(t)
    BY <2>1, <2>4, CleanInsertLooks
  <2>5. CASE Inserts(t)
    BY <2>1, <2>5, CleanInserts
  <2>6. CASE ChecksChannel(t)
    BY <2>1, <2>6, CleanChecksChannel
  <2>7. CASE SaysDone(t)
    BY <2>1, <2>7, CleanSaysDone
  <2>. QED
    BY <1>2, <2>2, <2>3, <2>4, <2>5, <2>6, <2>7 DEF RunStep
<1>3. ASSUME NEW t \in Terminal, Killed(t) PROVE FALSE
  BY <1>3 DEF Killed
<1>4. ASSUME NEW f \in DOMAIN made, Edits(f) PROVE CleanInv'
  BY <1>4, CleanStays DEF Edits
<1>5. ASSUME NEW n \in Name, NEW kinds, Removes(n, kinds) PROVE FALSE
  BY <1>5 DEF Removes
<1>6. CASE DropsExample
  BY <1>6, CleanDropsExample
<1>7. CASE UNCHANGED vars
  BY <1>7, CleanStays DEF vars
<1>. QED
  BY <1>1, <1>2, <1>3, <1>4, <1>5, <1>6, <1>7 DEF Next

\* As long as no run was killed, failed half way, warned or overlapped another, every
\* template and every line of RegisterApi, ScaffoldWorker and AddQueueChannel finds what
\* it needs, with or without the example module: but for the variants that a longer name
\* in channel.rs, or QueueChannel::ALL, was taken for.
THEOREM CleanBuildsHolds == Spec => []CleanBuilds
<1>. DEFINE I == RunType /\ FileInv /\ WiredInv /\ CleanInv
<1>1. Init => I
  BY RunTypeInit, InvInit, WiredInvInit, CleanInvInit
<1>2. I /\ [Next]_vars => I'
  BY RunTypeNext, FileInvNext, WiredInvNext, CleanInvNext
<1>3. I => CleanBuilds
  BY CleanBuildsFromInv
<1>. QED
  BY <1>1, <1>2, <1>3, PTL DEF Spec

\* "scaffolds a complete, compiling module" (README.md) is true where no variant begins
\* the name of another, or that of ALL.
THEOREM CompilesHolds ==
    ASSUME \A c \in Channel : Begins[c] = {c} /\ c \notin InAll
    PROVE  Spec => []Compiles
<1>1. Mistaken = {}
  BY DEF Mistaken
<1>2. CleanBuilds => Compiles
  BY <1>1 DEF CleanBuilds, Compiles
<1>. QED
  BY <1>2, CleanBuildsHolds, PTL
=============================================================================
