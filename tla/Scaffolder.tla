----------------------------- MODULE Scaffolder -----------------------------
(***************************************************************************)
(* scripts/new-module.ts (`just new-module`): a run writes the files of a  *)
(* module and then registers it, line by line, in files that the modules   *)
(* share.  Runs may be killed between any two of those steps, may be       *)
(* repeated, and may overlap: every helper looks at a file before it       *)
(* writes it, and writes back what it has read with its line added.        *)
(*                                                                         *)
(* A generated file is a pair <<kind, module>>; all that is kept of its    *)
(* text is the queue channel it names.  A shared file is the bag of its    *)
(* lines, a line a pair <<what, of whom>>; the order of lines is left out. *)
(* What a file or a line needs of others to compile is Needs.              *)
(***************************************************************************)
EXTENDS Naturals, Sequences, Bags

CONSTANTS
    Name,       \* modules a run may be asked for
    Example,    \* the module the repository comes with
    Channel,    \* queue channels
    Existing,   \* those the repository comes with
    NoChannel,
    Published,  \* the channel `${name}_published` of a module
    Begins,     \* the channels whose variant begins with that of a channel
    InAll,      \* the channels whose variant `ALL` begins with
    Terminal,   \* where commands are given
    Asked,      \* the commands that may be given there
    MaxRuns,    \* bound on the runs
    Editable    \* bound on the generated files the user changes: their kinds

ASSUME ConstantsAssumption ==
    /\ MaxRuns \in Nat
    /\ NoChannel \notin Channel /\ Example \notin Name
    /\ Existing \subseteq Channel
    /\ Published \in [Name -> Channel]
    /\ Begins \in [Channel -> SUBSET Channel]
    /\ \A c \in Channel : c \in Begins[c]
    /\ InAll \subseteq Channel

VARIABLES
    text,     \* shared file -> its lines
    made,     \* generated file -> the channel its text names
    edited,   \* the generated files the user has changed
    run,      \* terminal -> its present or last run
    seen,     \* terminal -> the text its run has read and will write back
    started,  \* the number of runs so far
    removed,  \* the modules some of whose files the user has removed
    clean     \* no run was killed, failed half way, warned or overlapped another

vars == <<text, made, edited, run, seen, started, removed, clean>>

-----------------------------------------------------------------------------
(* The files, as the script and the repository have them. *)

\* main: a module of the api publishes to a channel of its own or to none.
Command ==
    {cmd \in [app : {"api"}, name : Name, channel : Channel \cup {NoChannel}] :
       cmd.channel \in {NoChannel, Published[cmd.name]}}
    \cup [app : {"worker"}, name : Name, channel : Channel]
    \cup [app : {"web"}, name : Name, channel : {NoChannel}]

ASSUME AskedAssumption == Asked \in [Terminal -> SUBSET Command]

Shared == {"entities/mod.rs", "migration/lib.rs", "api/modules/mod.rs", "api/state.rs",
           "api/lib.rs", "queue/channel.rs", "worker/modules/mod.rs", "worker/state.rs"}

Kinds(app) ==
    CASE app = "api" -> {"api/dto", "api/repository", "api/service", "api/controller",
                         "api/route", "api/mod"}
      [] app = "worker" -> {"worker/dto", "worker/repository", "worker/service",
                            "worker/consumer", "worker/mod"}
      [] app = "web" -> {"web/dto", "web/service", "web/actions", "web/crud", "web/index"}

File == {<<k, n>> : k \in {"entity"} \cup Kinds("api") \cup Kinds("worker") \cup Kinds("web"),
                    n \in Name}
        \cup {<<"migration", <<n, s>>>> : n \in Name, s \in 1..MaxRuns}

\* `pub struct AppState {`, `vec![` and the like: there as long as the file is.
Fixed == <<"fixed", Example>>

\* The lines of the example module that others are inserted after.
ExampleLines(f) ==
    {<<what, Example>> : what \in
        CASE f = "api/state.rs" -> {"use", "wiring"}
          [] f = "api/lib.rs" -> {"routes use", "nest", "docs"}
          [] f = "worker/state.rs" -> {"consumer wiring"}
          [] OTHER -> {}}

ChannelLines(c) == {<<what, c>> : what \in {"variant", "listed", "arm"}}

StartText(f) ==
    SetToBag({Fixed} \cup ExampleLines(f)
             \cup IF f = "queue/channel.rs" THEN UNION {ChannelLines(c) : c \in Existing}
                  ELSE {})

-----------------------------------------------------------------------------
(* The steps of a run. *)

Write(kind, of, c) == [op |-> "write", file |-> <<kind, of>>, channel |-> c]
AppendModule(f, line) == [op |-> "append", file |-> f, anchor |-> Fixed, block |-> {line}]
InsertAfter(f, anchor, block) == [op |-> "insert", file |-> f, anchor |-> anchor, block |-> block]

\* Mutant: the migration's file has no time in its name.
ScaffoldWithoutStamp(n, stamp) ==
    <<Write("entity", n, NoChannel), Write("migration", n, NoChannel)>>

ScaffoldEntityAndMigration(n, stamp) ==
    <<Write("entity", n, NoChannel),
      AppendModule("entities/mod.rs", <<"entities mod", n>>),
      Write("migration", <<n, stamp>>, NoChannel),
      InsertAfter("migration/lib.rs", Fixed, {<<"migration mod", <<n, stamp>>>>}),
      InsertAfter("migration/lib.rs", Fixed, {<<"migration boxed", <<n, stamp>>>>})>>

\* The three inserts are left out if the text includes `QueueChannel::${variant}`.
AddQueueChannel(c) ==
    <<[op |-> "check", channel |-> c],
      InsertAfter("queue/channel.rs", Fixed, {<<"variant", c>>}),
      InsertAfter("queue/channel.rs", Fixed, {<<"listed", c>>}),
      InsertAfter("queue/channel.rs", Fixed, {<<"arm", c>>})>>

\* Only the wiring differs by withPublish: create_${name}_service takes the pool.
RegisterApi(n, c) ==
    <<AppendModule("api/modules/mod.rs", <<"api mod", n>>),
      InsertAfter("api/state.rs", <<"use", Example>>, {<<"use", n>>}),
      InsertAfter("api/state.rs", Fixed, {<<"field", n>>}),
      InsertAfter("api/state.rs", <<"wiring", Example>>,
             {<<"repository", n>>, <<IF c = NoChannel THEN "wiring" ELSE "wiring with pool", n>>}),
      InsertAfter("api/state.rs", Fixed, {<<"value", n>>}),
      InsertAfter("api/lib.rs", <<"routes use", Example>>, {<<"routes use", n>>}),
      InsertAfter("api/lib.rs", <<"nest", Example>>, {<<"nest", n>>}),
      InsertAfter("api/lib.rs", <<"docs", Example>>, {<<"docs", n>>})>>

ScaffoldApi(n, c, stamp) ==
    ScaffoldEntityAndMigration(n, stamp)
    \o <<Write("api/dto", n, NoChannel), Write("api/repository", n, NoChannel),
         Write("api/service", n, c), Write("api/controller", n, c),
         Write("api/route", n, c), Write("api/mod", n, NoChannel)>>
    \o RegisterApi(n, c)
    \o IF c = NoChannel THEN <<>> ELSE AddQueueChannel(c)

\* Mutant: the module is declared before it is written.
ScaffoldWorkerDeclared(n, c) ==
    <<AppendModule("worker/modules/mod.rs", <<"worker mod", n>>),
      Write("worker/dto", n, NoChannel), Write("worker/repository", n, NoChannel),
      Write("worker/service", n, NoChannel), Write("worker/consumer", n, c),
      Write("worker/mod", n, NoChannel)>>

ScaffoldWorker(n, c) ==
    <<Write("worker/dto", n, NoChannel), Write("worker/repository", n, NoChannel),
      Write("worker/service", n, NoChannel), Write("worker/consumer", n, c),
      Write("worker/mod", n, NoChannel),
      AppendModule("worker/modules/mod.rs", <<"worker mod", n>>)>>
    \o AddQueueChannel(c)
    \o <<InsertAfter("worker/state.rs", Fixed, {<<"consumer use", n>>}),
         InsertAfter("worker/state.rs", <<"consumer wiring", Example>>,
                {<<"consumer repository", n>>, <<"consumer wiring", n>>}),
         InsertAfter("worker/state.rs", Fixed, {<<"consumer", n>>})>>

ScaffoldWeb(n) ==
    <<Write("web/dto", n, NoChannel), Write("web/service", n, NoChannel),
      Write("web/actions", n, NoChannel), Write("web/crud", n, NoChannel),
      Write("web/index", n, NoChannel)>>

Plan(r) ==
    CASE r.cmd.app = "api" -> ScaffoldApi(r.cmd.name, r.cmd.channel, r.stamp)
      [] r.cmd.app = "worker" -> ScaffoldWorker(r.cmd.name, r.cmd.channel)
      [] r.cmd.app = "web" -> ScaffoldWeb(r.cmd.name)

-----------------------------------------------------------------------------
(* State and initial state. *)

Idle == [st |-> "idle"]

Run == [st : {"running", "done", "failed", "killed"}, cmd : Command, stamp : 1..MaxRuns,
        at : Nat \ {0},     \* the step of the plan it has come to
        looked : BOOLEAN,   \* it has looked at the file of that step
        alone : BOOLEAN, warned : BOOLEAN, silent : BOOLEAN]

TypeOK ==
    /\ DOMAIN text = Shared /\ \A f \in Shared : IsABag(text[f])
    /\ DOMAIN made \subseteq File /\ made \in [DOMAIN made -> Channel \cup {NoChannel}]
    /\ edited \subseteq DOMAIN made
    /\ run \in [Terminal -> Run \cup {Idle}]
    /\ DOMAIN seen = Terminal /\ \A t \in Terminal : IsABag(seen[t])
    /\ started \in 0..MaxRuns
    /\ removed \subseteq Name
    /\ clean \in BOOLEAN

Init ==
    /\ text = [f \in Shared |-> StartText(f)]
    /\ made = EmptyBag
    /\ edited = {}
    /\ run = [t \in Terminal |-> Idle]
    /\ seen = [t \in Terminal |-> EmptyBag]
    /\ started = 0
    /\ removed = {}
    /\ clean = TRUE

Running == {t \in Terminal : run[t].st = "running"}
Step(t) == Plan(run[t])[run[t].at]
Lines(f) == DOMAIN text[f]

-----------------------------------------------------------------------------
(* A run. *)

\* main, with a name that is asked for and matches the pattern.
Start(t, cmd) ==
    /\ t \notin Running
    /\ started < MaxRuns
    /\ started' = started + 1
    /\ run' = [u \in Terminal |->
                 CASE u = t -> [st |-> "running", cmd |-> cmd, stamp |-> started + 1, at |-> 1,
                                looked |-> FALSE, alone |-> Running = {},
                                warned |-> FALSE, silent |-> FALSE]
                   [] u # t /\ u \in Running -> [run[u] EXCEPT !.alone = FALSE]
                   [] OTHER -> run[u]]
    /\ clean' = (clean /\ Running = {})
    /\ UNCHANGED <<text, made, edited, seen, removed>>

AtStep(t, op) ==
    /\ t \in Running
    /\ run[t].at <= Len(Plan(run[t]))
    /\ Step(t).op = op

Looks(t) == run' = [run EXCEPT ![t].looked = TRUE]
Goes(t, n) == run' = [run EXCEPT ![t] = [@ EXCEPT !.at = run[t].at + n, !.looked = FALSE]]

\* Mutant: an anchor that is not found is passed over.
SkipsQuietly(t) == run' = [run EXCEPT ![t] = [@ EXCEPT !.at = run[t].at + 1, !.looked = FALSE]]

Warns(t) ==
    run' = [run EXCEPT ![t] = [@ EXCEPT !.at = run[t].at + 1, !.looked = FALSE, !.warned = TRUE]]

\* Mutant: write does not look.
WriteLooksAway(t) ==
    /\ AtStep(t, "write") /\ ~run[t].looked
    /\ Looks(t)
    /\ UNCHANGED <<text, made, edited, seen, started, removed, clean>>

\* write throws if there is such a file; whatever was done before stays.
WriteLooks(t) ==
    /\ AtStep(t, "write") /\ ~run[t].looked
    /\ IF Step(t).file \in DOMAIN made
       THEN /\ run' = [run EXCEPT ![t].st = "failed"]
            /\ clean' = (clean /\ run[t].at = 1)
       ELSE Looks(t) /\ UNCHANGED clean
    /\ UNCHANGED <<text, made, edited, seen, started, removed>>

Writes(t) ==
    /\ AtStep(t, "write") /\ run[t].looked
    /\ LET f == Step(t).file IN
         /\ made' = [g \in DOMAIN made \cup {f} |-> IF g = f THEN Step(t).channel ELSE made[g]]
         /\ edited' = edited \ {f}
    /\ Goes(t, 1)
    /\ UNCHANGED <<text, seen, started, removed, clean>>

\* Mutant: nobody asks.
NeverPresent(lines, block) == FALSE

AlreadyPresent(lines, block) == block \subseteq lines

\* insertAfter and appendModule up to what they read.
InsertLooks(t) ==
    /\ AtStep(t, "append") \/ AtStep(t, "insert")
    /\ ~run[t].looked
    /\ LET lines == Lines(Step(t).file) IN
         CASE AlreadyPresent(lines, Step(t).block) ->
                Goes(t, 1) /\ UNCHANGED <<seen, clean>>
           [] ~AlreadyPresent(lines, Step(t).block) /\ Step(t).anchor \notin lines ->
                Warns(t) /\ clean' = FALSE /\ UNCHANGED seen
           [] OTHER ->
                Looks(t) /\ seen' = [seen EXCEPT ![t] = text[Step(t).file]] /\ UNCHANGED clean
    /\ UNCHANGED <<text, made, edited, started, removed>>

Inserts(t) ==
    /\ AtStep(t, "append") \/ AtStep(t, "insert")
    /\ run[t].looked
    /\ text' = [text EXCEPT ![Step(t).file] = seen[t] (+) SetToBag(Step(t).block)]
    /\ seen' = [seen EXCEPT ![t] = EmptyBag]
    /\ Goes(t, 1)
    /\ UNCHANGED <<made, edited, started, removed, clean>>

\* Mutant: any channel will do.
AnyChannelIncluded(c) == \E d \in Channel : <<"listed", d>> \in Lines("queue/channel.rs")

\* readFileSync(path).includes(`QueueChannel::${variant}`): the text names the variants
\* in their list and in the match, and parse has a `QueueChannel::ALL` of its own.
ChannelIncluded(c) ==
    \/ c \in InAll
    \/ \E d \in Begins[c] : {<<"listed", d>>, <<"arm", d>>} \cap Lines("queue/channel.rs") # {}

ChecksChannel(t) ==
    /\ AtStep(t, "check") /\ ~run[t].looked
    /\ IF ChannelIncluded(Step(t).channel)
       THEN run' = [run EXCEPT ![t] = [@ EXCEPT !.at = run[t].at + 4, !.silent = TRUE]]
       ELSE Goes(t, 1)
    /\ UNCHANGED <<text, made, edited, seen, started, removed, clean>>

SaysDone(t) ==
    /\ t \in Running
    /\ run[t].at > Len(Plan(run[t]))
    /\ run' = [run EXCEPT ![t].st = "done"]
    /\ UNCHANGED <<text, made, edited, seen, started, removed, clean>>

Killed(t) ==
    /\ t \in Running
    /\ run' = [run EXCEPT ![t] = [@ EXCEPT !.st = "killed", !.looked = FALSE]]
    /\ seen' = [seen EXCEPT ![t] = EmptyBag]
    /\ clean' = FALSE
    /\ UNCHANGED <<text, made, edited, started, removed>>

RunStep(t) ==
    \/ WriteLooks(t) \/ Writes(t) \/ InsertLooks(t) \/ Inserts(t)
    \/ ChecksChannel(t) \/ SaysDone(t)

-----------------------------------------------------------------------------
(* The user; bound: only as long as there are runs to come. *)

Edits(f) ==
    /\ f[1] \in Editable
    /\ edited' = edited \cup {f}
    /\ UNCHANGED <<text, made, run, seen, started, removed, clean>>

\* What a run has left of an app's module is deleted, its lines are not.
Removes(n, kinds) ==
    LET files == {<<k, n>> : k \in kinds} IN
    /\ Running = {} /\ started < MaxRuns
    /\ files \cap DOMAIN made # {}
    /\ made' = [f \in DOMAIN made \ files |-> made[f]]
    /\ edited' = edited \ files
    /\ removed' = removed \cup {n}
    /\ clean' = FALSE
    /\ UNCHANGED <<text, run, seen, started>>

\* The example module is no longer wanted.
DropsExample ==
    /\ Running = {} /\ started < MaxRuns
    /\ text' = [f \in Shared |-> [l \in Lines(f) \ ExampleLines(f) |-> text[f][l]]]
    /\ text' # text
    /\ UNCHANGED <<made, edited, run, seen, started, removed, clean>>

Next ==
    \/ \E t \in Terminal : \/ \E cmd \in Asked[t] : Start(t, cmd)
                           \/ RunStep(t) \/ Killed(t)
    \/ \E f \in DOMAIN made : Edits(f)
    \/ \E n \in Name, kinds \in {Kinds("api"), {"entity"}, Kinds("worker")} : Removes(n, kinds)
    \/ DropsExample

Spec == Init /\ [][Next]_vars

-----------------------------------------------------------------------------
(* What the build asks of the files: the modules and names that a template *)
(* imports, and the lines that only compile together.                      *)

Of(n, whats) == {<<what, n>> : what \in whats}

EntityNeeds(n) == {}
MigrationNeeds(n) == {}
ApiDtoNeeds(n) == Of(n, {"entity", "entities mod"})
ApiRepositoryNeeds(n) == Of(n, {"entity", "entities mod", "api/dto"})
ApiServiceNeeds(n, c) ==
    Of(n, {"api/dto", "api/repository"}) \cup (IF c = NoChannel THEN {} ELSE {<<"variant", c>>})
ApiControllerNeeds(n, c) ==
    Of(n, {"api/dto", "field"} \cup (IF c = NoChannel THEN {} ELSE {"service publishes"}))
ApiRouteNeeds(n, c) ==
    Of(n, {"api/controller"} \cup (IF c = NoChannel THEN {} ELSE {"controller publishes"}))
ApiModNeeds(n) == Of(n, Kinds("api") \ {"api/mod"})

WorkerDtoNeeds(n) == {}
WorkerRepositoryNeeds(n) == {}
WorkerServiceNeeds(n) == Of(n, {"worker/repository"})
WorkerConsumerNeeds(n, c) == Of(n, {"worker/dto", "worker/service"}) \cup {<<"variant", c>>}
WorkerModNeeds(n) == Of(n, Kinds("worker") \ {"worker/mod"})

WebDtoNeeds(n) == {}
WebServiceNeeds(n) == Of(n, {"web/dto"})
WebActionsNeeds(n) == Of(n, {"web/dto"})
WebCrudNeeds(n) == Of(n, {"web/actions", "web/dto"})
WebIndexNeeds(n) == Of(n, {"web/crud", "web/dto", "web/service"})

FileNeeds(f) ==
    LET n == f[2]  c == made[f] IN
    CASE f[1] = "entity" -> EntityNeeds(n)
      [] f[1] = "migration" -> MigrationNeeds(n)
      [] f[1] = "api/dto" -> ApiDtoNeeds(n)
      [] f[1] = "api/repository" -> ApiRepositoryNeeds(n)
      [] f[1] = "api/service" -> ApiServiceNeeds(n, c)
      [] f[1] = "api/controller" -> ApiControllerNeeds(n, c)
      [] f[1] = "api/route" -> ApiRouteNeeds(n, c)
      [] f[1] = "api/mod" -> ApiModNeeds(n)
      [] f[1] = "worker/dto" -> WorkerDtoNeeds(n)
      [] f[1] = "worker/repository" -> WorkerRepositoryNeeds(n)
      [] f[1] = "worker/service" -> WorkerServiceNeeds(n)
      [] f[1] = "worker/consumer" -> WorkerConsumerNeeds(n, c)
      [] f[1] = "worker/mod" -> WorkerModNeeds(n)
      [] f[1] = "web/dto" -> WebDtoNeeds(n)
      [] f[1] = "web/service" -> WebServiceNeeds(n)
      [] f[1] = "web/actions" -> WebActionsNeeds(n)
      [] f[1] = "web/crud" -> WebCrudNeeds(n)
      [] f[1] = "web/index" -> WebIndexNeeds(n)

\* A field needs its value and the value its binding, which the pool must fit; a
\* variant needs an arm of the match and an arm its variant.
LineNeeds(l) ==
    Of(l[2],
       CASE l[1] = "entities mod" -> {"entity"}
         [] l[1] = "migration mod" -> {"migration"}
         [] l[1] = "migration boxed" -> {"migration mod"}
         [] l[1] = "api mod" -> {"api/mod"}
         [] l[1] \in {"use", "routes use"} -> {"api mod"}
         [] l[1] = "field" -> {"use", "value"}
         [] l[1] = "repository" -> {"use"}
         [] l[1] = "wiring" -> {"repository", "service without pool"}
         [] l[1] = "wiring with pool" -> {"repository", "service with pool"}
         [] l[1] = "value" -> {"field", "binding"}
         [] l[1] \in {"nest", "docs"} -> {"routes use"}
         [] l[1] = "worker mod" -> {"worker/mod"}
         [] l[1] = "consumer use" -> {"worker mod"}
         [] l[1] = "consumer repository" -> {"consumer use"}
         [] l[1] = "consumer wiring" -> {"consumer repository"}
         [] l[1] = "consumer" -> {"consumer use", "consumer wiring"}
         [] l[1] = "variant" -> {"arm"}
         [] l[1] \in {"listed", "arm"} -> {"variant"}
         [] OTHER -> {})

AllLines == UNION {Lines(f) : f \in Shared}

\* What a file offers depends on whether it was generated to publish.
Offers(f) ==
    LET n == f[2]  c == made[f] IN
    CASE f[1] = "api/service" ->
           Of(n, {IF c = NoChannel THEN "service without pool" ELSE "service with pool"}
                 \cup IF c = NoChannel THEN {} ELSE {"service publishes"})
      [] f[1] = "api/controller" /\ c # NoChannel -> Of(n, {"controller publishes"})
      [] OTHER -> {}

Present ==
    DOMAIN made \cup AllLines \cup (UNION {Offers(f) : f \in DOMAIN made})
    \cup {<<"binding", l[2]>> : l \in {m \in AllLines : m[1] \in {"wiring", "wiring with pool"}}}

Missing ==
    (UNION ({FileNeeds(f) : f \in DOMAIN made}
            \cup {LineNeeds(l) : l \in {m \in AllLines : m[2] # Example}})) \ Present

-----------------------------------------------------------------------------
(* Properties. *)

\* Whatever is killed, overlaps or runs again: a line is never there twice, which
\* the compiler or the router would refuse.  (Only the binding of a repository may
\* be: with and without the pool its block is another.)
NoneTwice ==
    \A f \in Shared : \A l \in Lines(f) : l[1] # "repository" => text[f][l] = 1

\* The tree of modules is never ahead of the files, at no step of any run: what
\* declares a module is written after the module, so that a run that is killed
\* leaves no module declared without its files.  (It may well leave a field without
\* its value, or a variant without its arm.)
DeclaredHasFiles ==
    \A n \in Name \ removed :
      /\ <<"entities mod", n>> \in AllLines => <<"entity", n>> \in DOMAIN made
      /\ <<"api mod", n>> \in AllLines => Of(n, Kinds("api")) \subseteq DOMAIN made
      /\ <<"worker mod", n>> \in AllLines => Of(n, Kinds("worker")) \subseteq DOMAIN made
      /\ \A s \in 1..MaxRuns :
           <<"migration mod", <<n, s>>>> \in AllLines => <<"migration", <<n, s>>>> \in DOMAIN made

\* The files are the user's once they are generated: a run that has them to itself
\* never writes over one that the user has changed.
EditsKept ==
    [][\A f \in edited \ edited' :
         \/ f[2] \in removed'
         \/ \E t \in Running : ~run[t].alone /\ AtStep(t, "write") /\ Step(t).file = f]_vars

\* A run that says Done without a warning, and that overlapped no other, has wired
\* its module: served and documented, its table migrated, its jobs consumed.  Its
\* channel is listed unless addQueueChannel returned early.
DoneIsWired ==
    \A t \in Terminal :
      run[t].st = "done" =>
        LET r == run[t]  n == r.cmd.name  c == r.cmd.channel IN
        r.alone /\ ~r.warned =>
          /\ r.cmd.app = "api" =>
               Of(n, {"api mod", "value", "nest", "docs"}) \cup {<<"migration boxed", <<n, r.stamp>>>>}
                 \subseteq AllLines
          /\ r.cmd.app = "worker" => Of(n, {"worker mod", "consumer"}) \subseteq AllLines
          /\ r.cmd.app = "web" => n \in removed \/ Of(n, Kinds("web")) \subseteq DOMAIN made
          /\ c # NoChannel /\ ~r.silent => ChannelLines(c) \subseteq AllLines

\* The variants that addQueueChannel takes to be there when it has found the name of
\* another, or that of ALL.
Mistaken ==
    {c \in Channel :
       c \in InAll \/ \E d \in Begins[c] \ {c} : {<<"listed", d>>, <<"arm", d>>} \cap AllLines # {}}

\* As long as no run was killed, failed half way, warned or overlapped, all that what
\* stands between runs may lack is a variant the file named something longer for: the
\* inserts themselves leave nothing out, whichever runs came before.
CleanBuilds == clean /\ Running = {} => Missing \subseteq {<<"variant", c>> : c \in Mistaken}

\* "scaffolds a complete, compiling module" (README.md).
Compiles == clean /\ Running = {} => Missing = {}
=============================================================================
