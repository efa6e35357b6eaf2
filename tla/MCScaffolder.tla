---------------------------- MODULE MCScaffolder ----------------------------
(***************************************************************************)
(* Instances of Scaffolder for TLC: modules and channels a user may ask    *)
(* for beside the example of the repository.                               *)
(***************************************************************************)
EXTENDS Scaffolder

CONSTANTS t1, order, mailer, order_published, example, example_created, a

PublishedOf == [n \in Name |-> order_published]

\* The variant Example begins the name of ExampleCreated, and A that of ALL.
BeginsOf == [c \in Channel |-> IF c = example THEN {example, example_created} ELSE {c}]

OrderPublishes == [app |-> "api", name |-> order, channel |-> order_published]
OrderOnly == [app |-> "api", name |-> order, channel |-> NoChannel]
OrderWorker == [app |-> "worker", name |-> order, channel |-> order_published]
MailerWorker == [app |-> "worker", name |-> mailer, channel |-> example]
AWorker == [app |-> "worker", name |-> mailer, channel |-> a]
OrderWeb == [app |-> "web", name |-> order, channel |-> NoChannel]

\* Runs of the api one after the other, those of the others also at once.
AskedEach ==
    [t \in Terminal |-> IF t = t1 THEN {OrderPublishes, OrderOnly, OrderWorker}
                        ELSE {OrderWorker, MailerWorker, AWorker, OrderWeb}]
=============================================================================
