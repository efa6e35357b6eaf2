---------------------------- MODULE Transactions ----------------------------
(***************************************************************************)
(* Service methods marked #[tx]: tx::run of packages/db, the attribute of  *)
(* packages/transactional that wraps it around a method, and the           *)
(* repositories, whose statements find the ambient transaction.            *)
(*                                                                         *)
(* A call is one run of a method.  Its body is the sequence of its writing *)
(* statements, those of nested #[tx] methods included, since a nested run  *)
(* only calls its operation.  A statement takes its snapshot when it       *)
(* starts, then locks and writes the rows it found one by one and waits    *)
(* for a row that another transaction has written (Postgres, READ          *)
(* COMMITTED).  A method that is not marked is a call of one statement and *)
(* one attempt.                                                            *)
(***************************************************************************)
EXTENDS Naturals, Sequences, FiniteSets

CONSTANTS
    Call, NoCall,
    Id, NoId,
    Body,      \* [Call -> Seq(SUBSET Id)]: the ids each statement names
    Removes,   \* calls that delete the rows, the others update them
    Attempts   \* [Call -> Nat \ {0}]: max_attempts of tx::run

ASSUME BodyAssumption == Body \in [Call -> Seq(SUBSET Id)]
ASSUME RemovesAssumption == Removes \subseteq Call
ASSUME AttemptsAssumption == Attempts \in [Call -> Nat \ {0}]
ASSUME NoneAssumption == NoCall \notin Call /\ NoId \notin Id

VARIABLES
    pc,       \* where each call is
    attempt,  \* its attempt
    stmt,     \* the statement of the body it is at
    todo,     \* rows the statement found and has not written yet
    at,       \* the one of them it is at
    mine,     \* rows its open transaction has written: their locks
    error,    \* what database_error() of its error says
    rows,     \* as committed: who wrote the row, and whether it is there
    commits,  \* ghost: how often each call was committed
    unclear   \* ghost: calls that were not told how COMMIT ended

inside == <<stmt, todo, at, mine, error>>
ghosts == <<commits, unclear>>
vars == <<pc, attempt, inside, rows, ghosts>>

Returned == {"ok", "err"}

TypeOK ==
    /\ pc \in [Call -> {"begin", "body", "write", "commit", "rollback"} \cup Returned]
    /\ attempt \in [Call -> Nat \ {0}]
    /\ stmt \in [Call -> Nat \ {0}]
    /\ todo \in [Call -> SUBSET Id]
    /\ at \in [Call -> Id \cup {NoId}]
    /\ mine \in [Call -> SUBSET Id]
    /\ error \in [Call -> {"none", "conflict", "other"}]
    /\ rows \in [Id -> [by: Call \cup {NoCall}, there: BOOLEAN]]
    /\ commits \in [Call -> Nat]
    /\ unclear \subseteq Call

Init ==
    /\ pc = [c \in Call |-> "begin"]
    /\ attempt = [c \in Call |-> 1]
    /\ stmt = [c \in Call |-> 1]
    /\ todo = [c \in Call |-> {}]
    /\ at = [c \in Call |-> NoId]
    /\ mine = [c \in Call |-> {}]
    /\ error = [c \in Call |-> "none"]
    /\ rows = [i \in Id |-> [by |-> NoCall, there |-> TRUE]]
    /\ commits = [c \in Call |-> 0]
    /\ unclear = {}

Goto(c, from, to) == pc[c] = from /\ pc' = [pc EXCEPT ![c] = to]
Set(f, c, v) == f' = [f EXCEPT ![c] = v]

\* The transaction is over: nothing is left of what it wrote and locked.
Closed(c) == Set(todo, c, {}) /\ Set(at, c, NoId) /\ Set(mine, c, {})

-----------------------------------------------------------------------------
(* The transaction around the body. *)

\* Mutant: a retry goes on where the last attempt ended.
BeginResumes(c) ==
    /\ Goto(c, "begin", "body")
    /\ Set(error, c, "none")
    /\ UNCHANGED <<attempt, stmt, todo, at, mine, rows, ghosts>>

\* A fresh future of the body for every attempt.
Begin(c) ==
    /\ Goto(c, "begin", "body")
    /\ Set(stmt, c, 1)
    /\ Set(error, c, "none")
    /\ UNCHANGED <<attempt, todo, at, mine, rows, ghosts>>

\* No connection: an error, on a retry too.
BeginFails(c) ==
    /\ Goto(c, "begin", "err")
    /\ UNCHANGED <<attempt, inside, rows, ghosts>>

Mark(c) == [by |-> c, there |-> c \notin Removes]
Written(c) == [i \in Id |-> IF i \in mine[c] THEN Mark(c) ELSE rows[i]]

Commit(c) ==
    /\ Goto(c, "commit", "ok")
    /\ rows' = Written(c)
    /\ Set(commits, c, commits[c] + 1)
    /\ Closed(c)
    /\ UNCHANGED <<attempt, stmt, error, unclear>>

\* Mutant: a COMMIT that failed is run again.
CommitRetries(c) ==
    /\ \/ Goto(c, "commit", "err") /\ attempt[c] >= Attempts[c] /\ UNCHANGED attempt
       \/ /\ Goto(c, "commit", "begin") /\ attempt[c] < Attempts[c]
          /\ Set(attempt, c, attempt[c] + 1)
    /\ \/ rows' = Written(c) /\ Set(commits, c, commits[c] + 1)
       \/ UNCHANGED <<rows, commits>>
    /\ unclear' = unclear \cup {c}
    /\ Closed(c)
    /\ UNCHANGED <<stmt, error>>

\* COMMIT returned an error, or the caller went away while it ran: it may have
\* been committed.  It is not retried.
CommitUnclear(c) ==
    /\ Goto(c, "commit", "err")
    /\ \/ rows' = Written(c) /\ Set(commits, c, commits[c] + 1)
       \/ UNCHANGED <<rows, commits>>
    /\ unclear' = unclear \cup {c}
    /\ Closed(c)
    /\ UNCHANGED <<attempt, stmt, error>>

\* is_retryable, and an attempt is left.
Retries(c) == error[c] = "conflict" /\ attempt[c] < Attempts[c]

\* Mutant: the attempt is not counted.
RollbackForgets(c) ==
    /\ Goto(c, "rollback", IF Retries(c) THEN "begin" ELSE "err")
    /\ Closed(c)
    /\ UNCHANGED <<attempt, stmt, error, rows, ghosts>>

\* Mutant: the error returns while its transaction is open.
ReturnsUnrolled(c) ==
    /\ Goto(c, "rollback", IF Retries(c) THEN "begin" ELSE "err")
    /\ attempt' = IF Retries(c) THEN [attempt EXCEPT ![c] = @ + 1] ELSE attempt
    /\ UNCHANGED <<inside, rows, ghosts>>

\* ROLLBACK, which does its work also when it fails: the connection is closed.
Rollback(c) ==
    /\ Goto(c, "rollback", IF Retries(c) THEN "begin" ELSE "err")
    /\ attempt' = IF Retries(c) THEN [attempt EXCEPT ![c] = @ + 1] ELSE attempt
    /\ Closed(c)
    /\ UNCHANGED <<stmt, error, rows, ghosts>>

\* The future is dropped (a timeout, a client gone, a crash): the transaction is
\* rolled back by its Drop.
Dropped(c) ==
    /\ pc[c] \notin Returned \cup {"commit"}
    /\ Set(pc, c, "err")
    /\ Closed(c)
    /\ UNCHANGED <<attempt, stmt, error, rows, ghosts>>

-----------------------------------------------------------------------------
(* The body. *)

Last(c) == stmt[c] > Len(Body[c])

\* What a snapshot shows of the rows the statement names.
Found(c) == {i \in Body[c][stmt[c]] : rows[i].there /\ ~(c \in Removes /\ i \in mine[c])}

\* The next statement finds its rows; one it finds nothing for has no effect.
Statement(c) ==
    /\ ~Last(c)
    /\ \/ /\ Found(c) = {}
          /\ pc[c] = "body"
          /\ Set(stmt, c, stmt[c] + 1)
          /\ UNCHANGED <<pc, todo, at>>
       \/ \E i \in Found(c) : /\ Goto(c, "body", "write")
                              /\ Set(todo, c, Found(c))
                              /\ Set(at, c, i)
                              /\ UNCHANGED stmt
    /\ UNCHANGED <<attempt, mine, error, rows, ghosts>>

Free(c, i) == \A d \in Call \ {c} : i \notin mine[d]

\* The row at hand is written, or skipped if it is gone by now.
WriteRow(c) ==
    /\ pc[c] = "write"
    /\ at[c] \in todo[c]
    /\ Free(c, at[c])
    /\ Set(mine, c, IF rows[at[c]].there THEN mine[c] \cup {at[c]} ELSE mine[c])
    /\ Set(todo, c, todo[c] \ {at[c]})
    /\ \/ /\ todo'[c] = {}
          /\ Set(at, c, NoId)
          /\ Set(stmt, c, stmt[c] + 1)
          /\ Set(pc, c, "body")
       \/ /\ \E i \in todo'[c] : Set(at, c, i)
          /\ UNCHANGED <<pc, stmt>>
    /\ UNCHANGED <<attempt, error, rows, ghosts>>

BodyOk(c) ==
    /\ Last(c)
    /\ Goto(c, "body", "commit")
    /\ UNCHANGED <<attempt, inside, rows, ghosts>>

\* Mutant: an error kind of its own for errors of the method.
BodyErrKind(c) ==
    /\ Goto(c, "body", "rollback")
    /\ Set(error, c, "domain")
    /\ UNCHANGED <<attempt, stmt, todo, at, mine, rows, ghosts>>

\* The method returns an error of its own: not found, bad request, or a row that
\* vanished between find and update.
BodyErr(c) ==
    /\ Goto(c, "body", "rollback")
    /\ Set(error, c, "other")
    /\ UNCHANGED <<attempt, stmt, todo, at, mine, rows, ghosts>>

\* A statement fails.  The server aborts the transaction at once and forgets what
\* it wrote.  Whether the text of the error holds its code is up to the driver.
Aborted(c, kinds) ==
    /\ pc[c] \in {"body", "write"}
    /\ Set(pc, c, "rollback")
    /\ \E kind \in kinds : Set(error, c, kind)
    /\ Closed(c)
    /\ UNCHANGED <<attempt, stmt, rows, ghosts>>

StatementFails(c) == ~Last(c) /\ Aborted(c, {"conflict", "other"})

WaitsFor(c, d) == pc[c] = "write" /\ at[c] \in mine[d] /\ c # d

\* The server breaks a circle of waiting transactions at one of them.
Circle(S) == \A c \in S : (\E d \in S : WaitsFor(c, d)) /\ (\E d \in S : WaitsFor(d, c))
Deadlock(c) ==
    /\ \E S \in SUBSET Call : c \in S /\ Circle(S)
    /\ Aborted(c, {"conflict", "other"})

-----------------------------------------------------------------------------
Run(c) == \/ Begin(c) \/ BeginFails(c) \/ Statement(c) \/ WriteRow(c) \/ BodyOk(c)
          \/ BodyErr(c) \/ Commit(c) \/ CommitUnclear(c) \/ Rollback(c)

Next == \E c \in Call : Run(c) \/ StatementFails(c) \/ Deadlock(c) \/ Dropped(c)

Spec == Init /\ [][Next]_vars

\* The runtime polls every call; the server answers it and breaks deadlocks.
Fairness == \A c \in Call : WF_vars(Run(c)) /\ WF_vars(Deadlock(c))

FairSpec == Spec /\ Fairness

-----------------------------------------------------------------------------
(* Properties. *)

Named(c) == UNION {Body[c][n] : n \in 1 .. Len(Body[c])}

\* README, "commits or rolls back together": whatever is retried, a call that is
\* answered with success was committed once, and one that is answered with an
\* error not at all, unless it was COMMIT that failed.
AnswerMatchesTable ==
    \A c \in Call :
      /\ pc[c] = "ok" => commits[c] = 1
      /\ pc[c] # "ok" /\ c \notin unclear => commits[c] = 0
      /\ commits[c] <= 1

\* The same of one commit: it holds the writes of the whole body, of every
\* statement and nested method in it, to all rows named that are still there; none
\* is left to an attempt that was rolled back.
WholeBody ==
    [][\A c \in Call : commits'[c] # commits[c] =>
         \A i \in Named(c) : rows[i].there => rows'[i] = Mark(c)]_vars

\* A call that has returned leaves no transaction open, whose locks would keep
\* others waiting.
NothingLeftOpen ==
    \A c \in Call : pc[c] \in Returned \cup {"begin"} => mine[c] = {}

\* Deadlocks are broken, retries end: every call returns.
EveryCallReturns == \A c \in Call : <>(pc[c] \in Returned)
=============================================================================
