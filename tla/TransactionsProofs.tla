------------------------- MODULE TransactionsProofs -------------------------
(***************************************************************************)
(* Proofs about Transactions: what a caller is told is what the tables     *)
(* hold, and no transaction outlives its call, for every number of calls,  *)
(* every body and every budget of attempts; and a commit holds the whole   *)
(* body.                                                                   *)
(***************************************************************************)
EXTENDS Transactions, TLAPS

USE DEF Returned, inside, ghosts, vars, Goto, Set, Closed

LEMMA InitType == Init => TypeOK
  BY DEF Init, TypeOK

LEMMA NextType == TypeOK /\ [Next]_vars => TypeOK'
<1> SUFFICES ASSUME TypeOK, [Next]_vars
             PROVE  TypeOK'
  OBVIOUS
<1> USE DEF TypeOK
<1>1. CASE UNCHANGED vars
  BY <1>1
<1>2. ASSUME NEW c \in Call, Begin(c) \/ BeginFails(c) \/ BodyOk(c) \/ BodyErr(c)
      PROVE  TypeOK'
  BY <1>2 DEF Begin, BeginFails, BodyOk, BodyErr
<1>3. ASSUME NEW c \in Call, Commit(c) \/ CommitUnclear(c)
      PROVE  TypeOK'
  <2>1. Written(c) \in [Id -> [by: Call \cup {NoCall}, there: BOOLEAN]]
    BY DEF Written, Mark
  <2>2. rows' \in {rows, Written(c)} /\ commits' \in {commits, [commits EXCEPT ![c] = @ + 1]}
    BY <1>3 DEF Commit, CommitUnclear
  <2>3. rows' \in [Id -> [by: Call \cup {NoCall}, there: BOOLEAN]]
    BY <2>1, <2>2
  <2>4. commits' \in [Call -> Nat]
    BY <2>2
  <2>5. unclear' \subseteq Call
    BY <1>3 DEF Commit, CommitUnclear
  <2>6. /\ pc' \in [Call -> {"begin", "body", "write", "commit", "rollback"} \cup Returned]
        /\ attempt' \in [Call -> Nat \ {0}]
        /\ stmt' \in [Call -> Nat \ {0}]
        /\ error' \in [Call -> {"none", "conflict", "other"}]
    BY <1>3 DEF Commit, CommitUnclear
  <2>7. /\ todo' \in [Call -> SUBSET Id]
        /\ at' \in [Call -> Id \cup {NoId}]
        /\ mine' \in [Call -> SUBSET Id]
    BY <1>3 DEF Commit, CommitUnclear
  <2>8. QED
    BY <2>3, <2>4, <2>5, <2>6, <2>7
<1>4. ASSUME NEW c \in Call, Rollback(c) \/ Dropped(c)
      PROVE  TypeOK'
  <2>1. attempt' \in {attempt, [attempt EXCEPT ![c] = @ + 1]}
    BY <1>4 DEF Rollback, Dropped
  <2>2. attempt' \in [Call -> Nat \ {0}]
    BY <2>1
  <2>3. \E to \in {"begin", "err"} : pc' = [pc EXCEPT ![c] = to]
    BY <1>4 DEF Rollback, Dropped
  <2>4. Closed(c) /\ UNCHANGED <<stmt, error, rows, ghosts>>
    BY <1>4 DEF Rollback, Dropped
  <2>5. QED
    BY <2>2, <2>3, <2>4
<1>5. ASSUME NEW c \in Call, NEW kinds \in SUBSET {"conflict", "other"}, Aborted(c, kinds)
      PROVE  TypeOK'
  BY <1>5 DEF Aborted
<1>6. ASSUME NEW c \in Call, Statement(c)
      PROVE  TypeOK'
  <2>1. Found(c) \in SUBSET Id
    <3>1. Body[c] \in Seq(SUBSET Id) /\ stmt[c] \in 1 .. Len(Body[c])
      BY <1>6, BodyAssumption DEF Statement, Last
    <3>2. Found(c) \subseteq Body[c][stmt[c]]
      BY DEF Found
    <3>3. QED
      BY <3>1, <3>2
  <2>2. QED
    BY <1>6, <2>1 DEF Statement
<1>7. ASSUME NEW c \in Call, WriteRow(c)
      PROVE  TypeOK'
  BY <1>7 DEF WriteRow
<1>8. QED
  BY <1>1, <1>2, <1>3, <1>4, <1>5, <1>6, <1>7
     DEF Next, Run, StatementFails, Deadlock

\* Every reachable state of the calls is well typed.
THEOREM TypeCorrect == Spec => []TypeOK
  BY InitType, NextType, PTL DEF Spec

-----------------------------------------------------------------------------
(* Answers. *)

\* AnswerMatchesTable, and that a call whose COMMIT ended unclear is over.
AnswerInv == AnswerMatchesTable /\ \A c \in unclear : pc[c] = "err"

\* Every step but a commit leaves the commits alone and does not come from or to
\* "ok", nor from "err".
LEMMA QuietStep ==
    ASSUME TypeOK, NEW c \in Call,
           \/ Begin(c) \/ BeginFails(c) \/ Statement(c) \/ WriteRow(c) \/ BodyOk(c)
           \/ BodyErr(c) \/ Rollback(c) \/ StatementFails(c) \/ Deadlock(c) \/ Dropped(c)
    PROVE  /\ UNCHANGED <<commits, unclear>>
           /\ pc[c] \notin Returned
           /\ \A d \in Call : pc'[d] # pc[d] => d = c /\ pc'[d] # "ok"
  BY DEF TypeOK, Begin, BeginFails, Statement, WriteRow, BodyOk, BodyErr, Rollback,
         StatementFails, Deadlock, Aborted, Dropped

LEMMA NextAnswer == TypeOK /\ AnswerInv /\ [Next]_vars => AnswerInv'
<1> SUFFICES ASSUME TypeOK, AnswerInv, [Next]_vars
             PROVE  AnswerInv'
  OBVIOUS
<1> USE DEF AnswerInv, AnswerMatchesTable
<1>1. CASE UNCHANGED vars
  BY <1>1
<1>2. ASSUME NEW c \in Call, Commit(c) \/ CommitUnclear(c)
      PROVE  AnswerInv'
  BY <1>2 DEF Commit, CommitUnclear, TypeOK
<1>3. ASSUME NEW c \in Call,
             \/ Begin(c) \/ BeginFails(c) \/ Statement(c) \/ WriteRow(c) \/ BodyOk(c)
             \/ BodyErr(c) \/ Rollback(c) \/ StatementFails(c) \/ Deadlock(c) \/ Dropped(c)
      PROVE  AnswerInv'
  BY <1>3, QuietStep DEF TypeOK
<1>4. QED
  BY <1>1, <1>2, <1>3 DEF Next, Run

\* A call answered with success was committed once; one answered with an error was
\* not, unless its COMMIT was left without an answer; none is committed twice.
THEOREM AnswerMatchesTableHolds == Spec => []AnswerMatchesTable
<1>1. Init => AnswerInv
  BY DEF Init, AnswerInv, AnswerMatchesTable
<1>2. AnswerInv => AnswerMatchesTable
  BY DEF AnswerInv
<1>3. QED
  BY <1>1, <1>2, NextAnswer, TypeCorrect, PTL DEF Spec

-----------------------------------------------------------------------------
(* Open transactions. *)

LEMMA NextNothingLeft == TypeOK /\ NothingLeftOpen /\ [Next]_vars => NothingLeftOpen'
<1> SUFFICES ASSUME TypeOK, NothingLeftOpen, [Next]_vars
             PROVE  NothingLeftOpen'
  OBVIOUS
<1> USE DEF TypeOK, NothingLeftOpen
<1>1. CASE UNCHANGED vars
  BY <1>1
<1>2. ASSUME NEW c \in Call, Begin(c) \/ BeginFails(c) \/ BodyOk(c) \/ BodyErr(c)
      PROVE  NothingLeftOpen'
  BY <1>2 DEF Begin, BeginFails, BodyOk, BodyErr
<1>3. ASSUME NEW c \in Call, Commit(c) \/ CommitUnclear(c) \/ Rollback(c) \/ Dropped(c)
      PROVE  NothingLeftOpen'
  BY <1>3 DEF Commit, CommitUnclear, Rollback, Dropped
<1>4. ASSUME NEW c \in Call, NEW kinds, Aborted(c, kinds)
      PROVE  NothingLeftOpen'
  BY <1>4 DEF Aborted
<1>5. ASSUME NEW c \in Call, Statement(c) \/ WriteRow(c)
      PROVE  NothingLeftOpen'
  BY <1>5 DEF Statement, WriteRow
<1>6. QED
  BY <1>1, <1>2, <1>3, <1>4, <1>5 DEF Next, Run, StatementFails, Deadlock

\* No transaction outlives the call it was opened for, nor the attempt.
THEOREM NothingLeftOpenHolds == Spec => []NothingLeftOpen
<1>1. Init => NothingLeftOpen
  BY DEF Init, NothingLeftOpen
<1>2. QED
  BY <1>1, NextNothingLeft, TypeCorrect, PTL DEF Spec

-----------------------------------------------------------------------------
(* Whole bodies. *)

\* Two transactions never hold one row, and a row that is held stays there.
LocksInv ==
    /\ \A c, d \in Call : c # d => mine[c] \cap mine[d] = {}
    /\ \A c \in Call : \A i \in mine[c] : rows[i].there

\* Of the statements an attempt has finished, and of the rows it has come to in the
\* one it is at, it holds whatever is still there.
Held(c, S) == \A i \in S : rows[i].there => i \in mine[c]
DoneInv ==
    \A c \in Call :
      /\ pc[c] \in {"body", "write", "commit"} =>
           \A n \in 1 .. Len(Body[c]) : n < stmt[c] => Held(c, Body[c][n])
      /\ pc[c] = "write" => /\ stmt[c] \in 1 .. Len(Body[c])
                            /\ Held(c, Body[c][stmt[c]] \ todo[c])
      /\ pc[c] = "commit" => Last(c)

BodyInv == LocksInv /\ DoneInv

LEMMA BodyType ==
    ASSUME NEW c \in Call
    PROVE  /\ Len(Body[c]) \in Nat
           /\ \A n \in 1 .. Len(Body[c]) : Body[c][n] \subseteq Id
<1>1. Body[c] \in Seq(SUBSET Id)
  BY BodyAssumption
<1>2. QED
  BY <1>1

LEMMA InitBody == Init => BodyInv
  BY DEF Init, BodyInv, LocksInv, DoneInv

\* A commit changes the rows it holds and no others, and brings none back.
LEMMA CommitRows ==
    ASSUME TypeOK, LocksInv, NEW c \in Call, rows' \in {rows, Written(c)}
    PROVE  \A i \in Id : /\ rows'[i].there => rows[i].there
                         /\ i \notin mine[c] => rows'[i] = rows[i]
  BY DEF TypeOK, LocksInv, Written

LEMMA NextLocks == TypeOK /\ LocksInv /\ [Next]_vars => LocksInv'
<1> SUFFICES ASSUME TypeOK, LocksInv, [Next]_vars
             PROVE  LocksInv'
  OBVIOUS
<1> USE DEF TypeOK, LocksInv
<1>1. CASE UNCHANGED vars
  BY <1>1
<1>2. ASSUME NEW c \in Call,
             Begin(c) \/ BeginFails(c) \/ BodyOk(c) \/ BodyErr(c) \/ Statement(c)
      PROVE  LocksInv'
  BY <1>2 DEF Begin, BeginFails, BodyOk, BodyErr, Statement
<1>3. ASSUME NEW c \in Call, Commit(c) \/ CommitUnclear(c)
      PROVE  LocksInv'
  <2>1. rows' \in {rows, Written(c)} /\ mine' = [mine EXCEPT ![c] = {}]
    BY <1>3 DEF Commit, CommitUnclear
  <2>2. \A i \in Id : i \notin mine[c] => rows'[i] = rows[i]
    BY <2>1, CommitRows
  <2>3. QED
    BY <2>1, <2>2
<1>4. ASSUME NEW c \in Call, Rollback(c) \/ Dropped(c)
      PROVE  LocksInv'
  BY <1>4 DEF Rollback, Dropped
<1>5. ASSUME NEW c \in Call, NEW kinds, Aborted(c, kinds)
      PROVE  LocksInv'
  BY <1>5 DEF Aborted
<1>6. ASSUME NEW c \in Call, WriteRow(c)
      PROVE  LocksInv'
  BY <1>6 DEF WriteRow, Free
<1>7. QED
  BY <1>1, <1>2, <1>3, <1>4, <1>5, <1>6 DEF Next, Run, StatementFails, Deadlock

LEMMA NextDone == TypeOK /\ BodyInv /\ [Next]_vars => DoneInv'
<1> SUFFICES ASSUME TypeOK, LocksInv, DoneInv, [Next]_vars
             PROVE  DoneInv'
  BY DEF BodyInv
<1>1. CASE UNCHANGED vars
  BY <1>1 DEF DoneInv, Held, Last
<1>2. ASSUME NEW c \in Call, Begin(c) \/ BeginFails(c) \/ BodyOk(c) \/ BodyErr(c)
      PROVE  DoneInv'
  BY <1>2 DEF TypeOK, DoneInv, Held, Last, Begin, BeginFails, BodyOk, BodyErr
<1>3. ASSUME NEW c \in Call, Commit(c) \/ CommitUnclear(c)
      PROVE  DoneInv'
  <2>1. /\ rows' \in {rows, Written(c)}
        /\ mine' = [mine EXCEPT ![c] = {}] /\ todo' = [todo EXCEPT ![c] = {}]
        /\ pc'[c] \in Returned /\ pc' = [pc EXCEPT ![c] = pc'[c]]
        /\ UNCHANGED stmt
    BY <1>3 DEF TypeOK, Commit, CommitUnclear
  <2>2. \A i \in Id : rows'[i].there => rows[i].there
    BY <2>1, CommitRows
  <2>3. QED
    BY <2>1, <2>2, BodyType DEF TypeOK, DoneInv, Held, Last
<1>4. ASSUME NEW c \in Call, Rollback(c) \/ Dropped(c)
      PROVE  DoneInv'
  <2>1. \E to \in {"begin", "err"} : pc' = [pc EXCEPT ![c] = to]
    BY <1>4 DEF Rollback, Dropped
  <2>2. Closed(c) /\ UNCHANGED <<stmt, rows>>
    BY <1>4 DEF Rollback, Dropped
  <2>3. QED
    BY <2>1, <2>2 DEF TypeOK, DoneInv, Held, Last
<1>5. ASSUME NEW c \in Call, NEW kinds, Aborted(c, kinds)
      PROVE  DoneInv'
  BY <1>5 DEF TypeOK, DoneInv, Held, Last, Aborted
<1>6. ASSUME NEW c \in Call, Statement(c)
      PROVE  DoneInv'
  <2>1. stmt[c] \in 1 .. Len(Body[c]) /\ pc[c] = "body"
    BY <1>6, BodyType DEF TypeOK, Statement, Last
  <2>2. Held(c, Body[c][stmt[c]] \ Found(c))
    BY DEF Held, Found
  <2>3. CASE Found(c) = {} /\ stmt' = [stmt EXCEPT ![c] = @ + 1] /\ UNCHANGED <<pc, todo>>
    <3>1. Held(c, Body[c][stmt[c]])
      BY <2>2, <2>3 DEF Held
    <3>2. UNCHANGED <<mine, rows>>
      BY <1>6 DEF Statement
    <3>3. QED
      BY <2>1, <2>3, <3>1, <3>2, BodyType DEF TypeOK, DoneInv, Held, Last
  <2>4. CASE /\ pc' = [pc EXCEPT ![c] = "write"]
             /\ todo' = [todo EXCEPT ![c] = Found(c)] /\ UNCHANGED stmt
    <3>1. UNCHANGED <<mine, rows>>
      BY <1>6 DEF Statement
    <3>2. QED
      BY <2>1, <2>2, <2>4, <3>1 DEF TypeOK, DoneInv, Held, Last
  <2>5. QED
    BY <1>6, <2>3, <2>4 DEF Statement
<1>7. ASSUME NEW c \in Call, WriteRow(c)
      PROVE  DoneInv'
  <2>1. /\ pc[c] = "write" /\ UNCHANGED rows
        /\ mine' = [mine EXCEPT ![c] = mine'[c]] /\ mine[c] \subseteq mine'[c]
        /\ rows[at[c]].there => at[c] \in mine'[c]
        /\ todo' = [todo EXCEPT ![c] = todo[c] \ {at[c]}]
    BY <1>7 DEF TypeOK, WriteRow
  <2>2. Held(c, Body[c][stmt[c]] \ todo[c])
    BY <2>1 DEF DoneInv
  <2>3. \A i \in Body[c][stmt[c]] \ todo'[c] : rows'[i].there => i \in mine'[c]
    BY <2>1, <2>2 DEF TypeOK, Held
  <2>4. \A n \in 1 .. Len(Body[c]) : n < stmt[c] =>
           \A i \in Body[c][n] : rows'[i].there => i \in mine'[c]
    BY <2>1 DEF DoneInv, Held
  <2>5. \/ todo'[c] = {} /\ stmt' = [stmt EXCEPT ![c] = @ + 1] /\ pc' = [pc EXCEPT ![c] = "body"]
        \/ UNCHANGED <<pc, stmt>>
    BY <1>7 DEF WriteRow
  <2>6. \A d \in Call \ {c} : /\ pc'[d] = pc[d] /\ stmt'[d] = stmt[d]
                               /\ mine'[d] = mine[d] /\ todo'[d] = todo[d]
    BY <2>1, <2>5 DEF TypeOK
  <2>7. ASSUME NEW d \in Call \ {c}
        PROVE  /\ pc'[d] \in {"body", "write", "commit"} =>
                    \A n \in 1 .. Len(Body[d]) : n < stmt'[d] => Held(d, Body[d][n])'
               /\ pc'[d] = "write" => /\ stmt'[d] \in 1 .. Len(Body[d])
                                      /\ Held(d, Body[d][stmt[d]] \ todo[d])'
               /\ pc'[d] = "commit" => Last(d)'
    BY <2>1, <2>6, <2>7 DEF DoneInv, Held, Last
  <2>8. stmt[c] \in 1 .. Len(Body[c]) /\ todo[c] \in SUBSET Id
    BY <2>1 DEF DoneInv, TypeOK
  <2>9. CASE UNCHANGED <<pc, stmt>>
    <3>1. /\ \A n \in 1 .. Len(Body[c]) : n < stmt'[c] => Held(c, Body[c][n])'
          /\ Held(c, Body[c][stmt[c]] \ todo[c])'
      BY <2>3, <2>4, <2>9 DEF Held
    <3>2. QED
      BY <3>1, <2>1, <2>7, <2>8, <2>9 DEF DoneInv
  <2>10. CASE /\ todo'[c] = {} /\ stmt' = [stmt EXCEPT ![c] = @ + 1]
              /\ pc' = [pc EXCEPT ![c] = "body"]
    <3>1. stmt'[c] = stmt[c] + 1 /\ pc'[c] = "body" /\ stmt[c] \in Nat
      BY <2>8, <2>10 DEF TypeOK
    <3>2. ASSUME NEW n \in 1 .. Len(Body[c]), n < stmt'[c] PROVE Held(c, Body[c][n])'
      <4>1. CASE n = stmt[c]
        BY <4>1, <2>3, <2>10 DEF Held
      <4>2. CASE n # stmt[c]
        <5>1. n < stmt[c]
          BY <3>1, <3>2, <4>2, BodyType
        <5>2. QED
          BY <5>1, <2>4 DEF Held
      <4>3. QED
        BY <4>1, <4>2
    <3>3. QED
      BY <3>1, <3>2, <2>7 DEF DoneInv
  <2>11. QED
    BY <2>5, <2>9, <2>10
<1>8. QED
  BY <1>1, <1>2, <1>3, <1>4, <1>5, <1>6, <1>7 DEF Next, Run, StatementFails, Deadlock

\* "commits or rolls back together": a commit marks every row the statements of the body
\* name and that is still there, for every body, and any number of calls and attempts.
THEOREM WholeBodyHolds == Spec => WholeBody
<1>1. ASSUME TypeOK, BodyInv, [Next]_vars, NEW c \in Call, commits'[c] # commits[c],
             NEW i \in Named(c), rows[i].there
      PROVE  rows'[i] = Mark(c)
  <2>1. PICK d \in Call : Commit(d) \/ CommitUnclear(d)
    BY <1>1, QuietStep DEF Next, Run
  <2>2. d = c /\ rows' = Written(c) /\ pc[c] = "commit"
    BY <1>1, <2>1 DEF TypeOK, Commit, CommitUnclear
  <2>3. PICK n \in 1 .. Len(Body[c]) : i \in Body[c][n]
    BY DEF Named
  <2>4. n < stmt[c] /\ i \in Id
    <3>1. stmt[c] \in Nat /\ stmt[c] > Len(Body[c])
      BY <1>1, <2>2 DEF BodyInv, DoneInv, Last, TypeOK
    <3>2. QED
      BY <2>3, <3>1, BodyType
  <2>5. i \in mine[c]
    BY <1>1, <2>2, <2>3, <2>4 DEF BodyInv, DoneInv, Held
  <2>6. QED
    BY <2>2, <2>4, <2>5 DEF Written
<1>2. TypeOK /\ BodyInv /\ [Next]_vars => BodyInv'
  BY NextLocks, NextDone DEF BodyInv
<1>3. TypeOK /\ BodyInv /\ [Next]_vars =>
        [\A c \in Call : commits'[c] # commits[c] =>
           \A i \in Named(c) : rows[i].there => rows'[i] = Mark(c)]_vars
  BY <1>1
<1>4. QED
  BY <1>2, <1>3, InitBody, TypeCorrect, PTL DEF Spec, WholeBody
=============================================================================
