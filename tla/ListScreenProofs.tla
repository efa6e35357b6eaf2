-------------------------- MODULE ListScreenProofs --------------------------
(***************************************************************************)
(* Proofs about ListScreen, whatever the table, the pages and the bounds   *)
(* are.  About its dialogs: no work is sent twice by a dialog that is      *)
(* closed and opened again, and no dialog is closed by the answer to       *)
(* another.  About its pages: what the footer says of the rows is true,    *)
(* while no row leaves, every url the reader can get to has rows, and the  *)
(* pages of a list show each of its rows once if none of them are tied in  *)
(* the order the list is sorted by.                                        *)
(***************************************************************************)
EXTENDS ListScreen, SequenceTheorems, FiniteSetTheorems, WellFoundedInduction, TLAPS

USE DEF queryVars, screenVars, dialogVars, vars

Fields == {"kind", "live", "rows", "answer", "page", "of"}

\* What useActionState of the mounted dialogs knows of the submissions on their way:
\* each that is still listened to keeps its dialog pending, and that of a row belongs
\* to the dialog that is open.
SentInv ==
    /\ \E S : sent \in Seq(S)
    /\ \A k \in DOMAIN sent :
         /\ Fields \subseteq DOMAIN sent[k]
         /\ sent[k].live =>
              /\ sent[k].kind \in pending
              /\ sent[k].kind \in OfRow =>
                   dialog.kind = sent[k].kind /\ sent[k].rows = {dialog.row} \ {0}
DialogInv == dialog.row # 0 => dialog.kind \in OfRow
ScreenInv == SentInv /\ DialogInv /\ OneAtATime

LEMMA HeadReplaced ==
    ASSUME NEW S, NEW s \in Seq(S), s # <<>>, NEW x
    PROVE  LET t == <<x>> \o Tail(s) IN
           /\ t \in Seq(S \cup {x}) /\ DOMAIN t = DOMAIN s
           /\ t[1] = x /\ \A k \in DOMAIN s : k # 1 => t[k] = s[k]
<1>1. Tail(s) \in Seq(S) /\ Len(Tail(s)) = Len(s) - 1 /\ Len(s) \in Nat /\ Len(s) > 0
  OBVIOUS
<1>2. <<x>> \in Seq(S \cup {x}) /\ Tail(s) \in Seq(S \cup {x})
  BY <1>1
<1>3. QED
  BY <1>1, <1>2

LEMMA HeadIsFirst ==
    ASSUME NEW S, NEW s \in Seq(S), s # <<>>
    PROVE  1 \in DOMAIN s /\ Head(s) = s[1] /\ DOMAIN s \subseteq Nat
  OBVIOUS

LEMMA TailShifts ==
    ASSUME NEW S, NEW s \in Seq(S), s # <<>>
    PROVE  /\ Tail(s) \in Seq(S)
           /\ \A k \in DOMAIN Tail(s) : k \in Nat /\ k + 1 \in DOMAIN s /\ k + 1 # 1
                                        /\ Tail(s)[k] = s[k + 1]
  OBVIOUS

LEMMA MapIsSeq ==
    ASSUME NEW S, NEW s \in Seq(S), NEW f, f = [k \in DOMAIN s |-> f[k]]
    PROVE  \E T : f \in Seq(T)
<1> DEFINE T == {f[k] : k \in DOMAIN s}
<1>1. DOMAIN s = 1..Len(s) /\ Len(s) \in Nat
  OBVIOUS
<1>2. f \in [1..Len(s) -> T]
  BY <1>1
<1>3. f \in Seq(T)
  BY <1>1, <1>2
<1>4. QED
  BY <1>3

\* Submissions that are forgotten, answered or no longer listened to stay one of a kind.
LEMMA NoneNew ==
    ASSUME ScreenInv, NEW d \in {0, 1},
           \A k \in DOMAIN sent' :
             /\ k \in Nat /\ k + d \in DOMAIN sent
             /\ sent'[k].live => sent[k + d].live
             /\ sent'[k].kind = sent[k + d].kind
    PROVE  OneAtATime'
  BY DEF ScreenInv, OneAtATime

\* The head of the queue moves on, its dialog and the others do not.
LEMMA HeadMovesOn ==
    ASSUME ScreenInv, sent # <<>>, NEW x,
           sent' = <<x>> \o Tail(sent), UNCHANGED <<dialog, pending>>,
           Fields \subseteq DOMAIN x, x.kind = Head(sent).kind,
           x.live = Head(sent).live, x.rows = Head(sent).rows
    PROVE  ScreenInv'
<1>1. PICK S : sent \in Seq(S)
  BY DEF ScreenInv, SentInv
<1>2. /\ sent' \in Seq(S \cup {x}) /\ DOMAIN sent' = DOMAIN sent
      /\ sent'[1] = x /\ \A k \in DOMAIN sent : k # 1 => sent'[k] = sent[k]
  BY <1>1, HeadReplaced
<1>3. Head(sent) = sent[1] /\ DOMAIN sent \subseteq Nat
  BY <1>1, HeadIsFirst
<1>4. \A k \in DOMAIN sent' :
        /\ Fields \subseteq DOMAIN sent'[k]
        /\ sent'[k].live = sent[k].live
        /\ sent'[k].kind = sent[k].kind /\ sent'[k].rows = sent[k].rows
  BY <1>2, <1>3 DEF ScreenInv, SentInv
<1>5. SentInv'
  BY <1>2, <1>4 DEF ScreenInv, SentInv
<1>6. OneAtATime'
  BY <1>2, <1>4 DEF ScreenInv, OneAtATime
<1>7. QED
  BY <1>5, <1>6 DEF ScreenInv, DialogInv

LEMMA AnswerKeeps ==
    ASSUME ScreenInv, Refuses \/ (\E answer : Applies(answer)) \/ CallFails \/ Renders
    PROVE  ScreenInv'
<1>1. /\ sent # <<>> /\ UNCHANGED <<dialog, pending>>
      /\ \/ \E answer : sent' = Answered(Head(sent), answer)
         \/ \E page : sent' = <<[Head(sent) EXCEPT !.page = page]>> \o Tail(sent)
  BY DEF Refuses, Applies, CallFails, Renders
<1>2. Fields \subseteq DOMAIN Head(sent)
  BY <1>1, HeadIsFirst DEF ScreenInv, SentInv
<1>3. ASSUME NEW answer, sent' = Answered(Head(sent), answer)
      PROVE  ScreenInv'
  <2> DEFINE x == [Head(sent) EXCEPT !.answer = answer, !.of = url]
  <2>1. sent' = <<x>> \o Tail(sent)
    BY <1>3 DEF Answered
  <2>2. /\ Fields \subseteq DOMAIN x /\ x.kind = Head(sent).kind
        /\ x.live = Head(sent).live /\ x.rows = Head(sent).rows
    BY <1>2 DEF Fields
  <2> HIDE DEF x
  <2>3. QED
    BY <1>1, <2>1, <2>2, HeadMovesOn
<1>4. ASSUME NEW page, sent' = <<[Head(sent) EXCEPT !.page = page]>> \o Tail(sent)
      PROVE  ScreenInv'
  <2> DEFINE x == [Head(sent) EXCEPT !.page = page]
  <2>1. /\ Fields \subseteq DOMAIN x /\ x.kind = Head(sent).kind
        /\ x.live = Head(sent).live /\ x.rows = Head(sent).rows
    BY <1>2 DEF Fields
  <2>2. sent' = <<x>> \o Tail(sent)
    BY <1>4
  <2> HIDE DEF x
  <2>3. QED
    BY <1>1, <2>1, <2>2, HeadMovesOn
<1>5. QED
  BY <1>1, <1>3, <1>4

\* The effect that closes a dialog closes it on its own answer.
LEMMA AnswersKeep ==
    ASSUME ScreenInv, Answers
    PROVE  ScreenInv'
<1>1. PICK S : sent \in Seq(S)
  BY DEF ScreenInv, SentInv
<1>2. sent # <<>> /\ sent' = Tail(sent)
  BY DEF Answers
<1>3. Head(sent) = sent[1] /\ 1 \in DOMAIN sent
  BY <1>1, <1>2, HeadIsFirst
<1>4. /\ sent' \in Seq(S)
      /\ \A k \in DOMAIN sent' : k \in Nat /\ k + 1 \in DOMAIN sent /\ k + 1 # 1
                                 /\ sent'[k] = sent[k + 1]
  BY <1>1, <1>2, TailShifts
<1>5. OneAtATime'
  BY <1>4, NoneNew
<1>6. /\ pending' = IF sent[1].live THEN pending \ {sent[1].kind} ELSE pending
      /\ dialog' = IF Closes(sent[1]) THEN Closed ELSE dialog
  BY <1>3 DEF Answers
<1>7. ASSUME NEW k \in DOMAIN sent', sent'[k].live
      PROVE  /\ sent'[k].kind \in pending'
             /\ sent'[k].kind \in OfRow =>
                  dialog'.kind = sent'[k].kind /\ sent'[k].rows = {dialog'.row} \ {0}
  <2>1. /\ sent[k + 1].kind \in pending
        /\ sent[k + 1].kind \in OfRow =>
             dialog.kind = sent[k + 1].kind /\ sent[k + 1].rows = {dialog.row} \ {0}
    BY <1>4, <1>7 DEF ScreenInv, SentInv
  <2>2. sent[1].live => sent[1].kind # sent[k + 1].kind
    BY <1>3, <1>4, <1>7 DEF ScreenInv, OneAtATime
  <2>3. QED
    BY <1>4, <1>6, <2>1, <2>2 DEF Closes
<1>8. SentInv'
  BY <1>4, <1>7 DEF ScreenInv, SentInv
<1>9. DialogInv'
  BY <1>6 DEF ScreenInv, DialogInv, Closed
<1>10. QED
  BY <1>5, <1>8, <1>9 DEF ScreenInv

LEMMA UnmountsKeep ==
    ASSUME ScreenInv, Unmounts
    PROVE  ScreenInv'
<1>1. PICK S : sent \in Seq(S)
  BY DEF ScreenInv, SentInv
<1>2. sent' = [k \in DOMAIN sent |-> [sent[k] EXCEPT !.live = FALSE]]
  BY DEF Unmounts
<1>3. \A k \in DOMAIN sent' : Fields \subseteq DOMAIN sent'[k] /\ sent'[k].live = FALSE
  BY <1>2 DEF ScreenInv, SentInv, Fields
<1>4. \E T : sent' \in Seq(T)
  BY <1>1, <1>2, MapIsSeq
<1>5. QED
  BY <1>3, <1>4 DEF ScreenInv, SentInv, DialogInv, OneAtATime, Unmounts, Closed

LEMMA DismissesKeeps ==
    ASSUME ScreenInv, Dismisses
    PROVE  ScreenInv'
<1>1. PICK S : sent \in Seq(S)
  BY DEF ScreenInv, SentInv
<1>2. sent' = [k \in DOMAIN sent |-> Unmounted(sent[k])]
  BY DEF Dismisses
<1>3. \A k \in DOMAIN sent' :
        /\ k \in DOMAIN sent /\ k \in Nat
        /\ Fields \subseteq DOMAIN sent'[k] /\ sent'[k].kind = sent[k].kind
        /\ sent'[k].live => sent[k].live /\ sent[k].kind \notin OfRow
  <2>1. \A k \in DOMAIN sent : k \in Nat /\ Fields \subseteq DOMAIN sent[k]
    BY <1>1 DEF ScreenInv, SentInv
  <2>2. ASSUME NEW s, Fields \subseteq DOMAIN s
        PROVE  /\ DOMAIN Unmounted(s) = DOMAIN s /\ Unmounted(s).kind = s.kind
               /\ Unmounted(s).live = (s.live /\ s.kind \notin OfRow)
    BY <2>2 DEF Unmounted, Fields
  <2>3. ASSUME NEW k \in DOMAIN sent
        PROVE  /\ k \in Nat /\ sent'[k] = Unmounted(sent[k])
               /\ Fields \subseteq DOMAIN sent[k]
    BY <1>2, <2>1
  <2>4. DOMAIN sent' = DOMAIN sent
    BY <1>2
  <2>5. QED
    BY <2>2, <2>3, <2>4
<1>4. \E T : sent' \in Seq(T)
  BY <1>1, <1>2, MapIsSeq
<1>5. pending' = pending \ OfRow /\ dialog' = Closed
  BY DEF Dismisses
<1>6. SentInv'
  BY <1>3, <1>4, <1>5 DEF ScreenInv, SentInv
<1>7. OneAtATime'
  BY <1>3 DEF ScreenInv, OneAtATime
<1>8. QED
  BY <1>5, <1>6, <1>7 DEF ScreenInv, DialogInv, Closed

\* A dialog is opened when none is, so nothing of a row is still listened to.
LEMMA OpensKeeps ==
    ASSUME ScreenInv, NEW kind, NEW row, Opens(kind, row)
    PROVE  ScreenInv'
<1>1. /\ sent' = sent /\ dialog = Closed /\ dialog' = [kind |-> kind, row |-> row]
      /\ pending' = pending \ ({kind} \cap OfRow) /\ (kind \notin OfRow => row = 0)
  BY DEF Opens, Mounted
<1>2. Closed.kind \notin OfRow
  BY DEF Closed, OfRow
<1>3. \A k \in DOMAIN sent : sent[k].live => sent[k].kind \notin OfRow
  BY <1>1, <1>2 DEF ScreenInv, SentInv
<1>4. SentInv'
  BY <1>1, <1>3 DEF ScreenInv, SentInv
<1>5. QED
  BY <1>1, <1>4 DEF ScreenInv, DialogInv, OneAtATime

\* A dialog that is pending does not submit.
LEMMA SubmitsKeeps ==
    ASSUME ScreenInv, NEW filled, Submits(filled)
    PROVE  ScreenInv'
<1>1. PICK S : sent \in Seq(S)
  BY DEF ScreenInv, SentInv
<1> DEFINE x == [kind |-> dialog.kind, filled |-> filled, live |-> TRUE,
                 rows |-> IF dialog.kind \in Bulk THEN selected ELSE {dialog.row} \ {0},
                 answer |-> "none", page |-> Broken, of |-> url]
<1>2. /\ sent' = Append(sent, x) /\ dialog' = dialog /\ dialog.kind \notin pending
      /\ pending' = pending \cup {dialog.kind}
  BY DEF Submits
<1>3. /\ Fields \subseteq DOMAIN x /\ x.kind = dialog.kind
      /\ dialog.kind \in OfRow => x.rows = {dialog.row} \ {0}
  BY DEF Fields, OfRow, Bulk
<1> HIDE DEF x
<1>4. /\ sent' \in Seq(S \cup {x}) /\ Len(sent) \in Nat
      /\ DOMAIN sent' = DOMAIN sent \cup {Len(sent) + 1} /\ sent'[Len(sent) + 1] = x
      /\ \A k \in DOMAIN sent : sent'[k] = sent[k]
  BY <1>1, <1>2
<1>5. SentInv'
  BY <1>2, <1>3, <1>4 DEF ScreenInv, SentInv
<1>6. \A k \in DOMAIN sent : sent[k].live => sent[k].kind # x.kind
  BY <1>2, <1>3 DEF ScreenInv, SentInv
<1>7. OneAtATime'
  BY <1>4, <1>6 DEF ScreenInv, OneAtATime
<1>8. QED
  BY <1>2, <1>5, <1>7 DEF ScreenInv, DialogInv

LEMMA ScreenStep == ScreenInv /\ [Next]_vars => ScreenInv'
<1> SUFFICES ASSUME ScreenInv, [Next]_vars
             PROVE  ScreenInv'
  OBVIOUS
<1>1. CASE UNCHANGED <<dialog, pending, sent>>
  BY <1>1 DEF ScreenInv, SentInv, DialogInv, OneAtATime
<1>2. CASE Works
  BY <1>1, <1>2, OpensKeeps, SubmitsKeeps DEF Works, SelectsAll, SelectsOne
<1>3. CASE Act
  BY <1>1, <1>2, <1>3, UnmountsKeep, AnswerKeeps DEF Act, OthersChange
<1>4. CASE GiveUp
  BY <1>1, <1>4, DismissesKeeps DEF GiveUp
<1>5. CASE React
  BY <1>1, <1>5, AnswerKeeps, AnswersKeep DEF React, Refetches
<1>6. QED
  BY <1>1, <1>3, <1>4, <1>5 DEF Next

LEMMA ScreenInvHolds == Spec => []ScreenInv
<1>1. Init => ScreenInv
  <2> SUFFICES ASSUME Init
               PROVE  ScreenInv
    OBVIOUS
  <2>1. sent = <<>> /\ dialog = Closed
    BY DEF Init, DialogsInit
  <2>2. sent \in Seq({}) /\ DOMAIN sent = {}
    BY <2>1
  <2>3. QED
    BY <2>1, <2>2 DEF ScreenInv, SentInv, DialogInv, OneAtATime, Closed
<1>2. QED
  BY <1>1, ScreenStep, PTL DEF Spec

-----------------------------------------------------------------------------
\* crud-form-dialog.tsx and crud-confirm-dialog.tsx: closing a dialog while its answer is
\* awaited, and opening it again, does not let it send the same work twice.
THEOREM OneAtATimeHolds == Spec => []OneAtATime
<1>1. ScreenInv => OneAtATime
  BY DEF ScreenInv
<1>2. QED
  BY <1>1, ScreenInvHolds, PTL

\* "Close once the server says the write went through": the effect of a dialog closes
\* that dialog, for that row, and no other.
THEOREM ClosesOnlyWhenDoneHolds == Spec => ClosesOnlyWhenDone
<1>1. ScreenInv /\ [Next]_vars =>
        [Answers /\ dialog # Closed /\ dialog' = Closed =>
           /\ Head(sent).answer = "ok" /\ Head(sent).kind = dialog.kind
           /\ dialog.row # 0 => Head(sent).rows = {dialog.row}]_<<queryVars, dialogVars>>
  <2> SUFFICES ASSUME ScreenInv, Answers, dialog # Closed, dialog' = Closed
               PROVE  /\ Head(sent).answer = "ok" /\ Head(sent).kind = dialog.kind
                      /\ dialog.row # 0 => Head(sent).rows = {dialog.row}
    OBVIOUS
  <2>1. Closes(Head(sent)) /\ sent # <<>>
    BY DEF Answers
  <2>2. PICK S : sent \in Seq(S)
    BY DEF ScreenInv, SentInv
  <2>3. Head(sent) = sent[1] /\ 1 \in DOMAIN sent
    BY <2>1, <2>2, HeadIsFirst
  <2>4. dialog.row # 0 => sent[1].rows = {dialog.row} \ {0}
    BY <2>1, <2>3 DEF Closes, ScreenInv, SentInv, DialogInv
  <2>5. QED
    BY <2>1, <2>3, <2>4 DEF Closes
<1>2. QED
  BY <1>1, ScreenInvHolds, PTL DEF Spec, ClosesOnlyWhenDone

-----------------------------------------------------------------------------
(* Whole numbers. *)

LEMMA SmallestOf ==
    ASSUME NEW S \in SUBSET Nat, S # {}
    PROVE  \E n \in S : \A m \in S : n <= m
<1> DEFINE R == OpToRel(<, Nat)
<1>1. IsWellFoundedOn(R, Nat)
  BY NatLessThanWellFounded
<1>2. \A m, n \in Nat : <<m, n>> \in R <=> m < n
  BY DEF OpToRel
<1> HIDE DEF R
<1>3. PICK n \in S : \A m \in S : ~(<<m, n>> \in R)
  BY <1>1, WFMin
<1>4. \A m \in S : ~(m < n)
  BY <1>2, <1>3
<1>5. QED
  BY <1>4

Less(S, key, i) == {j \in S : key[j] < key[i]}

LEMMA Ranked ==
    ASSUME NEW S, IsFiniteSet(S), NEW key \in [S -> Nat],
           \A i, j \in S : key[i] = key[j] => i = j,
           NEW k \in 0..(Cardinality(S) - 1)
    PROVE  \E i \in S : Cardinality(Less(S, key, i)) = k
<1> DEFINE Below(i) == {j \in S : key[j] < key[i]}
           Bad == {n \in 0..(Cardinality(S) - 1) : ~ \E i \in S : Cardinality(Below(i)) = n}
<1>1. Cardinality(S) \in Nat
  BY FS_CardinalityType
<1>2. ASSUME NEW T \in SUBSET S, T # {}
      PROVE  \E i \in T : \A j \in T : key[i] <= key[j]
  <2>1. {key[i] : i \in T} \in SUBSET Nat /\ {key[i] : i \in T} # {}
    BY <1>2
  <2>2. PICK n \in {key[i] : i \in T} : \A m \in {key[i] : i \in T} : n <= m
    BY <2>1, SmallestOf
  <2>3. QED
    BY <2>2
<1>3. SUFFICES ASSUME Bad # {}
               PROVE  FALSE
  BY DEF Less
<1>4. PICK n \in Bad : \A m \in Bad : n <= m
  <2>1. Bad \in SUBSET Nat
    BY <1>1
  <2>2. QED
    BY <2>1, <1>3, SmallestOf
<1> DEFINE last == Cardinality(S) - 1
<1>8. n \in Nat /\ n \in 0..last /\ last \in Int
  BY <1>1, <1>4
<1>5. CASE n = 0
  <2>1. S # {}
    BY <1>1, <1>4, FS_EmptySet
  <2>2. PICK i \in S : \A j \in S : key[i] <= key[j]
    BY <2>1, <1>2
  <2>3. Below(i) = {}
    BY <2>2
  <2>4. QED
    BY <1>4, <1>5, <2>3, FS_EmptySet
<1>6. CASE n # 0
  <2>1. n - 1 \in 0..(Cardinality(S) - 1) /\ n - 1 \notin Bad
    <3>1. n - 1 \in 0..last
      BY <1>8, <1>6
    <3>2. n - 1 \notin Bad
      BY <1>8, <1>4
    <3>3. QED
      BY <3>1, <3>2
  <2>2. PICK i \in S : Cardinality(Below(i)) = n - 1
    BY <2>1
  <2>3. IsFiniteSet(Below(i)) /\ i \notin Below(i)
    BY FS_Subset
  <2>4. Cardinality(Below(i) \cup {i}) = n
    <3>1. Cardinality(Below(i) \cup {i}) = Cardinality(Below(i)) + 1
      BY <2>3, FS_AddElement
    <3>2. QED
      BY <2>2, <3>1, <1>8
  <2>5. {j \in S : key[i] < key[j]} # {}
    <3>1. ASSUME {j \in S : key[i] < key[j]} = {}
          PROVE  S = Below(i) \cup {i}
      BY <3>1
    <3>2. QED
      BY <3>1, <2>4, <1>1, <1>8
  <2>6. PICK m \in {j \in S : key[i] < key[j]} :
             \A j \in {l \in S : key[i] < key[l]} : key[m] <= key[j]
    BY <2>5, <1>2
  <2>7. Below(m) = Below(i) \cup {i}
    BY <2>6
  <2>8. QED
    BY <2>4, <2>6, <2>7, <1>4
<1>7. QED
  BY <1>5, <1>6 DEF Less

-----------------------------------------------------------------------------
(* The rows a url stands for. *)

Count(u) == Cardinality(Matches(u))

LEMMA Constants ==
    /\ MaxRows \in Nat /\ FirstRows \in 0..MaxRows /\ Id = 1..MaxRows
    /\ IsFiniteSet(Id) /\ Cardinality(Id) = MaxRows
    /\ Absent \in Url
    /\ \A n \in PageSizes : n \in Nat \ {0} /\ n <= MaxPerPage
    /\ DefaultPerPage \in PageSizes /\ MaxPerPage \in Nat
<1>1. MaxRows \in Nat /\ FirstRows \in 0..MaxRows
  BY QueryAssumption
<1>2. IsFiniteSet(1..MaxRows) /\ Cardinality(1..MaxRows) = MaxRows
  BY <1>1, FS_Interval
<1>3. Absent \in Url
  BY QueryAssumption DEF Absent, Url
<1>4. MaxPerPage \in Nat /\ PageSizes \subseteq 1..MaxPerPage /\ DefaultPerPage \in PageSizes
  BY QueryAssumption
<1>5. \A n \in PageSizes : n \in Nat \ {0} /\ n <= MaxPerPage
  BY <1>4
<1>6. QED
  BY <1>1, <1>2, <1>3, <1>4, <1>5 DEF Id

LEMMA Sizes ==
    ASSUME NEW u \in Url
    PROVE  /\ PerPage(u) \in Nat \ {0} /\ Page(u) \in Nat \ {0}
           /\ Offset(u) \in Nat
           /\ Page(u) = 1 => Offset(u) = 0
<1>0. u.page \in Nat /\ u.per_page \in {0} \cup PageSizes
  BY DEF Url
<1>1. PerPage(u) \in Nat \ {0}
  BY <1>0, Constants DEF PerPage, Smallest
<1>2. Page(u) \in Nat \ {0}
  BY <1>0 DEF Page, Largest
<1>3. QED
  BY <1>1, <1>2 DEF Offset

LEMMA MatchesAreRows ==
    ASSUME NEW u \in Url
    PROVE  /\ Matches(u) \subseteq Id /\ IsFiniteSet(Matches(u))
           /\ Count(u) \in 0..MaxRows
<1>1. Matches(u) \subseteq Id
  BY QueryAssumption DEF Matches, Url
<1>2. QED
  BY <1>1, Constants, FS_Subset, FS_CardinalityType DEF Count

\* However the database lists the rows: as many as match, each of them one of the table's.
LEMMA OrdersAreLists ==
    ASSUME NEW u \in Url, NEW order \in Orders(u)
    PROVE  order \in Seq(Id) /\ Len(order) = Count(u)
<1>1. Matches(u) \subseteq Id /\ Count(u) \in Nat
  BY MatchesAreRows, Constants
<1>2. order \in [1..Count(u) -> Id]
  BY <1>1 DEF Orders, Count
<1>3. QED
  BY <1>1, <1>2

LEMMA RowsAreFew ==
    ASSUME NEW S \in SUBSET Id
    PROVE  Cardinality(S) \in 0..MaxRows
<1>1. IsFiniteSet(S) /\ Cardinality(S) <= Cardinality(Id)
  BY Constants, FS_Subset
<1>2. Cardinality(S) \in Nat
  BY <1>1, FS_CardinalityType
<1>3. QED
  BY <1>1, <1>2, Constants

-----------------------------------------------------------------------------
(* What a page says of the list it was cut from. *)

LEMMA PagesCounts ==
    ASSUME NEW p \in Nat, NEW t \in Nat, NEW n \in Nat \ {0}
    PROVE  p < Pages(t, n) <=> p * n < t
<1>1. (t + n - 1) \div n \in Nat
  OBVIOUS
<1>2. p < (t + n - 1) \div n => p * n < t
  OBVIOUS
<1>3. p * n < t => p < (t + n - 1) \div n
  OBVIOUS
<1>4. QED
  BY <1>2, <1>3 DEF Pages

\* FooterTrue, of a page.
FooterOf(p) ==
    LET from == Footer(p).from
        to == Footer(p).to
    IN /\ p.total # 0 => p.items = SubSeq(p.order, from, to)
       /\ ~p.torn => /\ p.total = Len(p.order)
                     /\ p.items # <<>> => to <= p.total
       /\ p.page < p.totalPages <=> p.page * p.perPage < p.total

\* A page that was fetched for a url.  As long as no row leaves, what it counted is
\* still there, and it is empty only if nothing was.
PageOf(p, u) ==
    /\ p.page = Page(u) /\ p.perPage = PerPage(u)
    /\ p.total \in 0..MaxRows
    /\ ItemsOf(p) \subseteq Id
    /\ FooterOf(p)
    /\ ~shrunk => p.total <= Count(u) /\ (p.items = <<>> => p.total = 0)

\* The page a url asks for has rows, or is the first.
Fine(u) == Page(u) = 1 \/ Offset(u) < Count(u)

LEMMA Cut ==
    ASSUME NEW S, NEW s \in Seq(S), NEW off \in Nat, NEW n \in Nat \ {0}
    PROVE  LET to == Smallest(off + n, Len(s))
               c == SubSeq(s, off + 1, to)
           IN /\ c \in Seq(S) /\ (c = <<>> <=> Len(s) <= off)
              /\ Len(s) > off => Len(c) = to - off /\ to <= Len(s)
              /\ Len(s) <= off => Len(c) = 0
<1> DEFINE to == Smallest(off + n, Len(s))
           c == SubSeq(s, off + 1, to)
<1>1. Len(s) \in Nat /\ to \in Nat /\ to <= Len(s)
  BY DEF Smallest
<1>2. CASE Len(s) <= off
  <2>1. to - off <= 0
    BY <1>1, <1>2 DEF Smallest
  <2> HIDE DEF to
  <2>2. c = <<>>
    BY <1>1, <2>1
  <2>3. QED
    BY <1>1, <1>2, <2>2 DEF to
<1>3. CASE Len(s) > off
  <2>1. to > off
    BY <1>1, <1>3 DEF Smallest
  <2> HIDE DEF to
  <2>2. c \in Seq(S) /\ Len(c) = to - off
    BY <1>1, <2>1
  <2>3. c # <<>>
    BY <1>1, <2>1, <2>2
  <2>4. QED
    BY <1>1, <1>3, <2>2, <2>3 DEF to
<1>4. QED
  BY <1>1, <1>2, <1>3

LEMMA FetchedIsPage ==
    ASSUME NEW u \in Url, NEW counted \in SUBSET Id, NEW order \in Orders(u),
           ~shrunk => Cardinality(counted) <= Count(u) /\ Fine(u)
    PROVE  PageOf(Fetched(u, counted, order), u)
<1> DEFINE p == Fetched(u, counted, order)
           total == Cardinality(counted)
           off == Offset(u)
           n == PerPage(u)
           to == Smallest(off + n, Len(order))
<1>1. order \in Seq(Id) /\ Len(order) = Count(u) /\ Count(u) \in Nat
  BY OrdersAreLists, MatchesAreRows, Constants
<1>2. n \in Nat \ {0} /\ Page(u) \in Nat \ {0} /\ off \in Nat /\ off = (Page(u) - 1) * n
      /\ (Page(u) = 1 => off = 0)
  BY Sizes DEF Offset
<1>3. /\ p.page = Page(u) /\ p.perPage = n /\ p.total = total
      /\ p.items = SubSeq(order, off + 1, to)
      /\ p.order = order /\ p.torn = (counted # Matches(u))
      /\ p.totalPages = IF screen = "users" THEN Largest(1, Pages(total, n))
                        ELSE Pages(total, n)
  BY DEF Fetched
<1>0. /\ total \in 0..MaxRows /\ total \in Nat
      /\ counted = Matches(u) => total = Count(u)
  BY RowsAreFew, Constants DEF Count
<1>00. ~shrunk => total <= Count(u)
  OBVIOUS
<1> HIDE DEF p, total, off, n, to
<1>4. /\ p.items \in Seq(Id) /\ (p.items = <<>> <=> Len(order) <= off)
      /\ Len(order) > off => Len(p.items) = to - off /\ to <= Len(order)
      /\ Len(order) <= off => Len(p.items) = 0
  <2>1. order \in Seq(Id) /\ off \in Nat /\ n \in Nat \ {0}
    BY <1>1, <1>2
  <2>2. LET c == SubSeq(order, off + 1, Smallest(off + n, Len(order)))
        IN /\ c \in Seq(Id) /\ (c = <<>> <=> Len(order) <= off)
           /\ Len(order) > off => Len(c) = Smallest(off + n, Len(order)) - off
                                  /\ Smallest(off + n, Len(order)) <= Len(order)
           /\ Len(order) <= off => Len(c) = 0
    BY <2>1, Cut
  <2>3. QED
    BY <1>3, <2>2 DEF to
<1>5. ItemsOf(p) \subseteq Id
  <2>1. \A k \in 1..Len(p.items) : p.items[k] \in Id
    BY <1>4
  <2>2. QED
    BY <2>1 DEF ItemsOf
<1>6. p.page < p.totalPages <=> p.page * p.perPage < p.total
  <2>1. Page(u) < Pages(total, n) <=> Page(u) * n < total
    BY <1>0, <1>2, PagesCounts
  <2>2. Pages(total, n) \in Int
    BY <1>0, <1>2 DEF Pages
  <2>3. QED
    BY <1>2, <1>3, <2>1, <2>2 DEF Largest
<1>7. ASSUME p.total # 0
      PROVE  /\ Footer(p).from = off + 1 /\ Footer(p).to = off + Len(p.items)
             /\ p.items = SubSeq(p.order, Footer(p).from, Footer(p).to)
             /\ p.items # <<>> => Footer(p).to <= Len(order)
  <2>1. /\ Footer(p).from = off + 1
        /\ Footer(p).to = off + Len(p.items)
    <3>1. (p.page - 1) * p.perPage = off /\ Len(p.items) \in Nat
      BY <1>2, <1>3, <1>4
    <3>2. QED
      BY <1>2, <1>7, <3>1 DEF Footer
  <2>2. CASE Len(order) > off
    <3>1. Footer(p).to = to /\ to <= Len(order)
      BY <1>1, <1>2, <1>4, <2>1, <2>2 DEF Smallest, to
    <3>2. QED
      BY <2>1, <3>1, <1>3
  <2>3. CASE Len(order) <= off
    <3>1. p.items = <<>> /\ Footer(p).to = off
      BY <1>2, <1>4, <2>1, <2>3
    <3>2. SubSeq(order, off + 1, off) = <<>>
      BY <1>1, <1>2
    <3>3. QED
      BY <1>3, <2>1, <3>1, <3>2
  <2>4. QED
    BY <1>1, <1>2, <2>2, <2>3
<1>8. ASSUME ~p.torn
      PROVE  p.total = Len(p.order) /\ (p.items # <<>> => Footer(p).to <= p.total)
  <2>1. p.total = Len(p.order) /\ p.order = order
    BY <1>0, <1>1, <1>3, <1>8
  <2>2. CASE p.total = 0
    BY <1>1, <1>2, <1>4, <2>1, <2>2
  <2>3. CASE p.total # 0
    BY <1>7, <2>1, <2>3
  <2>4. QED
    BY <2>1, <2>2, <2>3
<1>9. ~shrunk => p.total <= Count(u) /\ (p.items = <<>> => p.total = 0)
  <2>1. ASSUME ~shrunk, p.items = <<>>
        PROVE  p.total = 0
    <3>1. Len(order) <= off /\ total <= Count(u)
      BY <1>00, <1>4, <2>1
    <3>2. CASE off = 0
      BY <1>0, <1>1, <1>3, <3>1, <3>2
    <3>3. CASE off < Count(u)
      BY <1>1, <1>2, <3>1, <3>3
    <3>4. QED
      BY <1>2, <2>1, <3>2, <3>3 DEF Fine, off
  <2>2. QED
    BY <1>00, <1>3, <2>1
<1>10. FooterOf(p)
  BY <1>6, <1>7, <1>8 DEF FooterOf
<1>11. QED
  BY <1>0, <1>3, <1>5, <1>9, <1>10 DEF PageOf, n, p

-----------------------------------------------------------------------------
(* The invariant of the urls and of the pages. *)

\* A url that may be asked for: while no row left, its page has rows or is the first.
GoodUrl(u) == u \in Url /\ (~shrunk => Fine(u))

QueryInv ==
    /\ screen \in Screens /\ shrunk \in BOOLEAN
    /\ table \in [Id -> {"none", "draft", "published", "gone"}]
    /\ GoodUrl(url) /\ (shown = Broken \/ PageOf(shown, url))
    /\ hist \in Seq(Url) /\ at \in DOMAIN hist
    /\ \A k \in DOMAIN hist : GoodUrl(hist[k])
    /\ term \in Search /\ (timer = Off \/ GoodUrl(timer))
    /\ busy => going # Nowhere

\* What the server knows when the reader is on the way to a page.
GoingInv ==
    /\ going.step \in {"none", "sent", "counted", "fetched"}
    /\ going # Nowhere => GoodUrl(going.url) /\ going.push \in BOOLEAN
    /\ going.step = "counted" =>
         /\ going # Nowhere
         /\ going.counted \subseteq Id
         /\ ~shrunk => Cardinality(going.counted) <= Count(going.url)
    /\ going.step = "fetched" => going # Nowhere /\ PageOf(going.page, going.url)

Submission(s) ==
    /\ Fields \subseteq DOMAIN s
    /\ s.kind \in Offered /\ s.rows \subseteq Id
    /\ s.answer \in {"none", "ok", "refused", "failed"}
    /\ GoodUrl(s.of) /\ (s.page = Broken \/ PageOf(s.page, s.of))
    /\ s.answer = "none" => s.page = Broken

\* For each creation on its way there is a number left for its row.
SubmitInv ==
    /\ \E S : sent \in Seq(S)
    /\ \A k \in DOMAIN sent : Submission(sent[k]) /\ (k > 1 => sent[k].answer = "none")
    /\ Cardinality(Creations) <= Cardinality(Free)

ReaderInv ==
    /\ selected \subseteq Id /\ pending \subseteq Kind /\ gone \subseteq Id
    /\ dialog \in {Closed} \cup [kind : Offered, row : {0} \cup Id]
    /\ refresh \in BOOLEAN
    /\ acts \in 0..MaxActs


-----------------------------------------------------------------------------
(* The table grows. *)

Rows == [Id -> {"none", "draft", "published", "gone"}]

\* As long as no row leaves a list, all that happens to rows is that they are created.
Grown ==
    /\ screen' = screen /\ table' \in Rows
    /\ ~shrunk' => /\ ~shrunk
                   /\ \A i \in Id : table'[i] = table[i]
                                    \/ (table[i] = "none" /\ table'[i] = "draft")

LEMMA CountGrows ==
    ASSUME Grown, NEW u \in Url
    PROVE  /\ Offset(u)' = Offset(u) /\ Page(u)' = Page(u) /\ PerPage(u)' = PerPage(u)
           /\ ~shrunk' => Count(u) <= Count(u)'
<1>1. PerPage(u)' = PerPage(u) /\ Page(u)' = Page(u) /\ Offset(u)' = Offset(u)
  BY DEF Grown, PerPage, Page, Offset
<1>2. ASSUME ~shrunk'
      PROVE  Count(u) <= Count(u)'
  <2>1. /\ screen' = screen
        /\ \A i \in Id : table'[i] = table[i]
                         \/ (table[i] = "none" /\ table'[i] = "draft")
    BY <1>2 DEF Grown
  <2>2. Finds[u.search] \subseteq Id /\ u.published \in {"", "true", "false"}
    BY QueryAssumption DEF Url
  <2>3. ASSUME NEW i \in Matches(u)
        PROVE  i \in Matches(u)'
    <3>1. i \in Finds[u.search] /\ table[i] \in {"draft", "published"} /\ i \in Id
      BY <2>2 DEF Matches, Alive
    <3>2. table'[i] = table[i]
      BY <2>1, <3>1
    <3>3. QED
      BY <2>1, <3>1, <3>2 DEF Matches, Alive
  <2>4. Matches(u)' \subseteq Id
    BY <2>2 DEF Matches
  <2>5. IsFiniteSet(Matches(u)') /\ Matches(u) \subseteq Matches(u)'
    BY <2>3, <2>4, Constants, FS_Subset
  <2>6. Cardinality(Matches(u)) <= Cardinality(Matches(u)')
    BY <2>5, FS_Subset
  <2>7. QED
    BY <2>6 DEF Count
<1>3. QED
  BY <1>1, <1>2

LEMMA CountIsNat ==
    ASSUME NEW u \in Url
    PROVE  Count(u) \in Nat /\ Count(u)' \in Nat
<1>1. Finds[u.search] \subseteq Id
  BY QueryAssumption DEF Url
<1>2. Matches(u) \subseteq Id /\ Matches(u)' \subseteq Id
  BY <1>1 DEF Matches
<1>3. IsFiniteSet(Matches(u)) /\ IsFiniteSet(Matches(u)')
  BY <1>2, Constants, FS_Subset
<1>4. QED
  BY <1>3, FS_CardinalityType DEF Count

LEMMA UrlStaysGood ==
    ASSUME Grown, NEW u, GoodUrl(u)
    PROVE  GoodUrl(u)'
<1>1. u \in Url /\ (~shrunk => Fine(u)) /\ (~shrunk' => ~shrunk)
  BY DEF GoodUrl, Grown
<1>2. /\ Offset(u)' = Offset(u) /\ Page(u)' = Page(u)
      /\ ~shrunk' => Count(u) <= Count(u)'
  BY <1>1, CountGrows
<1>3. Count(u) \in Nat /\ Count(u)' \in Nat /\ Offset(u) \in Nat
  BY <1>1, CountIsNat, Sizes
<1>4. ~shrunk' => Fine(u)'
  BY <1>1, <1>2, <1>3 DEF Fine
<1>5. QED
  BY <1>1, <1>4 DEF GoodUrl

LEMMA PageStaysTrue ==
    ASSUME Grown, NEW u, GoodUrl(u), NEW p, PageOf(p, u)
    PROVE  PageOf(p, u)'
<1>1. u \in Url /\ (~shrunk' => ~shrunk)
  BY DEF GoodUrl, Grown
<1>2. /\ Page(u)' = Page(u) /\ PerPage(u)' = PerPage(u)
      /\ ~shrunk' => Count(u) <= Count(u)'
  BY <1>1, CountGrows
<1>3. p.total \in Nat
  BY Constants DEF PageOf
<1>4. Count(u) \in Nat /\ Count(u)' \in Nat
  BY <1>1, CountIsNat
<1>5. ~shrunk' => p.total <= Count(u)' /\ (p.items = <<>> => p.total = 0)
  <2>1. ASSUME ~shrunk'
        PROVE  p.total <= Count(u) /\ Count(u) <= Count(u)' /\ (p.items = <<>> => p.total = 0)
    BY <2>1, <1>1, <1>2 DEF PageOf
  <2>2. QED
    BY <2>1, <1>3, <1>4
<1>6. FooterOf(p)'
  BY DEF PageOf, FooterOf, Footer, Largest
<1>7. ItemsOf(p)' \subseteq Id
  BY DEF PageOf, ItemsOf
<1>8. QED
  BY <1>2, <1>5, <1>6, <1>7 DEF PageOf

\* A page that was fetched is not the broken one.
LEMMA FetchedIsNotBroken ==
    ASSUME NEW u \in Url, NEW p, PageOf(p, u)
    PROVE  p # Broken
<1>1. p.page # 0
  BY Sizes DEF PageOf
<1>2. QED
  BY <1>1 DEF Broken

-----------------------------------------------------------------------------
(* The urls the reader asks for. *)

\* Changes of anything but the page.
Changes == [search : Search] \cup [published : ExampleFilter] \cup [per_page : PageSizes]
           \cup [sort_by : SortKey, sort_dir : {"asc", "desc"}]

LEMMA UrlOf ==
    ASSUME NEW v, v = [p \in Param |-> v[p]],
           v.page \in Nat, v.per_page \in {0} \cup PageSizes, v.search \in Search,
           v.sort_by \in {""} \cup SortKey, v.sort_dir \in {"", "asc", "desc"},
           v.published \in {"", "true", "false"}
    PROVE  v \in Url
  BY DEF Param, Url

LEMMA FirstPageIsGood ==
    ASSUME NEW v \in Url, v.page = 0
    PROVE  GoodUrl(v)
<1>1. Page(v) = 1
  BY DEF Page, Largest
<1>2. QED
  BY <1>1 DEF GoodUrl, Fine

LEMMA OtherChangeIsGood ==
    ASSUME NEW u \in Url, NEW c \in Changes
    PROVE  GoodUrl(Applied(u, c))
<1> DEFINE w == [u EXCEPT !.page = 0]
<1>1. w \in Url /\ w.page = 0
  BY DEF Url
<1>2. Applied(u, c) = [p \in Param |-> IF p \in DOMAIN c THEN c[p] ELSE w[p]]
  BY DEF Applied, Param, Url
<1> HIDE DEF w
<1>3. /\ w.page \in Nat /\ w.per_page \in {0} \cup PageSizes /\ w.search \in Search
      /\ w.sort_by \in {""} \cup SortKey /\ w.sort_dir \in {"", "asc", "desc"}
      /\ w.published \in {"", "true", "false"}
  BY <1>1 DEF Url
<1> SUFFICES ASSUME NEW v, v = [p \in Param |-> IF p \in DOMAIN c THEN c[p] ELSE w[p]]
             PROVE  GoodUrl(v)
  BY <1>2
<1>4. \A p \in Param : v[p] = IF p \in DOMAIN c THEN c[p] ELSE w[p]
  OBVIOUS
<1>5. /\ v.page \in Nat /\ v.per_page \in {0} \cup PageSizes
      /\ v.search \in Search /\ v.sort_by \in {""} \cup SortKey
      /\ v.sort_dir \in {"", "asc", "desc"}
      /\ v.published \in {"", "true", "false"}
  <2>1. CASE c \in [search : Search]
    <3>1. DOMAIN c = {"search"} /\ c.search \in Search
      BY <2>1
    <3>2. QED
      BY <1>3, <1>4, <3>1 DEF Param
  <2>2. CASE c \in [published : ExampleFilter]
    <3>1. DOMAIN c = {"published"} /\ c.published \in {"", "true", "false"}
      BY <2>2 DEF ExampleFilter
    <3>2. QED
      BY <1>3, <1>4, <3>1 DEF Param
  <2>3. CASE c \in [per_page : PageSizes]
    <3>1. DOMAIN c = {"per_page"} /\ c.per_page \in PageSizes
      BY <2>3
    <3>2. QED
      BY <1>3, <1>4, <3>1 DEF Param
  <2>4. CASE c \in [sort_by : SortKey, sort_dir : {"asc", "desc"}]
    <3>1. DOMAIN c = {"sort_by", "sort_dir"} /\ c.sort_by \in SortKey
          /\ c.sort_dir \in {"asc", "desc"}
      BY <2>4
    <3>2. QED
      BY <1>3, <1>4, <3>1 DEF Param
  <2>5. QED
    BY <2>1, <2>2, <2>3, <2>4 DEF Changes
<1>6. v \in Url
  <2>1. v = [p \in Param |-> v[p]]
    OBVIOUS
  <2>2. QED
    BY <1>5, <2>1, UrlOf
<1>7. v.page = 0
  BY <1>1, <1>4 DEF Param, Changes
<1>8. QED
  BY <1>6, <1>7, FirstPageIsGood

LEMMA TurnedPage ==
    ASSUME NEW u \in Url, NEW k \in Nat
    PROVE  LET v == Applied(u, [page |-> k]) IN
           /\ v \in Url /\ v.page = k
           /\ PerPage(v) = PerPage(u) /\ Count(v) = Count(u)
<1> DEFINE v == Applied(u, [page |-> k])
<1>1. /\ u.page \in Nat /\ u.per_page \in {0} \cup PageSizes /\ u.search \in Search
      /\ u.sort_by \in {""} \cup SortKey /\ u.sort_dir \in {"", "asc", "desc"}
      /\ u.published \in {"", "true", "false"}
  BY DEF Url
<1>2. v = [p \in Param |-> IF p = "page" THEN k ELSE u[p]]
  BY DEF Applied, Param
<1>3. /\ v \in Url /\ v.page = k /\ v.per_page = u.per_page
      /\ v.search = u.search /\ v.published = u.published
  BY <1>1, <1>2 DEF Param, Url
<1>4. PerPage(v) = PerPage(u)
  BY <1>3 DEF PerPage
<1>5. Matches(v) = Matches(u)
  BY <1>3 DEF Matches
<1>6. QED
  BY <1>3, <1>4, <1>5 DEF Count

\* The footer only leads to pages that have rows.
LEMMA PreviousIsGood ==
    ASSUME GoodUrl(url), PageOf(shown, url), shown.page > 1
    PROVE  GoodUrl(Applied(url, [page |-> shown.page - 1]))
<1> DEFINE k == shown.page - 1
           v == Applied(url, [page |-> k])
<1>1. /\ url \in Url /\ (~shrunk => Fine(url))
      /\ shown.page = Page(url) /\ PerPage(url) \in Nat \ {0}
      /\ Page(url) \in Nat /\ Count(url) \in Nat
      /\ Offset(url) = (Page(url) - 1) * PerPage(url)
  BY Sizes, MatchesAreRows, Constants DEF GoodUrl, PageOf, Offset
<1>2. k \in Nat /\ k >= 1 /\ Page(url) = k + 1
  BY <1>1
<1>3. v \in Url /\ v.page = k /\ PerPage(v) = PerPage(url) /\ Count(v) = Count(url)
  BY <1>1, <1>2, TurnedPage
<1>4. Page(v) = k
  BY <1>2, <1>3 DEF Page, Largest
<1>5. (k - 1) * PerPage(url) <= k * PerPage(url)
  BY <1>1, <1>2
<1>6. Offset(v) = (k - 1) * PerPage(url) /\ Offset(url) = k * PerPage(url)
  BY <1>1, <1>2, <1>3, <1>4 DEF Offset
<1>7. Offset(v) \in Nat /\ Offset(url) \in Nat
  BY <1>1, <1>3, Sizes
<1>8. ~shrunk => Fine(v)
  <2>1. ASSUME ~shrunk
        PROVE  Offset(url) < Count(url)
    BY <1>1, <1>2, <2>1 DEF Fine
  <2>2. QED
    BY <1>1, <1>3, <1>5, <1>6, <1>7, <2>1 DEF Fine
<1>9. QED
  BY <1>3, <1>8 DEF GoodUrl

LEMMA NextIsGood ==
    ASSUME GoodUrl(url), PageOf(shown, url), shown.page < shown.totalPages
    PROVE  GoodUrl(Applied(url, [page |-> shown.page + 1]))
<1> DEFINE k == shown.page + 1
           v == Applied(url, [page |-> k])
<1>1. /\ url \in Url /\ shown.page = Page(url) /\ PerPage(url) \in Nat \ {0}
      /\ shown.perPage = PerPage(url) /\ Page(url) \in Nat \ {0}
      /\ Count(url) \in Nat /\ shown.total \in Nat
      /\ ~shrunk => shown.total <= Count(url)
  BY Sizes, MatchesAreRows, Constants DEF GoodUrl, PageOf
<1>2. shown.page * shown.perPage < shown.total
  BY DEF PageOf, FooterOf
<1>3. v \in Url /\ v.page = k /\ PerPage(v) = PerPage(url) /\ Count(v) = Count(url)
  <2>1. k \in Nat
    BY <1>1
  <2>2. QED
    BY <1>1, <2>1, TurnedPage
<1>4. Page(v) = k /\ k - 1 = shown.page
  BY <1>1, <1>3 DEF Page, Largest
<1>5. Offset(v) = shown.page * shown.perPage
  BY <1>1, <1>3, <1>4 DEF Offset
<1>6. Offset(v) \in Nat
  BY <1>3, Sizes
<1>7. ~shrunk => Fine(v)
  BY <1>1, <1>2, <1>3, <1>5, <1>6 DEF Fine
<1>8. QED
  BY <1>3, <1>7 DEF GoodUrl

-----------------------------------------------------------------------------
(* The steps of the reader, the server and the browser keep the urls good. *)

NavInv == QueryInv /\ GoingInv

\* What a navigation leaves alone.
Still == UNCHANGED <<screen, table, shrunk>>

LEMMA StillGrows ==
    ASSUME NavInv, Still
    PROVE  /\ Grown
           /\ \A u : GoodUrl(u) => GoodUrl(u)'
           /\ \A u, p : GoodUrl(u) /\ PageOf(p, u) => PageOf(p, u)'
<1>1. Grown
  BY DEF NavInv, QueryInv, Still, Grown, Rows
<1>2. QED
  BY <1>1, UrlStaysGood, PageStaysTrue

\* Whoever is on the way to a page stays on it.
LEMMA GoingStays ==
    ASSUME NavInv, Grown, UNCHANGED going
    PROVE  GoingInv'
<1>1. going # Nowhere => GoodUrl(going.url)
  BY DEF NavInv, GoingInv
<1>2. going # Nowhere => GoodUrl(going.url)'
  BY <1>1, UrlStaysGood
<1>3. ASSUME going.step = "counted", ~shrunk'
      PROVE  Cardinality(going.counted) <= Count(going.url)'
  <2>0. Cardinality(going.counted) \in Nat
    <3>1. going.counted \subseteq Id
      BY <1>3 DEF NavInv, GoingInv
    <3>2. QED
      BY <3>1, RowsAreFew, Constants
  <2>1. /\ going.url \in Url /\ Cardinality(going.counted) \in Nat
        /\ Cardinality(going.counted) <= Count(going.url)
    BY <1>1, <1>3, <2>0 DEF NavInv, GoingInv, GoodUrl, Grown
  <2>2. Count(going.url) <= Count(going.url)'
    <3>1. ASSUME NEW u \in Url
          PROVE  Count(u) <= Count(u)'
      BY <1>3, CountGrows
    <3>2. QED
      BY <2>1, <3>1
  <2>3. Count(going.url) \in Nat /\ Count(going.url)' \in Nat
    <3>1. ASSUME NEW u \in Url
          PROVE  Count(u) \in Nat /\ Count(u)' \in Nat
      BY CountIsNat
    <3>2. QED
      BY <2>1, <3>1
  <2>4. QED
    BY <2>1, <2>2, <2>3
<1>4. going.step = "fetched" => PageOf(going.page, going.url)'
  BY <1>1, PageStaysTrue DEF NavInv, GoingInv
<1>5. QED
  BY <1>2, <1>3, <1>4 DEF NavInv, GoingInv, Nowhere

\* Rows are created, or leave, under the eyes of the reader.
LEMMA RowsChange ==
    ASSUME NavInv, Grown, UNCHANGED screenVars, shrunk' \in BOOLEAN
    PROVE  NavInv'
<1>1. GoingInv'
  BY GoingStays
<1>2. GoodUrl(url)' /\ (shown = Broken \/ PageOf(shown, url))'
  BY UrlStaysGood, PageStaysTrue DEF NavInv, QueryInv, Broken
<1>3. \A k \in DOMAIN hist : GoodUrl(hist[k])'
  BY UrlStaysGood DEF NavInv, QueryInv
<1>4. timer = Off \/ GoodUrl(timer)'
  BY UrlStaysGood DEF NavInv, QueryInv
<1>5. QueryInv'
  BY <1>2, <1>3, <1>4 DEF NavInv, QueryInv, Off, Nowhere, Grown, Rows
<1>6. QED
  BY <1>1, <1>5 DEF NavInv

LEMMA NavigatesKeep ==
    ASSUME NavInv, Still, UNCHANGED <<url, shown, hist>>, at' \in DOMAIN hist,
           term' \in Search, timer' = Off \/ GoodUrl(timer'),
           NEW u, GoodUrl(u), NEW b \in BOOLEAN,
           going' = [step |-> "sent", url |-> u, push |-> b]
    PROVE  NavInv'
<1>1. /\ \A v : GoodUrl(v) => GoodUrl(v)'
      /\ \A v, p : GoodUrl(v) /\ PageOf(p, v) => PageOf(p, v)'
  BY StillGrows
<1>2. going'.step = "sent" /\ going'.url = u /\ going'.push = b /\ Nowhere.step = "none"
  BY DEF Nowhere
<1>3. going' # Nowhere
  BY <1>2
<1>4. GoingInv'
  BY <1>1, <1>2, <1>3 DEF GoingInv
<1>5. QueryInv'
  <2>1. GoodUrl(url)' /\ (shown = Broken \/ PageOf(shown, url))'
    BY <1>1 DEF NavInv, QueryInv, Broken
  <2>2. \A k \in DOMAIN hist : GoodUrl(hist[k])'
    BY <1>1 DEF NavInv, QueryInv
  <2>3. timer' = Off \/ GoodUrl(timer)'
    BY <1>1
  <2>4. screen' \in Screens /\ shrunk' \in BOOLEAN
        /\ (table \in [Id -> {"none", "draft", "published", "gone"}])'
        /\ hist' \in Seq(Url) /\ at' \in DOMAIN hist'
    BY DEF NavInv, QueryInv, Still
  <2>5. QED
    BY <1>3, <2>1, <2>2, <2>3, <2>4 DEF QueryInv, Off
<1>6. QED
  BY <1>4, <1>5 DEF NavInv

LEMMA ClicksKeep ==
    ASSUME NavInv, Still, NEW c, Clicks(c), GoodUrl(Applied(url, c))
    PROVE  NavInv'
<1>1. /\ UNCHANGED <<url, shown, hist, at, term, timer>>
      /\ going' = [step |-> "sent", url |-> Applied(url, c), push |-> TRUE]
  BY DEF Clicks, Apply, Push
<1>2. at' \in DOMAIN hist /\ term' \in Search /\ (timer' = Off \/ GoodUrl(timer'))
  BY <1>1 DEF NavInv, QueryInv
<1>3. QED
  BY <1>1, <1>2, NavigatesKeep

LEMMA TypesKeeps ==
    ASSUME NavInv, Still, NEW text \in Search, Types(text)
    PROVE  NavInv'
<1>1. /\ \A v : GoodUrl(v) => GoodUrl(v)'
      /\ \A v, p : GoodUrl(v) /\ PageOf(p, v) => PageOf(p, v)'
  BY StillGrows
<1>2. /\ UNCHANGED <<screen, table, shrunk, url, shown, hist, at, going, busy>>
      /\ term' = text /\ (timer' = Off \/ timer' = url)
  BY DEF Types, Armed, Still
<1>3. QueryInv'
  <2>1. GoodUrl(url)' /\ (shown = Broken \/ PageOf(shown, url))'
    BY <1>1, <1>2 DEF NavInv, QueryInv, Broken
  <2>2. \A k \in DOMAIN hist' : GoodUrl(hist[k])'
    BY <1>1, <1>2 DEF NavInv, QueryInv
  <2>3. (timer = Off \/ GoodUrl(timer))'
    BY <1>2, <2>1 DEF Off
  <2>4. QED
    BY <1>2, <2>1, <2>2, <2>3 DEF NavInv, QueryInv
<1>4. GoingInv'
  BY <1>2, StillGrows, GoingStays
<1>5. QED
  BY <1>3, <1>4 DEF NavInv

LEMMA ReaderNavigates ==
    ASSUME NavInv, Still, Navigates
    PROVE  NavInv'
<1>1. url \in Url /\ GoodUrl(url)
  BY DEF NavInv, QueryInv, GoodUrl
<1>2. ASSUME NEW c, Clicks(c)
      PROVE  PageOf(shown, url)
  BY <1>2 DEF Clicks, Usable, NavInv, QueryInv
<1>3. ASSUME NEW c \in Changes, Clicks(c)
      PROVE  NavInv'
  BY <1>1, <1>3, OtherChangeIsGood, ClicksKeep
<1>4. CASE \E text \in Search : Types(text)
  BY <1>4, TypesKeeps
<1>5. CASE \E value \in ExampleFilter : Filters(value)
  <2>1. PICK value \in ExampleFilter : Clicks([published |-> value])
    BY <1>5 DEF Filters
  <2>2. [published |-> value] \in Changes
    BY DEF Changes
  <2>3. QED
    BY <1>3, <2>1, <2>2
<1>6. CASE \E key \in SortKey : Sorts(key)
  <2>1. PICK key \in SortKey : Clicks(SortedBy(key))
    BY <1>6 DEF Sorts
  <2>2. SortedBy(key) \in Changes
    BY DEF Changes, SortedBy
  <2>3. QED
    BY <1>3, <2>1, <2>2
<1>7. CASE \E n \in PageSizes : RowsPerPage(n)
  <2>1. PICK n \in PageSizes : Clicks([per_page |-> n])
    BY <1>7 DEF RowsPerPage
  <2>2. [per_page |-> n] \in Changes
    BY DEF Changes
  <2>3. QED
    BY <1>3, <2>1, <2>2
<1>8. CASE PreviousPage
  <2>1. shown.page > 1 /\ Clicks([page |-> shown.page - 1])
    BY <1>8 DEF PreviousPage, TurnsTo
  <2>2. GoodUrl(Applied(url, [page |-> shown.page - 1]))
    BY <1>1, <1>2, <2>1, PreviousIsGood
  <2>3. QED
    BY <2>1, <2>2, ClicksKeep
<1>9. CASE NextPage
  <2>1. shown.page < shown.totalPages /\ Clicks([page |-> shown.page + 1])
    BY <1>9 DEF NextPage, TurnsTo
  <2>2. GoodUrl(Applied(url, [page |-> shown.page + 1]))
    BY <1>1, <1>2, <2>1, NextIsGood
  <2>3. QED
    BY <2>1, <2>2, ClicksKeep
<1>10. QED
  BY <1>4, <1>5, <1>6, <1>7, <1>8, <1>9 DEF Navigates

LEMMA OnTheWay ==
    ASSUME NavInv, Still,
           (\E to \in {at - 1, at + 1} : Travels(to)) \/ TimerFires \/ Reloads
    PROVE  NavInv'
<1>1. ASSUME NEW to, Travels(to)
      PROVE  NavInv'
  <2>1. /\ UNCHANGED <<url, shown, hist, term, timer>> /\ to \in DOMAIN hist /\ at' = to
        /\ going' = [step |-> "sent", url |-> hist[to], push |-> FALSE]
    BY <1>1 DEF Travels
  <2>2. GoodUrl(hist[to]) /\ term' \in Search /\ (timer' = Off \/ GoodUrl(timer'))
    BY <2>1 DEF NavInv, QueryInv
  <2>3. QED
    BY <2>1, <2>2, NavigatesKeep
<1>2. CASE TimerFires
  <2>1. /\ UNCHANGED <<url, shown, hist, at, term>> /\ timer' = Off
        /\ timer # Off
        /\ going' = [step |-> "sent", url |-> Applied(timer, [search |-> term]), push |-> TRUE]
    BY <1>2 DEF TimerFires, Push
  <2>2. timer \in Url /\ term \in Search /\ at \in DOMAIN hist
    BY <2>1 DEF NavInv, QueryInv, GoodUrl
  <2>3. GoodUrl(Applied(timer, [search |-> term]))
    <3>1. [search |-> term] \in Changes
      BY <2>2 DEF Changes
    <3>2. QED
      BY <2>2, <3>1, OtherChangeIsGood
  <2>4. QED
    BY <2>1, <2>2, <2>3, NavigatesKeep
<1>3. CASE Reloads
  <2>1. /\ UNCHANGED <<url, shown, hist, at, term, timer>>
        /\ going' = [step |-> "sent", url |-> url, push |-> FALSE]
    BY <1>3 DEF Reloads
  <2>2. GoodUrl(url) /\ term' \in Search /\ (timer' = Off \/ GoodUrl(timer'))
        /\ at' \in DOMAIN hist
    BY <2>1 DEF NavInv, QueryInv
  <2>3. QED
    BY <2>1, <2>2, NavigatesKeep
<1>4. QED
  BY <1>1, <1>2, <1>3

\* The page a navigation was rendered for is the one that is shown with its url.
LEMMA ServerKeeps ==
    ASSUME NavInv, Still, Counts \/ Fetches
    PROVE  NavInv'
<1>1. /\ \A v : GoodUrl(v) => GoodUrl(v)'
      /\ \A v, p : GoodUrl(v) /\ PageOf(p, v) => PageOf(p, v)'
  BY StillGrows
<1>2. /\ UNCHANGED <<url, shown, hist, at, busy, term, timer>>
      /\ going.step # "none" /\ going' # Nowhere
  BY DEF Counts, Fetches, Nowhere
<1>3. going # Nowhere
  BY <1>2 DEF Nowhere
<1>4. GoodUrl(going.url) /\ GoodUrl(going.url)' /\ going.url \in Url /\ going.push \in BOOLEAN
  <2>1. GoodUrl(going.url) /\ going.push \in BOOLEAN
    BY <1>3 DEF NavInv, GoingInv
  <2>2. going'.url = going.url
    BY DEF Counts, Fetches
  <2>3. QED
    BY <1>1, <2>1, <2>2 DEF GoodUrl
<1>5. QueryInv'
  <2>1. (GoodUrl(url) /\ (shown = Broken \/ PageOf(shown, url)))'
    BY <1>1, <1>2 DEF NavInv, QueryInv, Broken
  <2>2. (\A k \in DOMAIN hist : GoodUrl(hist[k]))'
    BY <1>1, <1>2 DEF NavInv, QueryInv
  <2>3. (timer = Off \/ GoodUrl(timer))'
    BY <1>1, <1>2 DEF NavInv, QueryInv, Off
  <2>4. QED
    BY <1>2, <2>1, <2>2, <2>3 DEF NavInv, QueryInv, Still
<1>6. CASE Counts
  <2>1. going' = [step |-> "counted", url |-> going.url, push |-> going.push,
                  counted |-> Matches(going.url)]
    BY <1>6 DEF Counts
  <2>2. Matches(going.url) \subseteq Id /\ Count(going.url) \in Nat
    BY <1>4, MatchesAreRows, Constants
  <2>3. Count(going.url)' = Count(going.url)
    BY <2>1 DEF Still, Count, Matches, Alive
  <2>4. GoingInv'
    <3>1. going'.url = going.url /\ going'.push = going.push /\ going'.step = "counted"
          /\ going'.counted = Matches(going.url)
      BY <2>1
    <3>2. (going.step = "counted" =>
             /\ going # Nowhere
             /\ going.counted \subseteq Id
             /\ ~shrunk => Cardinality(going.counted) <= Count(going.url))'
      <4>1. Cardinality(going'.counted) = Count(going.url)
        BY <3>1 DEF Count
      <4>2. QED
        BY <1>2, <2>2, <2>3, <3>1, <4>1
    <3>3. QED
      BY <1>2, <1>4, <3>1, <3>2 DEF GoingInv
  <2>5. QED
    BY <1>5, <2>4 DEF NavInv
<1>7. CASE Fetches
  <2>0. PICK order \in Orders(going.url) :
          going' = [step |-> "fetched", url |-> going.url, push |-> going.push,
                    page |-> Fetched(going.url, going.counted, order)]
    BY <1>7 DEF Fetches
  <2> DEFINE p == Fetched(going.url, going.counted, order)
  <2>1. /\ going.step = "counted"
        /\ going' = [step |-> "fetched", url |-> going.url, push |-> going.push, page |-> p]
    BY <1>7, <2>0 DEF Fetches
  <2>2. /\ going.counted \in SUBSET Id
        /\ ~shrunk => Cardinality(going.counted) <= Count(going.url) /\ Fine(going.url)
    BY <1>4, <2>1 DEF NavInv, GoingInv, GoodUrl
  <2>3. PageOf(p, going.url)
    BY <1>4, <2>2, FetchedIsPage
  <2> HIDE DEF p
  <2>4. GoingInv'
    <3>1. going'.url = going.url /\ going'.push = going.push /\ going'.step = "fetched"
          /\ going'.page = p
      BY <2>1
    <3>2. PageOf(going.page, going.url)'
      BY <1>1, <1>4, <2>3, <3>1
    <3>3. QED
      BY <1>2, <1>4, <3>1, <3>2 DEF GoingInv
  <2>5. QED
    BY <1>5, <2>4 DEF NavInv
<1>8. QED
  BY <1>6, <1>7

LEMMA HistoryGrows ==
    ASSUME NEW S, NEW h \in Seq(S), NEW k \in DOMAIN h, NEW x
    PROVE  LET g == Append(SubSeq(h, 1, k), x)
           IN /\ g \in Seq(S \cup {x}) /\ k + 1 \in DOMAIN g
              /\ \A j \in DOMAIN g : g[j] = x \/ (j \in DOMAIN h /\ g[j] = h[j])
<1> DEFINE p == SubSeq(h, 1, k)
<1>1. k \in 1..Len(h) /\ Len(h) \in Nat
  OBVIOUS
<1>2. p \in Seq(S) /\ Len(p) = k /\ \A j \in 1..k : p[j] = h[j]
  BY <1>1
<1> HIDE DEF p
<1>3. Append(p, x) \in Seq(S \cup {x}) /\ DOMAIN Append(p, x) = 1..(k + 1)
      /\ Append(p, x)[k + 1] = x /\ \A j \in 1..k : Append(p, x)[j] = p[j]
  BY <1>1, <1>2
<1>4. QED
  BY <1>1, <1>2, <1>3 DEF p

LEMMA ArrivesKeeps ==
    ASSUME NavInv, Still, going # Nowhere, Arrives,
           shown' = Broken \/ PageOf(shown', going.url),
           term' \in Search, timer' = Off \/ GoodUrl(timer')
    PROVE  NavInv'
<1>1. /\ \A v : GoodUrl(v) => GoodUrl(v)'
      /\ \A v, p : GoodUrl(v) /\ PageOf(p, v) => PageOf(p, v)'
  BY StillGrows
<1>2. GoodUrl(going.url) /\ going.url \in Url
  BY DEF NavInv, GoingInv, GoodUrl
<1>3. /\ url' = going.url /\ going' = Nowhere /\ busy' = FALSE
      /\ \/ UNCHANGED <<hist, at>>
         \/ hist' = Append(SubSeq(hist, 1, at), going.url) /\ at' = at + 1
  BY DEF Arrives, Ends
<1>4. GoingInv'
  BY <1>3 DEF GoingInv, Nowhere
<1>5. /\ hist' \in Seq(Url) /\ at' \in DOMAIN hist'
      /\ \A k \in DOMAIN hist' : GoodUrl(hist'[k])
  <2>1. hist \in Seq(Url) /\ at \in DOMAIN hist /\ \A k \in DOMAIN hist : GoodUrl(hist[k])
    BY DEF NavInv, QueryInv
  <2>2. CASE UNCHANGED <<hist, at>>
    BY <2>1, <2>2
  <2>3. CASE hist' = Append(SubSeq(hist, 1, at), going.url) /\ at' = at + 1
    <3>1. /\ hist' \in Seq(Url \cup {going.url}) /\ at + 1 \in DOMAIN hist'
          /\ \A j \in DOMAIN hist' : hist'[j] = going.url
                                     \/ (j \in DOMAIN hist /\ hist'[j] = hist[j])
      BY <2>1, <2>3, HistoryGrows
    <3>2. Url \cup {going.url} = Url
      BY <1>2
    <3>3. QED
      BY <1>2, <2>1, <2>3, <3>1, <3>2
  <2>4. QED
    BY <1>3, <2>2, <2>3
<1>6. QueryInv'
  <2>1. (GoodUrl(url) /\ (shown = Broken \/ PageOf(shown, url)))'
    BY <1>1, <1>2, <1>3 DEF Broken
  <2>2. (\A k \in DOMAIN hist : GoodUrl(hist[k]))'
    BY <1>1, <1>5
  <2>3. (timer = Off \/ GoodUrl(timer))'
    BY <1>1 DEF Off
  <2>4. QED
    BY <1>3, <1>5, <2>1, <2>2, <2>3 DEF NavInv, QueryInv, Still
<1>7. QED
  BY <1>4, <1>6 DEF NavInv

LEMMA CommitKeeps ==
    ASSUME NavInv, Still, Commit \/ PageFails
    PROVE  NavInv'
<1>1. going # Nowhere /\ Arrives
  BY DEF Commit, PageFails, Nowhere
<1>2. GoodUrl(going.url) /\ going.url.search \in Search
  BY <1>1 DEF NavInv, GoingInv, GoodUrl, Url
<1>3. CASE Commit
  <2>1. PageOf(shown', going.url)
    BY <1>3 DEF Commit, NavInv, GoingInv
  <2>2. term' \in Search /\ (timer' = Off \/ GoodUrl(timer'))
    BY <1>2, <1>3 DEF Commit, AfterCommit, Armed, NavInv, QueryInv
  <2>3. QED
    BY <1>1, <2>1, <2>2, ArrivesKeeps
<1>4. CASE PageFails
  BY <1>1, <1>2, <1>4, ArrivesKeeps DEF PageFails
<1>5. QED
  BY <1>3, <1>4

\* The same page comes again, with an answer or because it was stale.
LEMMA ShowsAgain ==
    ASSUME NavInv, Still, UNCHANGED <<url, hist, at, going, busy, term, timer>>,
           shown' = shown \/ PageOf(shown', url)
    PROVE  NavInv'
<1>1. /\ Grown /\ \A v : GoodUrl(v) => GoodUrl(v)'
      /\ \A v, p : GoodUrl(v) /\ PageOf(p, v) => PageOf(p, v)'
  BY StillGrows
<1>2. GoingInv'
  BY <1>1, GoingStays
<1>3. (GoodUrl(url) /\ (shown = Broken \/ PageOf(shown, url)))'
  BY <1>1 DEF NavInv, QueryInv, Broken
<1>4. (\A k \in DOMAIN hist : GoodUrl(hist[k]))'
  BY <1>1 DEF NavInv, QueryInv
<1>5. (timer = Off \/ GoodUrl(timer))'
  BY <1>1 DEF NavInv, QueryInv, Off
<1>6. QueryInv'
  BY <1>3, <1>4, <1>5 DEF NavInv, QueryInv, Still, Nowhere
<1>7. QED
  BY <1>2, <1>6 DEF NavInv

-----------------------------------------------------------------------------
(* The submissions on their way. *)

LEMMA SubmissionStays ==
    ASSUME Grown, NEW s, Submission(s)
    PROVE  Submission(s)'
<1>1. GoodUrl(s.of)' /\ (s.page = Broken \/ PageOf(s.page, s.of)')
  BY UrlStaysGood, PageStaysTrue DEF Submission
<1>2. QED
  BY <1>1 DEF Submission, Offered, Grown, Broken

LEMMA CreationsAreFew ==
    ASSUME NEW S, sent \in Seq(S)
    PROVE  /\ IsFiniteSet(Creations) /\ Cardinality(Creations) \in Nat
           /\ IsFiniteSet(Free) /\ Cardinality(Free) \in Nat
           /\ Creations \subseteq DOMAIN sent /\ DOMAIN sent = 1..Len(sent) /\ Len(sent) \in Nat
<1>1. DOMAIN sent = 1..Len(sent) /\ Len(sent) \in Nat
  OBVIOUS
<1>2. IsFiniteSet(DOMAIN sent)
  BY <1>1, FS_Interval
<1>3. Creations \subseteq DOMAIN sent /\ Free \subseteq Id
  BY DEF Creations, Free
<1>4. IsFiniteSet(Creations) /\ IsFiniteSet(Free)
  BY <1>2, <1>3, Constants, FS_Subset
<1>5. QED
  BY <1>1, <1>3, <1>4, FS_CardinalityType

\* No creation is added and no number is used up.
LEMMA RoomStays ==
    ASSUME NEW S, sent \in Seq(S), Cardinality(Creations) <= Cardinality(Free),
           Creations' \subseteq Creations, Free' = Free
    PROVE  Cardinality(Creations)' <= Cardinality(Free)'
<1>1. /\ IsFiniteSet(Creations) /\ Cardinality(Creations) \in Nat /\ Cardinality(Free) \in Nat
  BY CreationsAreFew
<1>2. IsFiniteSet(Creations') /\ Cardinality(Creations') <= Cardinality(Creations)
  BY <1>1, FS_Subset
<1>3. Cardinality(Creations') \in Nat
  BY <1>2, FS_CardinalityType
<1>4. QED
  BY <1>1, <1>2, <1>3

\* A row takes the first number that is free.
LEMMA FirstIsFree ==
    ASSUME Free # {}
    PROVE  First(Free) \in Free
<1>1. Free \in SUBSET Nat
  BY Constants DEF Free
<1>2. \E i \in Free : \A j \in Free : i <= j
  BY <1>1, SmallestOf
<1>3. QED
  BY <1>2 DEF First

LEMMA RowIsCreated ==
    ASSUME NavInv, Free # {}, table' = [table EXCEPT ![First(Free)] = "draft"],
           UNCHANGED <<screen, shrunk>>
    PROVE  /\ Grown
           /\ Cardinality(Free)' = Cardinality(Free) - 1 /\ Cardinality(Free) \in Nat
<1>1. First(Free) \in Free
  BY FirstIsFree
<1>2. First(Free) \in Id /\ table[First(Free)] = "none"
  BY <1>1 DEF Free
<1>3. table \in Rows
  BY DEF NavInv, QueryInv, Rows
<1>4. \A i \in Id : table'[i] = IF i = First(Free) THEN "draft" ELSE table[i]
  BY <1>2, <1>3 DEF Rows
<1>5. Grown
  BY <1>2, <1>3, <1>4 DEF Grown, Rows
<1>6. Free' = Free \ {First(Free)}
  BY <1>2, <1>4 DEF Free
<1>7. IsFiniteSet(Free)
  BY Constants, FS_Subset DEF Free
<1>8. QED
  BY <1>1, <1>5, <1>6, <1>7, FS_RemoveElement, FS_CardinalityType

\* Nothing is created: what has no row yet has none afterwards.
LEMMA RowsLeave ==
    ASSUME NavInv, UNCHANGED screen, shrunk' = TRUE, table' \in Rows,
           \A i \in Id : table[i] = "none" <=> table'[i] = "none"
    PROVE  Grown /\ Free' = Free
  BY DEF Grown, Free

\* The head of the queue moves on.
LEMMA HeadKeeps ==
    ASSUME SubmitInv, sent # <<>>, Grown, NEW x, Submission(x),
           sent' = <<x>> \o Tail(sent), x.kind = Head(sent).kind,
           x.answer # "none" \/ x.answer = Head(sent).answer
    PROVE  /\ \E S : sent' \in Seq(S)
           /\ \A k \in DOMAIN sent' :
                Submission(sent[k])' /\ (k > 1 => sent'[k].answer = "none")
           /\ Creations' = IF x.answer = "none" THEN Creations ELSE Creations \ {1}
<1>1. PICK S : sent \in Seq(S)
  BY DEF SubmitInv
<1>2. /\ sent' \in Seq(S \cup {x}) /\ DOMAIN sent' = DOMAIN sent
      /\ sent'[1] = x /\ \A k \in DOMAIN sent : k # 1 => sent'[k] = sent[k]
  BY <1>1, HeadReplaced
<1>3. Head(sent) = sent[1] /\ 1 \in DOMAIN sent /\ DOMAIN sent \subseteq Nat
  BY <1>1, HeadIsFirst
<1>4. \A k \in DOMAIN sent : Submission(sent[k]) /\ (k > 1 => sent[k].answer = "none")
  BY DEF SubmitInv
<1>5. ASSUME NEW k \in DOMAIN sent'
      PROVE  Submission(sent[k])' /\ (k > 1 => sent'[k].answer = "none")
  <2>1. Submission(sent'[k])
    BY <1>2, <1>4
  <2>2. \A s : Submission(s) => Submission(s)'
    BY SubmissionStays
  <2>3. QED
    BY <1>2, <1>3, <1>4, <2>1, <2>2
<1>6. Creations' = IF x.answer = "none" THEN Creations ELSE Creations \ {1}
  BY <1>2, <1>3 DEF Creations
<1>7. QED
  BY <1>2, <1>5, <1>6

\* An answer: the submission is as it was, and none of those that create a row waits more.
LEMMA AnswerComes ==
    ASSUME SubmitInv, Grown, sent # <<>>, Head(sent).answer = "none", GoodUrl(url),
           NEW answer \in {"ok", "refused", "failed"}, sent' = Answered(Head(sent), answer)
    PROVE  /\ \E S : sent' \in Seq(S)
           /\ \A k \in DOMAIN sent' :
                Submission(sent[k])' /\ (k > 1 => sent'[k].answer = "none")
           /\ Creations' = Creations \ {1}
<1> DEFINE x == [Head(sent) EXCEPT !.answer = answer, !.of = url]
<1>1. PICK S : sent \in Seq(S)
  BY DEF SubmitInv
<1>2. Submission(Head(sent))
  BY <1>1, HeadIsFirst DEF SubmitInv
<1>3. Submission(x) /\ x.kind = Head(sent).kind /\ x.answer = answer
  BY <1>2 DEF Submission, Fields
<1>4. sent' = <<x>> \o Tail(sent)
  BY DEF Answered
<1> HIDE DEF x
<1>5. QED
  BY <1>3, <1>4, HeadKeeps

LEMMA RefusesKeeps ==
    ASSUME NavInv, SubmitInv, Still, sent # <<>>, Head(sent).answer = "none",
           NEW answer \in {"refused", "failed"}, sent' = Answered(Head(sent), answer)
    PROVE  SubmitInv'
<1>1. PICK S : sent \in Seq(S)
  BY DEF SubmitInv
<1>2. Grown /\ GoodUrl(url)
  BY StillGrows DEF NavInv, QueryInv
<1>3. /\ \E T : sent' \in Seq(T)
      /\ \A k \in DOMAIN sent' :
           Submission(sent[k])' /\ (k > 1 => sent'[k].answer = "none")
      /\ Creations' = Creations \ {1}
  BY <1>2, AnswerComes
<1>4. Creations' \subseteq Creations /\ Free' = Free
  BY <1>3 DEF Still, Free
<1>5. Cardinality(Creations)' <= Cardinality(Free)'
  BY <1>1, <1>4, RoomStays DEF SubmitInv
<1>6. QED
  BY <1>3, <1>5 DEF SubmitInv

\* The api creates the row, changes rows or deletes them.
LEMMA AppliesKeeps ==
    ASSUME NavInv, SubmitInv, UNCHANGED screen, NEW answer \in {"ok", "failed"}, Applies(answer)
    PROVE  NavInv' /\ SubmitInv'
<1> DEFINE s == Head(sent)
<1>1. PICK S : sent \in Seq(S)
  BY DEF SubmitInv
<1>2. /\ sent # <<>> /\ s.answer = "none" /\ table' = TableAfter(s)
      /\ shrunk' = (shrunk \/ s.kind # "create") /\ sent' = Answered(s, answer)
      /\ UNCHANGED screenVars
  BY DEF Applies
<1>3. s = sent[1] /\ 1 \in DOMAIN sent /\ DOMAIN sent \subseteq Nat
  BY <1>1, <1>2, HeadIsFirst
<1>4. shrunk \in BOOLEAN /\ table \in Rows /\ GoodUrl(url)
  BY DEF NavInv, QueryInv, Rows
<1>5. Grown /\ Cardinality(Creations \ {1}) <= Cardinality(Free)' /\ shrunk' \in BOOLEAN
  <2>1. CASE s.kind = "create"
    <3>1. 1 \in Creations
      BY <1>2, <1>3, <2>1 DEF Creations
    <3>2. /\ IsFiniteSet(Creations) /\ Cardinality(Creations) \in Nat
          /\ IsFiniteSet(Free) /\ Cardinality(Free) \in Nat
          /\ Cardinality(Creations) <= Cardinality(Free)
      BY <1>1, CreationsAreFew DEF SubmitInv
    <3>3. Cardinality(Creations \ {1}) = Cardinality(Creations) - 1
      BY <3>1, <3>2, FS_RemoveElement
    <3>4. Cardinality(Creations) # 0
      BY <3>1, <3>2, FS_EmptySet
    <3>5. Free # {}
      BY <3>2, <3>4, FS_EmptySet
    <3>6. table' = [table EXCEPT ![First(Free)] = "draft"] /\ shrunk' = shrunk
      BY <1>2, <1>4, <2>1 DEF TableAfter
    <3>7. Grown /\ Cardinality(Free)' = Cardinality(Free) - 1
      BY <3>5, <3>6, RowIsCreated
    <3>8. QED
      BY <1>4, <3>2, <3>3, <3>6, <3>7
  <2>2. CASE s.kind # "create"
    <3>1. PICK to \in {"published", "draft", "gone"} :
            table' = [i \in Id |-> IF i \in s.rows /\ Alive(i) THEN to ELSE table[i]]
      BY <1>2, <2>2 DEF TableAfter
    <3>2. /\ table' \in Rows
          /\ \A i \in Id : table[i] = "none" <=> table'[i] = "none"
      BY <1>4, <3>1 DEF Rows, Alive
    <3>3. Grown /\ Free' = Free /\ shrunk' = TRUE
      BY <1>2, <2>2, <3>2, RowsLeave
    <3>4. 1 \notin Creations
      BY <1>3, <2>2 DEF Creations
    <3>5. QED
      BY <3>3, <3>4 DEF SubmitInv
  <2>3. QED
    BY <2>1, <2>2
<1>6. NavInv'
  BY <1>2, <1>5, RowsChange
<1>7. /\ \E T : sent' \in Seq(T)
      /\ \A k \in DOMAIN sent' :
           Submission(sent[k])' /\ (k > 1 => sent'[k].answer = "none")
      /\ Creations' = Creations \ {1}
  BY <1>2, <1>4, <1>5, AnswerComes
<1>8. SubmitInv'
  BY <1>5, <1>7 DEF SubmitInv
<1>9. QED
  BY <1>6, <1>8

\* Both statements of find_page, with nothing between them.
LEMMA FetchedAgain ==
    ASSUME NEW u, GoodUrl(u), NEW p \in FetchedAtOnce(u)
    PROVE  PageOf(p, u)
<1>1. u \in Url /\ (~shrunk => Fine(u))
  BY DEF GoodUrl
<1>2. Matches(u) \in SUBSET Id /\ Count(u) \in Nat
  BY <1>1, MatchesAreRows, Constants
<1>3. Cardinality(Matches(u)) <= Count(u)
  BY <1>2 DEF Count
<1>4. PICK order \in Orders(u) : p = Fetched(u, Matches(u), order)
  BY DEF FetchedAtOnce
<1>5. QED
  BY <1>1, <1>2, <1>3, <1>4, FetchedIsPage

\* The page of the screen is rendered for the answer.
LEMMA RendersKeeps ==
    ASSUME NavInv, SubmitInv, Still, Renders
    PROVE  SubmitInv'
<1> DEFINE s == Head(sent)
<1>0. PICK p \in FetchedAtOnce(s.of) : sent' = <<[s EXCEPT !.page = p]>> \o Tail(sent)
  BY DEF Renders
<1> DEFINE x == [s EXCEPT !.page = p]
<1>1. PICK S : sent \in Seq(S)
  BY DEF SubmitInv
<1>2. sent # <<>> /\ s.answer = "ok" /\ sent' = <<x>> \o Tail(sent)
  BY <1>0 DEF Renders
<1>3. Submission(s)
  BY <1>1, <1>2, HeadIsFirst DEF SubmitInv
<1>5. PageOf(p, s.of)
  <2>1. GoodUrl(s.of)
    BY <1>3 DEF Submission
  <2>2. QED
    BY <1>0, <2>1, FetchedAgain
<1>6. Submission(x) /\ x.kind = s.kind /\ x.answer = s.answer
  BY <1>2, <1>3, <1>5 DEF Submission, Fields
<1>7. Grown
  BY StillGrows
<1> HIDE DEF x
<1>8. /\ \E T : sent' \in Seq(T)
      /\ \A k \in DOMAIN sent' :
           Submission(sent[k])' /\ (k > 1 => sent'[k].answer = "none")
      /\ Creations' = IF x.answer = "none" THEN Creations ELSE Creations \ {1}
  BY <1>2, <1>6, <1>7, HeadKeeps
<1>9. Creations' \subseteq Creations /\ Free' = Free
  BY <1>8 DEF Still, Free
<1>10. Cardinality(Creations)' <= Cardinality(Free)'
  BY <1>1, <1>9, RoomStays DEF SubmitInv
<1>11. QED
  BY <1>8, <1>10 DEF SubmitInv

\* Submissions that are only listened to less, or that wait in a shorter queue.
LEMMA ForgetsKeeps ==
    ASSUME NavInv, SubmitInv, Still, \E T : sent' \in Seq(T), DOMAIN sent' = DOMAIN sent,
           \A k \in DOMAIN sent :
             /\ Fields \subseteq DOMAIN sent'[k] /\ sent'[k].kind = sent[k].kind
             /\ sent'[k].rows = sent[k].rows /\ sent'[k].answer = sent[k].answer
             /\ sent'[k].page = sent[k].page /\ sent'[k].of = sent[k].of
    PROVE  SubmitInv'
<1>1. PICK S : sent \in Seq(S)
  BY DEF SubmitInv
<1>2. ASSUME NEW k \in DOMAIN sent'
      PROVE  Submission(sent[k])' /\ (k > 1 => sent'[k].answer = "none")
  <2>1. /\ GoodUrl(sent[k].of) /\ (sent[k].page = Broken \/ PageOf(sent[k].page, sent[k].of))
        /\ k > 1 => sent[k].answer = "none"
    BY <1>2 DEF SubmitInv, Submission
  <2>2. /\ \A v : GoodUrl(v) => GoodUrl(v)'
        /\ \A v, p : GoodUrl(v) /\ PageOf(p, v) => PageOf(p, v)'
    BY StillGrows
  <2>3. GoodUrl(sent[k].of)' /\ (sent[k].page = Broken \/ PageOf(sent[k].page, sent[k].of))'
    BY <1>2, <2>1, <2>2 DEF Broken
  <2>4. QED
    BY <1>2, <2>1, <2>3 DEF SubmitInv, Submission, Still, Offered, Broken
<1>3. Creations' = Creations /\ Free' = Free
  BY DEF Creations, Still, Free
<1>4. Cardinality(Creations)' <= Cardinality(Free)'
  BY <1>1, <1>3, RoomStays DEF SubmitInv
<1>5. QED
  BY <1>2, <1>4 DEF SubmitInv

LEMMA UnmountsForgets ==
    ASSUME NavInv, SubmitInv, Still, Unmounts
    PROVE  SubmitInv'
<1>1. PICK S : sent \in Seq(S)
  BY DEF SubmitInv
<1>2. sent' = [k \in DOMAIN sent |-> [sent[k] EXCEPT !.live = FALSE]]
  BY DEF Unmounts
<1>3. \E T : sent' \in Seq(T)
  BY <1>1, <1>2, MapIsSeq
<1>4. QED
  BY <1>2, <1>3, ForgetsKeeps DEF SubmitInv, Submission, Fields

LEMMA DismissesForgets ==
    ASSUME NavInv, SubmitInv, Still, Dismisses
    PROVE  SubmitInv'
<1>1. PICK S : sent \in Seq(S)
  BY DEF SubmitInv
<1>2. sent' = [k \in DOMAIN sent |-> Unmounted(sent[k])]
  BY DEF Dismisses
<1>3. \E T : sent' \in Seq(T)
  BY <1>1, <1>2, MapIsSeq
<1>4. QED
  BY <1>2, <1>3, ForgetsKeeps DEF SubmitInv, Submission, Fields, Unmounted

\* The queue without its head: the creations behind it move up.
LEMMA AnswersForget ==
    ASSUME NavInv, SubmitInv, Still, Answers
    PROVE  SubmitInv'
<1>1. PICK S : sent \in Seq(S)
  BY DEF SubmitInv
<1>2. sent # <<>> /\ sent' = Tail(sent) /\ Head(sent).answer # "none"
  BY DEF Answers
<1>3. /\ sent' \in Seq(S)
      /\ \A k \in DOMAIN sent' : k \in Nat /\ k + 1 \in DOMAIN sent /\ k + 1 # 1
                                 /\ sent'[k] = sent[k + 1]
  BY <1>1, <1>2, TailShifts
<1>4. ASSUME NEW k \in DOMAIN sent'
      PROVE  Submission(sent[k])' /\ (k > 1 => sent'[k].answer = "none")
  <2>1. k \in Nat /\ k >= 1 /\ k + 1 \in DOMAIN sent /\ k + 1 > 1 /\ sent'[k] = sent[k + 1]
    BY <1>3, <1>4
  <2>2. Submission(sent[k + 1]) /\ sent[k + 1].answer = "none"
    BY <2>1 DEF SubmitInv
  <2>3. \A s : Submission(s) => Submission(s)'
    BY StillGrows, SubmissionStays
  <2>4. QED
    BY <2>1, <2>2, <2>3
<1>5. Cardinality(Creations)' <= Cardinality(Free)'
  <2>1. /\ IsFiniteSet(Creations) /\ Cardinality(Creations) \in Nat /\ Cardinality(Free) \in Nat
        /\ Creations \subseteq DOMAIN sent /\ DOMAIN sent = 1..Len(sent) /\ Len(sent) \in Nat
    BY <1>1, CreationsAreFew
  <2> DEFINE C == Creations'
             up == [k \in C |-> k + 1]
  <2>2. \A k \in C : k \in Nat /\ k + 1 \in Creations
    BY <1>3 DEF Creations
  <2> HIDE DEF C
  <2>3. up \in Injection(C, Creations)
    BY <2>2 DEF Injection, IsInjective
  <2> HIDE DEF up
  <2>4. IsFiniteSet(C) /\ Cardinality(C) <= Cardinality(Creations)
    BY <2>1, <2>3, FS_Injection
  <2>5. Cardinality(C) \in Nat
    BY <2>4, FS_CardinalityType
  <2>6. Free' = Free
    BY DEF Still, Free
  <2>7. QED
    BY <2>1, <2>4, <2>5, <2>6 DEF SubmitInv, C
<1>6. QED
  BY <1>3, <1>4, <1>5 DEF SubmitInv

\* The dialog that is open sends what it is about; a creation only if there is room.
LEMMA SubmitsAdds ==
    ASSUME NavInv, SubmitInv, ReaderInv, Still, NEW filled, Submits(filled), RoomToSubmit
    PROVE  SubmitInv'
<1> DEFINE x == [kind |-> dialog.kind, filled |-> filled, live |-> TRUE,
                 rows |-> IF dialog.kind \in Bulk THEN selected ELSE {dialog.row} \ {0},
                 answer |-> "none", page |-> Broken, of |-> url]
<1>1. PICK S : sent \in Seq(S)
  BY DEF SubmitInv
<1>2. sent' = Append(sent, x) /\ dialog # Closed
  BY DEF Submits
<1>3. dialog.kind \in Offered /\ dialog.row \in {0} \cup Id /\ selected \subseteq Id
  BY <1>2 DEF ReaderInv
<1>4. Submission(x) /\ x.kind = dialog.kind /\ x.answer = "none"
  <2>1. GoodUrl(url)
    BY DEF NavInv, QueryInv
  <2>2. x.rows \subseteq Id
    BY <1>3
  <2>3. QED
    BY <1>3, <2>1, <2>2 DEF Submission, Fields
<1> HIDE DEF x
<1>5. /\ sent' \in Seq(S \cup {x}) /\ Len(sent) \in Nat /\ Len(sent') = Len(sent) + 1
      /\ DOMAIN sent = 1..Len(sent) /\ DOMAIN sent' = 1..(Len(sent) + 1)
      /\ sent'[Len(sent) + 1] = x /\ \A k \in DOMAIN sent : sent'[k] = sent[k]
  BY <1>1, <1>2
<1>6. ASSUME NEW k \in DOMAIN sent'
      PROVE  Submission(sent[k])' /\ (k > 1 => sent'[k].answer = "none")
  <2>1. Submission(sent'[k]) /\ (k > 1 => sent'[k].answer = "none")
    BY <1>4, <1>5 DEF SubmitInv
  <2>2. \A s : Submission(s) => Submission(s)'
    BY StillGrows, SubmissionStays
  <2>3. QED
    BY <2>1, <2>2
<1>7. Free' = Free
  BY DEF Still, Free
<1>8. /\ IsFiniteSet(Creations) /\ Cardinality(Creations) \in Nat /\ Cardinality(Free) \in Nat
      /\ Creations \subseteq DOMAIN sent
  BY <1>1, CreationsAreFew
<1>9. Cardinality(Creations)' <= Cardinality(Free)'
  <2>1. CASE x.kind # "create"
    <3>1. Creations' = Creations
      BY <1>5, <2>1 DEF Creations
    <3>2. QED
      BY <1>7, <3>1 DEF SubmitInv
  <2>2. CASE x.kind = "create"
    <3>1. sent' # sent /\ Len(sent') > Len(sent) /\ Last(sent') = x
      BY <1>5 DEF Last
    <3>2. Cardinality(Free) > Cardinality(Creations)
      BY <2>2, <3>1 DEF RoomToSubmit
    <3>3. Creations' = Creations \cup {Len(sent) + 1} /\ Len(sent) + 1 \notin Creations
      BY <1>4, <1>5, <1>8, <2>2 DEF Creations
    <3>4. Cardinality(Creations') = Cardinality(Creations) + 1
      BY <1>8, <3>3, FS_AddElement
    <3>5. QED
      BY <1>7, <1>8, <3>2, <3>4
  <2>3. QED
    BY <2>1, <2>2
<1>10. QED
  BY <1>5, <1>6, <1>9 DEF SubmitInv

\* The table changes, or nothing does, while the submissions wait.
LEMMA SubmissionsWait ==
    ASSUME NavInv, SubmitInv, Grown, UNCHANGED sent,
           Cardinality(Creations) <= Cardinality(Free)'
    PROVE  SubmitInv'
<1>1. \A s : Submission(s) => Submission(s)'
  BY SubmissionStays
<1>2. \A k \in DOMAIN sent' : Submission(sent[k])' /\ (k > 1 => sent'[k].answer = "none")
  BY <1>1 DEF SubmitInv
<1>3. Creations' = Creations
  BY DEF Creations
<1>4. QED
  BY <1>2, <1>3 DEF SubmitInv

LEMMA OthersKeep ==
    ASSUME NavInv, SubmitInv, UNCHANGED screen, OthersChange
    PROVE  NavInv' /\ SubmitInv'
<1>1. PICK S : sent \in Seq(S)
  BY DEF SubmitInv
<1>2. UNCHANGED screenVars /\ sent' = sent
  BY DEF OthersChange
<1>3. /\ shrunk \in BOOLEAN /\ table \in Rows
  BY DEF NavInv, QueryInv, Rows
<1>4. /\ Cardinality(Creations) \in Nat /\ Cardinality(Free) \in Nat
      /\ Cardinality(Creations) <= Cardinality(Free)
  BY <1>1, CreationsAreFew DEF SubmitInv
<1>5. Grown /\ shrunk' \in BOOLEAN /\ Cardinality(Creations) <= Cardinality(Free)'
  <2>1. CASE /\ Cardinality(Free) > Cardinality(Creations)
             /\ table' = [table EXCEPT ![First(Free)] = "draft"]
             /\ UNCHANGED shrunk
    <3>1. Free # {}
      BY <1>4, <2>1, FS_EmptySet
    <3>2. Grown /\ Cardinality(Free)' = Cardinality(Free) - 1
      BY <2>1, <3>1, RowIsCreated
    <3>3. QED
      BY <1>3, <1>4, <2>1, <3>2
  <2>2. ASSUME NEW i \in Id, NEW to \in {"draft", "published", "gone"},
               Alive(i), table' = [table EXCEPT ![i] = to], shrunk' = TRUE
        PROVE  Grown /\ shrunk' \in BOOLEAN /\ Cardinality(Creations) <= Cardinality(Free)'
    <3>1. /\ table' \in Rows
          /\ \A j \in Id : table[j] = "none" <=> table'[j] = "none"
      BY <1>3, <2>2 DEF Rows, Alive
    <3>2. Grown /\ Free' = Free
      BY <2>2, <3>1, RowsLeave
    <3>3. QED
      BY <1>4, <2>2, <3>2
  <2>3. QED
    BY <2>1, <2>2 DEF OthersChange
<1>6. QED
  BY <1>2, <1>5, RowsChange, SubmissionsWait

LEMMA NothingOfQuery ==
    ASSUME NavInv, UNCHANGED queryVars
    PROVE  NavInv' /\ Still
<1>1. Still
  BY DEF Still
<1>2. Grown /\ shrunk' \in BOOLEAN
  BY <1>1, StillGrows DEF NavInv, QueryInv, Still
<1>3. QED
  BY <1>1, <1>2, RowsChange

LEMMA SentStays ==
    ASSUME NavInv, SubmitInv, Still, UNCHANGED sent
    PROVE  SubmitInv'
<1>1. Grown /\ Free' = Free
  BY StillGrows DEF Still, Free
<1>2. QED
  BY <1>1, SubmissionsWait DEF SubmitInv

\* The rows on the screen are rows of the table.
LEMMA ShownAreRows ==
    ASSUME NavInv
    PROVE  ItemsOf(shown) \subseteq Id
<1>1. CASE shown = Broken
  BY <1>1 DEF Broken, ItemsOf
<1>2. CASE PageOf(shown, url)
  BY <1>2 DEF PageOf
<1>3. QED
  BY <1>1, <1>2 DEF NavInv, QueryInv

LEMMA ReaderKeeps ==
    ASSUME NavInv, SubmitInv, ReaderInv, [Next]_vars
    PROVE  ReaderInv'
<1>1. acts' \in 0..MaxActs
  BY ScreenAssumption DEF ReaderInv, Next, Act, GiveUp, React
<1>2. screen' = screen
  BY DEF Next, Act, GiveUp, React, Answers, Refetches, Refuses, Applies, Renders, Dismisses,
         Reloads, TimerFires, Counts, Fetches, Commit
<1>3. Offered' = Offered /\ Offered \subseteq Kind
  BY <1>2 DEF Offered, Kind
<1>4. ItemsOf(shown) \subseteq Id
  BY ShownAreRows
<1>5. CASE UNCHANGED <<selected, dialog, pending, refresh, gone>>
  BY <1>1, <1>3, <1>5 DEF ReaderInv, Closed
<1>6. CASE Works
  <2>1. ASSUME NEW checked, SelectsAll(checked)
        PROVE  ReaderInv'
    BY <1>1, <1>3, <1>4, <2>1 DEF SelectsAll, ReaderInv, Closed
  <2>2. ASSUME NEW row \in ItemsOf(shown), SelectsOne(row)
        PROVE  ReaderInv'
    BY <1>1, <1>3, <1>4, <2>2 DEF SelectsOne, ReaderInv, Closed
  <2>3. ASSUME NEW kind \in Kind, NEW row \in {0} \cup ItemsOf(shown), Opens(kind, row)
        PROVE  ReaderInv'
    <3>1. /\ dialog' = [kind |-> kind, row |-> row] /\ kind \in Offered
          /\ UNCHANGED <<selected, refresh, gone>> /\ pending' \subseteq pending
      BY <2>3 DEF Opens, Mounted
    <3>2. dialog' \in [kind : Offered, row : {0} \cup Id]
      BY <1>4, <3>1
    <3>3. QED
      BY <1>1, <1>3, <3>1, <3>2 DEF ReaderInv, Closed
  <2>4. ASSUME NEW filled, Submits(filled)
        PROVE  ReaderInv'
    <3>1. /\ dialog # Closed /\ dialog' = dialog /\ pending' = pending \cup {dialog.kind}
          /\ UNCHANGED <<selected, refresh, gone>>
      BY <2>4 DEF Submits
    <3>2. dialog.kind \in Kind
      BY <1>3, <3>1 DEF ReaderInv
    <3>3. QED
      BY <1>1, <1>3, <3>1, <3>2 DEF ReaderInv, Closed
  <2>5. QED
    BY <1>6, <2>1, <2>2, <2>3, <2>4 DEF Works
<1>7. CASE Unmounts
  BY <1>1, <1>3, <1>7 DEF Unmounts, ReaderInv, Closed
<1>8. CASE Dismisses
  BY <1>1, <1>3, <1>8 DEF Dismisses, ReaderInv, Closed
<1>9. CASE Answers
  <2>1. PICK S : sent \in Seq(S)
    BY DEF SubmitInv
  <2>2. Head(sent).rows \subseteq Id
    <3>1. sent # <<>>
      BY <1>9 DEF Answers
    <3>2. QED
      BY <2>1, <3>1, HeadIsFirst DEF SubmitInv, Submission
  <2>3. /\ selected' = selected /\ (dialog' = dialog \/ dialog' = Closed)
        /\ pending' \subseteq pending /\ gone' \subseteq gone \cup Head(sent).rows
        /\ refresh' \in BOOLEAN
    BY <1>9 DEF Answers, ReaderInv
  <2>4. QED
    BY <1>1, <1>3, <2>2, <2>3 DEF ReaderInv, Closed
<1>10. CASE Refetches
  BY <1>1, <1>3, <1>10 DEF Refetches, ReaderInv, Closed
<1>11. QED
  BY <1>5, <1>6, <1>7, <1>8, <1>9, <1>10
     DEF Next, Act, GiveUp, React, CallFails, Refuses, Applies, Renders, OthersChange

LEMMA AnswersShow ==
    ASSUME NavInv, SubmitInv, UNCHANGED screen, Answers \/ Refetches
    PROVE  NavInv' /\ Still
<1>1. Still /\ UNCHANGED <<url, hist, at, going, busy, term, timer>>
  BY DEF Answers, Refetches, Still
<1>2. shown' = shown \/ PageOf(shown', url)
  <2>1. CASE Answers
    <3>1. PICK S : sent \in Seq(S)
      BY DEF SubmitInv
    <3>2. sent # <<>>
      BY <2>1 DEF Answers
    <3>3. Submission(Head(sent))
      BY <3>1, <3>2, HeadIsFirst DEF SubmitInv
    <3>4. shown' = shown \/ (shown' = Head(sent).page /\ Head(sent).page # Broken
                             /\ url = Head(sent).of)
      BY <2>1 DEF Answers
    <3>5. QED
      BY <3>3, <3>4 DEF Submission
  <2>2. CASE Refetches
    <3>1. ASSUME NEW p \in FetchedAtOnce(url) PROVE PageOf(p, url)
      BY FetchedAgain DEF NavInv, QueryInv
    <3>2. GoodUrl(url) /\ (shown' = shown \/ shown' \in FetchedAtOnce(url))
      BY <2>2 DEF Refetches, NavInv, QueryInv
    <3>3. QED
      BY <3>1, <3>2
  <2>3. QED
    BY <2>1, <2>2
<1>3. QED
  BY <1>1, <1>2, ShowsAgain

ListInv == NavInv /\ SubmitInv /\ ReaderInv

LEMMA ListStep == ListInv /\ [Next]_vars => ListInv'
<1> SUFFICES ASSUME NavInv, SubmitInv, ReaderInv, [Next]_vars
             PROVE  NavInv' /\ SubmitInv'
  BY ReaderKeeps DEF ListInv
<1>1. CASE UNCHANGED vars
  BY <1>1, NothingOfQuery, SentStays
<1>2. CASE UNCHANGED screen /\ UNCHANGED dialogVars
           /\ (Navigates \/ (\E to \in {at - 1, at + 1} : Travels(to))
               \/ TimerFires \/ Counts \/ Fetches \/ Commit \/ Reloads)
  <2>1. Still
    BY <1>2 DEF Still, Navigates, Types, Filters, Sorts, PreviousPage, NextPage, TurnsTo,
                RowsPerPage, Clicks, Travels, TimerFires, Counts, Fetches, Commit, Arrives, Reloads
  <2>2. NavInv'
    BY <1>2, <2>1, ReaderNavigates, OnTheWay, ServerKeeps, CommitKeeps
  <2>3. QED
    BY <1>2, <2>1, <2>2, SentStays
<1>3. CASE Works /\ RoomToSubmit
  <2>1. UNCHANGED queryVars
    BY <1>3 DEF Works, SelectsAll, SelectsOne, Opens, Submits
  <2>2. NavInv' /\ Still
    BY <2>1, NothingOfQuery
  <2>3. sent' = sent \/ \E filled \in BOOLEAN : Submits(filled)
    BY <1>3 DEF Works, SelectsAll, SelectsOne, Opens
  <2>4. QED
    BY <1>3, <2>2, <2>3, SentStays, SubmitsAdds
<1>4. CASE PageFails /\ Unmounts /\ UNCHANGED screen
  <2>1. Still
    BY <1>4 DEF Still, PageFails, Arrives
  <2>2. QED
    BY <1>4, <2>1, CommitKeeps, UnmountsForgets
<1>5. CASE UNCHANGED screen /\ \E answer \in {"ok", "failed"} : Applies(answer)
  BY <1>5, AppliesKeeps
<1>6. CASE /\ UNCHANGED queryVars /\ sent # <<>> /\ Head(sent).answer = "none"
           /\ \E answer \in {"refused", "failed"} : sent' = Answered(Head(sent), answer)
  BY <1>6, NothingOfQuery, RefusesKeeps
<1>7. CASE UNCHANGED screen /\ OthersChange
  BY <1>7, OthersKeep
<1>8. CASE Dismisses
  <2>1. NavInv' /\ Still
    BY <1>8, NothingOfQuery DEF Dismisses
  <2>2. QED
    BY <1>8, <2>1, DismissesForgets
<1>9. CASE Renders
  <2>1. NavInv' /\ Still
    BY <1>9, NothingOfQuery DEF Renders
  <2>2. QED
    BY <1>9, <2>1, RendersKeeps
<1>10. CASE UNCHANGED screen /\ Answers
  BY <1>10, AnswersShow, AnswersForget
<1>11. CASE UNCHANGED screen /\ Refetches
  <2>1. sent' = sent
    BY <1>11 DEF Refetches
  <2>2. QED
    BY <1>11, <2>1, AnswersShow, SentStays
<1>12. CASE Act
  BY <1>2, <1>3, <1>4, <1>5, <1>6, <1>7, <1>12 DEF Act, CallFails
<1>13. CASE GiveUp
  BY <1>2, <1>8, <1>13 DEF GiveUp
<1>14. CASE React
  <2>1. Refuses => /\ UNCHANGED queryVars /\ sent # <<>> /\ Head(sent).answer = "none"
                   /\ sent' = Answered(Head(sent), "refused")
    BY DEF Refuses
  <2>2. QED
    BY <1>2, <1>5, <1>6, <1>9, <1>10, <1>11, <1>14, <2>1 DEF React
<1>15. QED
  BY <1>1, <1>12, <1>13, <1>14 DEF Next

LEMMA ListInit == Init => ListInv
<1> SUFFICES ASSUME Init
             PROVE  ListInv
  OBVIOUS
<1>1. /\ screen \in Screens /\ url = Absent /\ hist = <<Absent>> /\ at = 1
      /\ shown \in FetchedAtOnce(Absent) /\ going = Nowhere /\ busy = FALSE
      /\ term = "" /\ timer = Off /\ shrunk = FALSE
      /\ table = [i \in Id |-> IF i <= FirstRows THEN "draft" ELSE "none"]
  BY DEF Init, QueryInit
<1>2. selected = {} /\ dialog = Closed /\ pending = {} /\ sent = <<>> /\ refresh = FALSE
      /\ gone = {} /\ acts = 0
  BY DEF Init, DialogsInit
<1>3. GoodUrl(Absent) /\ Absent \in Url
  <2>1. Absent.page = 0
    BY DEF Absent
  <2>2. QED
    BY <2>1, Constants, FirstPageIsGood
<1>4. PageOf(shown, url)
  BY <1>1, <1>3, FetchedAgain
<1>5. hist \in Seq(Url) /\ at \in DOMAIN hist /\ \A k \in DOMAIN hist : hist[k] = Absent
  <2>1. ASSUME NEW x \in Url
        PROVE  <<x>> \in Seq(Url) /\ DOMAIN <<x>> = {1} /\ <<x>>[1] = x
    OBVIOUS
  <2>2. QED
    BY <1>1, <1>3, <2>1
<1>6. QueryInv
  BY <1>1, <1>3, <1>4, <1>5, QueryAssumption DEF QueryInv
<1>7. GoingInv
  BY <1>1 DEF GoingInv, Nowhere
<1>8. SubmitInv
  <2>1. sent \in Seq({}) /\ DOMAIN sent = {}
    BY <1>2
  <2>2. Creations = {}
    BY <2>1 DEF Creations
  <2>3. Cardinality(Creations) = 0 /\ Cardinality(Free) \in Nat
    BY <2>1, <2>2, FS_EmptySet, CreationsAreFew
  <2>4. QED
    BY <2>1, <2>3 DEF SubmitInv
<1>9. ReaderInv
  <2>1. acts \in 0..MaxActs
    BY <1>2, ScreenAssumption
  <2>2. QED
    BY <1>2, <2>1 DEF ReaderInv
<1>10. QED
  BY <1>6, <1>7, <1>8, <1>9 DEF ListInv, NavInv

LEMMA ListInvHolds == Spec => []ListInv
  BY ListInit, ListStep, PTL DEF Spec

-----------------------------------------------------------------------------
\* The variables of the list, the dialogs and the queue of submissions have their types.
THEOREM ScreenTypeOKHolds == Spec => []ScreenTypeOK
<1>1. ListInv => ScreenTypeOK
  <2> SUFFICES ASSUME ListInv
               PROVE  ScreenTypeOK
    OBVIOUS
  <2>1. ItemsOf(shown) \subseteq Id /\ shown.total \in 0..MaxRows
    <3>1. Broken.total = 0 /\ 0 \in 0..MaxRows
      BY Constants DEF Broken
    <3>2. QED
      BY <3>1, ShownAreRows DEF ListInv, NavInv, QueryInv, PageOf
  <2>2. hist # <<>> /\ Len(hist) > 0 /\ \A k \in DOMAIN hist : hist[k] \in Url
    BY DEF ListInv, NavInv, QueryInv
  <2>3. QueryTypeOK
    BY <2>1, <2>2 DEF ListInv, NavInv, QueryInv, GoingInv, QueryTypeOK, GoodUrl
  <2>4. DialogsTypeOK
    BY DEF ListInv, SubmitInv, Submission, ReaderInv, DialogsTypeOK
  <2>5. QED
    BY <2>3, <2>4 DEF ListInv, ReaderInv, ScreenTypeOK
<1>2. QED
  BY <1>1, ListInvHolds, PTL

\* AppCrud and useCrudQuery: as long as no row leaves the list, the footer, the search
\* box, the filters, the headers and the browser's history, also when they replace a
\* navigation that is still loading, only lead to pages that have rows, unless nothing
\* matches.
THEOREM NoEmptyPageHolds == Spec => []NoEmptyPage
<1>1. ListInv => NoEmptyPage
  BY DEF ListInv, NavInv, QueryInv, PageOf, NoEmptyPage, Usable
<1>2. QED
  BY <1>1, ListInvHolds, PTL

\* "Showing {from}-{to} of {total}" says which rows of the list, as the database ordered
\* it, the table shows; the total is that of this list unless a row came or left between
\* the statement that counts and the one that fetches; and the button to the next page is
\* there when the total says there are more.
THEOREM FooterTrueHolds == Spec => []FooterTrue
<1>1. ListInv => FooterTrue
  BY DEF ListInv, NavInv, QueryInv, PageOf, FooterOf, FooterTrue, Usable
<1>2. QED
  BY <1>1, ListInvHolds, PTL

-----------------------------------------------------------------------------
(* The pages of a list. *)

\* More come before what comes later.
LEMMA RankGrows ==
    ASSUME NEW S, IsFiniteSet(S), NEW key \in [S -> Nat], NEW i \in S, NEW j \in S, key[j] < key[i]
    PROVE  /\ Cardinality(Less(S, key, j)) \in Nat /\ Cardinality(Less(S, key, i)) \in Nat
           /\ Cardinality(Less(S, key, j)) < Cardinality(Less(S, key, i))
<1> DEFINE I == Less(S, key, i)
           J == Less(S, key, j)
<1>1. I \subseteq S /\ J \subseteq S
  BY DEF Less
<1>2. J \subseteq I /\ j \in I /\ j \notin J
  <2>1. \A x \in S : key[x] \in Nat
    OBVIOUS
  <2>2. QED
    BY <2>1 DEF Less
<1> HIDE DEF I, J
<1>3. IsFiniteSet(I) /\ IsFiniteSet(J)
  BY <1>1, FS_Subset
<1>4. Cardinality(I) \in Nat /\ Cardinality(J) \in Nat
  BY <1>3, FS_CardinalityType
<1>5. Cardinality(J) <= Cardinality(I) /\ Cardinality(J) # Cardinality(I)
  BY <1>2, <1>3, FS_Subset
<1>6. QED
  BY <1>4, <1>5 DEF I, J

LEMMA Times ==
    ASSUME NEW a \in Nat, NEW b \in Nat, NEW n \in Nat, a <= b
    PROVE  a * n \in Nat /\ b * n \in Nat /\ a * n <= b * n
<1>1. PICK d \in Nat : b = a + d
  <2>1. b - a \in Nat /\ b = a + (b - a)
    OBVIOUS
  <2>2. QED
    BY <2>1
<1>2. b * n = a * n + d * n /\ d * n \in Nat /\ a * n \in Nat
  BY <1>1
<1>3. QED
  BY <1>2

LEMMA ValuesAreNat ==
    ASSUME NEW u \in Url, NEW i \in Id
    PROVE  SortValue(u, i) \in Nat
<1>1. u.sort_by \in {""} \cup SortKey
  BY DEF Url
<1>0. i \in Nat
  <2>1. MaxRows \in Nat /\ i \in 1..MaxRows
    BY Constants
  <2>2. QED
    BY <2>1
<1>2. ASSUME NEW key \in SortKey, key # "published"
      PROVE  Value[key][i] \in Nat
  <2>1. Value[key] \in [Id -> Nat]
    BY <1>2, QueryAssumption
  <2>2. QED
    BY <2>1
<1>3. QED
  BY <1>0, <1>1, <1>2 DEF SortValue

\* A column orders the rows up to ties.
LEMMA WeakOrder ==
    ASSUME NEW u \in Url, NEW i \in Id, NEW j \in Id, NEW l \in Id
    PROVE  /\ ~Before(u, i, i)
           /\ ~Before(u, i, j) /\ Before(u, i, l) => Before(u, j, l)
           /\ ~Before(u, i, j) /\ ~Before(u, j, i) => SortValue(u, i) = SortValue(u, j)
<1>1. SortValue(u, i) \in Nat /\ SortValue(u, j) \in Nat /\ SortValue(u, l) \in Nat
  BY ValuesAreNat
<1>2. QED
  BY <1>1 DEF Before

\* Rows with keys that no two of them share can be listed.
LEMMA Sorted ==
    ASSUME NEW S, IsFiniteSet(S), NEW key \in [S -> Nat],
           \A i, j \in S : key[i] = key[j] => i = j
    PROVE  \E s \in [1..Cardinality(S) -> S] :
             \A k, l \in 1..Cardinality(S) :
               k < l => s[k] # s[l] /\ key[s[k]] <= key[s[l]]
<1> DEFINE n == Cardinality(S)
           Rank(i) == Cardinality(Less(S, key, i))
           s == [k \in 1..n |-> CHOOSE i \in S : Rank(i) = k - 1]
<1>1. n \in Nat
  BY FS_CardinalityType
<1>2. ASSUME NEW k \in 1..n
      PROVE  s[k] \in S /\ Rank(s[k]) = k - 1
  <2>1. k - 1 \in 0..(Cardinality(S) - 1)
    BY <1>1
  <2>2. \E i \in S : Rank(i) = k - 1
    BY <2>1, Ranked
  <2>3. s[k] = CHOOSE i \in S : Rank(i) = k - 1
    OBVIOUS
  <2> HIDE DEF Rank, s
  <2>4. QED
    BY <2>2, <2>3
<1>3. s \in [1..n -> S]
  BY <1>2
<1>4. ASSUME NEW i \in S, NEW j \in S, key[j] < key[i]
      PROVE  Rank(j) \in Nat /\ Rank(i) \in Nat /\ Rank(j) < Rank(i)
  BY <1>4, RankGrows
<1> HIDE DEF s, Rank
<1>5. ASSUME NEW k \in 1..n, NEW l \in 1..n, k < l
      PROVE  s[k] # s[l] /\ key[s[k]] <= key[s[l]]
  <2>1. PICK i \in S, j \in S : i = s[k] /\ j = s[l]
    BY <1>2
  <2>2. Rank(i) = k - 1 /\ Rank(j) = l - 1
    BY <1>2, <2>1
  <2>3. i # j /\ ~(key[j] < key[i])
    BY <1>4, <1>5, <2>2
  <2>4. QED
    BY <2>1, <2>3
<1>6. QED
  BY <1>3, <1>5 DEF n

LEMMA SomeOrder ==
    ASSUME NEW u \in Url
    PROVE  Orders(u) # {}
<1> DEFINE S == Matches(u)
           n == Cardinality(S)
           V(i) == SortValue(u, i)
           key == [i \in S |-> V(i) * (MaxRows + 1) + i]
<1>1. S \subseteq 1..MaxRows /\ IsFiniteSet(S) /\ n \in Nat /\ MaxRows \in Nat
  BY MatchesAreRows, Constants DEF Count
<1>2. \A i \in S : V(i) \in Nat
  BY <1>1, ValuesAreNat, Constants
<1> HIDE DEF V
<1>3. \A i \in S : V(i) * (MaxRows + 1) \in Nat
  BY <1>1, <1>2
<1>4. key \in [S -> Nat]
  BY <1>1, <1>3
<1>5. ASSUME NEW i \in S, NEW j \in S, V(j) < V(i)
      PROVE  key[j] < key[i]
  <2>1. V(j) + 1 \in Nat /\ V(i) \in Nat /\ V(j) + 1 <= V(i) /\ MaxRows + 1 \in Nat
    BY <1>1, <1>2, <1>5
  <2>2. (V(j) + 1) * (MaxRows + 1) <= V(i) * (MaxRows + 1)
    BY <2>1, Times
  <2>3. (V(j) + 1) * (MaxRows + 1) = V(j) * (MaxRows + 1) + (MaxRows + 1)
    BY <1>1, <1>2
  <2>4. j \in Nat /\ j <= MaxRows /\ i \in Nat /\ i > 0
    BY <1>1
  <2>5. QED
    BY <1>1, <1>3, <2>2, <2>3, <2>4
<1>6. ASSUME NEW i \in S, NEW j \in S, key[i] = key[j]
      PROVE  i = j
  <2>1. key[i] \in Nat /\ key[j] \in Nat
    BY <1>4
  <2>2. ~(V(i) < V(j)) /\ ~(V(j) < V(i))
    BY <1>5, <1>6, <2>1
  <2>3. V(i) = V(j)
    BY <1>2, <2>2
  <2>4. key[i] = V(i) * (MaxRows + 1) + i /\ key[j] = V(i) * (MaxRows + 1) + j
    BY <2>3
  <2> HIDE DEF key
  <2>5. i \in Nat /\ j \in Nat
    BY <1>1
  <2>6. PICK w \in Nat : w = V(i) * (MaxRows + 1)
    BY <1>3
  <2>7. w + i = w + j
    BY <1>6, <2>4, <2>6
  <2>8. QED
    BY <2>5, <2>7
<1> HIDE DEF S, key
<1>7. PICK s \in [1..n -> S] :
        \A k, l \in 1..n : k < l => s[k] # s[l] /\ key[s[k]] <= key[s[l]]
  BY <1>1, <1>4, <1>6, Sorted DEF n
<1>8. ASSUME NEW k \in 1..n, NEW l \in 1..n, k < l
      PROVE  s[k] # s[l] /\ ~(V(s[l]) < V(s[k]))
  <2>1. PICK i \in S, j \in S : i = s[k] /\ j = s[l]
    BY <1>7
  <2>2. key[i] <= key[j] /\ key[i] \in Nat /\ key[j] \in Nat /\ i # j
    BY <1>4, <1>7, <1>8, <2>1
  <2>3. QED
    BY <1>5, <2>1, <2>2
<1> HIDE DEF n
<1>9. CASE u.sort_dir = "asc"
  <2>1. \A k, l \in DOMAIN s : k < l => s[k] # s[l] /\ ~Before(u, s[l], s[k])
    BY <1>8, <1>9 DEF Before, V
  <2>2. s \in Orders(u)
    BY <2>1 DEF Orders, S, n
  <2>3. QED
    BY <2>2
<1>10. CASE u.sort_dir # "asc"
  <2> DEFINE t == [k \in 1..n |-> s[n + 1 - k]]
  <2>1. \A k \in 1..n : n + 1 - k \in 1..n
    BY <1>1
  <2>2. t \in [1..n -> S]
    BY <2>1
  <2>3. ASSUME NEW k \in 1..n, NEW l \in 1..n, k < l
        PROVE  t[k] # t[l] /\ ~(V(t[k]) < V(t[l]))
    <3>1. n + 1 - l < n + 1 - k
      BY <1>1, <2>3
    <3>2. s[n + 1 - l] # s[n + 1 - k] /\ ~(V(s[n + 1 - k]) < V(s[n + 1 - l]))
      BY <1>8, <2>1, <3>1
    <3>3. QED
      BY <3>2
  <2> HIDE DEF t
  <2>4. \A k, l \in DOMAIN t : k < l => t[k] # t[l] /\ ~Before(u, t[l], t[k])
    BY <1>10, <2>2, <2>3 DEF Before, V
  <2>5. t \in Orders(u)
    BY <2>2, <2>4 DEF Orders, S, n
  <2>6. QED
    BY <2>5
<1>11. QED
  BY <1>9, <1>10

LEMMA EachIsListed ==
    ASSUME NEW u \in Url, NEW s \in Orders(u), NEW i \in Matches(u)
    PROVE  \E k \in DOMAIN s : s[k] = i
<1> DEFINE S == Matches(u)
           n == Cardinality(S)
<1>1. IsFiniteSet(S) /\ n \in Nat
  BY MatchesAreRows, Constants DEF Count
<1>2. s \in [1..n -> S] /\ \A k, l \in 1..n : k < l => s[k] # s[l]
  BY DEF Orders
<1> HIDE DEF S, n
<1>3. \A k, l \in 1..n : s[k] = s[l] => k = l
  <2>1. ASSUME NEW k \in 1..n, NEW l \in 1..n, s[k] = s[l], k # l
        PROVE  FALSE
    <3>1. k < l \/ l < k
      BY <1>1, <2>1
    <3>2. QED
      BY <1>2, <2>1, <3>1
  <2>2. QED
    BY <2>1
<1>4. s \in Injection(1..n, S)
  BY <1>2, <1>3 DEF Injection, IsInjective
<1>5. IsFiniteSet(1..n) /\ Cardinality(1..n) = Cardinality(S)
  BY <1>1, FS_Interval DEF n
<1>6. s \in Surjection(1..n, S)
  BY <1>1, <1>4, <1>5, FS_Injection
<1>7. QED
  BY <1>2, <1>6 DEF Surjection, S

\* Whatever stands at a place in one order does not come before what stands there in
\* another: what comes before the latter has too few places.
LEMMA NoneComesBefore ==
    ASSUME NEW u \in Url, NEW s \in Orders(u), NEW t \in Orders(u), NEW k \in DOMAIN s,
           Before(u, s[k], t[k])
    PROVE  FALSE
<1> DEFINE n == Cardinality(Matches(u))
           Place(j) == CHOOSE p \in 1..n : t[p] = s[j]
           f == [j \in 1..k |-> Place(j)]
<1>1. n \in Nat /\ Matches(u) \subseteq Id
  BY MatchesAreRows, Constants DEF Count
<1>2. /\ s \in [1..n -> Matches(u)] /\ t \in [1..n -> Matches(u)]
      /\ \A j, l \in 1..n : j < l => s[j] # s[l] /\ ~Before(u, s[l], s[j])
      /\ \A j, l \in 1..n : j < l => ~Before(u, t[l], t[j])
  BY DEF Orders
<1> HIDE DEF n
<1>3. k \in 1..n /\ k \in Nat /\ 1..k \subseteq 1..n
  BY <1>1, <1>2
<1>4. ASSUME NEW j \in 1..k
      PROVE  Place(j) \in 1..(k - 1) /\ t[Place(j)] = s[j]
  <2>1. j \in 1..n /\ s[j] \in Matches(u)
    BY <1>2, <1>3
  <2>2. \E p \in 1..n : t[p] = s[j]
    BY <1>2, <2>1, EachIsListed
  <2>3. PICK p \in 1..n : p = Place(j) /\ t[p] = s[j]
    BY <2>2
  <2> HIDE DEF Place
  <2>4. Before(u, s[j], t[k])
    <3>1. CASE j = k
      BY <3>1
    <3>2. CASE j # k
      <4>1. ~Before(u, s[k], s[j])
        BY <1>2, <1>3, <2>1, <3>2
      <4>2. s[k] \in Id /\ s[j] \in Id /\ t[k] \in Id
        BY <1>1, <1>2, <1>3, <2>1
      <4>3. QED
        BY <4>1, <4>2, WeakOrder
    <3>3. QED
      BY <3>1, <3>2
  <2>5. p < k
    <3>1. t[p] \in Id
      BY <1>1, <1>2
    <3>2. p # k
      BY <2>3, <2>4, <3>1, WeakOrder
    <3>3. ~(k < p)
      BY <1>2, <1>3, <2>3, <2>4
    <3>4. QED
      BY <1>3, <3>2, <3>3
  <2>6. QED
    BY <1>3, <2>3, <2>5
<1>5. f \in [1..k -> 1..(k - 1)]
  BY <1>4
<1>6. /\ IsFiniteSet(1..k) /\ Cardinality(1..k) = k
      /\ IsFiniteSet(1..(k - 1)) /\ Cardinality(1..(k - 1)) = k - 1
  <2>1. k - 1 \in Int /\ k > 0
    BY <1>3
  <2>2. QED
    BY <1>3, <2>1, FS_Interval
<1>7. Cardinality(1..(k - 1)) < Cardinality(1..k)
  BY <1>3, <1>6
<1>8. PICK x \in 1..k, y \in 1..k : x # y /\ f[x] = f[y]
  <2> HIDE DEF f
  <2>1. QED
    BY <1>5, <1>6, <1>7, FS_PigeonHole
<1>9. s[x] = s[y]
  <2>1. Place(x) = Place(y)
    BY <1>8
  <2> HIDE DEF Place
  <2>2. QED
    BY <1>4, <2>1
<1>10. (x < y \/ y < x) /\ x \in 1..n /\ y \in 1..n
  BY <1>3, <1>8
<1>11. QED
  BY <1>2, <1>9, <1>10

\* sort_order: ORDER BY one column leaves nothing open but ties.  There is an order to
\* list the rows in, each of them has all the rows that match, and two orders hold equal
\* values at the same place.
THEOREM OnlyTiesAreOpen ==
    ASSUME NEW u \in Url
    PROVE  /\ Orders(u) # {}
           /\ \A s \in Orders(u), i \in Matches(u) : \E k \in DOMAIN s : s[k] = i
           /\ \A s, t \in Orders(u) :
                \A k \in DOMAIN s : SortValue(u, s[k]) = SortValue(u, t[k])
<1>1. ASSUME NEW s \in Orders(u), NEW t \in Orders(u), NEW k \in DOMAIN s
      PROVE  SortValue(u, s[k]) = SortValue(u, t[k])
  <2>1. k \in DOMAIN t /\ s[k] \in Id /\ t[k] \in Id
    BY MatchesAreRows DEF Orders
  <2>2. ~Before(u, s[k], t[k]) /\ ~Before(u, t[k], s[k])
    BY <2>1, NoneComesBefore
  <2>3. QED
    BY <2>1, <2>2, WeakOrder
<1>2. QED
  BY <1>1, SomeOrder, EachIsListed

\* A place is on one page only.
LEMMA OnePage ==
    ASSUME NEW k \in Nat \ {0}, NEW n \in Nat \ {0}
    PROVE  \E p \in Nat \ {0} :
             /\ (p - 1) * n < k /\ k <= p * n
             /\ \A q \in Nat \ {0} : (q - 1) * n < k /\ k <= q * n => q = p
<1> DEFINE d == (k - 1) \div n
           p == d + 1
<1>1. d \in Nat /\ d * n <= k - 1 /\ k - 1 < (d + 1) * n
  <2>1. d \in Nat
    OBVIOUS
  <2>2. d * n <= k - 1
    OBVIOUS
  <2>3. k - 1 < (d + 1) * n
    OBVIOUS
  <2>4. QED
    BY <2>1, <2>2, <2>3
<1> HIDE DEF d
<1>2. p \in Nat \ {0} /\ p - 1 = d
  BY <1>1
<1>3. d * n \in Int /\ (d + 1) * n \in Int
  BY <1>1
<1>4. (p - 1) * n < k /\ k <= p * n
  BY <1>1, <1>2, <1>3
<1>5. ASSUME NEW q \in Nat \ {0}, (q - 1) * n < k, k <= q * n
      PROVE  q = p
  <2>1. CASE q < p
    <3>1. q <= d /\ q \in Nat
      BY <1>1, <2>1
    <3>2. q * n <= d * n /\ q * n \in Nat /\ d * n \in Nat
      BY <1>1, <3>1, Times
    <3>3. QED
      BY <1>1, <1>5, <3>2
  <2>2. CASE q > p
    <3>1. d + 1 <= q - 1 /\ q - 1 \in Nat /\ d + 1 \in Nat
      BY <1>1, <2>2
    <3>2. (d + 1) * n <= (q - 1) * n /\ (q - 1) * n \in Nat /\ (d + 1) * n \in Nat
      BY <3>1, Times
    <3>3. QED
      BY <1>1, <1>5, <3>2
  <2>3. QED
    BY <1>2, <2>1, <2>2
<1>6. QED
  BY <1>2, <1>4, <1>5

\* What is on the page that is cut from a list.
LEMMA OnThePage ==
    ASSUME NEW S, NEW s \in Seq(S), NEW off \in Nat, NEW n \in Nat \ {0}, NEW x
    PROVE  LET c == SubSeq(s, off + 1, Smallest(off + n, Len(s)))
           IN x \in {c[j] : j \in 1..Len(c)}
                <=> \E k \in 1..Len(s) : s[k] = x /\ off < k /\ k <= off + n
<1> DEFINE to == Smallest(off + n, Len(s))
           c == SubSeq(s, off + 1, to)
<1>1. Len(s) \in Nat /\ to \in Nat /\ to <= Len(s) /\ to <= off + n
      /\ (to = Len(s) \/ to = off + n)
  BY DEF Smallest
<1> HIDE DEF to
<1>2. /\ Len(c) = IF off + 1 <= to THEN to - off ELSE 0
      /\ \A j \in 1..Len(c) : c[j] = s[off + j]
  <2>1. CASE off + 1 <= to
    BY <1>1, <2>1
  <2>2. CASE ~(off + 1 <= to)
    BY <1>1, <2>2
  <2>3. QED
    BY <2>1, <2>2
<1> HIDE DEF c
<1>3. ASSUME NEW j \in 1..Len(c), c[j] = x
      PROVE  \E k \in 1..Len(s) : s[k] = x /\ off < k /\ k <= off + n
  <2>1. off + j \in 1..Len(s) /\ off < off + j /\ off + j <= off + n
    BY <1>1, <1>2
  <2>2. QED
    BY <1>2, <1>3, <2>1
<1>4. ASSUME NEW k \in 1..Len(s), s[k] = x, off < k, k <= off + n
      PROVE  \E j \in 1..Len(c) : c[j] = x
  <2>1. k <= to /\ off + 1 <= to
    BY <1>1, <1>4
  <2>2. k - off \in 1..Len(c) /\ off + (k - off) = k
    BY <1>1, <1>2, <1>4, <2>1
  <2>3. c[k - off] = s[k]
    BY <1>2, <2>2
  <2>4. QED
    BY <1>4, <2>2, <2>3
<1>5. x \in {c[j] : j \in 1..Len(c)} <=> \E j \in 1..Len(c) : c[j] = x
  OBVIOUS
<1>6. QED
  BY <1>3, <1>4, <1>5 DEF c, to

LEMMA OneOrder ==
    ASSUME NEW u \in Url, NEW s \in Orders(u), NEW r \in Orders(u),
           \A a, b \in Matches(u) : SortValue(u, a) = SortValue(u, b) => a = b
    PROVE  s = r
<1>1. /\ DOMAIN s = 1..Cardinality(Matches(u)) /\ DOMAIN r = DOMAIN s
      /\ s = [l \in DOMAIN s |-> s[l]] /\ r = [l \in DOMAIN r |-> r[l]]
      /\ \A l \in DOMAIN s : s[l] \in Matches(u) /\ r[l] \in Matches(u)
  BY DEF Orders
<1>2. \A l \in DOMAIN s : SortValue(u, s[l]) = SortValue(u, r[l])
  BY OnlyTiesAreOpen
<1>3. \A l \in DOMAIN s : s[l] = r[l]
  BY <1>1, <1>2
<1>4. QED
  BY <1>1, <1>3

\* Turning the pages of a url, whatever its search, filter and page size: as long as the
\* table stays what it is and no two rows that match are equal in the column they are
\* sorted by, every row that matches is on one page and on no other, and that page is one
\* the footer counts.  With ties each fetch may order them anew, and it need not be so.
THEOREM EveryRowOnOnePage ==
    ASSUME NEW u \in Url, NEW i \in Matches(u),
           \A a, b \in Matches(u) : SortValue(u, a) = SortValue(u, b) => a = b,
           NEW order, \A q \in Nat \ {0} : order[q] \in Orders([u EXCEPT !.page = q])
    PROVE  \E p \in 1..Pages(Cardinality(Matches(u)), PerPage(u)) :
             \A q \in Nat \ {0} :
               i \in ItemsOf(Fetched([u EXCEPT !.page = q], Matches(u), order[q])) <=> q = p
<1> DEFINE n == PerPage(u)
           t == Cardinality(Matches(u))
           Turned(q) == Fetched([u EXCEPT !.page = q], Matches(u), order[q])
<1>0. PICK s \in Orders(u) : TRUE
  BY SomeOrder
<1> DEFINE Part(q) == SubSeq(s, (q - 1) * n + 1, Smallest((q - 1) * n + n, Len(s)))
<1>1. /\ s \in Seq(Id) /\ Len(s) = t /\ t \in Nat
      /\ \A k, l \in 1..Len(s) : k < l => s[k] # s[l]
  <2>1. s \in Seq(Id) /\ Len(s) = t /\ t \in Nat
    BY OrdersAreLists, MatchesAreRows, Constants DEF Count
  <2>2. QED
    BY <2>1 DEF Orders
<1>2. PICK k \in 1..Len(s) : s[k] = i
  BY <1>1, EachIsListed
<1>3. n \in Nat \ {0}
  BY Sizes
<1>4. ASSUME NEW q \in Nat \ {0}
      PROVE  ItemsOf(Turned(q)) = {Part(q)[j] : j \in 1..Len(Part(q))}
  <2> DEFINE v == [u EXCEPT !.page = q]
  <2>0. order[q] \in Orders(v)
    OBVIOUS
  <2>1. /\ v \in Url /\ v.page = q /\ v.per_page = u.per_page /\ v.search = u.search
        /\ v.sort_dir = u.sort_dir /\ v.sort_by = u.sort_by /\ v.published = u.published
    BY DEF Url
  <2> HIDE DEF v
  <2>2. Page(v) = q /\ PerPage(v) = n
    BY <2>1 DEF Page, Largest, PerPage
  <2>3. Matches(v) = Matches(u)
    BY <2>1 DEF Matches
  <2>4. Orders(v) = Orders(u)
    <3>1. ASSUME NEW a, NEW b
          PROVE  Before(v, a, b) <=> Before(u, a, b)
      BY <2>1 DEF Before, SortValue
    <3>2. QED
      BY <2>3, <3>1 DEF Orders
  <2>5. order[q] = s
    <3>1. PICK r \in Orders(u) : r = order[q]
      BY <2>0, <2>4 DEF v
    <3>2. QED
      BY <3>1, OneOrder
  <2>6. Offset(v) = (q - 1) * n
    BY <2>2 DEF Offset
  <2>7. Fetched(v, Matches(u), s).items = Part(q)
    <3>1. Fetched(v, Matches(u), s).items
            = SubSeq(s, Offset(v) + 1, Smallest(Offset(v) + PerPage(v), Len(s)))
      BY DEF Fetched
    <3>2. QED
      BY <3>1, <2>2, <2>6
  <2>8. QED
    BY <2>5, <2>7 DEF ItemsOf, v
<1>5. PICK p \in Nat \ {0} :
        /\ (p - 1) * n < k /\ k <= p * n
        /\ \A q \in Nat \ {0} : (q - 1) * n < k /\ k <= q * n => q = p
  <2>1. k \in Nat \ {0}
    BY <1>1, <1>2
  <2> HIDE DEF n, t
  <2>2. QED
    BY <1>3, <2>1, OnePage
<1>6. p \in 1..Pages(t, n)
  <2>1. p - 1 < Pages(t, n)
    <3>1. (p - 1) * n < t
      BY <1>1, <1>2, <1>3, <1>5
    <3>2. p - 1 \in Nat
      OBVIOUS
    <3>3. QED
      BY <1>1, <1>3, <3>1, <3>2, PagesCounts
  <2>2. Pages(t, n) \in Int
    BY <1>1, <1>3 DEF Pages
  <2>3. QED
    BY <2>1, <2>2
<1> HIDE DEF n, t, Turned
<1>7. ASSUME NEW q \in Nat \ {0}
      PROVE  i \in ItemsOf(Turned(q)) <=> q = p
  <2>1. (q - 1) * n \in Nat /\ (q - 1) * n + n = q * n
    BY <1>3
  <2>2. i \in ItemsOf(Turned(q))
          <=> \E l \in 1..Len(s) : s[l] = i /\ (q - 1) * n < l /\ l <= (q - 1) * n + n
    <3>1. PICK off \in Nat : off = (q - 1) * n
      BY <2>1
    <3> DEFINE c == SubSeq(s, off + 1, Smallest(off + n, Len(s)))
    <3>2. i \in {c[j] : j \in 1..Len(c)}
            <=> \E l \in 1..Len(s) : s[l] = i /\ off < l /\ l <= off + n
      <4>1. s \in Seq(Id) /\ off \in Nat /\ n \in Nat \ {0}
        BY <1>1, <1>3
      <4>2. QED
        BY <4>1, OnThePage
    <3>3. Part(q) = c
      BY <3>1
    <3>4. ItemsOf(Turned(q)) = {c[j] : j \in 1..Len(c)}
      BY <1>4, <3>3
    <3>5. QED
      BY <3>1, <3>2, <3>4
  <2>3. \A l \in 1..Len(s) : s[l] = i => l = k
    <3>1. ASSUME NEW l \in 1..Len(s), s[l] = i, l # k PROVE FALSE
      <4>1. l < k \/ k < l
        BY <3>1
      <4>2. QED
        BY <1>1, <1>2, <3>1, <4>1
    <3>2. QED
      BY <3>1
  <2>4. i \in ItemsOf(Turned(q)) <=> (q - 1) * n < k /\ k <= q * n
    BY <1>2, <2>1, <2>2, <2>3
  <2>5. QED
    BY <1>5, <2>4
<1>8. QED
  BY <1>6, <1>7 DEF n, t, Turned
=============================================================================
