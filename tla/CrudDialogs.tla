----------------------------- MODULE CrudDialogs -----------------------------
(***************************************************************************)
(* What AppCrud does with the rows on the screen of ListQuery: selecting   *)
(* them, the dialogs that create, edit and delete them, and the server     *)
(* actions of the examples and users features those dialogs send.          *)
(*                                                                         *)
(* The dialogs are modal, so one is open at a time, but Escape closes one  *)
(* whose answer is still awaited.  Next.js is external: it sends server    *)
(* actions one after the other, an answer brings the page again if the     *)
(* action asked for that, and if the reader is on the way to another page  *)
(* the page is fetched again once they are there.                          *)
(***************************************************************************)
EXTENDS ListQuery, SequencesExt

CONSTANT CanManage    \* prop of ExampleCrud: the shell of an admin

VARIABLES
    selected,   \* the ids in AppCrud's selection
    dialog,     \* the open dialog and its row, 0 when it has none
    pending,    \* the kinds of dialog whose action state is pending
    sent,       \* the submissions on their way, in order
    refresh,    \* the page is stale and is to be fetched again
    gone        \* rows an answered action deleted (auxiliary)

dialogVars == <<selected, dialog, pending, sent, refresh, gone>>

Kind == {"create", "edit", "remove", "bulkRemove", "bulkUpdate"}
Closed == [kind |-> "none", row |-> 0]

\* The actions ExampleCrud and UserCrud hand to AppCrud.
Offered ==
    IF screen = "users" THEN {"create", "remove"}
    ELSE {"create", "edit"} \cup IF CanManage THEN Kind \ {"create", "edit"} ELSE {}

OfRow == {"edit", "remove"}            \* mounted while a row is edited or removed
Bulk == {"bulkRemove", "bulkUpdate"}   \* like "create", mounted with the screen

DialogsInit ==
    /\ selected = {} /\ dialog = Closed /\ pending = {} /\ sent = <<>>
    /\ refresh = FALSE /\ gone = {}

-----------------------------------------------------------------------------
(* Selecting rows, opening and closing dialogs. *)

\* toggleAll: it replaces what was selected on other pages.
SelectsAll(checked) ==
    /\ Usable /\ dialog = Closed /\ Bulk \subseteq Offered /\ shown.items # <<>>
    /\ selected' = IF checked THEN ItemsOf(shown) ELSE {}
    /\ UNCHANGED <<queryVars, dialog, pending, sent, refresh, gone>>

\* toggleOne.
SelectsOne(row) ==
    /\ dialog = Closed /\ Bulk \subseteq Offered
    /\ selected' = IF row \in selected THEN selected \ {row} ELSE selected \cup {row}
    /\ UNCHANGED <<queryVars, dialog, pending, sent, refresh, gone>>

\* Mutant: the hook of a dialog starts anew every time it is opened.
Forgotten(kind) == {kind}

\* A dialog of a row is mounted when it opens, with an action state of its own.
Mounted(kind) == {kind} \cap OfRow

Opens(kind, row) ==
    /\ Usable /\ dialog = Closed /\ kind \in Offered
    /\ IF kind \in OfRow THEN row \in ItemsOf(shown) ELSE row = 0
    /\ kind \in Bulk => selected # {}
    /\ dialog' = [kind |-> kind, row |-> row]
    /\ pending' = pending \ Mounted(kind)
    /\ UNCHANGED <<queryVars, selected, sent, refresh, gone>>

\* The answer to what an unmounted dialog sent changes nothing on the screen.
Unmounted(s) == [s EXCEPT !.live = @ /\ s.kind \notin OfRow]

\* Escape or, unless an answer is awaited, Cancel: both call onOpenChange(false).
Dismisses ==
    /\ dialog # Closed
    /\ dialog' = Closed
    /\ pending' = pending \ OfRow
    /\ sent' = [k \in DOMAIN sent |-> Unmounted(sent[k])]
    /\ UNCHANGED <<queryVars, selected, refresh, gone>>

\* The submit button is disabled while an answer is awaited.
Submits(filled) ==
    /\ dialog # Closed /\ dialog.kind \notin pending
    /\ filled \/ dialog.kind = "create"
    /\ pending' = pending \cup {dialog.kind}
    /\ sent' = Append(sent, [kind |-> dialog.kind, filled |-> filled, live |-> TRUE,
                             rows |-> IF dialog.kind \in Bulk THEN selected
                                      ELSE {dialog.row} \ {0},
                             answer |-> "none", page |-> Broken, of |-> url])
    /\ UNCHANGED <<queryVars, selected, dialog, refresh, gone>>

-----------------------------------------------------------------------------
(* The server actions. *)

Free == {i \in Id : table[i] = "none"}
First(rows) == CHOOSE i \in rows : \A j \in rows : i <= j

\* FIELDS, and what a dialog sends: the form dialog its fields and the id of the row it
\* edits, the confirm dialog the inputs AppCrud hands it.
ExampleFields == {"title", "content", "published"}
UserFields == {"name", "email", "password", "role"}
FormSends(kind) ==
    (IF screen = "users" THEN UserFields ELSE ExampleFields)
    \cup IF kind = "edit" THEN {"id"} ELSE {}
ConfirmSends(kind) == IF kind \in Bulk THEN {"ids"} ELSE {"id"}
Sends(kind) == IF kind \in {"create", "edit"} THEN FormSends(kind) ELSE ConfirmSends(kind)

\* What an action does not do without: its own checks, and the id a row is found by.
ExampleNeeds(kind) ==
    CASE kind = "create" -> {"title"}
      [] kind \in Bulk -> {"ids"}
      [] OTHER -> {"id"}
UserNeeds(kind) == IF kind = "create" THEN {"name", "email", "password"} ELSE {"userId"}
Needs(kind) == IF screen = "users" THEN UserNeeds(kind) ELSE ExampleNeeds(kind)

\* Turned away by the action or, for a row it does not know, by the api.
\* updateExampleAction asks whether a string is an integer.
Refused(s) ==
    \/ ~(Needs(s.kind) \subseteq IF s.filled THEN Sends(s.kind) ELSE {})
    \/ s.kind = "edit"
    \/ s.kind = "remove" /\ ~ \E i \in s.rows : Alive(i)

\* What the api does with the rest; without "published" bulkPublishExamplesAction reads
\* a wish to unpublish.
TableAfter(s) ==
    CASE s.kind = "create" -> [table EXCEPT ![First(Free)] = "draft"]
      [] s.kind = "bulkUpdate" ->
           LET to == IF "published" \in Sends("bulkUpdate") THEN "published" ELSE "draft"
           IN [i \in Id |-> IF i \in s.rows /\ Alive(i) THEN to ELSE table[i]]
      [] OTHER -> [i \in Id |-> IF i \in s.rows /\ Alive(i) THEN "gone" ELSE table[i]]

Answered(s, answer) == <<[s EXCEPT !.answer = answer, !.of = url]>> \o Tail(sent)

Refuses ==
    /\ sent # <<>> /\ Head(sent).answer = "none" /\ Refused(Head(sent))
    /\ sent' = Answered(Head(sent), "refused")
    /\ UNCHANGED <<queryVars, selected, dialog, pending, refresh, gone>>

Applies(answer) ==
    /\ sent # <<>> /\ Head(sent).answer = "none" /\ ~Refused(Head(sent))
    /\ table' = TableAfter(Head(sent))
    /\ shrunk' = (shrunk \/ Head(sent).kind # "create")
    /\ sent' = Answered(Head(sent), answer)
    /\ UNCHANGED <<screenVars, selected, dialog, pending, refresh, gone>>

\* The call of the api fails, before it did anything or after; the action says so.
CallFails ==
    \/ Applies("failed")
    \/ /\ sent # <<>> /\ Head(sent).answer = "none"
       /\ sent' = Answered(Head(sent), "failed")
       /\ UNCHANGED <<queryVars, selected, dialog, pending, refresh, gone>>

\* Mutant: the action that deletes rows forgets to refresh.
ForgetsDeletes(s) == s.kind \notin {"remove", "bulkRemove"}

\* refresh(): every action that went through revalidates the paths of its list.
Revalidates(s) == s.answer = "ok"

\* The server renders the page of the screen once more, for the answer.
Renders ==
    /\ sent # <<>> /\ Head(sent).answer = "ok" /\ Head(sent).page = Broken
    /\ Revalidates(Head(sent))
    /\ \E page \in FetchedAtOnce(Head(sent).of) :
         sent' = <<[Head(sent) EXCEPT !.page = page]>> \o Tail(sent)
    /\ UNCHANGED <<queryVars, selected, dialog, pending, refresh, gone>>

\* Mutant: the state that holds the edited row is set from outside the dialog.
ClosesWhatIsOpen(s) == s.answer = "ok" /\ dialog.kind = s.kind

\* The effect of a mounted dialog closes it when the answer is ok.
Closes(s) == s.live /\ s.answer = "ok" /\ dialog.kind = s.kind

\* useActionState has the answer: it is no longer pending, and the effect runs.
Answers ==
    LET s == Head(sent)
        deletes == s.kind \in {"remove", "bulkRemove"} /\ s.answer = "ok"
        stays == going = Nowhere /\ url = s.of /\ Usable
    IN /\ sent # <<>> /\ s.answer # "none"
       /\ Revalidates(s) => s.page # Broken
       /\ sent' = Tail(sent)
       /\ pending' = IF s.live THEN pending \ {s.kind} ELSE pending
       /\ dialog' = IF Closes(s) THEN Closed ELSE dialog
       /\ gone' = gone \cup IF deletes THEN s.rows ELSE {}
       /\ shown' = IF s.page # Broken /\ stays THEN s.page ELSE shown
       /\ refresh' = (refresh \/ (s.page # Broken /\ ~stays))
       /\ UNCHANGED <<table, url, hist, at, going, busy, term, timer, shrunk, selected>>

\* The page is fetched again.
Refetches ==
    /\ refresh /\ going = Nowhere
    /\ refresh' = FALSE
    /\ IF Usable THEN shown' \in FetchedAtOnce(url) ELSE UNCHANGED shown
    /\ UNCHANGED <<table, url, hist, at, going, busy, term, timer, shrunk>>
    /\ UNCHANGED <<selected, dialog, pending, sent, gone>>

\* With an error on the screen AppCrud is unmounted.
Unmounts ==
    /\ selected' = {} /\ dialog' = Closed /\ pending' = {}
    /\ sent' = [k \in DOMAIN sent |-> [sent[k] EXCEPT !.live = FALSE]]
    /\ UNCHANGED <<refresh, gone>>

Works ==
    \/ \E checked \in BOOLEAN : SelectsAll(checked)
    \/ \E row \in ItemsOf(shown) : SelectsOne(row)
    \/ \E kind \in Kind, row \in {0} \cup ItemsOf(shown) : Opens(kind, row)
    \/ \E filled \in BOOLEAN : Submits(filled)

DialogsTypeOK ==
    /\ selected \subseteq Id
    /\ dialog \in {Closed} \cup [kind : Offered, row : {0} \cup Id]
    /\ pending \subseteq Kind
    /\ \A k \in DOMAIN sent :
         /\ sent[k].kind \in Offered /\ sent[k].rows \subseteq Id
         /\ sent[k].answer \in {"none", "ok", "refused", "failed"}
         /\ k > 1 => sent[k].answer = "none"
    /\ refresh \in BOOLEAN /\ gone \subseteq Id

-----------------------------------------------------------------------------
(* Properties. *)

\* A dialog that was closed with its answer still awaited and opened again does not
\* let the same work be sent twice: of the creations and of the bulk operations of one
\* screen there is one on its way at a time.
OneAtATime ==
    \A j, k \in DOMAIN sent :
       j # k /\ sent[j].live /\ sent[k].live => sent[j].kind # sent[k].kind

\* "Close once the server says the write went through": a dialog does not close by
\* itself because of an answer to what was sent from the dialog of another row.
ClosesOnlyWhenDone ==
    [][Answers /\ dialog # Closed /\ dialog' = Closed =>
         /\ Head(sent).answer = "ok" /\ Head(sent).kind = dialog.kind
         /\ dialog.row # 0 => Head(sent).rows = {dialog.row}]_<<queryVars, dialogVars>>

\* Rows that an answered action deleted leave the screen, whichever page the reader
\* was on or on the way to when the answer came.
DeletedLeaveScreen == <>[](gone \cap ItemsOf(shown) = {})
=============================================================================
