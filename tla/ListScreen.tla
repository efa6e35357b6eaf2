------------------------------ MODULE ListScreen ------------------------------
(***************************************************************************)
(* A list screen: ListQuery and CrudDialogs together, one reader, other    *)
(* users of the same table, and requests that fail.                        *)
(***************************************************************************)
EXTENDS CrudDialogs

CONSTANT MaxActs   \* bound on what the reader, the others and faults do

ASSUME ScreenAssumption == MaxActs \in Nat /\ CanManage \in BOOLEAN

VARIABLE acts

vars == <<queryVars, dialogVars, acts>>

\* What has been asked for and has no row yet.
Creations == {k \in DOMAIN sent : sent[k].kind = "create" /\ sent[k].answer = "none"}

\* Another reader, or a worker, changes a row; a new one takes the next number.
OthersChange ==
    /\ \/ /\ Cardinality(Free) > Cardinality(Creations)
          /\ table' = [table EXCEPT ![First(Free)] = "draft"]
          /\ UNCHANGED shrunk
       \/ \E i \in Id, to \in {"draft", "published", "gone"} :
            /\ Alive(i) /\ table[i] # to
            /\ table' = [table EXCEPT ![i] = to]
            /\ shrunk' = TRUE
    /\ UNCHANGED <<screenVars, dialogVars>>

RoomToSubmit ==
    sent' # sent /\ Len(sent') > Len(sent) /\ Last(sent').kind = "create"
       => Cardinality(Free) > Cardinality(Creations)

Act ==
    /\ acts < MaxActs /\ acts' = acts + 1 /\ UNCHANGED screen
    /\ \/ dialog = Closed /\ Navigates /\ UNCHANGED dialogVars
       \/ (\E to \in {at - 1, at + 1} : Travels(to)) /\ UNCHANGED dialogVars
       \/ Works /\ RoomToSubmit
       \/ PageFails /\ Unmounts
       \/ CallFails
       \/ OthersChange

\* Closing a dialog and loading a failed page once more undo what was counted.
GiveUp ==
    /\ \/ Dismisses
       \/ Reloads /\ sent = <<>> /\ UNCHANGED dialogVars
    /\ UNCHANGED <<screen, acts>>

React ==
    /\ \/ (TimerFires \/ Counts \/ Fetches \/ Commit) /\ UNCHANGED dialogVars
       \/ Refuses \/ Applies("ok") \/ Renders \/ Answers \/ Refetches
    /\ UNCHANGED <<screen, acts>>

Init == QueryInit /\ DialogsInit /\ acts = 0

Next == Act \/ GiveUp \/ React

\* The debounce ends, the server answers, React renders: each of them goes on.
Fairness ==
    /\ WF_vars(TimerFires /\ UNCHANGED <<screen, dialogVars, acts>>)
    /\ WF_vars(Counts /\ UNCHANGED <<screen, dialogVars, acts>>)
    /\ WF_vars(Fetches /\ UNCHANGED <<screen, dialogVars, acts>>)
    /\ WF_vars(Commit /\ UNCHANGED <<screen, dialogVars, acts>>)
    /\ WF_vars(Refuses /\ UNCHANGED <<screen, acts>>)
    /\ WF_vars(Applies("ok") /\ UNCHANGED <<screen, acts>>)
    /\ WF_vars(Renders /\ UNCHANGED <<screen, acts>>)
    /\ WF_vars(Answers /\ UNCHANGED <<screen, acts>>)
    /\ WF_vars(Refetches /\ UNCHANGED <<screen, acts>>)

Spec == Init /\ [][Next]_vars /\ Fairness

ScreenTypeOK == QueryTypeOK /\ DialogsTypeOK /\ acts \in 0..MaxActs

-----------------------------------------------------------------------------
(* Properties. *)

\* "create, edit and delete through dialogs" (app-crud.tsx): what a filled dialog sends
\* about rows that are there is not turned away.
ButtonsKeepTheirWord ==
    \A k \in DOMAIN sent : sent[k].filled /\ ~shrunk => sent[k].answer # "refused"
=============================================================================
