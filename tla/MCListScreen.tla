---------------------------- MODULE MCListScreen ----------------------------
(* Two rows at first, one or two to a page, and room for one more; a search    *)
(* that finds the oldest row.                                                  *)
EXTENDS ListScreen

\* Emails are unique, titles need not be.
SomeEqual ==
    [key \in SortKey \ {"published"} |->
       [i \in Id |-> IF key = "title" THEN i \div 2 ELSE i]]

FindsOldest == [text \in Search |-> IF text = "" THEN Id ELSE {1}]
=============================================================================
