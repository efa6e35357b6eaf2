------------------------------ MODULE ListQuery ------------------------------
(***************************************************************************)
(* Which page of a list is on the screen: the url hook (use-crud-query),   *)
(* the search box, the filters, the sortable headers and the footer of     *)
(* AppCrud, and the server component that fetches the page the url asks    *)
(* for, from the examples or from the users of the api.                    *)
(*                                                                         *)
(* A url is a record of the parameters the hook writes; 0 and "" stand for *)
(* a parameter that is not there.  Next.js is external: a navigation shows *)
(* the old page until the new one is there, a later one replaces it, the   *)
(* pages of the browser's history are fetched again.  Rows are numbered in *)
(* the order of their creation, which is that of their ids.                *)
(***************************************************************************)
EXTENDS Naturals, Sequences, FiniteSets

CONSTANTS
    Screens,         \* the lists: "examples", "users"
    MaxRows,         \* bound on the rows that are ever created
    FirstRows,       \* those there at first
    Search,          \* what may be typed into the search box, "" among it
    Finds,           \* the rows a search finds
    SortKey,         \* the columns that are sorted by
    Value,           \* what the rows hold in them, but for "published"
    PageSizes,       \* what the footer offers
    DefaultPerPage,
    MaxPerPage

Id == 1..MaxRows

ASSUME QueryAssumption ==
    /\ Screens \subseteq {"examples", "users"}
    /\ MaxRows \in Nat /\ FirstRows \in 0..MaxRows
    /\ Finds \in [Search -> SUBSET Id] /\ "" \in Search /\ Finds[""] = Id
    /\ Value \in [SortKey \ {"published"} -> [Id -> Nat]]
    /\ MaxPerPage \in Nat
    /\ PageSizes \subseteq 1..MaxPerPage /\ DefaultPerPage \in PageSizes

VARIABLES
    screen,   \* the list the reader has open
    table,    \* row -> "none" before it is created, "draft", "published", "gone"
    url,      \* the url on the screen: what useSearchParams returns
    shown,    \* the page on the screen, as the api answered it
    hist,     \* the browser's history of urls
    at,       \* where in it the browser is
    going,    \* the navigation under way
    busy,     \* useTransition of the footer: one of its own is under way
    term,     \* the text in the search box
    timer,    \* the parameters the debounced apply has in its closure, or Off
    shrunk    \* a row has left a list since the start (auxiliary)

screenVars == <<url, shown, hist, at, going, busy, term, timer>>
queryVars == <<screen, table, screenVars, shrunk>>

Param == {"page", "per_page", "search", "sort_by", "sort_dir", "published"}
Absent == [page |-> 0, per_page |-> 0, search |-> "", sort_by |-> "", sort_dir |-> "",
           published |-> ""]
Url == [page : Nat, per_page : {0} \cup PageSizes, search : Search,
        sort_by : {""} \cup SortKey, sort_dir : {"", "asc", "desc"},
        published : {"", "true", "false"}]

Off == [off |-> TRUE]
Nowhere == [step |-> "none"]

Alive(i) == table[i] \in {"draft", "published"}
Largest(a, b) == IF a > b THEN a ELSE b
Smallest(a, b) == IF a < b THEN a ELSE b

-----------------------------------------------------------------------------
(* The page a url stands for. *)

\* toQuery and the service: what is not asked for has a default, what is out of
\* bounds is put right.
PerPage(u) ==
    IF u.per_page = 0 THEN DefaultPerPage
    ELSE IF screen = "users" THEN u.per_page ELSE Smallest(u.per_page, MaxPerPage)
Page(u) == Largest(u.page, 1)

\* apply_filters; list-users knows no filter.
Matches(u) ==
    {i \in Finds[u.search] :
       Alive(i) /\ (screen = "examples" /\ u.published # ""
                      => (table[i] = "published") = (u.published = "true"))}

\* sort_column: the id without a column; list-users is then asked for no order at all.
SortValue(u, i) ==
    CASE u.sort_by = "published" -> IF table[i] = "published" THEN 1 ELSE 0
      [] u.sort_by = "" -> IF screen = "users" THEN 0 ELSE i
      [] OTHER -> Value[u.sort_by][i]

\* sort_order: ascending only when the url says so.
Before(u, i, j) ==
    IF u.sort_dir = "asc" THEN SortValue(u, i) < SortValue(u, j)
    ELSE SortValue(u, j) < SortValue(u, i)

\* ORDER BY names one column: the database may list rows that are equal in it in any
\* order, and in another one the next time.
Orders(u) ==
    LET rows == Matches(u)
    IN {s \in [1..Cardinality(rows) -> rows] :
          \A k, l \in DOMAIN s : k < l => s[k] # s[l] /\ ~Before(u, s[l], s[k])}

Pages(total, perPage) == (total + perPage - 1) \div perPage

\* Mutant: the page of the api is taken for the zero based one of the paginator.
OffsetZeroBased(u) == Page(u) * PerPage(u)

Offset(u) == (Page(u) - 1) * PerPage(u)

\* find_page, the second statement: `counted` are the rows the first one counted, `order`
\* is how the database lists those that match by now.
Fetched(u, counted, order) ==
    LET total == Cardinality(counted)
    IN [items |-> SubSeq(order, Offset(u) + 1, Smallest(Offset(u) + PerPage(u), Len(order))),
        total |-> total,
        page |-> Page(u),
        perPage |-> PerPage(u),
        totalPages |-> IF screen = "users" THEN Largest(1, Pages(total, PerPage(u)))
                       ELSE Pages(total, PerPage(u)),
        order |-> order, torn |-> counted # Matches(u)]

\* Both statements, with nothing between them.
FetchedAtOnce(u) == {Fetched(u, Matches(u), order) : order \in Orders(u)}

\* The rows of the table.
ItemsOf(page) == {page.items[k] : k \in 1..Len(page.items)}

\* "Showing {from}-{to} of {total}".
Footer(page) ==
    LET from == IF page.total = 0 THEN 0 ELSE (page.page - 1) * page.perPage + 1
    IN [from |-> from, to |-> IF page.total = 0 THEN 0 ELSE from + Len(page.items) - 1]

\* The screen when listExamples or listUsers throws: no error.tsx, no AppCrud.
Broken == [items |-> <<>>, total |-> 0, page |-> 0, perPage |-> 0,
           totalPages |-> 0, order |-> <<>>, torn |-> FALSE]
Usable == shown # Broken

QueryInit ==
    /\ screen \in Screens
    /\ table = [i \in Id |-> IF i <= FirstRows THEN "draft" ELSE "none"]
    /\ url = Absent /\ hist = <<Absent>> /\ at = 1
    /\ shown \in FetchedAtOnce(Absent)
    /\ going = Nowhere /\ busy = FALSE
    /\ term = "" /\ timer = Off
    /\ shrunk = FALSE

-----------------------------------------------------------------------------
(* useCrudQuery. *)

\* Mutant: changes to the query leave the page alone.
ApplyKeepsPage(u, changes) ==
    [p \in Param |-> IF p \in DOMAIN changes THEN changes[p] ELSE u[p]]

\* apply, up to the push: any change other than the page itself goes to page one.
Applied(u, changes) ==
    [p \in Param |-> IF p \in DOMAIN changes THEN changes[p]
                     ELSE IF p = "page" THEN 0 ELSE u[p]]

Push(u) == going' = [step |-> "sent", url |-> u, push |-> TRUE]

Apply(changes) == Push(Applied(url, changes))

\* What the lists sort and filter by: COLUMNS with `sortable`, and FILTERS.
ExampleColumns == {"title", "published", "created_at"}
UserColumns == {"name", "email"}
Columns == IF screen = "users" THEN UserColumns ELSE ExampleColumns

ExampleFilter == {"", "true", "false"}
FilterValues == IF screen = "users" THEN {} ELSE ExampleFilter

\* toggleSort.
SortedBy(key) ==
    [sort_by |-> key,
     sort_dir |-> IF url.sort_by = key /\ url.sort_dir = "asc" THEN "desc" ELSE "asc"]

-----------------------------------------------------------------------------
(* The search box: an effect on [term, search, apply]. *)

Armed(text, u) == IF text = u.search THEN Off ELSE u

Types(text) ==
    /\ Usable /\ text # term
    /\ term' = text
    /\ timer' = Armed(text, url)
    /\ UNCHANGED <<table, url, shown, hist, at, going, busy, shrunk>>

TimerFires ==
    /\ timer # Off
    /\ Push(Applied(timer, [search |-> term]))
    /\ timer' = Off
    /\ UNCHANGED <<table, url, shown, hist, at, busy, term, shrunk>>

\* Mutant: the effect depends on what is in the box and nothing else.
EffectOnTerm(u) == timer

\* apply is made anew whenever the parameters are, and the effect depends on it.
AfterCommit(u) == IF u = url THEN timer ELSE Armed(term, u)

-----------------------------------------------------------------------------
(* What the reader clicks on. *)

Clicks(changes) ==
    /\ Usable
    /\ Apply(changes)
    /\ UNCHANGED <<table, url, shown, hist, at, term, timer, shrunk>>

Filters(value) ==
    value \in FilterValues \ {url.published} /\ Clicks([published |-> value]) /\ UNCHANGED busy

Sorts(key) == key \in Columns /\ Clicks(SortedBy(key)) /\ UNCHANGED busy

TurnsTo(page) == ~busy /\ Clicks([page |-> page]) /\ busy' = TRUE

PreviousPage == shown.page > 1 /\ TurnsTo(shown.page - 1)

NextPage == shown.page < shown.totalPages /\ TurnsTo(shown.page + 1)

RowsPerPage(n) == n # shown.perPage /\ Clicks([per_page |-> n]) /\ busy' = TRUE

\* Back and Forward of the browser, which replace a navigation under way.
Travels(to) ==
    /\ to \in {at - 1, at + 1} \cap DOMAIN hist
    /\ at' = to
    /\ going' = [step |-> "sent", url |-> hist[to], push |-> FALSE]
    /\ UNCHANGED <<table, url, shown, hist, busy, term, timer, shrunk>>

-----------------------------------------------------------------------------
(* The server renders the page a navigation asks for; the screen changes. *)

Counts ==
    /\ going.step = "sent"
    /\ going' = [step |-> "counted", url |-> going.url, push |-> going.push,
                 counted |-> Matches(going.url)]
    /\ UNCHANGED <<table, url, shown, hist, at, busy, term, timer, shrunk>>

Fetches ==
    /\ going.step = "counted"
    /\ \E order \in Orders(going.url) :
         going' = [step |-> "fetched", url |-> going.url, push |-> going.push,
                   page |-> Fetched(going.url, going.counted, order)]
    /\ UNCHANGED <<table, url, shown, hist, at, busy, term, timer, shrunk>>

\* Mutant: the transition of the footer never ends.
NeverEnds == going' = Nowhere /\ UNCHANGED busy

Ends == going' = Nowhere /\ busy' = FALSE

Arrives ==
    /\ url' = going.url
    /\ IF going.push /\ hist[at] # going.url
       THEN /\ hist' = Append(SubSeq(hist, 1, at), going.url)
            /\ at' = at + 1
       ELSE UNCHANGED <<hist, at>>
    /\ Ends
    /\ UNCHANGED <<table, shrunk>>

\* The box is mounted with the page: after an error it starts from the url.
Commit ==
    /\ going.step = "fetched"
    /\ Arrives
    /\ shown' = going.page
    /\ IF Usable THEN timer' = AfterCommit(going.url) /\ UNCHANGED term
       ELSE term' = going.url.search /\ timer' = Off

\* The page throws: AppCrud and all it holds are gone.
PageFails ==
    /\ going # Nowhere
    /\ Arrives
    /\ shown' = Broken
    /\ term' = going.url.search /\ timer' = Off

\* Loading what failed once more.
Reloads ==
    /\ ~Usable /\ going = Nowhere
    /\ going' = [step |-> "sent", url |-> url, push |-> FALSE]
    /\ UNCHANGED <<table, url, shown, hist, at, busy, term, timer, shrunk>>

Navigates ==
    \/ \E text \in Search : Types(text)
    \/ \E value \in ExampleFilter : Filters(value)
    \/ \E key \in SortKey : Sorts(key)
    \/ PreviousPage \/ NextPage
    \/ \E n \in PageSizes : RowsPerPage(n)

QueryTypeOK ==
    /\ screen \in Screens
    /\ table \in [Id -> {"none", "draft", "published", "gone"}]
    /\ url \in Url
    /\ \A k \in DOMAIN hist : hist[k] \in Url
    /\ at \in DOMAIN hist /\ Len(hist) > 0
    /\ going.step \in {"none", "sent", "counted", "fetched"}
    /\ going # Nowhere => going.url \in Url /\ going.push \in BOOLEAN
    /\ busy => going # Nowhere
    /\ term \in Search /\ (timer = Off \/ timer \in Url)
    /\ ItemsOf(shown) \subseteq Id /\ shown.total \in 0..MaxRows
    /\ shrunk \in BOOLEAN

-----------------------------------------------------------------------------
(* Properties. *)

\* As long as no row leaves a list, the controls of the list never lead to a page
\* that has no rows, unless nothing matches: whatever is typed, clicked or gone
\* back to while another page is still loading, a page number is only kept together
\* with the query it was counted for.
NoEmptyPage == Usable /\ ~shrunk /\ shown.items = <<>> => shown.total = 0

\* "Showing {from}-{to} of {total}" and the table: the rows are those that stood at these
\* places among all that matched, in the order the database listed them.  That the total
\* is theirs holds if no row came or left between the two statements that count and
\* fetch: a torn answer states a total its rows need not add up to.  (Past the last
\* page, from is to + 1.)
FooterTrue ==
    LET from == Footer(shown).from
        to == Footer(shown).to
    IN Usable =>
         /\ shown.total # 0 => shown.items = SubSeq(shown.order, from, to)
         /\ ~shown.torn => /\ shown.total = Len(shown.order)
                           /\ shown.items # <<>> => to <= shown.total
         /\ shown.page < shown.totalPages <=> shown.page * shown.perPage < shown.total

\* Back or Forward, to the very page on the screen, has replaced a navigation.
BackOnScreen == Usable /\ going # Nowhere /\ ~going.push /\ going.url = url

\* Once nobody types or clicks any more, the list is that of the text in the box, even
\* if the navigation of the search was replaced by a click or by going back to another
\* page.  Going back to the page on the screen is left out: the parameters stay what
\* they are, the effect does not run again, and what was typed is never searched for.
SearchSettles == []~BackOnScreen => <>[](term = url.search)
=============================================================================
