------------------------------- MODULE Session -------------------------------
(***************************************************************************)
(* Who is signed in, and where the web app takes them: the session cookie  *)
(* that the tabs of one browser share (lib/session.ts), the guards of the  *)
(* layouts and pages, the links of the shells, the server actions of the   *)
(* auth and users features, and the accounts and sessions of the api.      *)
(*                                                                         *)
(* A request has the cookie the browser had when it was sent.  Next.js is  *)
(* external: a link within a layout renders the page and not the layout, a *)
(* redirect is a new request, a form awaits its answer before it sends     *)
(* again.  So is Better Auth: tokens, bans, and who may call what.  A form *)
(* that is not filled in is answered without a call and is left out.       *)
(***************************************************************************)
EXTENDS Naturals, FiniteSets, ApiContract

CONSTANTS
    User,
    NoUser,
    Tab,
    Entry,       \* the addresses that are typed or bookmarked
    MaxTokens,   \* bound on the sessions that are ever opened
    MaxActs      \* bound on what readers and faults do

Token == 1..MaxTokens
NoToken == 0

Public == {"/"}
Auth == {"/auth/sign-in", "/auth/sign-up", "/auth/forgot-password", "/auth/reset-password"}
Core == {"/dashboard", "/dashboard/examples", "/dashboard/profile"}
Admin == {"/admin", "/admin/examples", "/admin/users"}
Route == Public \cup Auth \cup Core \cup Admin

ASSUME SessionAssumption ==
    /\ NoUser \notin User /\ MaxTokens \in Nat \ {0} /\ MaxActs \in Nat
    /\ Entry \subseteq Route

VARIABLES
    people,    \* the accounts: user -> whether there is one, its role, whether it is banned
    sessions,  \* token -> the user it stands for, NoUser when it is not or no longer good
    issued,    \* how many tokens have been
    cookie,    \* verori.session
    page,      \* tab -> what is on its screen
    going,     \* tab -> the request for a page under way
    form,      \* tab -> the server action under way
    acts

vars == <<people, sessions, issued, cookie, page, going, form, acts>>

Account == [there : BOOLEAN, role : {"user", "admin"}, banned : BOOLEAN]
Nowhere == [to |-> "nowhere"]
Idle == [name |-> "none"]

NoRows == [u \in User |-> [there |-> FALSE, role |-> "user", banned |-> FALSE]]
Shows(at, currentUser, rows) == [at |-> at, currentUser |-> currentUser, rows |-> rows]
Plain(at) == Shows(at, NoUser, NoRows)

-----------------------------------------------------------------------------
(* The api. *)

\* getSession and the guards of the api see the same thing: the user of a good token.
SessionOf(token) == IF token = NoToken THEN NoUser ELSE sessions[token]

IsAdmin(user) == user # NoUser /\ people[user].role = "admin"

HomePathFor(user) == IF IsAdmin(user) THEN "/admin" ELSE "/dashboard"

-----------------------------------------------------------------------------
(* Pages and their guards. *)

Layout(route) == CHOOSE layout \in {Public, Auth, Core, Admin} : route \in layout

\* Mutant: the layout of the sign-in pages looks for the cookie, not for the session.
CookieWillDo(r, user) == r.token # NoToken

HasSession(r, user) == user # NoUser

\* AuthLayout, CoreAppLayout, AdminLayout, for the request r.
LayoutSends(r, user) ==
    CASE r.to \in Auth /\ HasSession(r, user) -> HomePathFor(user)
      [] r.to \in Core /\ user = NoUser -> "/auth/sign-in"
      [] r.to \in Core /\ IsAdmin(user) -> "/admin"
      [] r.to \in Admin /\ user = NoUser -> "/auth/sign-in"
      [] r.to \in Admin /\ user # NoUser /\ ~IsAdmin(user) -> "/dashboard"
      [] OTHER -> "here"

\* Mutant: the sign-in page has moved.
PageSendsToLogin(route, user) ==
    IF route \in {"/dashboard", "/dashboard/profile", "/admin/users"} /\ user = NoUser
    THEN "/login" ELSE "here"

\* Mutant: the layout is trusted to have looked.
LeftToTheLayout(route, user) ==
    IF route = "/admin/users" /\ user = NoUser THEN "/auth/sign-in" ELSE "here"

\* The pages that ask for the session themselves.
PageSends(route, user) ==
    IF route \in {"/dashboard", "/dashboard/profile", "/admin/users"} /\ user = NoUser
    THEN "/auth/sign-in" ELSE "here"

\* Those that fetch a list throw when the api turns them away.
PageThrows(route, user) ==
    \/ route \in {"/dashboard/examples", "/admin/examples"} /\ user = NoUser
    \/ route = "/admin/users" /\ ~IsAdmin(user)

\* The calls that rendering a page makes.
PageCalls(route) ==
    (IF route \in Public THEN {} ELSE {ByHand("GET", "auth", "get-session")})
    \cup (IF route \in {"/dashboard/examples", "/admin/examples"}
          THEN {ByClient("GET", "examples", "", "ExamplePage")} ELSE {})
    \cup (IF route = "/admin/users" THEN {ByHand("GET", "admin", "list-users")} ELSE {})

Request(to, whole, token) == [to |-> to, whole |-> whole, token |-> token]

\* What a request comes to, getSession having answered `user`.
Outcome(r, user) ==
    IF r.whole /\ LayoutSends(r, user) # "here" THEN LayoutSends(r, user)
    ELSE IF PageSends(r.to, user) # "here" THEN PageSends(r.to, user)
    ELSE IF PageThrows(r.to, user) THEN "error" ELSE "here"

Rendered(route, user) ==
    IF route = "/admin/users" THEN Shows(route, user, people) ELSE Plain(route)

Comes(t, user) ==
    LET r == going[t]
        outcome == Outcome(r, user)
    IN /\ r # Nowhere
       /\ IF outcome \in {"here", "error"}
          THEN /\ going' = [going EXCEPT ![t] = Nowhere]
               /\ page' = [page EXCEPT ![t] = IF outcome = "error" THEN Plain("error")
                                              ELSE Rendered(r.to, user)]
          ELSE /\ going' = [going EXCEPT ![t] = Request(outcome, TRUE, cookie)]
               /\ UNCHANGED page
       /\ UNCHANGED <<people, sessions, issued, cookie, form>>

Serves(t) == going[t] # Nowhere /\ Comes(t, SessionOf(going[t].token))

\* getSession takes any answer but a good one for "nobody"; a call that throws is an
\* error page.
ServesBadly(t) ==
    /\ going[t] # Nowhere /\ going[t].to \notin Public
    /\ \/ going[t].token # NoToken /\ Comes(t, NoUser)
       \/ /\ going' = [going EXCEPT ![t] = Nowhere]
          /\ page' = [page EXCEPT ![t] = Plain("error")]
          /\ UNCHANGED <<people, sessions, issued, cookie, form>>

-----------------------------------------------------------------------------
(* What is on a page: its links, and its forms with what they ask for. *)

Asks(name, who, role) == [name |-> name, who |-> who, role |-> role]

\* UserCrud: no buttons on the row of the user the page was rendered for.
RowsWithButtons(p) == {u \in User : p.rows[u].there /\ u # p.currentUser}

\* RoleButton flips the role, BanButton the ban, as they were when the page was rendered.
RowForms(p) ==
    {Asks("setRole", u, IF p.rows[u].role = "admin" THEN "user" ELSE "admin") :
       u \in RowsWithButtons(p)}
    \cup {Asks(IF p.rows[u].banned THEN "unban" ELSE "ban", u, "user") :
       u \in RowsWithButtons(p)}

With(links, forms) == [links |-> links, forms |-> forms]
Bare == With({}, {})

LandingPage == With({"/auth/sign-in"}, {})
SignInPage == With({"/auth/sign-up", "/auth/forgot-password"},
                   {Asks("signIn", u, "user") : u \in User})
SignUpPage == With({"/auth/sign-in"}, {Asks("signUp", u, "user") : u \in User})
ForgotPage == With({"/auth/sign-in"}, {Asks("requestReset", NoUser, "user")})
ResetPage == With({"/auth/sign-in"}, {Asks("reset", NoUser, "user")})
DashboardPage == With({"/dashboard/examples", "/dashboard/profile"}, {})
ProfilePage ==
    With({}, {Asks(name, NoUser, "user") : name \in {"changePassword", "updateProfile"}})
AdminPage == With({"/admin/examples", "/admin/users"}, {})
UsersPage(p) ==
    With({}, RowForms(p) \cup {Asks("remove", NoUser, "user")}
             \cup {Asks("create", u, role) : u \in User, role \in {"user", "admin"}})

On(p) ==
    CASE p.at = "/" -> LandingPage
      [] p.at = "/auth/sign-in" -> SignInPage
      [] p.at = "/auth/sign-up" -> SignUpPage
      [] p.at = "/auth/forgot-password" -> ForgotPage
      [] p.at = "/auth/reset-password" -> ResetPage
      [] p.at = "/dashboard" -> DashboardPage
      [] p.at = "/dashboard/profile" -> ProfilePage
      [] p.at = "/admin" -> AdminPage
      [] p.at = "/admin/users" -> UsersPage(p)
      [] OTHER -> Bare

\* What the layouts put around a page: the panel of the auth pages, the shells with
\* their sidebars and the sign-out button of the user menu.
AuthPanel == With({"/"}, {})
Shell(nav) == With(nav, {Asks("signOut", NoUser, "user")})

Around(at) ==
    CASE at \in Auth -> AuthPanel
      [] at \in Core -> Shell(Core)
      [] at \in Admin -> Shell(Admin)
      [] OTHER -> Bare

Links(p) == On(p).links \cup Around(p.at).links
FormsOn(p) == On(p).forms \cup Around(p.at).forms

-----------------------------------------------------------------------------
(* Getting about. *)

\* A typed address, a bookmark, or the Profile link of the user menu, an <a>; not while
\* a form awaits its answer, which would be lost with the page.
Enters(t, to) ==
    /\ form[t] = Idle
    /\ to \in Entry \/ (to = "/dashboard/profile" /\ page[t].at \in Core \cup Admin)
    /\ going' = [going EXCEPT ![t] = Request(to, TRUE, cookie)]
    /\ UNCHANGED <<people, sessions, issued, cookie, page, form>>

Follows(t, to) ==
    /\ to \in Links(page[t]) \ {page[t].at}
    /\ going' = [going EXCEPT
                   ![t] = Request(to, Layout(to) # Layout(page[t].at), cookie)]
    /\ UNCHANGED <<people, sessions, issued, cookie, page, form>>

-----------------------------------------------------------------------------
(* The server actions behind the forms. *)

\* Mutant: a change is a PUT, as it is for the examples.
VerbOfChange(name) == IF name \in {"updateProfile", "setRole"} THEN "PUT" ELSE "POST"

Verb(name) == "POST"

\* The endpoints, written out by hand in auth.service.ts and user.service.ts.
Endpoint(name) ==
    CASE name = "signIn" -> ByHand(Verb(name), "auth", "sign-in/email")
      [] name = "signUp" -> ByHand(Verb(name), "auth", "sign-up/email")
      [] name = "signOut" -> ByHand(Verb(name), "auth", "sign-out")
      [] name = "requestReset" -> ByHand(Verb(name), "auth", "request-password-reset")
      [] name = "reset" -> ByHand(Verb(name), "auth", "reset-password")
      [] name = "changePassword" -> ByHand(Verb(name), "auth", "change-password")
      [] name = "updateProfile" -> ByHand(Verb(name), "auth", "update-user")
      [] name = "setRole" -> ByHand(Verb(name), "admin", "set-role")
      [] name = "ban" -> ByHand(Verb(name), "admin", "ban-user")
      [] name = "unban" -> ByHand(Verb(name), "admin", "unban-user")
      [] name = "remove" -> ByHand(Verb(name), "admin", "remove-user")
      [] name = "create" -> ByHand(Verb(name), "admin", "create-user")

\* Calls made with auth: false carry no token.
Anonymous == {"signIn", "signUp", "requestReset", "reset"}

Submits(t, f) ==
    /\ form[t] = Idle /\ going[t] = Nowhere
    /\ f \in FormsOn(page[t])
    /\ form' = [form EXCEPT ![t] =
         [name |-> f.name, who |-> f.who, role |-> f.role, step |-> "sent", ok |-> FALSE,
          token |-> IF f.name \in Anonymous THEN NoToken ELSE cookie, new |-> NoToken,
          home |-> "/", call |-> Endpoint(f.name)]]
    /\ UNCHANGED <<people, sessions, issued, cookie, page, going>>

\* What the call does at the api.
Accepts(f) ==
    LET caller == SessionOf(f.token)
    IN CASE f.name = "signIn" -> people[f.who].there /\ ~people[f.who].banned
         [] f.name = "signUp" -> ~people[f.who].there
         [] f.name \in {"setRole", "ban", "unban"} -> IsAdmin(caller) /\ people[f.who].there
         [] f.name = "create" -> IsAdmin(caller) /\ ~people[f.who].there
         [] f.name = "remove" -> FALSE     \* the action reads "userId", the dialog sends "id"
         [] f.name \in {"requestReset", "reset"} -> TRUE
         [] OTHER -> caller # NoUser

Opens(f) == f.name \in {"signIn", "signUp"}

PeopleAfter(f) ==
    CASE f.name = "signUp" -> [people EXCEPT ![f.who] =
                                 [there |-> TRUE, role |-> "user", banned |-> FALSE]]
      [] f.name = "create" -> [people EXCEPT ![f.who] =
                                 [there |-> TRUE, role |-> f.role, banned |-> FALSE]]
      [] f.name = "setRole" -> [people EXCEPT ![f.who].role = f.role]
      [] f.name \in {"ban", "unban"} -> [people EXCEPT ![f.who].banned = f.name = "ban"]
      [] OTHER -> people

SessionsAfter(f) ==
    [k \in Token |->
       IF Opens(f) /\ k = issued + 1 THEN f.who
       ELSE IF f.name = "signOut" /\ k = f.token THEN NoUser
       ELSE IF f.name = "ban" /\ sessions[k] = f.who THEN NoUser
       ELSE sessions[k]]

\* homePathFor, of the user the call answered with.
HomeAfter(f) == IF f.name = "signIn" THEN HomePathFor(f.who) ELSE "/dashboard"

Runs(t, ok) ==
    LET f == form[t]
    IN /\ f # Idle /\ f.step = "sent" /\ Accepts(f)
       /\ people' = PeopleAfter(f)
       /\ sessions' = SessionsAfter(f)
       /\ issued' = IF Opens(f) THEN issued + 1 ELSE issued
       /\ form' = [form EXCEPT ![t].step = "answered", ![t].ok = ok,
                               ![t].new = IF Opens(f) THEN issued + 1 ELSE NoToken,
                               ![t].home = IF Opens(f) THEN HomeAfter(f) ELSE "/"]
       /\ UNCHANGED <<cookie, page, going>>

Fails(t) ==
    /\ form[t] # Idle /\ form[t].step = "sent"
    /\ form' = [form EXCEPT ![t].step = "answered"]
    /\ UNCHANGED <<people, sessions, issued, cookie, page, going>>

Refuses(t) == form[t] # Idle /\ form[t].step = "sent" /\ ~Accepts(form[t]) /\ Fails(t)

\* Mutant: the cookie goes once the api has confirmed.
CookieOnceConfirmed(f) ==
    IF f.ok /\ Opens(f) THEN f.new ELSE IF f.ok /\ f.name = "signOut" THEN NoToken ELSE cookie

\* signInAction and signUpAction set the cookie when the call went through, signOutAction
\* clears it whatever the call did.
CookieAfter(f) ==
    IF f.ok /\ Opens(f) THEN f.new ELSE IF f.name = "signOut" THEN NoToken ELSE cookie

\* Where the answer leads: home, to the sign-in page, or back to a fresh list of users.
Leads(t, f) ==
    CASE f.ok /\ Opens(f) -> Request(f.home, TRUE, f.new)
      [] f.name = "signOut" -> Request("/auth/sign-in", TRUE, NoToken)
      [] f.ok /\ f.name \in {"setRole", "ban", "unban", "create"}
           /\ page[t].at = "/admin/users" /\ going[t] = Nowhere ->
             Request("/admin/users", TRUE, cookie)
      [] OTHER -> going[t]

Answers(t) ==
    LET f == form[t]
    IN /\ f # Idle /\ f.step = "answered"
       /\ cookie' = CookieAfter(f)
       /\ going' = [going EXCEPT ![t] = Leads(t, f)]
       /\ form' = [form EXCEPT ![t] = Idle]
       /\ UNCHANGED <<people, sessions, issued, page>>

\* A session ends after its seven days, or an operator ends it.
Expires(k) ==
    /\ sessions[k] # NoUser
    /\ sessions' = [sessions EXCEPT ![k] = NoUser]
    /\ UNCHANGED <<people, issued, cookie, page, going, form>>

-----------------------------------------------------------------------------
\* Somebody is signed in, in a browser with its tabs on the landing page.
Init ==
    /\ people \in [User -> Account]
    /\ \A u \in User : people[u].there \/ people[u] = NoRows[u]
    /\ \E u \in User :
         /\ people[u].there /\ ~people[u].banned
         /\ sessions = [k \in Token |-> IF k = 1 THEN u ELSE NoUser]
    /\ issued = 1 /\ cookie = 1
    /\ page = [t \in Tab |-> Plain("/")]
    /\ going = [t \in Tab |-> Nowhere] /\ form = [t \in Tab |-> Idle]
    /\ acts = 0

Act ==
    /\ acts < MaxActs /\ acts' = acts + 1
    /\ \/ \E t \in Tab :
            \/ \E to \in Route : Enters(t, to)
            \/ \E to \in Route : Follows(t, to)
            \/ \E f \in FormsOn(page[t]) :
                 /\ Opens(f) => issued + Cardinality({s \in Tab : Opens(form[s])}) < MaxTokens
                 /\ Submits(t, f)
            \/ ServesBadly(t)
            \/ Fails(t) \/ Runs(t, FALSE)
       \/ \E k \in Token : Expires(k)

React ==
    /\ \E t \in Tab : Serves(t) \/ Runs(t, TRUE) \/ Refuses(t) \/ Answers(t)
    /\ UNCHANGED acts

Next == Act \/ React

\* The servers answer and the browser goes on.
Spec ==
    /\ Init /\ [][Next]_vars
    /\ \A t \in Tab :
         /\ WF_vars(Serves(t) /\ UNCHANGED acts)
         /\ WF_vars((Runs(t, TRUE) \/ Refuses(t)) /\ UNCHANGED acts)
         /\ WF_vars(Answers(t) /\ UNCHANGED acts)

SessionTypeOK ==
    /\ people \in [User -> Account]
    /\ sessions \in [Token -> User \cup {NoUser}]
    /\ issued \in Token /\ \A k \in Token : k > issued => sessions[k] = NoUser
    /\ cookie \in 0..issued
    /\ page \in [Tab -> [at : Route \cup {"error"}, currentUser : User \cup {NoUser},
                         rows : [User -> Account]]]
    /\ \A t \in Tab :
         /\ going[t] # Nowhere => going[t].to \in Route /\ going[t].token \in 0..issued
         /\ form[t] # Idle => /\ form[t].step \in {"sent", "answered"}
                              /\ form[t].token \in 0..issued /\ form[t].new \in 0..issued

-----------------------------------------------------------------------------
(* Properties. *)

\* No address is a merry-go-round: whatever becomes of the session, the guards of the
\* layouts and pages agree on a page or an error in the end.
VisitSettles == \A t \in Tab : going[t] # Nowhere ~> going[t] = Nowhere

\* "The local cookie is cleared either way, so a failed call must not trap the user in a
\* signed-in shell": whoever signs out is rid of that session in the browser.
NotTrapped ==
    \A t \in Tab, k \in Token :
       (form[t] # Idle /\ form[t].name = "signOut" /\ form[t].token = k) ~> (cookie # k)

\* A request is over and has brought a page of `routes`.
Brings(t, routes) == Serves(t) /\ going'[t] = Nowhere /\ page'[t].at \in routes

\* "Nobody reaches the app without a session" (CoreAppLayout), although a link within the
\* app does not ask its layout: each page of it, and each page of the admin app that
\* fetches something, finds out by itself.  The overview of the admin app does not, and is
\* brought without a session all the same.
NobodyReachesTheApp ==
    [][\A t \in Tab : Brings(t, Core \cup (Admin \ {"/admin"})) =>
         SessionOf(going[t].token) # NoUser]_vars

\* "Its OpenAPI document has no schemas, so these calls are typed by hand"
\* (user.service.ts): no call of a form or a page has drifted from what the api offers,
\* and none is typed by hand although the contract has a type for it.
CallsInContract ==
    \A t \in Tab :
       /\ form[t] # Idle => InContract(form[t].call)
       /\ going[t] # Nowhere => \A call \in PageCalls(going[t].to) : InContract(call)
=============================================================================
