---------------------------- MODULE SessionProofs ----------------------------
(***************************************************************************)
(* Proofs about Session: every call the web app makes is one the api       *)
(* offers, no page of the app but the overview of the admins is rendered   *)
(* for nobody, and a session that is being opened has a number to be had,  *)
(* for any number of users, tabs and sessions.                             *)
(***************************************************************************)
EXTENDS Session, FiniteSetTheorems, TLAPS

\* The tables of the tabs keep their shape.
Tabs == /\ DOMAIN going = Tab /\ going = [t \in Tab |-> going[t]]
        /\ DOMAIN page = Tab /\ page = [t \in Tab |-> page[t]]
        /\ DOMAIN form = Tab /\ form = [t \in Tab |-> form[t]]

LEMMA TabsStep == Tabs /\ [Next]_vars => Tabs'
<1> SUFFICES ASSUME Tabs, [Next]_vars
             PROVE  Tabs'
  OBVIOUS
<1>1. CASE UNCHANGED vars
  BY <1>1 DEF Tabs, vars
<1>2. ASSUME NEW t \in Tab, NEW user, Comes(t, user)
      PROVE  Tabs'
  BY <1>2 DEF Tabs, Comes
<1>3. ASSUME NEW t \in Tab,
             \/ Serves(t) \/ ServesBadly(t)
      PROVE  Tabs'
  BY <1>2, <1>3 DEF Serves, ServesBadly, Tabs
<1>4. ASSUME NEW t \in Tab, NEW to \in Route, Enters(t, to) \/ Follows(t, to)
      PROVE  Tabs'
  BY <1>4 DEF Enters, Follows, Tabs
<1>5. ASSUME NEW t \in Tab, NEW f, Submits(t, f)
      PROVE  Tabs'
  BY <1>5 DEF Submits, Tabs
<1>6. ASSUME NEW t \in Tab, NEW ok, Runs(t, ok)
      PROVE  Tabs'
  BY <1>6 DEF Runs, Tabs
<1>7. ASSUME NEW t \in Tab, Fails(t) \/ Refuses(t) \/ Answers(t)
      PROVE  Tabs'
  BY <1>7 DEF Fails, Refuses, Answers, Tabs
<1>8. ASSUME NEW k \in Token, Expires(k)
      PROVE  Tabs'
  BY <1>8 DEF Expires, Tabs
<1>9. QED
  BY <1>1, <1>3, <1>4, <1>5, <1>6, <1>7, <1>8 DEF Next, Act, React

LEMMA TabsHold == Spec => []Tabs
<1>1. Init => Tabs
  BY DEF Init, Tabs
<1>2. QED
  BY <1>1, TabsStep, PTL DEF Spec

-----------------------------------------------------------------------------
(* Who reaches the app. *)

Guarded == Core \cup (Admin \ {"/admin"})

\* A page that is rendered without its layout asks for the session, or the call for its
\* list does.
LEMMA NobodyIsTurnedAway ==
    ASSUME NEW r, r.to \in Guarded
    PROVE  Outcome(r, NoUser) # "here"
  BY DEF Outcome, PageSends, PageThrows, Guarded, Core, Admin, IsAdmin

\* (core-app)/layout.tsx, "nobody reaches the app without a session": whatever ends the
\* session, in whichever tab, and whichever link is followed, of every page of the app
\* and of the admin app but /admin itself.
THEOREM NobodyReachesTheAppHolds == Spec => NobodyReachesTheApp
<1>1. Tabs /\ [Next]_vars =>
        [\A t \in Tab : Brings(t, Core \cup (Admin \ {"/admin"})) =>
           SessionOf(going[t].token) # NoUser]_vars
  <2> SUFFICES ASSUME Tabs, NEW t \in Tab, Brings(t, Guarded),
                      SessionOf(going[t].token) = NoUser
               PROVE  FALSE
    BY DEF Guarded
  <2> DEFINE r == going[t]
             outcome == Outcome(r, NoUser)
  <2>1. Comes(t, NoUser) /\ going'[t] = Nowhere /\ page'[t].at \in Guarded
    BY DEF Brings, Serves
  <2>2. outcome \in {"here", "error"}
    <3>1. ASSUME outcome \notin {"here", "error"}
          PROVE  going'[t] = Request(outcome, TRUE, cookie)
      BY <3>1, <2>1 DEF Comes, Tabs
    <3>2. Request(outcome, TRUE, cookie) # Nowhere
      BY DEF Request, Nowhere
    <3>3. QED
      BY <2>1, <3>1, <3>2
  <2>3. page'[t] = IF outcome = "error" THEN Plain("error") ELSE Rendered(r.to, NoUser)
    BY <2>1, <2>2 DEF Comes, Tabs
  <2>4. Plain("error").at \notin Guarded /\ Rendered(r.to, NoUser).at = r.to
    BY DEF Plain, Shows, Rendered, Guarded, Core, Admin
  <2>5. outcome # "error" /\ r.to \in Guarded
    BY <2>1, <2>3, <2>4
  <2>6. QED
    BY <2>2, <2>5, NobodyIsTurnedAway
<1>2. QED
  BY <1>1, TabsHold, PTL DEF Spec, NobodyReachesTheApp

-----------------------------------------------------------------------------
(* The calls. *)

Names == {"signIn", "signUp", "signOut", "requestReset", "reset", "changePassword",
          "updateProfile", "setRole", "ban", "unban", "remove", "create"}

LEMMA FormNames == \A p : \A f \in FormsOn(p) : f.name \in Names
<1>1. \A p : \A f \in On(p).forms : f.name \in Names
  BY DEF On, LandingPage, SignInPage, SignUpPage, ForgotPage, ResetPage, DashboardPage,
         ProfilePage, AdminPage, UsersPage, Bare, With, RowForms, RowsWithButtons, Asks, Names
<1>2. \A at : \A f \in Around(at).forms : f.name \in Names
  BY DEF Around, AuthPanel, Shell, Bare, With, Asks, Names
<1>3. QED
  BY <1>1, <1>2 DEF FormsOn

\* A call by hand agrees with an offer of its method and path whose operation is untyped.
LEMMA OfferedUntyped ==
    ASSUME NEW method, NEW prefix, NEW name, NEW id, NEW ids, id \in ids,
           Offer(method, prefix, name, id) \in paths,
           Untyped(ids) \subseteq operations
    PROVE  InContract(ByHand(method, prefix, name))
<1> DEFINE offer == Offer(method, prefix, name, id)
           o == Operation(id, "never", {<<200, "never">>})
<1>1. o \in operations /\ o.id = id
  BY DEF Untyped, Operation
<1>2. Agrees(ByHand(method, prefix, name), o)
  BY DEF Agrees, ByHand, Untyped, Operation
<1>3. QED
  BY <1>1, <1>2 DEF InContract, ByHand, Offer

LEMMA UntypedOperations ==
    /\ AdminOperations \subseteq operations /\ AdminChangeOperations \subseteq operations
    /\ AccountOperations \subseteq operations /\ ResetOperations \subseteq operations
    /\ SignOperations \subseteq operations /\ ProfileOperations \subseteq operations
  BY DEF operations

LEMMA EndpointsOffered == \A name \in Names : InContract(Endpoint(name))
<1>1. /\ Post("auth", "sign-in/email", "sign_in_email") \in SignOffers
      /\ Post("auth", "sign-up/email", "sign_up_email") \in SignOffers
      /\ Post("auth", "sign-out", "sign_out") \in SignOffers
  BY DEF SignOffers
<1>2. /\ Post("auth", "request-password-reset", "request_password_reset") \in ResetOffers
      /\ Post("auth", "reset-password", "reset_password") \in ResetOffers
  BY DEF ResetOffers
<1>3. /\ Post("auth", "change-password", "change_password") \in AccountOffers
      /\ Post("auth", "update-user", "update_user") \in ProfileOffers
  BY DEF AccountOffers, ProfileOffers
<1>4. /\ Post("admin", "set-role", "admin_set_role") \in AdminChangeOffers
      /\ Post("admin", "unban-user", "admin_unban_user") \in AdminChangeOffers
  BY DEF AdminChangeOffers
<1>5. /\ Post("admin", "ban-user", "admin_ban_user") \in AdminOffers
      /\ Post("admin", "remove-user", "admin_remove_user") \in AdminOffers
      /\ Post("admin", "create-user", "admin_create_user") \in AdminOffers
  BY DEF AdminOffers
<1>6. /\ SignOffers \subseteq paths /\ ResetOffers \subseteq paths
      /\ AccountOffers \subseteq paths /\ ProfileOffers \subseteq paths
      /\ AdminOffers \subseteq paths /\ AdminChangeOffers \subseteq paths
  BY DEF paths
<1> DEFINE Offered(prefix, name) == InContract(ByHand("POST", prefix, name))
<1>7. /\ Offered("auth", "sign-in/email") /\ Offered("auth", "sign-up/email")
      /\ Offered("auth", "sign-out")
  BY <1>1, <1>6, OfferedUntyped, UntypedOperations DEF Get, Post, SignOperations
<1>8. Offered("auth", "request-password-reset") /\ Offered("auth", "reset-password")
  BY <1>2, <1>6, OfferedUntyped, UntypedOperations DEF Get, Post, ResetOperations
<1>9. Offered("auth", "change-password")
  BY <1>3, <1>6, OfferedUntyped, UntypedOperations DEF Get, Post, AccountOperations
<1>10. Offered("auth", "update-user")
  BY <1>3, <1>6, OfferedUntyped, UntypedOperations DEF Get, Post, ProfileOperations
<1>11. Offered("admin", "set-role") /\ Offered("admin", "unban-user")
  BY <1>4, <1>6, OfferedUntyped, UntypedOperations DEF Get, Post, AdminChangeOperations
<1>12. /\ Offered("admin", "ban-user") /\ Offered("admin", "remove-user")
       /\ Offered("admin", "create-user")
  BY <1>5, <1>6, OfferedUntyped, UntypedOperations DEF Get, Post, AdminOperations
<1>13. QED
  BY <1>7, <1>8, <1>9, <1>10, <1>11, <1>12 DEF Endpoint, Verb, Names

LEMMA PageCallsOffered == \A route : \A call \in PageCalls(route) : InContract(call)
<1>1. InContract(ByHand("GET", "auth", "get-session"))
  <2>1. Get("auth", "get-session", "get_session") \in AccountOffers
    BY DEF AccountOffers
  <2>2. QED
    BY <2>1, OfferedUntyped, UntypedOperations DEF Get, Post, AccountOperations, paths
<1>2. InContract(ByHand("GET", "admin", "list-users"))
  <2>1. Get("admin", "list-users", "admin_list_users") \in AdminOffers
    BY DEF AdminOffers
  <2>2. QED
    BY <2>1, OfferedUntyped, UntypedOperations DEF Get, Post, AdminOperations, paths
<1>3. InContract(ByClient("GET", "examples", "", "ExamplePage"))
  <2> DEFINE call == ByClient("GET", "examples", "", "ExamplePage")
             offer == Get("examples", "", "list_examples")
             o == Operation("list_examples", "never",
                            {<<200, "ExamplePage">>} \cup Failing({500}))
  <2>1. offer \in paths
    BY DEF ExampleOffers, paths
  <2>2. o \in operations /\ o.id = "list_examples"
    BY DEF operations, ListOperations, Operation
  <2>3. Agrees(call, o)
    BY DEF Agrees, ByClient, Operation
  <2>4. QED
    BY <2>1, <2>2, <2>3 DEF InContract, ByClient, Get, Offer
<1>4. QED
  BY <1>1, <1>2, <1>3 DEF PageCalls

\* No call in auth.service.ts, user.service.ts or lib/session.ts differs from what
\* generated/api-types.ts has of the api, and none is typed by hand in vain.
THEOREM CallsInContractHolds == Spec => []CallsInContract
<1> DEFINE Known == \A t \in Tab : form[t] # Idle =>
                      "call" \in DOMAIN form[t] /\ InContract(form[t].call)
<1>1. Init => Known
  BY DEF Init
<1>2. Tabs /\ Known /\ [Next]_vars => Known'
  <2> SUFFICES ASSUME Tabs, Known, [Next]_vars,
                      NEW t \in Tab, form'[t] # Idle
               PROVE  "call" \in DOMAIN form'[t] /\ InContract(form'[t].call)
    OBVIOUS
  <2>1. CASE form'[t] = form[t]
    BY <2>1
  <2>2. ASSUME NEW s \in Tab, NEW f \in FormsOn(page[s]), Submits(s, f)
        PROVE  "call" \in DOMAIN form'[t] /\ InContract(form'[t].call)
    <3>1. InContract(Endpoint(f.name))
      BY FormNames, EndpointsOffered
    <3>2. CASE s = t
      <4>1. "call" \in DOMAIN form'[t] /\ form'[t].call = Endpoint(f.name)
        BY <2>2, <3>2 DEF Submits, Tabs
      <4>2. QED
        BY <3>1, <4>1
    <3>3. CASE s # t
      <4>1. form'[t] = form[t]
        BY <2>2, <3>3 DEF Submits, Tabs
      <4>2. QED
        BY <4>1
    <3>4. QED
      BY <3>2, <3>3
  <2>3. ASSUME NEW s \in Tab, NEW ok, Runs(s, ok) \/ Fails(s) \/ Answers(s)
        PROVE  "call" \in DOMAIN form'[t] /\ InContract(form'[t].call)
    <3>1. CASE s # t
      <4>1. form'[t] = form[t]
        BY <2>3, <3>1 DEF Runs, Fails, Answers, Tabs
      <4>2. QED
        BY <4>1
    <3>2. CASE s = t
      <4>1. ~Answers(s)
        BY <3>2 DEF Answers, Tabs
      <4>2. form[t] # Idle
        BY <2>3, <3>2, <4>1 DEF Runs, Fails
      <4>3. CASE Fails(s)
        BY <3>2, <4>2, <4>3 DEF Fails, Tabs
      <4>4. CASE Runs(s, ok)
        BY <3>2, <4>2, <4>4 DEF Runs, Tabs
      <4>5. QED
        BY <2>3, <4>1, <4>3, <4>4
    <3>3. QED
      BY <3>1, <3>2
  <2>4. QED
    BY <2>1, <2>2, <2>3
       DEF Next, Act, React, Serves, ServesBadly, Comes, Enters, Follows, Refuses,
           Expires, vars
<1>3. Known => CallsInContract
  BY PageCallsOffered DEF CallsInContract
<1>4. QED
  BY <1>1, <1>2, <1>3, TabsHold, PTL DEF Spec

-----------------------------------------------------------------------------
(* Types, and room for the sessions that are being opened.                 *)

Fields == {"name", "who", "role", "step", "ok", "token", "new", "home", "call"}

\* A server action under way.
FormOK(f) ==
    /\ DOMAIN f = Fields
    /\ f.name \in Names /\ f.role \in {"user", "admin"}
    /\ f.name \in {"signIn", "signUp"} => f.who \in User
    /\ f.step \in {"sent", "answered"}
    /\ f.token \in 0..issued /\ f.new \in 0..issued /\ f.home \in Route

Screen == [at : Route \cup {"error"}, currentUser : User \cup {NoUser}, rows : [User -> Account]]

ApiOK ==
    /\ people \in [User -> Account]
    /\ sessions \in [Token -> User \cup {NoUser}]
    /\ issued \in Token /\ \A k \in Token : k > issued => sessions[k] = NoUser

BrowserOK ==
    /\ cookie \in 0..issued
    /\ page \in [Tab -> Screen]
    /\ \A t \in Tab :
         /\ going[t] # Nowhere => going[t].to \in Route /\ going[t].token \in 0..issued
         /\ form[t] # Idle => FormOK(form[t])

\* The forms that open a session, and those whose call has yet to be answered.
Opening == {t \in Tab : Opens(form[t])}
Waiting == {t \in Opening : form[t].step = "sent"}

Room == IsFiniteSet(Opening) /\ issued + Cardinality(Waiting) <= MaxTokens

SessionInv == Tabs /\ ApiOK /\ BrowserOK /\ Room

LEMMA IdleOpensNothing == ~Opens(Idle)
  BY DEF Opens, Idle

LEMMA TokensAreNumbers == MaxTokens \in Nat /\ Token \subseteq Nat /\ 1 \in Token
  BY SessionAssumption DEF Token

LEMMA RowsAreAccounts == NoRows \in [User -> Account]
  BY DEF NoRows, Account

LEMMA PlainIsScreen ==
    ASSUME NEW at \in Route \cup {"error"}
    PROVE  Plain(at) \in Screen
  BY RowsAreAccounts DEF Plain, Shows, Screen

LEMMA FormTypes ==
    ASSUME NEW p, NEW f \in FormsOn(p)
    PROVE  /\ f.name \in Names /\ f.role \in {"user", "admin"}
           /\ f.name \in {"signIn", "signUp"} => f.who \in User
<1>. DEFINE Fine(g) == g.role \in {"user", "admin"} /\ (g.name \in {"signIn", "signUp"} => g.who \in User)
<1>0. ASSUME NEW name, NEW who, NEW role \in {"user", "admin"},
             name \in {"signIn", "signUp"} => who \in User
      PROVE  Fine(Asks(name, who, role))
  BY <1>0 DEF Asks
<1>1. \A g \in RowForms(p) : Fine(g)
  <2>1. ASSUME NEW u \in User
        PROVE  /\ Fine(Asks("setRole", u, IF p.rows[u].role = "admin" THEN "user" ELSE "admin"))
               /\ Fine(Asks(IF p.rows[u].banned THEN "unban" ELSE "ban", u, "user"))
    BY <1>0
  <2>. QED
    BY <2>1 DEF RowForms, RowsWithButtons
<1>2. \A g \in On(p).forms : Fine(g)
  <2>1. \A g \in UsersPage(p).forms : Fine(g)
    BY <1>0, <1>1 DEF UsersPage, With
  <2>2. \A g \in SignInPage.forms \cup SignUpPage.forms : Fine(g)
    BY <1>0 DEF SignInPage, SignUpPage, With
  <2>3. \A g \in ForgotPage.forms \cup ResetPage.forms \cup ProfilePage.forms : Fine(g)
    BY <1>0 DEF ForgotPage, ResetPage, ProfilePage, With
  <2>4. LandingPage.forms \cup DashboardPage.forms \cup AdminPage.forms \cup Bare.forms = {}
    BY DEF LandingPage, DashboardPage, AdminPage, Bare, With
  <2>. QED
    BY <2>1, <2>2, <2>3, <2>4 DEF On
<1>3. \A g \in Around(p.at).forms : Fine(g)
  <2>1. \A nav : \A g \in Shell(nav).forms : Fine(g)
    BY <1>0 DEF Shell, With
  <2>2. AuthPanel.forms = {} /\ Bare.forms = {}
    BY DEF AuthPanel, Bare, With
  <2>. QED
    BY <2>1, <2>2 DEF Around
<1>. QED
  BY <1>2, <1>3, FormNames DEF FormsOn

LEMMA OutcomeIsRoute ==
    ASSUME NEW r, NEW user, Outcome(r, user) \notin {"here", "error"}
    PROVE  Outcome(r, user) \in Route
<1>1. LayoutSends(r, user) \in Route \cup {"here"}
  BY DEF LayoutSends, HomePathFor, Route, Public, Auth, Core, Admin
<1>2. PageSends(r.to, user) \in Route \cup {"here"}
  BY DEF PageSends, Route, Public, Auth, Core, Admin
<1>. QED
  BY <1>1, <1>2 DEF Outcome

LEMMA SessionInvInit == Init => SessionInv
<1>. SUFFICES ASSUME Init PROVE SessionInv
  OBVIOUS
<1>1. Tabs
  BY DEF Init, Tabs
<1>2. ApiOK
  BY TokensAreNumbers DEF Init, ApiOK, Token
<1>3. BrowserOK
  BY PlainIsScreen DEF Init, BrowserOK, Route, Public
<1>4. Opening = {} /\ Waiting = {}
  BY IdleOpensNothing DEF Init, Opening, Waiting
<1>5. Room
  BY <1>4, FS_EmptySet, TokensAreNumbers, SessionAssumption DEF Init, Room
<1>. QED
  BY <1>1, <1>2, <1>3, <1>5 DEF SessionInv

\* What a tab opens depends on its form only.
LEMMA SameForms ==
    ASSUME form' = form
    PROVE  Opening' = Opening /\ Waiting' = Waiting
  BY DEF Opening, Waiting

\* A request that is served.
LEMMA ComesTyped ==
    ASSUME SessionInv, NEW t \in Tab, going[t] # Nowhere, NEW user \in User \cup {NoUser}, Comes(t, user)
    PROVE  SessionInv'
<1>. DEFINE r == going[t]
            outcome == Outcome(r, user)
<1>0. Tabs /\ ApiOK /\ BrowserOK /\ Room
  BY DEF SessionInv
<1>1. UNCHANGED <<people, sessions, issued, cookie, form>>
  BY DEF Comes
<1>2. r.to \in Route /\ cookie \in 0..issued
  BY <1>0 DEF BrowserOK
<1>3. CASE outcome \in {"here", "error"}
  <2>1. Rendered(r.to, user) \in Screen
    BY <1>0, <1>2, PlainIsScreen DEF Rendered, Shows, Screen, ApiOK
  <2>2. Plain("error") \in Screen
    BY PlainIsScreen
  <2>. DEFINE p == IF outcome = "error" THEN Plain("error") ELSE Rendered(r.to, user)
  <2>3. p \in Screen /\ page' = [page EXCEPT ![t] = p] /\ going' = [going EXCEPT ![t] = Nowhere]
    BY <2>1, <2>2, <1>3 DEF Comes
  <2>. HIDE DEF p
  <2>4. page' \in [Tab -> Screen]
    BY <2>3, <1>0 DEF BrowserOK
  <2>5. \A s \in Tab : going'[s] = Nowhere \/ going'[s] = going[s]
    BY <2>3, <1>0 DEF Tabs
  <2>6. Tabs'
    BY <2>3, <1>0, <1>1 DEF Tabs
  <2>. QED
    BY <2>4, <2>5, <2>6, <1>0, <1>1, SameForms DEF SessionInv, ApiOK, BrowserOK, FormOK, Room
<1>4. CASE outcome \notin {"here", "error"}
  <2>1. outcome \in Route
    BY <1>4, OutcomeIsRoute
  <2>. DEFINE q == Request(outcome, TRUE, cookie)
  <2>2. going' = [going EXCEPT ![t] = q] /\ page' = page
    BY <1>4 DEF Comes
  <2>3. q.to \in Route /\ q.token \in 0..issued
    BY <2>1, <1>2 DEF Request
  <2>. HIDE DEF q
  <2>4. \A s \in Tab : going'[s] = q \/ going'[s] = going[s]
    BY <2>2, <1>0 DEF Tabs
  <2>5. Tabs'
    BY <2>2, <1>0, <1>1 DEF Tabs
  <2>. QED
    BY <2>2, <2>3, <2>4, <2>5, <1>0, <1>1, SameForms DEF SessionInv, ApiOK, BrowserOK, FormOK, Room
<1>. QED
  BY <1>3, <1>4

\* A reader who goes somewhere.
LEMMA GoesTyped ==
    ASSUME SessionInv, NEW t \in Tab, NEW to \in Route, Enters(t, to) \/ Follows(t, to)
    PROVE  SessionInv'
<1>0. Tabs /\ ApiOK /\ BrowserOK /\ Room
  BY DEF SessionInv
<1>1. UNCHANGED <<people, sessions, issued, cookie, page, form>>
  BY DEF Enters, Follows
<1>2. \E whole : going' = [going EXCEPT ![t] = Request(to, whole, cookie)]
  BY DEF Enters, Follows
<1>3. PICK whole : going' = [going EXCEPT ![t] = Request(to, whole, cookie)]
  BY <1>2
<1>. DEFINE q == Request(to, whole, cookie)
<1>4. q.to \in Route /\ q.token \in 0..issued
  BY <1>0 DEF Request, BrowserOK
<1>5. going' = [going EXCEPT ![t] = q]
  BY <1>3
<1>. HIDE DEF q
<1>6. \A s \in Tab : going'[s] = q \/ going'[s] = going[s]
  BY <1>5, <1>0 DEF Tabs
<1>7. Tabs'
  BY <1>0, <1>1, <1>5 DEF Tabs
<1>. QED
  BY <1>0, <1>1, <1>4, <1>6, <1>7, SameForms DEF SessionInv, ApiOK, BrowserOK, FormOK, Room

\* A form that is sent: if it opens a session, there is room for one more.
LEMMA SubmitsTyped ==
    ASSUME SessionInv, NEW t \in Tab, NEW f \in FormsOn(page[t]), Submits(t, f),
           Opens(f) => issued + Cardinality(Opening) < MaxTokens
    PROVE  SessionInv'
<1>0. Tabs /\ ApiOK /\ BrowserOK /\ Room
  BY DEF SessionInv
<1>1. UNCHANGED <<people, sessions, issued, cookie, page, going>> /\ form[t] = Idle
  BY DEF Submits
<1>. DEFINE g == [name |-> f.name, who |-> f.who, role |-> f.role, step |-> "sent", ok |-> FALSE,
                  token |-> IF f.name \in Anonymous THEN NoToken ELSE cookie, new |-> NoToken,
                  home |-> "/", call |-> Endpoint(f.name)]
<1>2. form' = [form EXCEPT ![t] = g]
  BY DEF Submits
<1>3. f.name \in Names /\ f.role \in {"user", "admin"} /\ (f.name \in {"signIn", "signUp"} => f.who \in User)
  BY FormTypes
<1>4. issued \in Nat /\ MaxTokens \in Nat /\ cookie \in 0..issued /\ 0 \in 0..issued
  BY <1>0, TokensAreNumbers DEF ApiOK, BrowserOK
<1>5. DOMAIN g = Fields
  BY DEF Fields
<1>6. g.token \in 0..issued /\ g.new \in 0..issued
  BY <1>4 DEF NoToken
<1>7. g.home \in Route /\ g.step = "sent" /\ g.name = f.name /\ g.who = f.who /\ g.role = f.role
  BY DEF Route, Public
<1>. HIDE DEF g
<1>8. FormOK(g) /\ (Opens(g) <=> Opens(f))
  BY <1>3, <1>5, <1>6, <1>7 DEF FormOK, Opens
<1>9. form'[t] = g /\ \A s \in Tab \ {t} : form'[s] = form[s]
  BY <1>0, <1>2 DEF Tabs
<1>10. Tabs'
  BY <1>0, <1>1, <1>2 DEF Tabs
<1>11. BrowserOK'
  BY <1>0, <1>1, <1>8, <1>9 DEF BrowserOK, FormOK
<1>12. Room'
  <2>1. t \notin Opening
    BY <1>1, IdleOpensNothing DEF Opening
  <2>2. IsFiniteSet(Opening) /\ Waiting \in SUBSET Opening
    BY <1>0 DEF Room, Waiting
  <2>3. IsFiniteSet(Waiting) /\ Cardinality(Waiting) <= Cardinality(Opening)
    BY <2>2, FS_Subset
  <2>4. CASE Opens(f)
    <3>1. Opening' = Opening \cup {t} /\ Waiting' = Waiting \cup {t} /\ t \notin Waiting
      BY <2>1, <2>4, <1>7, <1>8, <1>9 DEF Opening, Waiting
    <3>2. /\ IsFiniteSet(Opening') /\ Cardinality(Waiting') = Cardinality(Waiting) + 1
      BY <2>2, <2>3, <3>1, FS_AddElement
    <3>3. Cardinality(Waiting) \in Nat /\ Cardinality(Opening) \in Nat
      BY <2>2, <2>3, FS_CardinalityType
    <3>4. issued + Cardinality(Opening) < MaxTokens
      BY <2>4
    <3>. QED
      BY <3>2, <3>3, <3>4, <2>3, <1>1, <1>4 DEF Room
  <2>5. CASE ~Opens(f)
    <3>1. Opening' = Opening /\ Waiting' = Waiting
      BY <2>1, <2>5, <1>8, <1>9 DEF Opening, Waiting
    <3>. QED
      BY <3>1, <1>0, <1>1 DEF Room
  <2>. QED
    BY <2>4, <2>5
<1>. QED
  BY <1>0, <1>1, <1>10, <1>11, <1>12 DEF SessionInv, ApiOK

\* A form whose answer is on its way: its fields, but for what the answer says.
LEMMA AnsweredTyped ==
    ASSUME SessionInv, NEW t \in Tab, form[t] # Idle, form[t].step = "sent",
           NEW g, form' = [form EXCEPT ![t] = g],
           DOMAIN g = Fields, g.step = "answered",
           \A x \in {"name", "who", "role", "token"} : g[x] = form[t][x],
           g.home \in Route, g.new \in 0..issued',
           issued' = issued \/ (Opens(form[t]) /\ issued' = issued + 1),
           ApiOK', page' = page, going' = going, cookie' = cookie
    PROVE  SessionInv'
<1>0. Tabs /\ ApiOK /\ BrowserOK /\ Room
  BY DEF SessionInv
<1>1. form'[t] = g /\ \A s \in Tab \ {t} : form'[s] = form[s]
  BY <1>0 DEF Tabs
<1>2. issued \in Nat /\ MaxTokens \in Nat /\ issued' \in Nat /\ 0..issued \subseteq 0..issued'
  BY <1>0, TokensAreNumbers DEF ApiOK
<1>3. FormOK(form[t])
  BY <1>0 DEF BrowserOK
<1>4. FormOK(g)'
  BY <1>2, <1>3 DEF FormOK
<1>5. \A s \in Tab \ {t} : form[s] # Idle => FormOK(form[s])'
  BY <1>0, <1>1, <1>2 DEF BrowserOK, FormOK
<1>6. Tabs'
  BY <1>0 DEF Tabs
<1>7. BrowserOK'
  BY <1>0, <1>1, <1>2, <1>4, <1>5 DEF BrowserOK, FormOK
<1>8. Opens(g) <=> Opens(form[t])
  BY DEF Opens
<1>9. Opening' = Opening
  BY <1>1, <1>8 DEF Opening
<1>10. Waiting' = Waiting \ {t} /\ (t \in Waiting <=> Opens(form[t]))
  BY <1>1, <1>8, <1>9 DEF Waiting, Opening
<1>11. IsFiniteSet(Opening) /\ Waiting \in SUBSET Opening
  BY <1>0 DEF Room, Waiting
<1>12. IsFiniteSet(Waiting)
  BY <1>11, FS_Subset
<1>13. /\ Cardinality(Waiting) \in Nat /\ Cardinality(Waiting') \in Nat
       /\ Cardinality(Waiting') = IF t \in Waiting THEN Cardinality(Waiting) - 1
                                                    ELSE Cardinality(Waiting)
  BY <1>10, <1>12, FS_RemoveElement, FS_CardinalityType
<1>14. Room'
  BY <1>0, <1>2, <1>9, <1>10, <1>11, <1>13 DEF Room
<1>. QED
  BY <1>6, <1>7, <1>14 DEF SessionInv

\* While its call waits, a session that is opened has a number to be had.
LEMMA OpensInRoom ==
    ASSUME SessionInv, NEW t \in Tab, form[t] # Idle, form[t].step = "sent", Opens(form[t])
    PROVE  issued + 1 \in Token
<1>1. t \in Waiting
  BY DEF Waiting, Opening
<1>2. IsFiniteSet(Opening) /\ Waiting \in SUBSET Opening
  BY DEF SessionInv, Room, Waiting
<1>3. IsFiniteSet(Waiting)
  BY <1>2, FS_Subset
<1>4. Cardinality(Waiting) \in Nat /\ Cardinality(Waiting) # 0
  BY <1>1, <1>3, FS_CardinalityType, FS_EmptySet
<1>5. issued \in Token /\ issued + Cardinality(Waiting) <= MaxTokens
  BY DEF SessionInv, ApiOK, Room
<1>. QED
  BY <1>4, <1>5, TokensAreNumbers DEF Token

LEMMA RunsTyped ==
    ASSUME SessionInv, NEW t \in Tab, NEW ok, Runs(t, ok)
    PROVE  SessionInv'
<1>0. Tabs /\ ApiOK /\ BrowserOK
  BY DEF SessionInv
<1>. DEFINE f == form[t]
<1>1. f # Idle /\ f.step = "sent" /\ FormOK(f)
  BY <1>0 DEF Runs, BrowserOK
<1>2. Opens(f) => f.who \in User /\ issued + 1 \in Token
  BY <1>1, OpensInRoom DEF FormOK, Opens
<1>3. issued \in Nat /\ issued' = IF Opens(f) THEN issued + 1 ELSE issued
  BY <1>0, TokensAreNumbers DEF Runs, ApiOK
<1>4. people' \in [User -> Account]
  <2>1. people' = PeopleAfter(f) /\ people \in [User -> Account]
    BY <1>0 DEF Runs, ApiOK
  <2>2. ASSUME NEW w, NEW a \in Account PROVE [people EXCEPT ![w] = a] \in [User -> Account]
    BY <2>1
  <2>3. [there |-> TRUE, role |-> "user", banned |-> FALSE] \in Account
    BY DEF Account
  <2>4. [there |-> TRUE, role |-> f.role, banned |-> FALSE] \in Account
    BY <1>1 DEF Account, FormOK
  <2>5. [people EXCEPT ![f.who].role = f.role] \in [User -> Account]
    BY <2>1, <1>1 DEF Account, FormOK
  <2>6. [people EXCEPT ![f.who].banned = f.name = "ban"] \in [User -> Account]
    <3>. DEFINE z == (f.name = "ban")
    <3>1. z \in BOOLEAN
      OBVIOUS
    <3>. HIDE DEF z
    <3>2. [people EXCEPT ![f.who].banned = z] \in [User -> Account]
      BY <2>1, <3>1 DEF Account
    <3>. QED
      BY <3>2 DEF z
  <2>. QED
    BY <2>1, <2>2, <2>3, <2>4, <2>5, <2>6 DEF PeopleAfter
<1>5. ASSUME NEW k \in Token
      PROVE  /\ sessions'[k] \in User \cup {NoUser}
             /\ k > issued' => sessions'[k] = NoUser
  <2>1. sessions' = SessionsAfter(f)
    BY DEF Runs
  <2>2. sessions'[k] = IF Opens(f) /\ k = issued + 1 THEN f.who
                       ELSE IF f.name = "signOut" /\ k = f.token THEN NoUser
                       ELSE IF f.name = "ban" /\ sessions[k] = f.who THEN NoUser
                       ELSE sessions[k]
    BY <2>1 DEF SessionsAfter
  <2>3. sessions[k] \in User \cup {NoUser} /\ (k > issued => sessions[k] = NoUser) /\ k \in Nat
    BY <1>0, TokensAreNumbers DEF ApiOK
  <2>4. k > issued' => k > issued /\ ~(Opens(f) /\ k = issued + 1)
    BY <1>3, <2>3
  <2>. QED
    BY <2>2, <2>3, <2>4, <1>2
<1>6. sessions' = [k \in Token |-> sessions'[k]]
  BY DEF Runs, SessionsAfter
<1>7. issued' \in Token
  BY <1>0, <1>2, <1>3 DEF ApiOK
<1>8. ApiOK'
  <2>1. sessions' \in [Token -> User \cup {NoUser}]
    BY <1>5, <1>6
  <2>. QED
    BY <1>4, <1>5, <1>7, <2>1 DEF ApiOK
<1>. DEFINE n == IF Opens(f) THEN issued + 1 ELSE NoToken
            h == IF Opens(f) THEN HomeAfter(f) ELSE "/"
            g == [f EXCEPT !.step = "answered", !.ok = ok, !.new = n, !.home = h]
<1>9. form' = [form EXCEPT ![t] = g]
  BY <1>0 DEF Runs, Tabs
<1>10. n \in 0..issued'
  BY <1>3 DEF NoToken
<1>11. h \in Route
  BY DEF HomeAfter, HomePathFor, Route, Public, Core, Admin
<1>. HIDE DEF n, h
<1>12. /\ DOMAIN g = Fields /\ g.step = "answered" /\ g.new = n /\ g.home = h
       /\ \A x \in {"name", "who", "role", "token"} : g[x] = f[x]
  BY <1>1 DEF FormOK, Fields
<1>. HIDE DEF g
<1>13. page' = page /\ going' = going /\ cookie' = cookie
  BY DEF Runs
<1>. QED
  BY <1>1, <1>3, <1>8, <1>9, <1>10, <1>11, <1>12, <1>13, AnsweredTyped

LEMMA FailsTyped ==
    ASSUME SessionInv, NEW t \in Tab, Fails(t)
    PROVE  SessionInv'
<1>0. Tabs /\ ApiOK /\ BrowserOK
  BY DEF SessionInv
<1>. DEFINE f == form[t]
            g == [f EXCEPT !.step = "answered"]
<1>1. f # Idle /\ f.step = "sent" /\ FormOK(f)
  BY <1>0 DEF Fails, BrowserOK
<1>2. form' = [form EXCEPT ![t] = g] /\ UNCHANGED <<people, sessions, issued, cookie, page, going>>
  BY <1>0 DEF Fails, Tabs
<1>3. /\ DOMAIN g = Fields /\ g.step = "answered" /\ g.new = f.new /\ g.home = f.home
      /\ \A x \in {"name", "who", "role", "token"} : g[x] = f[x]
  BY <1>1 DEF FormOK, Fields
<1>. HIDE DEF g
<1>4. g.new \in 0..issued' /\ g.home \in Route
  BY <1>1, <1>2, <1>3 DEF FormOK
<1>5. ApiOK'
  BY <1>0, <1>2 DEF ApiOK
<1>. QED
  BY <1>1, <1>2, <1>3, <1>4, <1>5, AnsweredTyped

LEMMA AnswersTyped ==
    ASSUME SessionInv, NEW t \in Tab, Answers(t)
    PROVE  SessionInv'
<1>0. Tabs /\ ApiOK /\ BrowserOK /\ Room
  BY DEF SessionInv
<1>. DEFINE f == form[t]
<1>1. f # Idle /\ f.step = "answered" /\ FormOK(f) /\ UNCHANGED <<people, sessions, issued, page>>
  BY <1>0 DEF Answers, BrowserOK
<1>2. issued \in Nat /\ cookie \in 0..issued /\ 0 \in 0..issued
  BY <1>0, TokensAreNumbers DEF ApiOK, BrowserOK
<1>3. cookie' \in 0..issued
  BY <1>1, <1>2 DEF Answers, CookieAfter, FormOK, NoToken
<1>. DEFINE q == Leads(t, f)
<1>4. q # Nowhere => q.to \in Route /\ q.token \in 0..issued
  <2>1. \A to \in Route, k \in 0..issued :
          Request(to, TRUE, k).to \in Route /\ Request(to, TRUE, k).token \in 0..issued
    BY DEF Request
  <2>2. f.home \in Route /\ "/auth/sign-in" \in Route /\ "/admin/users" \in Route
    BY <1>1 DEF FormOK, Route, Auth, Admin
  <2>3. f.new \in 0..issued /\ NoToken \in 0..issued
    BY <1>1, <1>2 DEF FormOK, NoToken
  <2>4. going[t] # Nowhere => going[t].to \in Route /\ going[t].token \in 0..issued
    BY <1>0 DEF BrowserOK
  <2>. QED
    BY <2>1, <2>2, <2>3, <2>4, <1>2 DEF Leads
<1>5. going' = [going EXCEPT ![t] = q] /\ form' = [form EXCEPT ![t] = Idle]
  BY DEF Answers
<1>. HIDE DEF q
<1>6. \A s \in Tab : going'[s] = q \/ going'[s] = going[s]
  BY <1>0, <1>5 DEF Tabs
<1>7. form'[t] = Idle /\ \A s \in Tab \ {t} : form'[s] = form[s]
  BY <1>0, <1>5 DEF Tabs
<1>8. Tabs'
  BY <1>0, <1>1, <1>5 DEF Tabs
<1>9. BrowserOK'
  BY <1>0, <1>1, <1>3, <1>4, <1>6, <1>7 DEF BrowserOK, FormOK
<1>10. Opening' = Opening \ {t} /\ Waiting' = Waiting
  BY <1>1, <1>7, IdleOpensNothing DEF Opening, Waiting
<1>11. Room'
  BY <1>0, <1>1, <1>10, FS_RemoveElement DEF Room
<1>. QED
  BY <1>0, <1>1, <1>8, <1>9, <1>11 DEF SessionInv, ApiOK

LEMMA SessionInvNext == SessionInv /\ [Next]_vars => SessionInv'
<1>. SUFFICES ASSUME SessionInv, [Next]_vars PROVE SessionInv'
  OBVIOUS
<1>0. Tabs /\ ApiOK /\ BrowserOK /\ Room
  BY DEF SessionInv
<1>1. ASSUME NEW t \in Tab, Serves(t) PROVE SessionInv'
  <2>1. going[t] # Nowhere /\ going[t].token \in 0..issued /\ Comes(t, SessionOf(going[t].token))
    BY <1>0, <1>1 DEF Serves, BrowserOK
  <2>2. SessionOf(going[t].token) \in User \cup {NoUser}
    BY <1>0, <2>1, TokensAreNumbers DEF SessionOf, NoToken, ApiOK, Token
  <2>. QED
    BY <2>1, <2>2, ComesTyped
<1>2. ASSUME NEW t \in Tab, ServesBadly(t) PROVE SessionInv'
  <2>1. going[t] # Nowhere
    BY <1>2 DEF ServesBadly
  <2>2. CASE Comes(t, NoUser)
    BY <2>1, <2>2, ComesTyped
  <2>3. CASE /\ going' = [going EXCEPT ![t] = Nowhere]
             /\ page' = [page EXCEPT ![t] = Plain("error")]
             /\ UNCHANGED <<people, sessions, issued, cookie, form>>
    <3>1. Plain("error") \in Screen
      BY PlainIsScreen
    <3>2. page' \in [Tab -> Screen]
      BY <3>1, <2>3, <1>0 DEF BrowserOK
    <3>3. \A s \in Tab : going'[s] = Nowhere \/ going'[s] = going[s]
      BY <2>3, <1>0 DEF Tabs
    <3>4. Tabs'
      BY <2>3, <1>0 DEF Tabs
    <3>. QED
      BY <3>2, <3>3, <3>4, <1>0, <2>3, SameForms DEF SessionInv, ApiOK, BrowserOK, FormOK, Room
  <2>. QED
    BY <2>2, <2>3, <1>2 DEF ServesBadly
<1>3. ASSUME NEW t \in Tab, NEW f \in FormsOn(page[t]), Submits(t, f),
             Opens(f) => issued + Cardinality({s \in Tab : Opens(form[s])}) < MaxTokens
      PROVE  SessionInv'
  BY <1>3, SubmitsTyped DEF Opening
<1>4. ASSUME NEW k \in Token, Expires(k) PROVE SessionInv'
  <2>1. sessions' = [sessions EXCEPT ![k] = NoUser]
        /\ UNCHANGED <<people, issued, cookie, page, going, form>>
    BY <1>4 DEF Expires
  <2>2. ApiOK'
    BY <2>1, <1>0 DEF ApiOK
  <2>. QED
    BY <2>1, <2>2, <1>0, SameForms DEF SessionInv, Tabs, BrowserOK, FormOK, Room
<1>5. CASE UNCHANGED vars
  BY <1>0, <1>5, SameForms DEF vars, SessionInv, Tabs, ApiOK, BrowserOK, FormOK, Room
<1>6. ASSUME NEW t \in Tab, Fails(t) \/ Refuses(t) \/ Answers(t) \/ (\E ok : Runs(t, ok))
      PROVE  SessionInv'
  BY <1>6, FailsTyped, AnswersTyped, RunsTyped DEF Refuses
<1>. QED
  BY <1>1, <1>2, <1>3, <1>4, <1>5, <1>6, GoesTyped DEF Next, Act, React

\* Tokens, accounts, pages, requests and forms keep their types; in particular a session
\* that is being opened always finds a number, however many tabs sign in at once, and no
\* number is in anybody's hands before it stands for somebody.
THEOREM SessionTypeOKHolds == Spec => []SessionTypeOK
<1>1. SessionInv => SessionTypeOK
  BY DEF SessionInv, ApiOK, BrowserOK, FormOK, Screen, SessionTypeOK
<1>. QED
  BY <1>1, SessionInvInit, SessionInvNext, PTL DEF Spec
=============================================================================
