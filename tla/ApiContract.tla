----------------------------- MODULE ApiContract -----------------------------
(***************************************************************************)
(* What the api offers, as the generated types of the web app state it     *)
(* (generated/api-types.ts): `paths` has a method and a path for every     *)
(* operation, `operations` what it takes and what it answers, by the names *)
(* of `schemas`; "never" is for nothing that is known.  The paths of       *)
(* Better Auth stand without their /api/auth, those of the examples        *)
(* without their /api.                                                     *)
(***************************************************************************)

Offer(method, prefix, name, operation) ==
    [method |-> method, path |-> <<prefix, name>>, operation |-> operation]
Get(prefix, name, operation) == Offer("GET", prefix, name, operation)
Post(prefix, name, operation) == Offer("POST", prefix, name, operation)

AdminOffers ==
    {Get("admin", "get-user", "admin_get_user"),
     Get("admin", "list-users", "admin_list_users"),
     Post("admin", "ban-user", "admin_ban_user"),
     Post("admin", "create-user", "admin_create_user"),
     Post("admin", "has-permission", "admin_has_permission"),
     Post("admin", "impersonate-user", "admin_impersonate_user"),
     Post("admin", "list-user-sessions", "admin_list_user_sessions"),
     Post("admin", "remove-user", "admin_remove_user")}

AdminChangeOffers ==
    {Post("admin", "revoke-user-session", "admin_revoke_user_session"),
     Post("admin", "revoke-user-sessions", "admin_revoke_user_sessions"),
     Post("admin", "set-role", "admin_set_role"),
     Post("admin", "set-user-password", "admin_set_user_password"),
     Post("admin", "stop-impersonating", "admin_stop_impersonating"),
     Post("admin", "unban-user", "admin_unban_user"),
     Post("admin", "update-user", "admin_update_user")}

AccountOffers ==
    {Get("auth", "error", "error"), Get("auth", "get-session", "get_session"),
     Get("auth", "list-accounts", "list_accounts"),
     Get("auth", "list-sessions", "list_sessions"),
     Post("auth", "change-password", "change_password"),
     Post("auth", "is-username-available", "is_username_available")}

ResetOffers ==
    {Get("auth", "ok", "ok"),
     Get("auth", "reset-password/{token}", "reset_password_token"),
     Post("auth", "request-password-reset", "request_password_reset"),
     Post("auth", "reset-password", "reset_password")}

RevokeOffers ==
    {Post("auth", "revoke-other-sessions", "revoke_other_sessions"),
     Post("auth", "revoke-session", "revoke_session"),
     Post("auth", "revoke-sessions", "revoke_sessions"),
     Post("auth", "send-verification-email", "send_verification_email")}

SignOffers ==
    {Post("auth", "sign-in/email", "sign_in_email"),
     Post("auth", "sign-in/username", "sign_in_username"),
     Post("auth", "sign-out", "sign_out"),
     Post("auth", "sign-up/email", "sign_up_email")}

ProfileOffers ==
    {Get("auth", "verify-email", "verify_email"),
     Post("auth", "unlink-account", "unlink_account"),
     Post("auth", "update-user", "update_user"),
     Post("auth", "verify-password", "verify_password")}

ExampleOffers ==
    {Get("examples", "", "list_examples"), Get("examples", "{id}", "get_example"),
     Post("examples", "", "create_example"),
     Post("examples", "bulk-delete", "bulk_delete_examples"),
     Post("examples", "{id}/publish", "publish_example"),
     Offer("PATCH", "examples", "bulk", "bulk_update_examples"),
     Offer("PUT", "examples", "{id}", "update_example"),
     Offer("DELETE", "examples", "{id}", "delete_example")}

paths ==
    AdminOffers \cup AdminChangeOffers \cup AccountOffers \cup ResetOffers \cup RevokeOffers
    \cup SignOffers \cup ProfileOffers \cup ExampleOffers

-----------------------------------------------------------------------------

Operation(id, takes, answers) == [id |-> id, takes |-> takes, answers |-> answers]

\* An operation of Better Auth, whose document has no schemas: what it takes and what
\* it answers is not known.
Untyped(ids) == {Operation(id, "never", {<<200, "never">>}) : id \in ids}

AdminOperations ==
    Untyped({"admin_ban_user", "admin_create_user", "admin_get_user", "admin_has_permission",
             "admin_impersonate_user", "admin_list_user_sessions", "admin_list_users",
             "admin_remove_user"})

AdminChangeOperations ==
    Untyped({"admin_revoke_user_session", "admin_revoke_user_sessions", "admin_set_role",
             "admin_set_user_password", "admin_stop_impersonating", "admin_unban_user",
             "admin_update_user"})

AccountOperations ==
    Untyped({"change_password", "error", "get_session", "is_username_available",
             "list_accounts", "list_sessions"})

ResetOperations ==
    Untyped({"ok", "request_password_reset", "reset_password", "reset_password_token"})

RevokeOperations ==
    Untyped({"revoke_other_sessions", "revoke_session", "revoke_sessions",
             "send_verification_email"})

SignOperations == Untyped({"sign_in_email", "sign_in_username", "sign_out", "sign_up_email"})

ProfileOperations == Untyped({"unlink_account", "update_user", "verify_email", "verify_password"})

\* What the operations of the examples say when they fail.
Failing(statuses) == {<<status, "ErrorBody">> : status \in statuses}

ListOperations ==
    {Operation("list_examples", "never", {<<200, "ExamplePage">>} \cup Failing({500})),
     Operation("create_example", "CreateExampleRequest",
               {<<201, "ExampleResponse">>} \cup Failing({400, 500}))}

BulkOperations ==
    {Operation("bulk_update_examples", "BulkUpdateExampleRequest",
               {<<200, "BulkResultResponse">>} \cup Failing({400, 500})),
     Operation("bulk_delete_examples", "BulkDeleteExampleRequest",
               {<<200, "BulkResultResponse">>} \cup Failing({400, 500}))}

RowOperations ==
    {Operation("get_example", "never", {<<200, "ExampleResponse">>} \cup Failing({404, 500})),
     Operation("update_example", "UpdateExampleRequest",
               {<<200, "ExampleResponse">>} \cup Failing({404, 500}))}

LeavingOperations ==
    {Operation("delete_example", "never", {<<204, "never">>} \cup Failing({404, 500})),
     Operation("publish_example", "never",
               {<<202, "PublishJobResponse">>} \cup Failing({404, 500}))}

operations ==
    AdminOperations \cup AdminChangeOperations \cup AccountOperations \cup ResetOperations
    \cup RevokeOperations \cup SignOperations \cup ProfileOperations \cup ListOperations
    \cup BulkOperations \cup RowOperations \cup LeavingOperations

-----------------------------------------------------------------------------

\* A call of the web app: typed by hand, or through the client, which takes the type of
\* the answer from the contract.
ByHand(method, prefix, name) == [method |-> method, path |-> <<prefix, name>>, gives |-> "hand"]
ByClient(method, prefix, name, schema) ==
    [method |-> method, path |-> <<prefix, name>>, gives |-> schema]

\* Nothing is typed by hand that the contract has a type for.
Agrees(call, operation) ==
    IF call.gives = "hand" THEN operation \in Untyped({operation.id})
    ELSE <<200, call.gives>> \in operation.answers

InContract(call) ==
    \E offer \in paths :
       /\ offer.method = call.method /\ offer.path = call.path
       /\ \E o \in operations : o.id = offer.operation /\ Agrees(call, o)
=============================================================================
