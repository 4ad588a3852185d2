------------------------------- MODULE MCAccess -------------------------------
(* One browser, the administrator and a manager, and four requests.        *)
EXTENDS Access, TLC

CONSTANTS r1, r2, r3, r4, b, other, p1, p2

Requests == {r1, r2, r3, r4}

Grants ==
    {<<"admin", "dashboard.access">>, <<"admin", "users.manage">>,
     <<"admin", "users.view">>, <<"admin", "roles.manage">>,
     <<"manager", "dashboard.access">>, <<"manager", "users.view">>}

Page(method, path) == [kind |-> "page", browser |-> b, method |-> method, path |-> path]

Call(user, method, path, target) ==
    [kind |-> "call", user |-> user, method |-> method, path |-> path, target |-> target]

Login(user, password, dashboard) ==
    [kind |-> "login", browser |-> b, user |-> user, password |-> password,
     dashboard |-> dashboard]

AllWishes ==
    {Page("GET", <<"/dashboard", "/users">>), Page("GET", <<"/dashboard", "/login">>),
     Page("POST", <<"/dashboard", "/logout">>)}
    \cup {Call(root, "DELETE", <<"/api/v1", "/users">>, root),
           Call(other, "GET", <<"/api/v1", "/users">>, other),
           Call(root, "PATCH", <<"/api/v1", "/users">>, other),
           Call(root, "POST", <<"/api/v1", "/roles">>, "manager")}
    \cup {Login(root, p1, FALSE), Login(root, p2, FALSE), Login(other, p1, TRUE)}
    \cup {[kind |-> "assign", user |-> other, role |-> "admin"],
           [kind |-> "revoke", user |-> root, role |-> "admin"],
           [kind |-> "revoke", user |-> other, role |-> "manager"]}
    \cup {[kind |-> "seed", reset |-> reset] : reset \in BOOLEAN}

Plain(password) == [password |-> password, outdated |-> FALSE]

Old(password) == [password |-> password, outdated |-> TRUE]

(* After the seed, with a password of the administrator's own.              *)
Seeded ==
    [status |-> (root :> "active" @@ other :> "active"),
     hash |-> (root :> Old(p2) @@ other :> Plain(p1)),
     roles |-> {"admin", "manager"}, grants |-> Grants,
     members |-> {<<root, "admin">>, <<other, "manager">>}]

(* An installation from before there were managers, its other user pending. *)
Older ==
    [status |-> (root :> "active" @@ other :> "pending"),
     hash |-> (root :> Plain(p1) @@ other :> Plain(p1)),
     roles |-> {"admin"}, grants |-> {g \in Grants : g[1] = "admin"},
     members |-> {<<root, "admin">>}]

(* Right after the migrations.                                              *)
Fresh ==
    [status |-> (root :> None @@ other :> None), hash |-> (root :> None @@ other :> None),
     roles |-> {}, grants |-> {}, members |-> {}]

Installations == {Seeded, Older, Fresh}

Symmetry == Permutations(Requests)
===============================================================================
