-------------------------------- MODULE Access --------------------------------
(***************************************************************************)
(* Who gets past RbacMiddleware, and what administration does meanwhile:   *)
(* pages of web sessions, API calls, logins with their rehash, roles       *)
(* granted, revoked and created, users blocked, and the seed command.      *)
(*                                                                         *)
(* One member of Request is one HTTP request or one run of a command, and  *)
(* is served once.  A step is one SQL statement, or several of which one   *)
(* alone depends on others.  A session is locked while a request has it    *)
(* open and is stored when that request ends; one that breaks off discards *)
(* it.                                                                     *)
(*                                                                         *)
(* `lacking', `carried', `secret', `undone' and `since' are history.       *)
(***************************************************************************)
EXTENDS AccessRules, FiniteSets

CONSTANTS
    User, Browser, Role, Password, Request,
    root,                (* the administrator whom the seed looks after      *)
    default,             (* and the password it gives him                    *)
    SeedGrants,          (* the seed's role_permissions; its roles are there *)
    Wish,                (* what requests may ask for                        *)
    InitialTables,       (* the databases a run may start from               *)
    MaxFaults

UserStatus == {"active", "blocked", "pending"}

Permission == {g[2] : g \in SeedGrants}

SeedRoles == {g[1] : g \in SeedGrants}

(* `outdated': the hash was made with other parameters (needsRehash).       *)
Hash == [password: Password, outdated: BOOLEAN]

Columns ==
    [status: [User -> UserStatus \cup {None}], hash: [User -> Hash \cup {None}],
     roles: SUBSET Role, grants: SUBSET (Role \X Permission),
     members: SUBSET (User \X Role)]

(* Every row refers to rows there are.                                      *)
Tables ==
    {t \in Columns :
        /\ \A u \in User : t.hash[u] # None => t.status[u] # None
        /\ \A g \in t.grants : g[1] \in t.roles
        /\ \A m \in t.members : t.status[m[1]] # None /\ m[2] \in t.roles}

Method == {"GET", "POST", "PATCH", "DELETE"}

(* What a request names: a POST creates a role, the other calls are about a *)
(* user.                                                                    *)
Wishes ==
    [kind: {"page"}, browser: Browser, method: Method, path: Seq(STRING)]
    \cup [kind: {"call"}, user: User, method: Method \ {"POST"}, path: Seq(STRING),
          target: User]
    \cup [kind: {"call"}, user: User, method: {"POST"}, path: Seq(STRING), target: Role]
    \cup [kind: {"login"}, browser: Browser, user: User, password: Password,
          dashboard: BOOLEAN]
    \cup [kind: {"assign", "revoke"}, user: User, role: Role]
    \cup [kind: {"seed"}, reset: BOOLEAN]

Answer == {"ok", "refused", "not_found", "conflict", "duplicate", "failed"}

ASSUME AccessAssumption ==
    /\ MaxFaults \in Nat
    /\ root \in User
    /\ default \in Password
    /\ SeedGrants \subseteq Role \X STRING
    /\ "admin" \in SeedRoles
    /\ \A p \in Permission : <<"admin", p>> \in SeedGrants
    /\ Wish \subseteq Wishes
    /\ InitialTables \subseteq Tables
    /\ None \notin User \cup UserStatus \cup Hash \cup Password \cup Wishes \cup Answer
                   \cup STRING
    /\ Browser \cap Request = {}

VARIABLES
    status, hash, roles, grants, members,   (* the tables                    *)
    session,     (* the user id in the session of each browser               *)
    request,     (* what each request is doing                               *)
    faults,      (* requests that failed for outside reasons                 *)
    lacking,     (* requests whose user never had the right they need, from  *)
                 (* the moment they were sent                                *)
    carried,     (* browsers whose session, and logins whose status check,   *)
                 (* are older than the last block of their user              *)
    secret,      (* the password last given to each user on purpose          *)
    undone,      (* users whose password was reset while a login was         *)
                 (* rehashing another one                                    *)
    since        (* role codes others have stored since a request looked for *)
                 (* its own                                                  *)

tables == <<status, hash, roles, grants, members>>
historyVars == <<lacking, carried, secret, undone, since>>
vars == <<tables, session, request, faults, historyVars>>

Stage == {"waiting", "authenticating", "authorizing", "served", "inserting",
          "checking", "verifying", "rehashing", "entering",
          "seeding", "holding", "logging", "answered"}

(* `seen' is what the seed read first: the roles there were.                *)
RequestState ==
    [wish: Wish \cup {None}, at: Stage, user: User \cup {None},
     seen: SUBSET Role, answer: Answer \cup {None}]

Waiting == [wish |-> None, at |-> "waiting", user |-> None, seen |-> {}, answer |-> None]

(* Sessions belong to users there are, and only one seed holds its locks.   *)
TypeOK ==
    /\ [status |-> status, hash |-> hash, roles |-> roles, grants |-> grants,
        members |-> members] \in Tables
    /\ session \in [Browser -> User \cup {None}]
    /\ \A b \in Browser : session[b] # None => status[session[b]] # None
    /\ request \in [Request -> RequestState]
    /\ \A q, r \in Request :
          request[q].at = "holding" /\ request[r].at = "holding" => q = r
    /\ faults \in 0..MaxFaults
    /\ lacking \subseteq Request
    /\ carried \subseteq Browser \cup Request
    /\ secret \in [User -> Password \cup {None}]
    /\ undone \subseteq User
    /\ since \in [Request -> SUBSET Role]

Init ==
    /\ \E t \in InitialTables :
          /\ status = t.status
          /\ hash = t.hash
          /\ roles = t.roles
          /\ grants = t.grants
          /\ members = t.members
          /\ secret = [u \in User |-> IF t.hash[u] = None THEN None ELSE t.hash[u].password]
    /\ session = [b \in Browser |-> None]
    /\ request = [r \in Request |-> Waiting]
    /\ faults = 0
    /\ lacking = {}
    /\ carried = {}
    /\ undone = {}
    /\ since = [r \in Request |-> {}]

-------------------------------------------------------------------------------
(* Steps of one request. *)

Kind(r) == request[r].wish.kind

At(r, kinds, stage) == request[r].at = stage /\ Kind(r) \in kinds

Busy(r) == request[r].at \notin {"waiting", "answered"}

Go(r, stage) == request' = [request EXCEPT ![r].at = stage]

Reply(r, answer) ==
    request' = [request EXCEPT ![r].at = "answered", ![r].answer = answer]

(* MySqlAccessChecker::userHasPermission: one joined SELECT.                *)
Has(u, p) == \E role \in Role : <<u, role>> \in members /\ <<role, p>> \in grants

(* A seed holds the rows it has written until it commits: the others wait.  *)
SeedHolds == \E r \in Request : request[r].at = "holding"

Hold(u) == u = root /\ SeedHolds

Needed(w) == IntendedPermission(w.method, w.path)

Lacks(u, w) == Needed(w) # None /\ (u = None \/ ~ Has(u, Needed(w)))

Entitled(r) == ~ Lacks(request[r].user, request[r].wish)

BrowserFree(b) ==
    \A r \in Request : Busy(r) /\ Kind(r) \in {"page", "login"} => request[r].wish.browser # b

(* AuthenticationMiddleware takes the user id from the session, whatever    *)
(* the status of that user is by now.                                       *)
Arrive(r) ==
    /\ request[r].at = "waiting"
    /\ \E w \in Wish :
          /\ w.kind \in {"page", "login"} => BrowserFree(w.browser)
          /\ LET u == CASE w.kind = "page" -> session[w.browser]
                        [] w.kind = "seed" -> root
                        [] OTHER -> w.user
             IN /\ request' = [request EXCEPT ![r] =
                      [wish |-> w, user |-> u,
                       at |-> CASE w.kind = "page" -> "authorizing"
                                [] w.kind = "call" -> "authenticating"
                                [] w.kind = "login" -> "checking"
                                [] w.kind = "seed" -> "seeding"
                                [] OTHER -> "served",
                       seen |-> IF w.kind = "seed" THEN roles ELSE {},
                       answer |-> None]]
                /\ lacking' = IF w.kind \in {"page", "call"} /\ Lacks(u, w)
                              THEN lacking \cup {r} ELSE lacking
    /\ UNCHANGED <<tables, session, faults, carried, secret, undone, since>>

(* The bearer check, of which the status of the user matters here.          *)
Authenticate(r) ==
    /\ At(r, {"call"}, "authenticating")
    /\ IF status[request[r].user] = "active" THEN Go(r, "authorizing") ELSE Reply(r, "refused")
    /\ UNCHANGED <<tables, session, faults, historyVars>>

(* RbacMiddleware::process.                                                 *)
Authorize(r) ==
    /\ At(r, {"page", "call"}, "authorizing")
    /\ LET w == request[r].wish
           u == request[r].user
           permission == RequiredPermission(w.method, w.path)
       IN IF \/ Kind(r) = "page" /\ w.path \in PublicWebPaths
             \/ permission = None
             \/ u # None /\ Has(u, permission)
          THEN Go(r, "served") ELSE Reply(r, "refused")
    /\ UNCHANGED <<tables, session, faults, historyVars>>

-------------------------------------------------------------------------------
(* Behind the check. *)

(* Pages that read, the login page that drops a session without access, and *)
(* the two logouts, of which the dashboard's is behind dashboard.access.    *)
AnswerPage(r) ==
    /\ At(r, {"page"}, "served")
    /\ LET w == request[r].wish
           u == request[r].user
           drops == \/ w.path \in {<<"/logout">>, <<"/dashboard", "/logout">>}
                    \/ w.path = <<"/dashboard", "/login">> /\ ~ Has(u, "dashboard.access")
       IN session' = [session EXCEPT ![w.browser] = IF drops THEN None ELSE @]
    /\ Reply(r, "ok")
    /\ UNCHANGED <<tables, faults, historyVars>>

AnswerRead(r) ==
    /\ At(r, {"call"}, "served")
    /\ request[r].wish.method = "GET"
    /\ Reply(r, "ok")
    /\ UNCHANGED <<tables, session, faults, historyVars>>

(* DELETE blocks, PATCH activates.                                          *)
SetStatus(r) ==
    /\ At(r, {"call"}, "served")
    /\ request[r].wish.method \in {"DELETE", "PATCH"}
    /\ LET u == request[r].wish.target
       IN /\ ~ Hold(u)
          /\ IF status[u] = None
               THEN Reply(r, "not_found") /\ UNCHANGED <<status, carried>>
               ELSE /\ IF request[r].wish.method = "PATCH"
                         THEN /\ status' = [status EXCEPT ![u] = "active"]
                              /\ UNCHANGED carried
                         ELSE /\ status' = [status EXCEPT ![u] = "blocked"]
                              /\ carried' = carried
                                   \cup {b \in Browser : session[b] = u}
                                   \cup {q \in Request :
                                           /\ request[q].user = u
                                           /\ request[q].at \in {"verifying", "rehashing", "entering"}}
                    /\ Reply(r, "ok")
    /\ UNCHANGED <<hash, roles, grants, members, session, faults, lacking, secret, undone, since>>

(* Mutant: the INSERT alone.                                                *)
StartCreateRoleUnchecked(r) ==
    /\ At(r, {"call"}, "served")
    /\ request[r].wish.method = "POST"
    /\ Go(r, "inserting")
    /\ UNCHANGED <<tables, session, faults, historyVars>>

(* CreateRoleHandler: existsByCode, then the INSERT.                        *)
StartCreateRole(r) ==
    /\ At(r, {"call"}, "served")
    /\ request[r].wish.method = "POST"
    /\ IF request[r].wish.target \in roles THEN Reply(r, "conflict") ELSE Go(r, "inserting")
    /\ UNCHANGED <<tables, session, faults, historyVars>>

NoteRoles(r, codes) ==
    since' = [q \in Request |->
                 IF q # r /\ request[q].at \in {"inserting", "seeding"}
                 THEN since[q] \cup codes ELSE since[q]]

(* The unique index also makes it wait for an uncommitted row of the seed.  *)
InsertRole(r) ==
    /\ request[r].at = "inserting"
    /\ LET code == request[r].wish.target
       IN /\ code \notin roles => ~ (SeedHolds /\ code \in SeedRoles)
          /\ IF code \in roles
               THEN Reply(r, "duplicate") /\ UNCHANGED <<roles, since>>
               ELSE /\ roles' = roles \cup {code}
                    /\ NoteRoles(r, {code})
                    /\ Reply(r, "ok")
    /\ UNCHANGED <<status, hash, grants, members, session, faults, lacking, carried, secret, undone>>

(* Mutant: nobody looks for the user.                                       *)
AssignUnchecked(r) ==
    /\ At(r, {"assign"}, "served")
    /\ LET w == request[r].wish
       IN /\ ~ Hold(w.user)
          /\ IF w.role \notin roles
               THEN Reply(r, "not_found") /\ UNCHANGED members
               ELSE Reply(r, "ok") /\ members' = members \cup {<<w.user, w.role>>}
    /\ UNCHANGED <<status, hash, roles, grants, session, faults, carried, secret, undone, since>>
    /\ lacking' = {q \in lacking : ~ Entitled(q)'}

(* AssignRoleHandler and RevokeRoleHandler, which no route leads to.        *)
Assign(r) ==
    /\ At(r, {"assign"}, "served")
    /\ LET w == request[r].wish
       IN /\ ~ Hold(w.user)
          /\ IF status[w.user] = None \/ w.role \notin roles
               THEN Reply(r, "not_found") /\ UNCHANGED members
               ELSE Reply(r, "ok") /\ members' = members \cup {<<w.user, w.role>>}
    /\ UNCHANGED <<status, hash, roles, grants, session, faults, carried, secret, undone, since>>
    /\ lacking' = {q \in lacking : ~ Entitled(q)'}

Revoke(r) ==
    /\ At(r, {"revoke"}, "served")
    /\ LET w == request[r].wish
       IN /\ w.role = "admin" => ~ Hold(w.user)
          /\ IF w.role \notin roles
               THEN Reply(r, "not_found") /\ UNCHANGED members
               ELSE Reply(r, "ok") /\ members' = members \ {<<w.user, w.role>>}
    /\ UNCHANGED <<status, hash, roles, grants, session, faults, historyVars>>

-------------------------------------------------------------------------------
(* LoginHandler and the two LoginSubmitActions. *)

(* Mutant: it is enough that the user is there.                             *)
MayLogInIfKnown(u) == status[u] # None

MayLogIn(u) == status[u] = "active"

CheckLogin(r) ==
    /\ At(r, {"login"}, "checking")
    /\ IF MayLogIn(request[r].user) THEN Go(r, "verifying") ELSE Reply(r, "refused")
    /\ UNCHANGED <<tables, session, faults, historyVars>>

(* Mutant: the rehash comes before the password is verified.                *)
VerifyAfterRehash(r) ==
    /\ At(r, {"login"}, "verifying")
    /\ LET h == hash[request[r].user]
       IN CASE h = None -> Reply(r, "refused")
            [] h # None /\ h.outdated -> Go(r, "rehashing")
            [] OTHER -> IF h.password = request[r].wish.password
                        THEN Go(r, "entering") ELSE Reply(r, "refused")
    /\ UNCHANGED <<tables, session, faults, historyVars>>

Verify(r) ==
    /\ At(r, {"login"}, "verifying")
    /\ LET h == hash[request[r].user]
       IN IF h = None \/ h.password # request[r].wish.password
          THEN Reply(r, "refused")
          ELSE Go(r, IF h.outdated THEN "rehashing" ELSE "entering")
    /\ UNCHANGED <<tables, session, faults, historyVars>>

(* savePasswordHash overwrites what is there by now, or in a moment: it     *)
(* waits for a seed that has written the row.                               *)
Rehash(r) ==
    /\ request[r].at = "rehashing"
    /\ \A q \in Request :
          request[q].at = "holding" /\ request[q].wish.reset => request[r].user # root
    /\ hash' = [hash EXCEPT ![request[r].user] =
                   [password |-> request[r].wish.password, outdated |-> FALSE]]
    /\ Go(r, "entering")
    /\ UNCHANGED <<status, roles, grants, members, session, faults, historyVars>>

(* The entry, and the session: the dashboard drops it again from a user     *)
(* without access.                                                          *)
Enter(r) ==
    /\ request[r].at = "entering"
    /\ LET w == request[r].wish
           denied == w.dashboard /\ ~ Has(w.user, "dashboard.access")
       IN /\ session' = [session EXCEPT ![w.browser] = IF denied THEN None ELSE w.user]
          /\ carried' = IF r \in carried THEN (carried \ {r}) \cup {w.browser}
                                         ELSE carried \ {w.browser}
          /\ Reply(r, IF denied THEN "refused" ELSE "ok")
    /\ UNCHANGED <<tables, faults, lacking, secret, undone, since>>

-------------------------------------------------------------------------------
(* The seed: one transaction.  Its SELECTs see the database as it was at    *)
(* the first of them; its other statements see the rows there are, lock     *)
(* them, and become visible together.                                       *)

SeedMissing(r) == SeedRoles \ request[r].seen

SeedWrite(r) ==
    /\ request[r].at = "seeding"
    /\ ~ SeedHolds
    /\ IF SeedMissing(r) \cap roles # {} THEN Reply(r, "duplicate") ELSE Go(r, "holding")
    /\ UNCHANGED <<tables, session, faults, historyVars>>

SeedHash(r) ==
    IF hash[root] = None \/ request[r].wish.reset
    THEN [password |-> default, outdated |-> FALSE] ELSE hash[root]

(* Mutant: the role is attached to a new administrator only.               *)
MembersOfNewAdmin(r) ==
    IF status[root] = None THEN members \cup {<<root, "admin">>} ELSE members

SeedMembers(r) == members \cup {<<root, "admin">>}

SeedCommit(r) ==
    /\ request[r].at = "holding"
    /\ status' = [status EXCEPT ![root] = "active"]
    /\ hash' = [hash EXCEPT ![root] = SeedHash(r)]
    /\ roles' = roles \cup SeedRoles
    /\ grants' = grants \cup SeedGrants
    /\ members' = SeedMembers(r)
    /\ Go(r, "logging")
    /\ lacking' = {q \in lacking : ~ Entitled(q)'}
    /\ secret' = [secret EXCEPT ![root] =
                     IF hash[root] = None \/ request[r].wish.reset THEN default ELSE @]
    /\ undone' = IF request[r].wish.reset /\ \E q \in Request :
                       /\ request[q].at = "rehashing"
                       /\ request[q].user = root
                       /\ request[q].wish.password # default
                 THEN undone \cup {root} ELSE undone
    /\ NoteRoles(r, SeedMissing(r))
    /\ UNCHANGED <<session, faults, carried>>

(* The entry comes after the transaction.                                   *)
SeedLog(r) ==
    /\ request[r].at = "logging"
    /\ Reply(r, "ok")
    /\ UNCHANGED <<tables, session, faults, historyVars>>

(* A statement or an activity entry raises, or the process ends; a seed is  *)
(* rolled back.                                                             *)
Fail(r) ==
    /\ Busy(r)
    /\ faults < MaxFaults
    /\ faults' = faults + 1
    /\ Reply(r, "failed")
    /\ UNCHANGED <<tables, session, historyVars>>

-------------------------------------------------------------------------------
Step(r) ==
    \/ Arrive(r) \/ Authenticate(r) \/ Authorize(r)
    \/ AnswerPage(r) \/ AnswerRead(r) \/ SetStatus(r)
    \/ StartCreateRole(r) \/ InsertRole(r) \/ Assign(r) \/ Revoke(r)
    \/ CheckLogin(r) \/ Verify(r) \/ Rehash(r) \/ Enter(r)
    \/ SeedWrite(r) \/ SeedCommit(r) \/ SeedLog(r)
    \/ Fail(r)

Next == \E r \in Request : Step(r)

Spec == Init /\ [][Next]_vars

-------------------------------------------------------------------------------
(* Properties. *)

(* No request whose user has lacked the right it needs since it was sent    *)
(* gets past RbacMiddleware, on whatever rule of the list the path falls:   *)
(* a revoked role is gone with the next request, and never comes back by an *)
(* older answer.                                                            *)
RevocationIsFinal ==
    \A r \in lacking : request[r].at \in {"authenticating", "authorizing", "answered"}

(* AuthenticationMiddleware never looks at the status of the user in a      *)
(* session.  A session of a user who may not log in is one that was begun   *)
(* before the user was blocked: nobody gets one afterwards.                 *)
BlockedOnlyByOldSession ==
    \A b \in Browser :
        session[b] # None /\ status[session[b]] # "active" => b \in carried

(* LoginHandler stores the hash of a password that it verified some time    *)
(* ago.  The password that works is the one given last, by the installation *)
(* or by seed --reset-admin-password, unless that reset fell between the    *)
(* verification and the rehash.                                             *)
OldPasswordOnlyByOverlap ==
    \A u \in User : hash[u] # None /\ hash[u].password # secret[u] => u \in undone

RootHasAll == \A p \in Permission : Has(root, p)

(* Nothing keeps the last administrator from being blocked or from losing   *)
(* the role: the seed command is the way back.  Wherever it starts from,    *)
(* and whatever goes on meanwhile, its commit leaves an active              *)
(* administrator with a password and every right.                           *)
SeedRestoresAdmin ==
    [][\A r \in Request :
          request[r].at = "holding" /\ request'[r].at = "logging" =>
             /\ status'[root] = "active"
             /\ hash'[root] # None
             /\ request[r].wish.reset => hash'[root].password = default
             /\ RootHasAll']_vars

(* CreateRoleHandler and the seed look for a code before they insert it.    *)
(* They meet the unique index only when another stored the code between.     *)
RoleClashOnlyByOverlap ==
    \A r \in Request :
        request[r].answer = "duplicate" =>
            (IF Kind(r) = "seed" THEN SeedMissing(r) ELSE {request[r].wish.target})
                \cap since[r] # {}
===============================================================================
