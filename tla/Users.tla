-------------------------------- MODULE Users ---------------------------------
(***************************************************************************)
(* The table users under concurrent requests of administrators: create,    *)
(* PATCH, the dashboard's form, and the change of status behind DELETE.    *)
(*                                                                         *)
(* One member of Request is one HTTP request and is served once; each of   *)
(* its steps is one SQL statement, and no two share a transaction.  Every  *)
(* save() writes the whole row from the object in memory.  The name has no *)
(* index and is read and written exactly where the e-mail is, so the       *)
(* e-mail stands for both.  Rows are never deleted.                        *)
(*                                                                         *)
(* `asked', `raced', `since' and `wrote' are history.                      *)
(***************************************************************************)
EXTENDS Naturals, FiniteSets

CONSTANTS
    User, Email, Request,
    Wish,            (* what requests may ask for                            *)
    InitialUsers,    (* the tables a run may start from                      *)
    None,            (* no row, no user; a field that was not sent           *)
    MaxFaults        (* how many requests may fail for outside reasons       *)

UserStatus == {"active", "blocked", "pending"}

Row == [email: Email, status: UserStatus]

(* What a request names: a create has no user yet, a PATCH may leave fields *)
(* out and may name a status that is empty or unknown.                      *)
Wishes ==
    [kind: {"create"}, user: {None}, email: Email, status: UserStatus]
    \cup [kind: {"patch"}, user: User, email: Email \cup {None},
          status: UserStatus \cup {None, "empty", "unknown"}]
    \cup [kind: {"form"}, user: User, email: Email, status: UserStatus]
    \cup [kind: {"status"}, user: User, email: {None}, status: UserStatus]

(* The last three are all answered 500.                                     *)
Answer == {"ok", "not_found", "conflict", "invalid", "bad_status", "duplicate", "failed"}

DistinctEmails(table) ==
    \A u, v \in User :
        /\ table[u] # None /\ table[v] # None
        /\ table[u].email = table[v].email
        => u = v

ASSUME UsersAssumption ==
    /\ MaxFaults \in Nat
    /\ Wish \subseteq Wishes
    /\ InitialUsers \subseteq {t \in [User -> Row \cup {None}] : DistinctEmails(t)}
    /\ None \notin User \cup Email \cup UserStatus \cup Row \cup Wishes
                   \cup Answer \cup {"empty", "unknown"}
    /\ Email \cap UserStatus = {}

VARIABLES
    users,       (* the rows of the table                                    *)
    request,     (* what each request is doing                               *)
    faults,      (* requests that failed for outside reasons                 *)
    asked,       (* per user and column: the value last asked for and stored *)
    raced,       (* columns that were stored while another request held a    *)
                 (* copy of the row with another value                       *)
    since,       (* e-mails others have stored since a request was sent      *)
    wrote        (* e-mails and statuses a request has stored itself         *)

historyVars == <<asked, raced, since, wrote>>
vars == <<users, request, faults, historyVars>>

Column == {"email", "status"}

Stage == {"waiting", "reading", "finding", "probing", "saving", "logging",
          "loading", "storing", "closing", "answered"}

(* `user' is the row at hand, `copy' the object that save() will write.     *)
RequestState ==
    [wish: Wish \cup {None}, at: Stage, user: User \cup {None},
     copy: Row \cup {None}, answer: Answer \cup {None}]

Waiting == [wish |-> None, at |-> "waiting", user |-> None, copy |-> None, answer |-> None]

(* Each column holds a value of its type, and so does every object.         *)
TypeOK ==
    /\ users \in [User -> Row \cup {None}]
    /\ DistinctEmails(users)
    /\ request \in [Request -> RequestState]
    /\ faults \in 0..MaxFaults
    /\ asked \in [User -> Row \cup {None}]
    /\ raced \subseteq User \X Column
    /\ since \in [Request -> SUBSET Email]
    /\ wrote \in [Request -> SUBSET (Email \cup UserStatus)]

Init ==
    /\ users \in InitialUsers
    /\ request = [r \in Request |-> Waiting]
    /\ faults = 0
    /\ asked = users
    /\ raced = {}
    /\ since = [r \in Request |-> {}]
    /\ wrote = [r \in Request |-> {}]

-------------------------------------------------------------------------------
(* Steps of one request. *)

At(r, kinds, stage) == request[r].at = stage /\ request[r].wish.kind \in kinds

Busy(r) == request[r].at \notin {"waiting", "answered"}

Go(r, stage) == request' = [request EXCEPT ![r].at = stage]

Reply(r, answer) ==
    request' = [request EXCEPT ![r].at = "answered", ![r].answer = answer]

(* existsByEmail looks at every row, the user's own one included.           *)
EmailTaken(e) == \E u \in User : users[u] # None /\ users[u].email = e

(* Mutant: the index is not unique.                                        *)
CollidesNever(u, row) == FALSE

(* uq_users_email_normalized refuses the row.                               *)
Collides(u, row) == \E v \in User \ {u} : users[v] # None /\ users[v].email = row.email

(* The requests that will write a value of column c of user u that they     *)
(* were not asked for.                                                      *)
Carries(q, u, c) ==
    /\ request[q].user = u
    /\ IF c = "status"
         THEN request[q].at \in {"probing", "saving"} /\ request[q].wish.kind # "create"
         ELSE \/ request[q].at = "storing"
              \/ /\ request[q].at \in {"finding", "probing", "saving"}
                 /\ request[q].wish.email = None

(* A statement that stores `row' as user u, of which `named' are the        *)
(* columns the request was asked to set.                                    *)
Store(r, u, row, named) ==
    /\ users' = [users EXCEPT ![u] = row]
    /\ asked' = [asked EXCEPT ![u] =
                    [c \in Column |-> IF c \in named THEN row[c] ELSE @[c]]]
    /\ LET stale == {c \in named : \E q \in Request \ {r} :
                        Carries(q, u, c) /\ request[q].copy[c] # row[c]}
       IN raced' = (raced \ ({u} \X named)) \cup ({u} \X stale)
    /\ since' = [q \in Request |->
                    IF q # r /\ Busy(q) THEN since[q] \cup {row.email} ELSE since[q]]
    /\ wrote' = [wrote EXCEPT ![r] = @ \cup {row.email, row.status}]

Arrive(r) ==
    /\ request[r].at = "waiting"
    /\ \E w \in Wish :
          request' = [request EXCEPT ![r] =
              [Waiting EXCEPT !.wish = w, !.user = w.user,
                 !.at = CASE w.kind = "create" -> "probing"
                          [] w.kind = "status" -> "loading"
                          [] OTHER -> "reading"]]
    /\ UNCHANGED <<users, faults, historyVars>>

-------------------------------------------------------------------------------
(* CreateUserHandler::handle. *)

RefuseCreate(r) ==
    /\ At(r, {"create"}, "probing")
    /\ EmailTaken(request[r].wish.email)
    /\ Reply(r, "conflict")
    /\ UNCHANGED <<users, faults, historyVars>>

AcceptCreate(r) ==
    /\ At(r, {"create"}, "probing")
    /\ ~ EmailTaken(request[r].wish.email)
    /\ \E u \in User :
          /\ users[u] = None
          /\ \A q \in Request : At(q, {"create"}, "saving") => request[q].user # u
          /\ request' = [request EXCEPT
                 ![r].at = "saving", ![r].user = u,
                 ![r].copy = [email |-> request[r].wish.email, status |-> "active"]]
    /\ UNCHANGED <<users, faults, historyVars>>

-------------------------------------------------------------------------------
(* UpdateUserAction and EditSubmitAction read the user first; the PATCH     *)
(* takes the fields it was not sent from there.                             *)

GivenEmail(r, row) == IF request[r].wish.email = None THEN row.email ELSE request[r].wish.email

ReadUser(r) ==
    /\ At(r, {"patch", "form"}, "reading")
    /\ LET row == users[request[r].user]
       IN IF row = None
            THEN Reply(r, "not_found")
            ELSE request' = [request EXCEPT ![r].at = "finding",
                                ![r].copy = [row EXCEPT !.email = GivenEmail(r, row)]]
    /\ UNCHANGED <<users, faults, historyVars>>

(* Mutant: UpdateUserHandler does not ask whether the e-mail is taken.      *)
UncheckedFind(r) ==
    /\ At(r, {"patch", "form"}, "finding")
    /\ request' = [request EXCEPT ![r].at = "saving",
                                  ![r].copy.status = users[request[r].user].status]
    /\ UNCHANGED <<users, faults, historyVars>>

(* UpdateUserHandler::handle reads it again, keeps the status of that row   *)
(* and looks for the e-mail only if it differs from that row's.             *)
FindUser(r) ==
    /\ At(r, {"patch", "form"}, "finding")
    /\ LET row == users[request[r].user]
       IN request' = [request EXCEPT
              ![r].at = IF row.email = request[r].copy.email THEN "saving" ELSE "probing",
              ![r].copy.status = row.status]
    /\ UNCHANGED <<users, faults, historyVars>>

ProbeEmail(r) ==
    /\ At(r, {"patch", "form"}, "probing")
    /\ IF EmailTaken(request[r].copy.email) THEN Reply(r, "conflict") ELSE Go(r, "saving")
    /\ UNCHANGED <<users, faults, historyVars>>

Named(r) ==
    CASE request[r].wish.kind = "create" -> Column
      [] request[r].wish.email = None -> {}
      [] OTHER -> {"email"}

(* The INSERT of a new user, the UPDATE of a known one.                     *)
Save(r) ==
    /\ At(r, {"create", "patch", "form"}, "saving")
    /\ IF Collides(request[r].user, request[r].copy)
         THEN Reply(r, "duplicate") /\ UNCHANGED <<users, historyVars>>
         ELSE /\ Store(r, request[r].user, request[r].copy, Named(r))
              /\ Go(r, "logging")
    /\ UNCHANGED faults

-------------------------------------------------------------------------------
(* The entry in the activity log, and what the action does next: a create   *)
(* or a form goes on to the status if the stored one is another, a PATCH if *)
(* it was sent one.                                                         *)

(* Mutant: the form is compared with the row as it is now, not with the     *)
(* object just saved.                                                       *)
LogSavedLookingAgain(r) ==
    /\ At(r, {"create", "patch", "form"}, "logging")
    /\ LET w == request[r].wish
       IN CASE w.status = "empty" -> Reply(r, "invalid")
            [] w.status = "unknown" -> Reply(r, "bad_status")
            [] w.status = None -> Reply(r, "ok")
            [] w.kind # "patch" /\ w.status = users[request[r].user].status -> Reply(r, "ok")
            [] OTHER -> Go(r, "loading")
    /\ UNCHANGED <<users, faults, historyVars>>

LogSaved(r) ==
    /\ At(r, {"create", "patch", "form"}, "logging")
    /\ LET w == request[r].wish
       IN CASE w.status = "empty" -> Reply(r, "invalid")
            [] w.status = "unknown" -> Reply(r, "bad_status")
            [] w.status = None -> Reply(r, "ok")
            [] w.kind # "patch" /\ w.status = request[r].copy.status -> Reply(r, "ok")
            [] OTHER -> Go(r, "loading")
    /\ UNCHANGED <<users, faults, historyVars>>

-------------------------------------------------------------------------------
(* ChangeUserStatusHandler::handle. *)

(* Mutant: the user is not read again, the object just saved is used.      *)
LoadUserFromMemory(r) ==
    /\ request[r].at = "loading"
    /\ LET row == IF request[r].copy = None THEN users[request[r].user] ELSE request[r].copy
       IN IF row = None
            THEN Reply(r, "not_found")
            ELSE request' = [request EXCEPT ![r].at = "storing",
                                ![r].copy = [row EXCEPT !.status = request[r].wish.status]]
    /\ UNCHANGED <<users, faults, historyVars>>

LoadUser(r) ==
    /\ request[r].at = "loading"
    /\ LET row == users[request[r].user]
       IN IF row = None
            THEN Reply(r, "not_found")
            ELSE request' = [request EXCEPT ![r].at = "storing",
                                ![r].copy = [row EXCEPT !.status = request[r].wish.status]]
    /\ UNCHANGED <<users, faults, historyVars>>

(* Mutant: the exception of the index is turned into a conflict.           *)
StoreStatusOrConflict(r) ==
    /\ request[r].at = "storing"
    /\ IF Collides(request[r].user, request[r].copy)
         THEN Reply(r, "conflict") /\ UNCHANGED <<users, historyVars>>
         ELSE /\ Store(r, request[r].user, request[r].copy, {"status"})
              /\ Go(r, "closing")
    /\ UNCHANGED faults

StoreStatus(r) ==
    /\ request[r].at = "storing"
    /\ IF Collides(request[r].user, request[r].copy)
         THEN Reply(r, "duplicate") /\ UNCHANGED <<users, historyVars>>
         ELSE /\ Store(r, request[r].user, request[r].copy, {"status"})
              /\ Go(r, "closing")
    /\ UNCHANGED faults

LogStatus(r) ==
    /\ request[r].at = "closing"
    /\ Reply(r, "ok")
    /\ UNCHANGED <<users, faults, historyVars>>

(* A statement or an activity entry raises, or the process ends: what was   *)
(* stored before stays.                                                     *)
Fail(r) ==
    /\ Busy(r)
    /\ faults < MaxFaults
    /\ faults' = faults + 1
    /\ Reply(r, "failed")
    /\ UNCHANGED <<users, historyVars>>

-------------------------------------------------------------------------------
Step(r) ==
    \/ Arrive(r)
    \/ RefuseCreate(r) \/ AcceptCreate(r)
    \/ ReadUser(r) \/ FindUser(r) \/ ProbeEmail(r) \/ Save(r) \/ LogSaved(r)
    \/ LoadUser(r) \/ StoreStatus(r) \/ LogStatus(r)
    \/ Fail(r)

Next == \E r \in Request : Step(r)

Spec == Init /\ [][Next]_vars

-------------------------------------------------------------------------------
(* What the checks give, in spite of their races. *)

(* A column holds what was last asked of it, unless another request held a  *)
(* copy with the old value when that was stored: whole rows are written     *)
(* back, and MySqlUserRepository::save names every column each time.        *)
LostOnlyByOverlap ==
    \A u \in User, c \in Column :
        users[u] # None /\ users[u][c] # asked[u][c] => <<u, c>> \in raced

(* Two answers blame an e-mail no one could foresee: 500 from the unique    *)
(* index although existsByEmail said no, and 409 to a PATCH that named no   *)
(* e-mail.  Either way somebody stored that e-mail while the request ran.   *)
ClashOnlyByOverlap ==
    \A r \in Request :
        \/ request[r].answer = "duplicate"
        \/ request[r].answer = "conflict" /\ request[r].wish.email = None
        => request[r].copy.email \in since[r]

(* A request that was answered with an error has stored nothing, unless it  *)
(* broke off for outside reasons, met the unique index in its second save,  *)
(* or was a PATCH with an impossible status, which is looked at too late.   *)
ErrorsAreClean ==
    \A r \in Request :
        request[r].answer \in Answer \ {"ok", "failed"} /\ wrote[r] # {} =>
            \/ request[r].answer = "duplicate" /\ request[r].wish.status \in UserStatus
            \/ request[r].wish.status \in {"empty", "unknown"}

(* A request that was answered with success has stored every value it       *)
(* named, also where EditSubmitAction and CreateSubmitAction leave the      *)
(* second save out because the status seems to be right already.            *)
SuccessTookEffect ==
    \A r \in Request :
        request[r].answer = "ok" =>
            {request[r].wish.email, request[r].wish.status} \ {None} \subseteq wrote[r]
===============================================================================
