------------------------------ MODULE ApiTokens ------------------------------
(***************************************************************************)
(* API tokens while requests run side by side: the bearer check that reads *)
(* a token, reads its user and writes the token back; login and logout;    *)
(* and the requests of an administrator that change a user's row.          *)
(*                                                                         *)
(* One slot of Request is a PHP process; every step of it is one SQL       *)
(* statement, and no two statements share a transaction.  Of a token's row *)
(* only the owner and revoked_at matter, of a user's row only the status.  *)
(* Rows are never deleted, so the SELECT inside save() always finds them.  *)
(* Tokens carry no expiry: LoginAction never passes one.                   *)
(*                                                                         *)
(* `known' is what clients were told; `ended', `raced', `barred', `stale', *)
(* `latecomers' and `outsiders' are history.                               *)
(***************************************************************************)
EXTENDS Naturals, FiniteSets

CONSTANTS
    User, Token, Request,
    None,            (* no row, no user, no token, no status                 *)
    MaxFaults        (* how many requests may end without their answer       *)

UserStatus == {"active", "blocked", "pending"}

Row == [user: User, revoked: BOOLEAN]

ASSUME ApiTokensAssumption ==
    /\ MaxFaults \in Nat
    /\ None \notin User \cup Token \cup UserStatus \cup Row

VARIABLES
    users,       (* column status of users                                   *)
    tokens,      (* the rows of auth_tokens                                  *)
    request,     (* what each process is doing                               *)
    known,       (* tokens that reached their client in a login's answer     *)
    faults,      (* requests that ended without their answer                 *)
    ended,       (* tokens whose logout was answered                         *)
    raced,       (* tokens that were being checked while they were revoked   *)
    barred,      (* users whose last change of status took "active" away     *)
    stale,       (* barred users an edit had read as active before           *)
    latecomers,  (* requests sent after the logout of their token was answered *)
    outsiders    (* requests whose user was barred ever since they were sent *)

table == <<users, tokens>>
sent == <<latecomers, outsiders>>
vars == <<table, request, known, faults, ended, raced, barred, stale, sent>>

Kind == {"call", "logout", "login", "status", "edit"}

Stage == {"idle", "finding_token", "finding_user", "saving_token", "admitted",
          "issuing", "reading", "saving_user", "reporting"}

(* `token' is the bearer token, or the one being issued; `copy' its row as  *)
(* read; `status' the one wished for, or the one an edit has read.          *)
RequestState ==
    [kind: Kind \cup {"none"}, at: Stage, user: User \cup {None},
     token: Token \cup {None}, copy: Row \cup {None}, status: UserStatus \cup {None}]

Sent(kind, stage, user, token, status) ==
    [kind |-> kind, at |-> stage, user |-> user, token |-> token,
     copy |-> None, status |-> status]

Idle == Sent("none", "idle", None, None, None)

Stored == {t \in Token : tokens[t] # None}

(* Every process is somewhere in a request, and clients know only tokens    *)
(* that are stored.                                                         *)
TypeOK ==
    /\ users \in [User -> UserStatus]
    /\ tokens \in [Token -> Row \cup {None}]
    /\ request \in [Request -> RequestState]
    /\ known \subseteq Stored
    /\ faults \in 0..MaxFaults
    /\ ended \subseteq Token
    /\ raced \subseteq Token
    /\ barred \subseteq User
    /\ stale \subseteq User
    /\ latecomers \subseteq Request
    /\ outsiders \subseteq Request

Init ==
    /\ users = [u \in User |-> "active"]
    /\ tokens = [t \in Token |-> None]
    /\ request = [r \in Request |-> Idle]
    /\ known = {}
    /\ faults = 0
    /\ ended = {}
    /\ raced = {}
    /\ barred = {}
    /\ stale = {}
    /\ latecomers = {}
    /\ outsiders = {}

-------------------------------------------------------------------------------
(* Steps of the process of slot r. *)

At(r, kinds, stage) == request[r].at = stage /\ request[r].kind \in kinds

Proceed(r, stage) == request' = [request EXCEPT ![r].at = stage]

End(r) ==
    /\ request' = [request EXCEPT ![r] = Idle]
    /\ latecomers' = latecomers \ {r}
    /\ outsiders' = outsiders \ {r}

Arrive(r, q, isLate) ==
    /\ request[r].at = "idle"
    /\ request' = [request EXCEPT ![r] = q]
    /\ latecomers' = IF isLate THEN latecomers \cup {r} ELSE latecomers
    /\ outsiders' = IF q.user \in barred THEN outsiders \cup {r} ELSE outsiders
    /\ UNCHANGED <<table, known, faults, ended, raced, barred, stale>>

(* A client sends its token; the owner is not known to the process yet and  *)
(* is filled in for the history only.                                       *)
SendToken(r) ==
    \E kind \in {"call", "logout"}, t \in known :
        Arrive(r, Sent(kind, "finding_token", tokens[t].user, t, None), t \in ended)

(* Token is finite: a login starts only while a token is left for it.       *)
SendLogin(r) ==
    /\ Cardinality({q \in Request : request[q].kind = "login" /\ request[q].token = None})
          < Cardinality(Token \ Stored)
    /\ \E u \in User : Arrive(r, Sent("login", "finding_user", u, None, None), FALSE)

SendStatus(r) ==
    \E u \in User, s \in UserStatus :
        Arrive(r, Sent("status", "saving_user", u, None, s), FALSE)

SendEdit(r) ==
    \E u \in User : Arrive(r, Sent("edit", "reading", u, None, None), FALSE)

-------------------------------------------------------------------------------
(* The bearer check: three statements. *)

Acceptable(row) == row # None /\ ~ row.revoked

(* Mutant: the check asks for blocked users only, not for pending ones.    *)
EntersUnlessBlocked(u) == users[u] # "blocked"

MayEnter(u) == users[u] = "active"

FindToken(r) ==
    /\ At(r, {"call", "logout"}, "finding_token")
    /\ LET row == tokens[request[r].token]
       IN IF Acceptable(row)
            THEN /\ request' = [request EXCEPT ![r].at = "finding_user", ![r].copy = row]
                 /\ UNCHANGED sent
            ELSE End(r)
    /\ UNCHANGED <<table, known, faults, ended, raced, barred, stale>>

FindOwner(r) ==
    /\ At(r, {"call", "logout"}, "finding_user")
    /\ IF MayEnter(request[r].copy.user)
         THEN Proceed(r, "saving_token") /\ UNCHANGED sent
         ELSE End(r)
    /\ UNCHANGED <<table, known, faults, ended, raced, barred, stale>>

(* markUsed looks at the copy, and save() writes all of it back.            *)
SaveToken(r) ==
    /\ At(r, {"call", "logout"}, "saving_token")
    /\ tokens' = [tokens EXCEPT ![request[r].token] = request[r].copy]
    /\ Proceed(r, "admitted")
    /\ UNCHANGED <<users, known, faults, ended, raced, barred, stale, sent>>

-------------------------------------------------------------------------------
(* Behind the check. *)

AnswerCall(r) ==
    /\ At(r, {"call"}, "admitted")
    /\ End(r)
    /\ UNCHANGED <<table, known, faults, ended, raced, barred, stale>>

BeingChecked(t) ==
    \E q \in Request :
        /\ request[q].token = t
        /\ At(q, {"call", "logout"}, "finding_user") \/ At(q, {"call", "logout"}, "saving_token")

(* Mutant: logout is answered without revokeByHash().                      *)
RevokeForgotten(r) ==
    /\ At(r, {"logout"}, "admitted")
    /\ Proceed(r, "reporting")
    /\ UNCHANGED <<table, known, faults, ended, raced, barred, stale, sent>>

Revoke(r) ==
    /\ At(r, {"logout"}, "admitted")
    /\ LET t == request[r].token
       IN /\ tokens' = [tokens EXCEPT ![t].revoked = TRUE]
          /\ raced' = IF BeingChecked(t) THEN raced \cup {t} ELSE raced
    /\ Proceed(r, "reporting")
    /\ UNCHANGED <<users, known, faults, ended, barred, stale, sent>>

AnswerLogout(r) ==
    /\ At(r, {"logout"}, "reporting")
    /\ ended' = ended \cup {request[r].token}
    /\ End(r)
    /\ UNCHANGED <<table, known, faults, raced, barred, stale>>

-------------------------------------------------------------------------------
(* Login: the status is read here and not again when the token is stored.   *)

CheckLogin(r) ==
    /\ At(r, {"login"}, "finding_user")
    /\ MayEnter(request[r].user)
    /\ Proceed(r, "issuing")
    /\ UNCHANGED <<table, known, faults, ended, raced, barred, stale, sent>>

(* An inactive user, or a wrong password of an active one.                  *)
RefuseLogin(r) ==
    /\ At(r, {"login"}, "finding_user")
    /\ End(r)
    /\ UNCHANGED <<table, known, faults, ended, raced, barred, stale>>

(* Mutant: the token is answered but not saved.                            *)
IssueUnsaved(r) ==
    /\ At(r, {"login"}, "issuing")
    /\ \E t \in Token \ Stored :
          request' = [request EXCEPT ![r].at = "reporting", ![r].token = t]
    /\ UNCHANGED <<table, known, faults, ended, raced, barred, stale, sent>>

IssueToken(r) ==
    /\ At(r, {"login"}, "issuing")
    /\ \E t \in Token \ Stored :
          /\ tokens' = [tokens EXCEPT ![t] = [user |-> request[r].user, revoked |-> FALSE]]
          /\ request' = [request EXCEPT ![r].at = "reporting", ![r].token = t]
    /\ UNCHANGED <<users, known, faults, ended, raced, barred, stale, sent>>

(* Mutant: the plain token is missing from the answer.                     *)
AnswerLoginSilently(r) ==
    /\ At(r, {"login"}, "reporting")
    /\ End(r)
    /\ UNCHANGED <<table, known, faults, ended, raced, barred, stale>>

AnswerLogin(r) ==
    /\ At(r, {"login"}, "reporting")
    /\ known' = known \cup {request[r].token}
    /\ End(r)
    /\ UNCHANGED <<table, faults, ended, raced, barred, stale>>

-------------------------------------------------------------------------------
(* The administrators.  A change of status overwrites whatever it read; an  *)
(* edit of email or name writes back the status it read.  PATCH with both   *)
(* is an edit followed by a change of status.                               *)

SaveStatus(r) ==
    /\ At(r, {"status"}, "saving_user")
    /\ LET u == request[r].user
           read == \E q \in Request :
                      At(q, {"edit"}, "saving_user")
                      /\ request[q].user = u /\ request[q].status = "active"
       IN /\ users' = [users EXCEPT ![u] = request[r].status]
          /\ IF request[r].status = "active"
               THEN /\ barred' = barred \ {u}
                    /\ stale' = stale \ {u}
                    /\ outsiders' = {q \in outsiders : request[q].user # u}
               ELSE /\ barred' = barred \cup {u}
                    /\ stale' = IF read THEN stale \cup {u} ELSE stale
                    /\ UNCHANGED outsiders
    /\ Proceed(r, "reporting")
    /\ UNCHANGED <<tokens, known, faults, ended, raced, latecomers>>

ReadUser(r) ==
    /\ At(r, {"edit"}, "reading")
    /\ request' = [request EXCEPT ![r].at = "saving_user",
                                  ![r].status = users[request[r].user]]
    /\ UNCHANGED <<table, known, faults, ended, raced, barred, stale, sent>>

(* existsByEmail finds the new address taken: nothing is written.           *)
RefuseEdit(r) ==
    /\ At(r, {"edit"}, "saving_user")
    /\ End(r)
    /\ UNCHANGED <<table, known, faults, ended, raced, barred, stale>>

SaveEdit(r) ==
    /\ At(r, {"edit"}, "saving_user")
    /\ users' = [users EXCEPT ![request[r].user] = request[r].status]
    /\ Proceed(r, "reporting")
    /\ UNCHANGED <<tokens, known, faults, ended, raced, barred, stale, sent>>

AnswerAdmin(r) ==
    /\ At(r, {"status", "edit"}, "reporting")
    /\ End(r)
    /\ UNCHANGED <<table, known, faults, ended, raced, barred, stale>>

(* The process is killed, a statement raises, or the activity entry after   *)
(* one does: the client gets an error or nothing, and what was written      *)
(* stays written.                                                           *)
Fail(r) ==
    /\ request[r].at # "idle"
    /\ faults < MaxFaults
    /\ faults' = faults + 1
    /\ End(r)
    /\ UNCHANGED <<table, known, ended, raced, barred, stale>>

-------------------------------------------------------------------------------
Step(r) ==
    \/ SendToken(r) \/ SendLogin(r) \/ SendStatus(r) \/ SendEdit(r)
    \/ FindToken(r) \/ FindOwner(r) \/ SaveToken(r)
    \/ AnswerCall(r) \/ Revoke(r) \/ AnswerLogout(r)
    \/ CheckLogin(r) \/ RefuseLogin(r) \/ IssueToken(r) \/ AnswerLogin(r)
    \/ SaveStatus(r) \/ ReadUser(r) \/ RefuseEdit(r) \/ SaveEdit(r) \/ AnswerAdmin(r)
    \/ Fail(r)

Next == \E r \in Request : Step(r)

Spec == Init /\ [][Next]_vars

-------------------------------------------------------------------------------
(* What the checks give, in spite of their races. *)

Entered(r) ==
    \/ At(r, {"call", "logout"}, "admitted")
    \/ At(r, {"login"}, "issuing")
    \/ At(r, {"logout", "login"}, "reporting")

(* A token works after its logout was answered only if another request was  *)
(* between reading it and writing it back when it was revoked: the          *)
(* read-modify-write of GetAuthenticatedUserHandler::handle is the only way.*)
AfterLogoutOnlyByOverlap ==
    \A r \in latecomers : Entered(r) => request[r].token \in raced

(* A user who was barred during the whole of a request enters, by token or  *)
(* by login, only if an edit of the user had read the row before the block: *)
(* UpdateUserHandler::handle, which saves the status with the name.         *)
AfterBlockOnlyByOverlap ==
    \A r \in outsiders : Entered(r) => request[r].user \in stale

(* Tokens that are stored but belong to no client and no login under way:   *)
(* each cost one request that failed after IssueApiTokenHandler's INSERT.   *)
Orphan(t) ==
    /\ t \in Stored \ known
    /\ \A r \in Request : request[r].token # t

OrphansCostFaults == Cardinality({t \in Token : Orphan(t)}) <= faults

(* No token is accepted from a request that was sent after the answer of    *)
(* its logout.                                                              *)
NoUseAfterLogout == \A r \in latecomers : ~ Entered(r)
===============================================================================
