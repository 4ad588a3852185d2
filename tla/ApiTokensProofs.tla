--------------------------- MODULE ApiTokensProofs ---------------------------
(***************************************************************************)
(* Theorems about ApiTokens, for every set of users, tokens and processes  *)
(* and every number of failing requests.                                   *)
(***************************************************************************)
EXTENDS ApiTokens, FiniteSetTheorems, TLAPS

Bearer == {"call", "logout"}

(* What a process holds in each part of a request.                          *)
RequestShape(r) ==
    LET q == request[r]
    IN /\ q.at = "idle" <=> q.kind = "none"
       /\ q.kind \in {"none", "status", "edit"} => q.token = None
       /\ q.kind \in {"login", "status", "edit"} => q.user \in User
       /\ q.kind \in Bearer =>
             /\ q.at \in {"finding_token", "finding_user", "saving_token",
                          "admitted", "reporting"}
             /\ q.token \in known
             /\ q.user = tokens[q.token].user
             /\ q.at \in {"finding_user", "saving_token"} =>
                   q.copy = [user |-> q.user, revoked |-> FALSE]
       /\ q.kind = "login" =>
             /\ q.at \in {"finding_user", "issuing", "reporting"}
             /\ IF q.at = "reporting" THEN q.token \in Stored ELSE q.token = None
       /\ q.kind = "status" => q.at \in {"saving_user", "reporting"} /\ q.status \in UserStatus
       /\ q.kind = "edit" =>
             /\ q.at \in {"reading", "saving_user", "reporting"}
             /\ q.at = "saving_user" => q.status \in UserStatus

TypeInv == TypeOK /\ \A r \in Request : RequestShape(r)

(* Unless its revocation overlapped a check, a token that is being reported *)
(* or was reported as revoked is revoked, and no process can undo it; what  *)
(* is sent later gets no further than the first SELECT.                     *)
Gone(t) == tokens[t].revoked /\ ~ BeingChecked(t)

LogoutInv ==
    /\ \A t \in ended : t \in Stored /\ (t \in raced \/ Gone(t))
    /\ \A r \in Request :
          /\ At(r, {"logout"}, "reporting") =>
                request[r].token \in raced \/ Gone(request[r].token)
          /\ r \in latecomers =>
                /\ request[r].kind \in Bearer
                /\ request[r].token \in ended
                /\ request[r].token \in raced \/ request[r].at = "finding_token"

(* Unless an edit overlapped the block, the row of a barred user is not     *)
(* active and no edit will make it so; requests that were sent to a barred  *)
(* user have not passed the check of the status.                            *)
Shut(u) ==
    /\ users[u] # "active"
    /\ \A q \in Request :
          At(q, {"edit"}, "saving_user") /\ request[q].user = u
             => request[q].status # "active"

BlockInv ==
    /\ \A u \in barred : u \in stale \/ Shut(u)
    /\ \A r \in outsiders :
          /\ request[r].kind # "none"
          /\ request[r].user \in barred
          /\ \/ request[r].user \in stale
             \/ request[r].kind \in {"status", "edit"}
             \/ request[r].at \in {"finding_token", "finding_user"}

Orphans == {t \in Token : Orphan(t)}

OrphanInv == IsFiniteSet(Orphans) /\ Cardinality(Orphans) <= faults

-------------------------------------------------------------------------------
(* Type correctness. *)

(* A stored token stays stored, and its owner stays its owner.              *)
LEMMA RowsStay ==
    ASSUME TypeInv, NEW r \in Request, Step(r), NEW t \in Stored
    PROVE  tokens'[t] \in Row /\ tokens'[t].user = tokens[t].user
<1> USE ApiTokensAssumption DEF ApiTokensAssumption
<1>1. tokens \in [Token -> Row \cup {None}] /\ tokens[t] \in Row /\ t \in Token
  BY DEF TypeInv, TypeOK, Stored
<1>2. CASE SaveToken(r)
  <2>1. /\ request[r].token \in Stored
        /\ request[r].copy = [user |-> tokens[request[r].token].user, revoked |-> FALSE]
    BY <1>2 DEF TypeInv, TypeOK, RequestShape, Bearer, SaveToken, At
  <2>2. QED
    BY <1>1, <1>2, <2>1 DEF SaveToken, Row, Stored
<1>3. CASE Revoke(r)
  <2>1. request[r].token \in Stored
    BY <1>3 DEF TypeInv, TypeOK, RequestShape, Bearer, Revoke, At
  <2>2. QED
    BY <1>1, <1>3, <2>1 DEF Revoke, Row, Stored
<1>4. CASE IssueToken(r)
  BY <1>1, <1>4 DEF IssueToken
<1>5. CASE UNCHANGED tokens
  BY <1>1, <1>5
<1>6. QED
  BY <1>2, <1>3, <1>4, <1>5 DEF Step, SendToken, SendLogin, SendStatus, SendEdit,
     Arrive, FindToken, FindOwner, AnswerCall, AnswerLogout, CheckLogin, RefuseLogin,
     AnswerLogin, SaveStatus, ReadUser, RefuseEdit, SaveEdit, AnswerAdmin, Fail, table

(* The shape of a request that has passed its check or its revocation.      *)
LEMMA BearerShape ==
    ASSUME NEW r \in Request, request'[r].kind \in Bearer,
           request'[r].at \in {"admitted", "reporting"}, request'[r].token \in known',
           request'[r].user = tokens'[request'[r].token].user
    PROVE  RequestShape(r)'
BY DEF RequestShape, Bearer

(* The records of the processes keep their type, and the shape of the one   *)
(* that moved; a step of r leaves the others alone.                         *)
LEMMA RequestStep ==
    ASSUME TypeInv, NEW r \in Request, Step(r)
    PROVE  /\ request' \in [Request -> RequestState]
           /\ \A q \in Request \ {r} : request'[q] = request[q]
           /\ known \subseteq known'
           /\ known' \subseteq Stored'
           /\ RequestShape(r)'
<1> USE ApiTokensAssumption DEF ApiTokensAssumption
<1>1. request \in [Request -> RequestState] /\ request[r] \in RequestState
  BY DEF TypeInv, TypeOK
<1>2. RequestShape(r) /\ TypeOK
  BY DEF TypeInv
<1>3. Stored \subseteq Stored'
  BY RowsStay, <1>2 DEF Stored, TypeOK, Row
<1>4. CASE End(r) /\ known \subseteq known' /\ known' \subseteq Stored'
  <2>1. request' = [request EXCEPT ![r] = Idle] /\ Idle \in RequestState
    BY <1>4 DEF End, Idle, Sent, RequestState, Kind, Stage
  <2>2. request'[r] = Idle
    BY <1>1, <2>1
  <2>3. RequestShape(r)'
    BY <2>2 DEF RequestShape, Idle, Sent, Bearer
  <2>4. QED
    BY <1>1, <1>4, <2>1, <2>3
<1>5. ASSUME NEW kind \in Kind, NEW stage \in Stage, NEW user \in User,
             NEW token \in Token \cup {None}, NEW st \in UserStatus \cup {None},
             NEW late, Arrive(r, Sent(kind, stage, user, token, st), late)
      PROVE  /\ request' \in [Request -> RequestState]
             /\ request'[r] = Sent(kind, stage, user, token, st)
             /\ \A q \in Request \ {r} : request'[q] = request[q]
             /\ UNCHANGED <<tokens, known>>
  <2>1. Sent(kind, stage, user, token, st) \in RequestState
    BY DEF Sent, RequestState
  <2>2. QED
    BY <1>1, <1>5, <2>1 DEF Arrive, table
<1>6. CASE SendToken(r)
  <2>1. PICK kind \in Bearer, t \in known :
          Arrive(r, Sent(kind, "finding_token", tokens[t].user, t, None), t \in ended)
    BY <1>6 DEF SendToken, Bearer
  <2>2. t \in Token /\ tokens[t].user \in User
    BY <1>2 DEF TypeOK, Stored, Row
  <2>3. /\ kind \in Kind /\ "finding_token" \in Stage
        /\ t \in Token \cup {None} /\ None \in UserStatus \cup {None}
    BY <2>2 DEF Bearer, Kind, Stage
  <2>4. /\ request' \in [Request -> RequestState]
        /\ request'[r] = Sent(kind, "finding_token", tokens[t].user, t, None)
        /\ \A q \in Request \ {r} : request'[q] = request[q]
        /\ UNCHANGED <<tokens, known>>
    BY <1>5, <2>1, <2>2, <2>3
  <2>5. RequestShape(r)'
    BY <2>4 DEF RequestShape, Sent, Bearer
  <2>6. QED
    BY <1>2, <2>4, <2>5 DEF TypeOK, Stored
<1>7. CASE SendLogin(r) \/ SendEdit(r) \/ SendStatus(r)
  <2>1. PICK kind \in {"login", "edit", "status"}, stage \in Stage, u \in User,
             st \in UserStatus \cup {None} :
          /\ Arrive(r, Sent(kind, stage, u, None, st), FALSE)
          /\ kind = "login" => stage = "finding_user"
          /\ kind = "edit" => stage = "reading"
          /\ kind = "status" => stage = "saving_user" /\ st \in UserStatus
    BY <1>7 DEF SendLogin, SendEdit, SendStatus, Stage
  <2>2. kind \in Kind /\ None \in Token \cup {None}
    BY DEF Kind
  <2>3. /\ request' \in [Request -> RequestState]
        /\ request'[r] = Sent(kind, stage, u, None, st)
        /\ \A q \in Request \ {r} : request'[q] = request[q]
        /\ UNCHANGED <<tokens, known>>
    BY <1>5, <2>1, <2>2
  <2>4. RequestShape(r)'
    BY <2>1, <2>3 DEF RequestShape, Sent, Bearer
  <2>5. QED
    BY <1>2, <2>3, <2>4 DEF TypeOK, Stored
<1>8. CASE FindToken(r) /\ Acceptable(tokens[request[r].token])
  <2>1. request' = [request EXCEPT ![r].at = "finding_user",
                                   ![r].copy = tokens[request[r].token]]
    BY <1>8 DEF FindToken
  <2>2. tokens[request[r].token] = [user |-> request[r].user, revoked |-> FALSE]
    BY <1>2, <1>8 DEF FindToken, Acceptable, At, RequestShape, Bearer, TypeOK, Stored, Row
  <2>3. tokens[request[r].token] \in Row
    BY <1>2, <1>8 DEF FindToken, At, RequestShape, Bearer, TypeOK, Stored
  <2>5. request'[r] = [kind |-> request[r].kind, at |-> "finding_user",
                       user |-> request[r].user, token |-> request[r].token,
                       copy |-> tokens[request[r].token], status |-> request[r].status]
    BY <1>1, <2>1 DEF RequestState
  <2>6. request'[r] \in RequestState /\ request' \in [Request -> RequestState]
    BY <1>1, <2>1, <2>3, <2>5 DEF RequestState, Stage
  <2>7. RequestShape(r)'
    BY <1>2, <1>8, <2>2, <2>5 DEF FindToken, At, RequestShape, Bearer, table
  <2>8. QED
    BY <1>1, <1>2, <1>8, <2>1, <2>6, <2>7 DEF FindToken, TypeOK, Stored, table
<1>9. CASE \/ FindToken(r) /\ ~ Acceptable(tokens[request[r].token])
           \/ FindOwner(r) /\ ~ MayEnter(request[r].copy.user)
           \/ AnswerCall(r) \/ AnswerLogout(r) \/ RefuseLogin(r) \/ RefuseEdit(r)
           \/ AnswerAdmin(r) \/ Fail(r)
  <2>1. End(r) /\ UNCHANGED <<tokens, known>>
    BY <1>9 DEF FindToken, FindOwner, AnswerCall, AnswerLogout, RefuseLogin,
                RefuseEdit, AnswerAdmin, Fail, table
  <2>2. QED
    BY <1>2, <1>4, <2>1 DEF TypeOK, Stored
<1>10. CASE AnswerLogin(r)
  <2>1. request[r].token \in Stored
    BY <1>2, <1>10 DEF AnswerLogin, At, RequestShape
  <2>2. End(r) /\ UNCHANGED tokens /\ known' = known \cup {request[r].token}
    BY <1>10 DEF AnswerLogin, table
  <2>3. QED
    BY <1>2, <1>4, <2>1, <2>2 DEF TypeOK, Stored
<1>11. ASSUME NEW stage \in Stage, Proceed(r, stage)
       PROVE  /\ request' \in [Request -> RequestState]
              /\ request'[r] = [request[r] EXCEPT !.at = stage]
              /\ request'[r].at = stage
              /\ request'[r].kind = request[r].kind
              /\ request'[r].user = request[r].user
              /\ request'[r].token = request[r].token
              /\ \A q \in Request \ {r} : request'[q] = request[q]
  <2>1. [request[r] EXCEPT !.at = stage] \in RequestState
    BY <1>1 DEF RequestState
  <2>2. request' = [request EXCEPT ![r] = [request[r] EXCEPT !.at = stage]]
    BY <1>1, <1>11 DEF Proceed
  <2>3. request'[r] = [request[r] EXCEPT !.at = stage]
    BY <1>1, <2>2
  <2>4. QED
    BY <1>1, <2>1, <2>2, <2>3 DEF RequestState
<1>12. CASE FindOwner(r) /\ MayEnter(request[r].copy.user)
  <2>1. "saving_token" \in Stage /\ Proceed(r, "saving_token") /\ UNCHANGED <<tokens, known>>
    BY <1>12 DEF FindOwner, Stage, table
  <2>2. RequestShape(r)'
    BY <1>1, <1>2, <1>11, <1>12, <2>1
    DEF FindOwner, At, RequestShape, Bearer, RequestState
  <2>3. QED
    BY <1>2, <1>11, <2>1, <2>2 DEF TypeOK, Stored
<1>13. CASE SaveToken(r)
  <2>1. "admitted" \in Stage /\ Proceed(r, "admitted") /\ UNCHANGED known
    BY <1>13 DEF SaveToken, Stage
  <2>2. request[r].token \in Stored /\ request[r].user = tokens[request[r].token].user
    BY <1>2, <1>13 DEF SaveToken, At, RequestShape, Bearer, TypeOK
  <2>3. tokens'[request[r].token].user = tokens[request[r].token].user
    BY <2>2, RowsStay
  <2>4. /\ request'[r].at = "admitted"
        /\ request'[r].kind = request[r].kind
        /\ request'[r].user = request[r].user
        /\ request'[r].token = request[r].token
    BY <1>11, <2>1
  <2>5. request[r].kind \in Bearer
    BY <1>13 DEF SaveToken, At, Bearer
  <2>6. RequestShape(r)'
    <3>1. request[r].token \in known
      BY <1>2, <2>5 DEF RequestShape
    <3>2. request'[r].token \in known' /\ request'[r].user = tokens'[request'[r].token].user
      BY <2>1, <2>2, <2>3, <2>4, <3>1
    <3>3. QED
      BY <2>4, <2>5, <3>2, BearerShape
  <2>7. QED
    BY <1>2, <1>3, <1>11, <2>1, <2>6 DEF TypeOK
<1>14. CASE Revoke(r)
  <2>1. "reporting" \in Stage /\ Proceed(r, "reporting") /\ UNCHANGED known
    BY <1>14 DEF Revoke, Stage
  <2>2. request[r].token \in Stored /\ request[r].user = tokens[request[r].token].user
    BY <1>2, <1>14 DEF Revoke, At, RequestShape, Bearer, TypeOK
  <2>3. tokens'[request[r].token].user = tokens[request[r].token].user
    BY <2>2, RowsStay
  <2>4. /\ request'[r].at = "reporting"
        /\ request'[r].kind = request[r].kind
        /\ request'[r].user = request[r].user
        /\ request'[r].token = request[r].token
    BY <1>11, <2>1
  <2>5. request[r].kind \in Bearer /\ request[r].kind = "logout"
    BY <1>14 DEF Revoke, At, Bearer
  <2>6. RequestShape(r)'
    <3>1. request[r].token \in known
      BY <1>2, <2>5 DEF RequestShape
    <3>2. request'[r].token \in known' /\ request'[r].user = tokens'[request'[r].token].user
      BY <2>1, <2>2, <2>3, <2>4, <3>1
    <3>3. QED
      BY <2>4, <2>5, <3>2, BearerShape
  <2>7. QED
    BY <1>2, <1>3, <1>11, <2>1, <2>6 DEF TypeOK
<1>15. CASE CheckLogin(r)
  <2>1. "issuing" \in Stage /\ Proceed(r, "issuing") /\ UNCHANGED <<tokens, known>>
    BY <1>15 DEF CheckLogin, Stage, table
  <2>2. RequestShape(r)'
    BY <1>1, <1>2, <1>11, <1>15, <2>1
    DEF CheckLogin, At, RequestShape, Bearer, RequestState
  <2>3. QED
    BY <1>2, <1>11, <2>1, <2>2 DEF TypeOK, Stored
<1>16. CASE SaveStatus(r) \/ SaveEdit(r)
  <2>1. "reporting" \in Stage /\ Proceed(r, "reporting") /\ UNCHANGED <<tokens, known>>
    BY <1>16 DEF SaveStatus, SaveEdit, Stage
  <2>2. RequestShape(r)'
    BY <1>1, <1>2, <1>11, <1>16, <2>1
    DEF SaveStatus, SaveEdit, At, RequestShape, Bearer, RequestState
  <2>3. QED
    BY <1>2, <1>11, <2>1, <2>2 DEF TypeOK, Stored
<1>17. CASE IssueToken(r)
  <2>1. PICK t \in Token \ Stored :
          /\ tokens' = [tokens EXCEPT ![t] = [user |-> request[r].user, revoked |-> FALSE]]
          /\ request' = [request EXCEPT ![r].at = "reporting", ![r].token = t]
          /\ UNCHANGED known
    BY <1>17 DEF IssueToken
  <2>2. t \in Stored'
    <3>1. [user |-> request[r].user, revoked |-> FALSE] \in Row
      BY <1>2, <1>17 DEF IssueToken, At, RequestShape, Row
    <3>2. QED
      BY <1>2, <2>1, <3>1 DEF TypeOK, Stored
  <2>3. request'[r] = [kind |-> "login", at |-> "reporting",
                       user |-> request[r].user, token |-> t,
                       copy |-> request[r].copy, status |-> request[r].status]
    BY <1>1, <1>17, <2>1 DEF RequestState, IssueToken, At
  <2>4. request' \in [Request -> RequestState]
    BY <1>1, <2>1, <2>3 DEF RequestState, Stage, Kind
  <2>5. RequestShape(r)'
    <3>1. request[r].user \in User
      BY <1>2, <1>17 DEF IssueToken, At, RequestShape
    <3>2. QED
      BY <2>2, <2>3, <3>1 DEF RequestShape, Bearer
  <2>6. QED
    BY <1>1, <1>2, <1>3, <2>1, <2>4, <2>5 DEF TypeOK
<1>18. CASE ReadUser(r)
  <2>1. /\ request' = [request EXCEPT ![r].at = "saving_user",
                                      ![r].status = users[request[r].user]]
        /\ UNCHANGED <<tokens, known>>
    BY <1>18 DEF ReadUser, table
  <2>2. users[request[r].user] \in UserStatus
    BY <1>2, <1>18 DEF ReadUser, At, RequestShape, TypeOK
  <2>3. request'[r] = [kind |-> "edit", at |-> "saving_user",
                       user |-> request[r].user, token |-> request[r].token,
                       copy |-> request[r].copy, status |-> users[request[r].user]]
    BY <1>1, <1>18, <2>1 DEF RequestState, ReadUser, At
  <2>4. request' \in [Request -> RequestState]
    BY <1>1, <2>1, <2>2, <2>3 DEF RequestState, Stage, Kind
  <2>5. RequestShape(r)'
    BY <1>2, <1>18, <2>2, <2>3 DEF ReadUser, At, RequestShape, Bearer
  <2>6. QED
    BY <1>1, <1>2, <2>1, <2>4, <2>5 DEF TypeOK, Stored
<1>19. QED
  BY <1>6, <1>7, <1>8, <1>9, <1>10, <1>12, <1>13, <1>14, <1>15, <1>16, <1>17, <1>18
  DEF Step

(* Type correctness is preserved by every step of every process.            *)
LEMMA TypeStep ==
    ASSUME TypeInv, NEW r \in Request, Step(r)
    PROVE  TypeInv'
<1> USE ApiTokensAssumption DEF ApiTokensAssumption
<1>1. TypeOK /\ \A q \in Request : RequestShape(q)
  BY DEF TypeInv
<1>2. /\ request' \in [Request -> RequestState]
      /\ \A q \in Request \ {r} : request'[q] = request[q]
      /\ known \subseteq known' /\ known' \subseteq Stored'
      /\ RequestShape(r)'
  BY RequestStep
<1>3. Stored \subseteq Stored'
  BY RowsStay, <1>1 DEF Stored, TypeOK, Row
<1>4. \A q \in Request : RequestShape(q)'
  <2>1. SUFFICES ASSUME NEW q \in Request \ {r}
                 PROVE  RequestShape(q)'
    BY <1>2
  <2>2. request'[q] = request[q] /\ RequestShape(q)
    BY <1>1, <1>2
  <2>3. request[q].token \in known =>
          tokens'[request[q].token].user = tokens[request[q].token].user
    BY <1>1, RowsStay DEF TypeOK
  <2>4. QED
    BY <1>2, <1>3, <2>2, <2>3 DEF RequestShape
<1>5. tokens' \in [Token -> Row \cup {None}]
  <2>1. CASE SaveToken(r)
    <3>1. request[r].copy \in Row
      <4>1. /\ request[r].token \in Stored
            /\ request[r].copy = [user |-> tokens[request[r].token].user, revoked |-> FALSE]
        BY <1>1, <2>1 DEF SaveToken, At, RequestShape, Bearer, TypeOK
      <4>2. tokens[request[r].token].user \in User
        BY <1>1, <4>1 DEF TypeOK, Stored, Row
      <4>3. QED
        BY <4>1, <4>2 DEF Row
    <3>2. QED
      BY <1>1, <2>1, <3>1 DEF SaveToken, TypeOK
  <2>2. CASE Revoke(r)
    <3>1. request[r].token \in Stored
      BY <1>1, <2>2 DEF Revoke, At, RequestShape, Bearer, TypeOK
    <3>2. tokens'[request[r].token] \in Row
      BY <3>1, RowsStay
    <3>3. tokens' = [tokens EXCEPT ![request[r].token] =
                       [tokens[request[r].token] EXCEPT !.revoked = TRUE]]
      BY <2>2 DEF Revoke
    <3>4. QED
      BY <1>1, <3>1, <3>2, <3>3 DEF TypeOK, Stored
  <2>3. CASE IssueToken(r)
    <3>1. request[r].user \in User
      BY <1>1, <2>3 DEF IssueToken, At, RequestShape
    <3>2. QED
      BY <1>1, <2>3, <3>1 DEF IssueToken, TypeOK, Row
  <2>4. CASE UNCHANGED tokens
    BY <1>1, <2>4 DEF TypeOK
  <2>5. QED
    BY <2>1, <2>2, <2>3, <2>4 DEF Step, SendToken, SendLogin, SendStatus, SendEdit,
       Arrive, FindToken, FindOwner, AnswerCall, AnswerLogout, CheckLogin, RefuseLogin,
       AnswerLogin, SaveStatus, ReadUser, RefuseEdit, SaveEdit, AnswerAdmin, Fail, table
<1>6. users' \in [User -> UserStatus]
  <2>1. CASE SaveStatus(r) \/ SaveEdit(r)
    <3>1. request[r].user \in User /\ request[r].status \in UserStatus
      BY <1>1, <2>1 DEF SaveStatus, SaveEdit, At, RequestShape
    <3>2. users' = [users EXCEPT ![request[r].user] = request[r].status]
      BY <2>1 DEF SaveStatus, SaveEdit
    <3>3. QED
      BY <1>1, <3>1, <3>2 DEF TypeOK
  <2>2. CASE UNCHANGED users
    BY <1>1, <2>2 DEF TypeOK
  <2>3. QED
    BY <2>1, <2>2 DEF Step, SendToken, SendLogin, SendStatus, SendEdit,
       Arrive, FindToken, FindOwner, SaveToken, AnswerCall, Revoke, AnswerLogout,
       CheckLogin, RefuseLogin, IssueToken, AnswerLogin, ReadUser, RefuseEdit,
       AnswerAdmin, Fail, table
<1>7. faults' \in 0..MaxFaults
  <2>1. CASE Fail(r)
    BY <1>1, <2>1 DEF Fail, TypeOK
  <2>2. CASE UNCHANGED faults
    BY <1>1, <2>2 DEF TypeOK
  <2>3. QED
    BY <2>1, <2>2 DEF Step, SendToken, SendLogin, SendStatus, SendEdit,
       Arrive, FindToken, FindOwner, SaveToken, AnswerCall, Revoke, AnswerLogout,
       CheckLogin, RefuseLogin, IssueToken, AnswerLogin, SaveStatus, ReadUser,
       RefuseEdit, SaveEdit, AnswerAdmin
<1>8. ended' \subseteq Token /\ raced' \subseteq Token
  <2>1. CASE AnswerLogout(r) \/ Revoke(r)
    <3>1. request[r].token \in Token
      BY <1>1, <2>1 DEF AnswerLogout, Revoke, At, RequestShape, Bearer, TypeOK, Stored
    <3>2. QED
      BY <1>1, <2>1, <3>1 DEF AnswerLogout, Revoke, TypeOK
  <2>2. CASE UNCHANGED <<ended, raced>>
    BY <1>1, <2>2 DEF TypeOK
  <2>3. QED
    BY <2>1, <2>2 DEF Step, SendToken, SendLogin, SendStatus, SendEdit,
       Arrive, FindToken, FindOwner, SaveToken, AnswerCall, CheckLogin, RefuseLogin,
       IssueToken, AnswerLogin, SaveStatus, ReadUser, RefuseEdit, SaveEdit,
       AnswerAdmin, Fail
<1>9. barred' \subseteq User /\ stale' \subseteq User
  <2>1. CASE SaveStatus(r)
    <3>1. request[r].user \in User
      BY <1>1, <2>1 DEF SaveStatus, At, RequestShape
    <3>2. QED
      BY <1>1, <2>1, <3>1 DEF SaveStatus, TypeOK
  <2>2. CASE UNCHANGED <<barred, stale>>
    BY <1>1, <2>2 DEF TypeOK
  <2>3. QED
    BY <2>1, <2>2 DEF Step, SendToken, SendLogin, SendStatus, SendEdit,
       Arrive, FindToken, FindOwner, SaveToken, AnswerCall, Revoke, AnswerLogout,
       CheckLogin, RefuseLogin, IssueToken, AnswerLogin, ReadUser, RefuseEdit,
       SaveEdit, AnswerAdmin, Fail
<1>10. latecomers' \subseteq Request /\ outsiders' \subseteq Request
  BY <1>1 DEF TypeOK, Step, SendToken, SendLogin, SendStatus, SendEdit, Arrive, End,
     FindToken, FindOwner, SaveToken, AnswerCall, Revoke, AnswerLogout, CheckLogin,
     RefuseLogin, IssueToken, AnswerLogin, SaveStatus, ReadUser, RefuseEdit, SaveEdit,
     AnswerAdmin, Fail, sent
<1>11. QED
  BY <1>2, <1>4, <1>5, <1>6, <1>7, <1>8, <1>9, <1>10 DEF TypeInv, TypeOK

(* A step ends the request, begins one, or moves it on.                     *)
Ends(r) ==
    /\ request'[r] = Idle
    /\ latecomers' = latecomers \ {r}
    /\ outsiders' = outsiders \ {r}
    /\ UNCHANGED <<table, raced, barred, stale>>

Begins(r) ==
    /\ request[r].at = "idle"
    /\ request'[r].kind # "none"
    /\ request'[r].kind \in Bearer => request'[r].at = "finding_token"
    /\ request'[r].kind = "login" => request'[r].at = "finding_user"
    /\ request'[r].kind = "edit" => request'[r].at = "reading"
    /\ latecomers' \subseteq latecomers \cup {r}
    /\ outsiders' \subseteq outsiders \cup {r}
    /\ r \in latecomers' =>
          r \in latecomers \/ (request'[r].kind \in Bearer /\ request'[r].token \in ended)
    /\ r \in outsiders' => r \in outsiders \/ request'[r].user \in barred
    /\ UNCHANGED <<table, known, faults, ended, raced, barred, stale>>

Reaches(r, stage) ==
    /\ request'[r].at = stage
    /\ request'[r].kind = request[r].kind
    /\ request'[r].user = request[r].user

Moves(r) ==
    \/ FindToken(r) /\ Acceptable(tokens[request[r].token]) /\ Reaches(r, "finding_user")
    \/ FindOwner(r) /\ MayEnter(request[r].copy.user) /\ Reaches(r, "saving_token")
    \/ SaveToken(r) /\ Reaches(r, "admitted")
    \/ Revoke(r) /\ Reaches(r, "reporting")
    \/ CheckLogin(r) /\ Reaches(r, "issuing")
    \/ IssueToken(r) /\ Reaches(r, "reporting")
    \/ SaveStatus(r) /\ Reaches(r, "reporting")
    \/ ReadUser(r) /\ Reaches(r, "saving_user") /\ request'[r].status = users[request[r].user]
    \/ SaveEdit(r) /\ Reaches(r, "reporting")

LEMMA StepKinds ==
    ASSUME TypeInv, NEW r \in Request, Step(r)
    PROVE  \/ Ends(r) \/ Begins(r)
           \/ /\ Moves(r)
              /\ IssueToken(r) \/ request'[r].token = request[r].token
<1>1. /\ request \in [Request -> RequestState] /\ request[r] \in RequestState
  BY DEF TypeInv, TypeOK
<1>2. CASE End(r) /\ UNCHANGED <<table, raced, barred, stale>>
  BY <1>1, <1>2 DEF End, Ends
<1>3. CASE SendToken(r)
  <2>1. PICK kind \in Bearer, t \in known :
          Arrive(r, Sent(kind, "finding_token", tokens[t].user, t, None), t \in ended)
    BY <1>3 DEF SendToken, Bearer
  <2>2. request'[r] = Sent(kind, "finding_token", tokens[t].user, t, None)
    BY <1>1, <2>1 DEF Arrive
  <2>3. /\ request'[r].kind = kind /\ request'[r].at = "finding_token"
        /\ request'[r].token = t /\ request'[r].user = tokens[t].user
    BY <2>2 DEF Sent
  <2>4. QED
    BY <2>1, <2>3 DEF Begins, Arrive, Bearer, Sent
<1>4. CASE SendLogin(r) \/ SendEdit(r) \/ SendStatus(r)
  <2>1. PICK kind \in {"login", "edit", "status"}, stage \in Stage, u \in User,
             st \in UserStatus \cup {None} :
          /\ Arrive(r, Sent(kind, stage, u, None, st), FALSE)
          /\ kind = "login" => stage = "finding_user"
          /\ kind = "edit" => stage = "reading"
    BY <1>4 DEF SendLogin, SendEdit, SendStatus, Stage
  <2>2. request'[r] = Sent(kind, stage, u, None, st)
    BY <1>1, <2>1 DEF Arrive
  <2>3. /\ request'[r].kind = kind /\ request'[r].at = stage
        /\ request'[r].user = u
    BY <2>2 DEF Sent
  <2>4. QED
    BY <2>1, <2>3 DEF Begins, Arrive, Bearer, Sent
<1>5. ASSUME NEW stage \in Stage, Proceed(r, stage)
      PROVE  Reaches(r, stage) /\ request'[r].token = request[r].token
  BY <1>1, <1>5 DEF Proceed, Reaches, RequestState
<1>6. CASE FindToken(r)
  <2>1. CASE Acceptable(tokens[request[r].token])
    <3>1. request' = [request EXCEPT ![r].at = "finding_user",
                                     ![r].copy = tokens[request[r].token]]
      BY <1>6, <2>1 DEF FindToken
    <3>2. Reaches(r, "finding_user") /\ request'[r].token = request[r].token
      BY <1>1, <3>1 DEF Reaches, RequestState
    <3>3. QED
      BY <1>6, <2>1, <3>2 DEF Moves
  <2>2. CASE ~ Acceptable(tokens[request[r].token])
    BY <1>2, <1>6, <2>2 DEF FindToken
  <2>3. QED
    BY <2>1, <2>2
<1>7. CASE FindOwner(r)
  BY <1>2, <1>5, <1>7 DEF FindOwner, Moves, Stage
<1>8. CASE SaveToken(r) \/ Revoke(r) \/ CheckLogin(r) \/ SaveStatus(r) \/ SaveEdit(r)
  <2>1. PICK stage \in {"admitted", "reporting", "issuing"} :
          /\ Proceed(r, stage)
          /\ SaveToken(r) => stage = "admitted"
          /\ CheckLogin(r) => stage = "issuing"
          /\ Revoke(r) \/ SaveStatus(r) \/ SaveEdit(r) => stage = "reporting"
    BY <1>8 DEF SaveToken, Revoke, CheckLogin, SaveStatus, SaveEdit, At
  <2>2. Reaches(r, stage) /\ request'[r].token = request[r].token
    BY <1>5, <2>1 DEF Stage
  <2>3. QED
    BY <1>8, <2>1, <2>2 DEF Moves
<1>9. CASE IssueToken(r)
  <2>1. PICK t : request' = [request EXCEPT ![r].at = "reporting", ![r].token = t]
    BY <1>9 DEF IssueToken
  <2>2. Reaches(r, "reporting")
    BY <1>1, <2>1 DEF Reaches, RequestState
  <2>3. QED
    BY <1>9, <2>2 DEF Moves
<1>10. CASE ReadUser(r)
  <2>1. request' = [request EXCEPT ![r].at = "saving_user",
                                   ![r].status = users[request[r].user]]
    BY <1>10 DEF ReadUser
  <2>2. /\ Reaches(r, "saving_user") /\ request'[r].token = request[r].token
        /\ request'[r].status = users[request[r].user]
    BY <1>1, <2>1 DEF Reaches, RequestState
  <2>3. QED
    BY <1>10, <2>2 DEF Moves
<1>11. QED
  BY <1>2, <1>3, <1>4, <1>6, <1>7, <1>8, <1>9, <1>10
  DEF Step, AnswerCall, AnswerLogout, RefuseLogin, AnswerLogin, RefuseEdit, AnswerAdmin, Fail

-------------------------------------------------------------------------------
(* Logout. *)

(* A revoked token that nobody is checking stays so: the check refuses it,  *)
(* and only those that passed the check write it back.                      *)
LEMMA GoneStays ==
    ASSUME TypeInv, NEW r \in Request, Step(r), NEW t \in Stored, Gone(t)
    PROVE  Gone(t)'
<1>1. TypeOK /\ RequestShape(r) /\ TypeInv'
  BY TypeStep DEF TypeInv
<1>2. tokens'[t].revoked
  <2>1. CASE SaveToken(r)
    <3>1. request[r].token # t
      BY <2>1 DEF Gone, BeingChecked, SaveToken, At
    <3>2. QED
      BY <1>1, <2>1, <3>1 DEF SaveToken, TypeOK, Stored, Gone
  <2>2. CASE Revoke(r)
    BY <1>1, <2>2 DEF Revoke, TypeOK, Stored, Gone, Row
  <2>3. CASE IssueToken(r)
    BY <1>1, <2>3 DEF IssueToken, TypeOK, Stored, Gone
  <2>4. CASE UNCHANGED tokens
    BY <2>4 DEF Gone
  <2>5. QED
    BY <2>1, <2>2, <2>3, <2>4 DEF Step, SendToken, SendLogin, SendStatus, SendEdit,
       Arrive, FindToken, FindOwner, AnswerCall, AnswerLogout, CheckLogin, RefuseLogin,
       AnswerLogin, SaveStatus, ReadUser, RefuseEdit, SaveEdit, AnswerAdmin, Fail, table
<1>3. ~ BeingChecked(t)'
  <2>1. SUFFICES ASSUME NEW q \in Request, request'[q].token = t,
                        request'[q].kind \in Bearer,
                        request'[q].at \in {"finding_user", "saving_token"}
                 PROVE  FALSE
    BY DEF BeingChecked, At, Bearer
  <2>2. CASE q # r
    BY <2>1, <2>2, RequestStep DEF Gone, BeingChecked, At, Bearer
  <2>3. CASE q = r
    <3>1. ~ Ends(r)
      BY <2>1, <2>3 DEF Ends, Idle, Sent, Bearer
    <3>2. ~ Begins(r)
      BY <2>1, <2>3 DEF Begins
    <3>3. CASE FindToken(r)
      <4>1. ~ tokens[request[r].token].revoked /\ request[r].token = t
        BY <2>1, <2>3, <3>1, <3>2, <3>3, StepKinds
        DEF Moves, Reaches, Acceptable, FindToken, FindOwner, SaveToken, Revoke,
            CheckLogin, IssueToken, SaveStatus, ReadUser, SaveEdit, At, Bearer
      <4>2. QED
        BY <4>1 DEF Gone
    <3>4. CASE ~ FindToken(r)
      <4>1. /\ request[r].at = "finding_user" /\ request[r].kind \in Bearer
            /\ request[r].token = t
        BY <2>1, <2>3, <3>1, <3>2, <3>4, StepKinds
        DEF Moves, Reaches, FindOwner, SaveToken, Revoke,
            CheckLogin, IssueToken, SaveStatus, ReadUser, SaveEdit, At, Bearer
      <4>2. QED
        BY <4>1 DEF Gone, BeingChecked, At, Bearer
    <3>5. QED
      BY <3>3, <3>4
  <2>4. QED
    BY <2>2, <2>3
<1>4. QED
  BY <1>2, <1>3 DEF Gone

(* Tokens enter raced and ended at their logout only.                       *)
LEMMA LogoutHistory ==
    ASSUME NEW r \in Request, Step(r)
    PROVE  /\ raced \subseteq raced'
           /\ ended' = ended \/ (AnswerLogout(r) /\ ended' = ended \cup {request[r].token})
BY DEF Step, SendToken, SendLogin, SendStatus, SendEdit, Arrive,
   FindToken, FindOwner, SaveToken, AnswerCall, Revoke, AnswerLogout, CheckLogin,
   RefuseLogin, IssueToken, AnswerLogin, SaveStatus, ReadUser, RefuseEdit, SaveEdit,
   AnswerAdmin, Fail

LEMMA LogoutStep ==
    ASSUME TypeInv, LogoutInv, NEW r \in Request, Step(r)
    PROVE  LogoutInv'
<1>1. TypeOK /\ (\A q \in Request : RequestShape(q)) /\ TypeInv'
  BY TypeStep DEF TypeInv
<1>2. \A q \in Request \ {r} : request'[q] = request[q]
  BY RequestStep
<1>3. \A t \in Stored : t \in Stored' /\ (t \in raced \/ Gone(t) => t \in raced' \/ Gone(t)')
  <2>1. TAKE t \in Stored
  <2>2. t \in Stored'
    BY <1>1, RowsStay, ApiTokensAssumption DEF ApiTokensAssumption, Stored, Row
  <2>3. QED
    BY <2>2, GoneStays, LogoutHistory
<1>4. \A t \in ended' : t \in Stored' /\ (t \in raced' \/ Gone(t)')
  <2>1. TAKE t \in ended'
  <2>2. CASE t \in ended
    BY <1>3, <2>2 DEF LogoutInv
  <2>3. CASE AnswerLogout(r) /\ t = request[r].token
    <3>1. t \in Stored /\ (t \in raced \/ Gone(t))
      BY <1>1, <2>3 DEF LogoutInv, AnswerLogout, At, RequestShape, Bearer, TypeOK
    <3>2. QED
      BY <1>3, <3>1
  <2>4. QED
    BY <2>1, <2>2, <2>3, LogoutHistory
<1>5. ASSUME NEW q \in Request, At(q, {"logout"}, "reporting")'
      PROVE  (request[q].token \in raced \/ Gone(request[q].token))'
  <2>1. CASE q # r
    <3>1. request'[q] = request[q] /\ At(q, {"logout"}, "reporting")
      BY <1>2, <1>5, <2>1 DEF At
    <3>2. request[q].token \in Stored
      BY <1>1, <3>1 DEF RequestShape, At, Bearer, TypeOK
    <3>3. QED
      BY <1>3, <3>1, <3>2 DEF LogoutInv
  <2>2. CASE q = r
    <3>1. /\ Revoke(r) /\ request'[r].token = request[r].token
          /\ request'[r].at = "reporting"
      <4>1. ~ Ends(r)
        BY <1>5, <2>2 DEF At, Ends, Idle, Sent
      <4>2. ~ Begins(r)
        BY <1>5, <2>2 DEF At, Begins, Bearer
      <4>3. QED
        BY <1>5, <2>2, <4>1, <4>2, StepKinds
        DEF Moves, Reaches, At, FindToken, FindOwner, SaveToken,
            CheckLogin, IssueToken, SaveStatus, ReadUser, SaveEdit
    <3>2. request[r].token \in Stored
      BY <1>1, <3>1 DEF RequestShape, Revoke, At, Bearer, TypeOK
    <3>3. CASE BeingChecked(request[r].token)
      BY <2>2, <3>1, <3>3 DEF Revoke
    <3>4. CASE ~ BeingChecked(request[r].token)
      <4>1. tokens'[request[r].token].revoked
        BY <1>1, <3>1, <3>2 DEF Revoke, TypeOK, Stored, Row
      <4>2. ~ BeingChecked(request[r].token)'
        BY <1>2, <3>1, <3>4 DEF BeingChecked, At
      <4>3. QED
        BY <2>2, <3>1, <4>1, <4>2 DEF Gone, BeingChecked, At
    <3>5. QED
      BY <3>3, <3>4
  <2>3. QED
    BY <2>1, <2>2
<1>6. ASSUME NEW q \in Request, q \in latecomers'
      PROVE  /\ request'[q].kind \in Bearer
             /\ request'[q].token \in ended'
             /\ request'[q].token \in raced' \/ request'[q].at = "finding_token"
  <2>1. ended \subseteq ended' /\ raced \subseteq raced'
    BY LogoutHistory
  <2>2. CASE q # r
    <3>1. q \in latecomers
      BY <1>6, <2>2, StepKinds DEF Ends, Begins, Moves, FindToken, FindOwner, SaveToken,
         Revoke, CheckLogin, IssueToken, SaveStatus, ReadUser, SaveEdit, sent
    <3>2. QED
      BY <1>2, <2>1, <2>2, <3>1 DEF LogoutInv
  <2>3. CASE q = r
    <3>1. ~ Ends(r)
      BY <1>6, <2>3 DEF Ends
    <3>2. CASE Begins(r)
      <4>1. r \notin latecomers
        BY <1>1, <3>2 DEF Begins, RequestShape, LogoutInv, Bearer
      <4>2. QED
        BY <1>6, <2>1, <2>3, <3>2, <4>1 DEF Begins
    <3>3. CASE Moves(r) /\ (IssueToken(r) \/ request'[r].token = request[r].token)
      <4>1. r \in latecomers /\ request'[r].kind = request[r].kind
        BY <1>6, <2>3, <3>3 DEF Moves, Reaches, FindToken, FindOwner, SaveToken,
           Revoke, CheckLogin, IssueToken, SaveStatus, ReadUser, SaveEdit, sent
      <4>2. /\ request[r].kind \in Bearer /\ request[r].token \in ended
            /\ request[r].token \in raced \/ request[r].at = "finding_token"
        BY <4>1 DEF LogoutInv
      <4>3. request'[r].token = request[r].token
        BY <3>3, <4>2 DEF IssueToken, At, Bearer
      <4>4. CASE request[r].token \notin raced
        <5>1. Gone(request[r].token)
          BY <4>2, <4>4 DEF LogoutInv
        <5>2. FALSE
          BY <3>3, <4>2, <4>4, <5>1
          DEF Gone, Moves, FindToken, Acceptable, FindOwner, SaveToken, Revoke,
              CheckLogin, IssueToken, SaveStatus, ReadUser, SaveEdit, At, Bearer
        <5>3. QED
          BY <5>2
      <4>5. QED
        BY <2>1, <2>3, <4>1, <4>2, <4>3, <4>4
    <3>4. QED
      BY <3>1, <3>2, <3>3, StepKinds
  <2>4. QED
    BY <2>2, <2>3
<1>7. QED
  BY <1>4, <1>5, <1>6 DEF LogoutInv

-------------------------------------------------------------------------------
(* Block. *)

(* Only an edit that was reading gets to the point of saving, and it brings *)
(* the status the row had.                                                  *)
LEMMA EditReads ==
    ASSUME TypeInv, NEW r \in Request, Step(r), At(r, {"edit"}, "saving_user")'
    PROVE  /\ ReadUser(r) /\ request'[r].user = request[r].user
           /\ request'[r].status = users[request[r].user]
<1>1. ~ Ends(r)
  BY DEF At, Ends, Idle, Sent
<1>2. ~ Begins(r)
  BY DEF At, Begins
<1>3. QED
  BY <1>1, <1>2, StepKinds DEF Moves, Reaches, At, FindToken, FindOwner, SaveToken,
     Revoke, CheckLogin, IssueToken, SaveStatus, ReadUser, SaveEdit

(* Statuses change by an administrator's request only, barred and stale by  *)
(* a change of status only.                                                 *)
LEMMA StatusHistory ==
    ASSUME NEW r \in Request, Step(r), ~ SaveStatus(r)
    PROVE  UNCHANGED <<barred, stale>> /\ (SaveEdit(r) \/ UNCHANGED users)
BY DEF Step, SendToken, SendLogin, SendStatus, SendEdit, Arrive,
   FindToken, FindOwner, SaveToken, AnswerCall, Revoke, AnswerLogout, CheckLogin,
   RefuseLogin, IssueToken, AnswerLogin, ReadUser, RefuseEdit, SaveEdit,
   AnswerAdmin, Fail, table

LEMMA ShutStays ==
    ASSUME TypeInv, NEW r \in Request, Step(r), NEW u \in User, Shut(u),
           SaveStatus(r) => request[r].user # u \/ request[r].status # "active"
    PROVE  Shut(u)'
<1>1. TypeOK /\ RequestShape(r)
  BY DEF TypeInv
<1>2. users'[u] # "active"
  <2>1. CASE SaveStatus(r)
    BY <1>1, <2>1 DEF SaveStatus, TypeOK, Shut
  <2>2. CASE SaveEdit(r)
    BY <1>1, <2>2 DEF SaveEdit, TypeOK, Shut
  <2>3. QED
    BY <2>1, <2>2, StatusHistory DEF Shut
<1>3. ASSUME NEW q \in Request, At(q, {"edit"}, "saving_user")', request'[q].user = u
      PROVE  request'[q].status # "active"
  <2>1. CASE q # r
    BY <1>3, <2>1, RequestStep DEF Shut, At
  <2>2. CASE q = r
    BY <1>3, <2>2, EditReads DEF Shut
  <2>3. QED
    BY <2>1, <2>2
<1>4. QED
  BY <1>2, <1>3 DEF Shut

LEMMA BlockStep ==
    ASSUME TypeInv, BlockInv, NEW r \in Request, Step(r)
    PROVE  BlockInv'
<1>1. TypeOK /\ (\A q \in Request : RequestShape(q)) /\ TypeInv'
  BY TypeStep DEF TypeInv
<1>2. \A q \in Request \ {r} : request'[q] = request[q]
  BY RequestStep
<1>3. ASSUME NEW u \in barred'
      PROVE  (u \in stale \/ Shut(u))'
  <2>1. CASE ~ SaveStatus(r)
    BY <1>1, <2>1, StatusHistory, ShutStays DEF BlockInv, TypeOK
  <2>2. CASE SaveStatus(r) /\ u # request[r].user
    BY <1>1, <1>3, <2>2, ShutStays DEF BlockInv, TypeOK, SaveStatus
  <2>3. CASE SaveStatus(r) /\ u = request[r].user
    <3>1. request[r].status # "active"
      BY <1>3, <2>3 DEF SaveStatus
    <3>2. CASE u \in stale'
      BY <3>2
    <3>3. CASE u \notin stale'
      <4>1. users'[u] # "active"
        BY <1>1, <2>3, <3>1 DEF SaveStatus, TypeOK, At, RequestShape
      <4>2. \A q \in Request : At(q, {"edit"}, "saving_user") /\ request[q].user = u
              => request[q].status # "active"
        BY <2>3, <3>1, <3>3 DEF SaveStatus
      <4>3. ~ At(r, {"edit"}, "saving_user")'
        BY <2>3, EditReads DEF SaveStatus, ReadUser, At
      <4>4. QED
        BY <1>2, <4>1, <4>2, <4>3 DEF Shut, At
    <3>4. QED
      BY <3>2, <3>3
  <2>4. QED
    BY <2>1, <2>2, <2>3
<1>4. ASSUME NEW q \in outsiders'
      PROVE  /\ request'[q].kind # "none"
             /\ request'[q].user \in barred'
             /\ \/ request'[q].user \in stale'
                \/ request'[q].kind \in {"status", "edit"}
                \/ request'[q].at \in {"finding_token", "finding_user"}
  <2>1. q \in Request
    BY <1>1 DEF TypeInv, TypeOK
  <2>2. CASE q # r
    <3>1. q \in outsiders /\ request'[q] = request[q]
      BY <1>2, <1>4, <2>1, <2>2, StepKinds DEF Ends, Begins, Moves, FindToken, FindOwner,
         SaveToken, Revoke, CheckLogin, IssueToken, SaveStatus, ReadUser, SaveEdit, sent
    <3>2. SaveStatus(r) /\ request[r].status = "active" => request[q].user # request[r].user
      BY <1>4 DEF SaveStatus
    <3>3. request[q].user \in barred => request[q].user \in barred'
      BY <3>2, StatusHistory DEF SaveStatus
    <3>4. request[q].user \in stale => request[q].user \in stale'
      BY <3>2, StatusHistory DEF SaveStatus
    <3>5. QED
      BY <3>1, <3>3, <3>4 DEF BlockInv
  <2>3. CASE q = r
    <3>1. ~ Ends(r)
      BY <1>4, <2>3 DEF Ends
    <3>2. CASE Begins(r)
      <4>1. r \notin outsiders
        BY <1>1, <3>2 DEF Begins, RequestShape, BlockInv
      <4>2. request'[r].kind \in Kind
        BY <1>1, <3>2 DEF Begins, TypeInv, TypeOK, RequestState
      <4>3. QED
        BY <1>4, <2>3, <3>2, <4>1, <4>2 DEF Begins, Kind, Bearer
    <3>3. CASE Moves(r) /\ SaveStatus(r)
      <4>1. r \in outsiders /\ request[r].status # "active"
        BY <1>4, <2>3, <3>3 DEF SaveStatus
      <4>2. request[r].kind = "status" /\ request'[r].user = request[r].user
            /\ request'[r].kind = "status"
        BY <3>3 DEF Moves, Reaches, FindToken, FindOwner, SaveToken, Revoke,
           CheckLogin, IssueToken, SaveStatus, ReadUser, SaveEdit, At
      <4>3. barred \subseteq barred'
        BY <3>3, <4>1 DEF SaveStatus
      <4>4. QED
        BY <2>3, <4>1, <4>2, <4>3 DEF BlockInv
    <3>4. CASE Moves(r) /\ ~ SaveStatus(r)
      <4>1. /\ r \in outsiders /\ UNCHANGED <<barred, stale>>
            /\ request'[r].kind = request[r].kind /\ request'[r].user = request[r].user
        BY <1>4, <2>3, <3>4 DEF Moves, Reaches, FindToken, FindOwner, SaveToken,
           Revoke, CheckLogin, IssueToken, ReadUser, SaveEdit, sent
      <4>2. CASE request[r].user \in stale \/ request[r].kind \in {"status", "edit"}
        BY <2>3, <4>1, <4>2 DEF BlockInv
      <4>3. CASE request[r].user \notin stale /\ request[r].kind \notin {"status", "edit"}
        <5>1. /\ request[r].user \in barred
              /\ request[r].at \in {"finding_token", "finding_user"}
              /\ users[request[r].user] # "active"
          BY <4>1, <4>3 DEF BlockInv, Shut
        <5>2. FindOwner(r) => request[r].copy.user = request[r].user
          <6>1. FindOwner(r) =>
                  request[r].copy = [user |-> request[r].user, revoked |-> FALSE]
            BY <1>1 DEF FindOwner, At, RequestShape, Bearer
          <6>2. QED
            BY <6>1
        <5>3. FindToken(r) /\ request'[r].at = "finding_user"
          BY <3>4, <4>3, <5>1, <5>2 DEF Moves, Reaches, FindOwner, MayEnter, SaveToken,
             Revoke, CheckLogin, IssueToken, ReadUser, SaveEdit, At
        <5>4. QED
          BY <2>3, <4>1, <5>1, <5>3 DEF BlockInv
      <4>4. QED
        BY <4>2, <4>3
    <3>5. QED
      BY <3>1, <3>2, <3>3, <3>4, StepKinds
  <2>4. QED
    BY <2>2, <2>3
<1>5. QED
  BY <1>3, <1>4 DEF BlockInv

-------------------------------------------------------------------------------
(* Orphans. *)

(* Nothing but a failure drops a token that no client knows, and it drops   *)
(* one.                                                                     *)
LEMMA OrphansAppear ==
    ASSUME TypeInv, NEW r \in Request, Step(r), NEW t \in Orphans'
    PROVE  t \in Orphans \/ (Fail(r) /\ t = request[r].token)
<1>1. TypeOK /\ (\A q \in Request : RequestShape(q))
  BY DEF TypeInv
<1>2. /\ t \in Token /\ t \in Stored' /\ t \notin known'
      /\ \A q \in Request : request'[q].token # t
  BY DEF Orphans, Orphan
<1>3. t \notin known
  BY <1>2, RequestStep
<1>4. \A q \in Request \ {r} : request[q].token # t
  BY <1>2, RequestStep
<1>5. t \in Stored
  <2>1. CASE IssueToken(r)
    <3>1. PICK n \in Token \ Stored :
            /\ tokens' = [tokens EXCEPT ![n] = [user |-> request[r].user, revoked |-> FALSE]]
            /\ request' = [request EXCEPT ![r].at = "reporting", ![r].token = n]
      BY <2>1 DEF IssueToken
    <3>2. request'[r].token = n
      BY <1>1, <3>1 DEF TypeOK, RequestState
    <3>3. QED
      BY <1>1, <1>2, <3>1, <3>2 DEF Stored, TypeOK
  <2>2. CASE SaveToken(r) \/ Revoke(r)
    <3>1. request[r].token \in Stored
      BY <1>1, <2>2 DEF SaveToken, Revoke, At, RequestShape, Bearer, TypeOK
    <3>2. QED
      BY <1>1, <1>2, <2>2, <3>1 DEF SaveToken, Revoke, Stored, TypeOK
  <2>3. CASE UNCHANGED tokens
    BY <1>2, <2>3 DEF Stored
  <2>4. QED
    BY <2>1, <2>2, <2>3 DEF Step, SendToken, SendLogin, SendStatus, SendEdit,
       Arrive, FindToken, FindOwner, AnswerCall, AnswerLogout, CheckLogin, RefuseLogin,
       AnswerLogin, SaveStatus, ReadUser, RefuseEdit, SaveEdit, AnswerAdmin, Fail, table
<1>6. request[r].token = t => Fail(r)
  <2>1. SUFFICES ASSUME request[r].token = t, ~ Fail(r)
                 PROVE  FALSE
    OBVIOUS
  <2>2. request[r].kind = "login" /\ request[r].at = "reporting"
    BY <1>1, <1>2, <1>3, <2>1, ApiTokensAssumption
    DEF RequestShape, Bearer, ApiTokensAssumption, TypeOK, RequestState, Kind
  <2>3. AnswerLogin(r)
    BY <2>1, <2>2 DEF Step, SendToken, SendLogin, SendStatus, SendEdit,
       Arrive, FindToken, FindOwner, SaveToken, AnswerCall, Revoke, AnswerLogout,
       CheckLogin, RefuseLogin, IssueToken, SaveStatus, ReadUser, RefuseEdit, SaveEdit,
       AnswerAdmin, At
  <2>4. QED
    BY <1>2, <2>1, <2>3 DEF AnswerLogin
<1>7. QED
  BY <1>2, <1>3, <1>4, <1>5, <1>6 DEF Orphans, Orphan

LEMMA OrphanStep ==
    ASSUME TypeInv, OrphanInv, NEW r \in Request, Step(r)
    PROVE  OrphanInv'
<1>1. faults \in Nat /\ IsFiniteSet(Orphans) /\ Cardinality(Orphans) <= faults
  BY ApiTokensAssumption DEF ApiTokensAssumption, TypeInv, TypeOK, OrphanInv
<1>2. Cardinality(Orphans) \in Nat
  BY <1>1, FS_CardinalityType
<1>3. CASE Fail(r)
  <2>1. Orphans' \subseteq Orphans \cup {request[r].token}
    BY OrphansAppear
  <2>2. /\ IsFiniteSet(Orphans \cup {request[r].token})
        /\ Cardinality(Orphans \cup {request[r].token}) <= Cardinality(Orphans) + 1
    <3>1. DEFINE x == request[r].token
    <3>2. /\ IsFiniteSet(Orphans \cup {x})
          /\ Cardinality(Orphans \cup {x}) =
                IF x \in Orphans THEN Cardinality(Orphans) ELSE Cardinality(Orphans) + 1
      <4> HIDE DEF x, Orphans
      <4>1. QED
        BY <1>1, FS_AddElement
    <3>3. QED
      BY <1>2, <3>2
  <2>3. /\ IsFiniteSet(Orphans')
        /\ Cardinality(Orphans') <= Cardinality(Orphans \cup {request[r].token})
    BY <2>1, <2>2, FS_Subset
  <2>4. Cardinality(Orphans') \in Nat /\ Cardinality(Orphans \cup {request[r].token}) \in Nat
    BY <2>2, <2>3, FS_CardinalityType
  <2>5. faults' = faults + 1
    BY <1>3 DEF Fail
  <2>6. QED
    BY <1>1, <1>2, <2>2, <2>3, <2>4, <2>5 DEF OrphanInv
<1>4. CASE ~ Fail(r)
  <2>1. Orphans' \subseteq Orphans
    BY <1>4, OrphansAppear
  <2>2. IsFiniteSet(Orphans') /\ Cardinality(Orphans') <= Cardinality(Orphans)
    BY <1>1, <2>1, FS_Subset
  <2>3. Cardinality(Orphans') \in Nat
    BY <2>2, FS_CardinalityType
  <2>4. faults' = faults
    BY <1>4 DEF Step, SendToken, SendLogin, SendStatus, SendEdit,
       Arrive, FindToken, FindOwner, SaveToken, AnswerCall, Revoke, AnswerLogout,
       CheckLogin, RefuseLogin, IssueToken, AnswerLogin, SaveStatus, ReadUser,
       RefuseEdit, SaveEdit, AnswerAdmin
  <2>5. QED
    BY <1>1, <1>2, <2>2, <2>3, <2>4 DEF OrphanInv
<1>5. QED
  BY <1>3, <1>4

-------------------------------------------------------------------------------
(* The inductive invariant and what follows from it. *)

IInv == TypeInv /\ LogoutInv /\ BlockInv /\ OrphanInv

LEMMA Initially == Init => IInv
<1> SUFFICES ASSUME Init PROVE IInv
  OBVIOUS
<1> USE ApiTokensAssumption DEF ApiTokensAssumption, Init
<1>1. TypeInv
  <2>1. Idle \in RequestState
    BY DEF Idle, Sent, RequestState, Kind, Stage
  <2>2. \A r \in Request : RequestShape(r)
    BY DEF RequestShape, Idle, Sent, Bearer
  <2>3. TypeOK
    BY <2>1 DEF TypeOK, UserStatus
  <2>4. QED
    BY <2>2, <2>3 DEF TypeInv
<1>2. LogoutInv
  BY DEF LogoutInv, At, Idle, Sent
<1>3. BlockInv
  BY DEF BlockInv
<1>4. OrphanInv
  <2>1. Orphans = {}
    BY DEF Orphans, Orphan, Stored
  <2>2. QED
    BY <2>1, FS_EmptySet DEF OrphanInv
<1>5. QED
  BY <1>1, <1>2, <1>3, <1>4 DEF IInv

LEMMA Invariance == Spec => []IInv
<1>1. IInv /\ [Next]_vars => IInv'
  <2>1. ASSUME IInv, NEW r \in Request, Step(r)
        PROVE  IInv'
    BY <2>1, TypeStep, LogoutStep, BlockStep, OrphanStep DEF IInv
  <2>2. ASSUME IInv, UNCHANGED vars
        PROVE  IInv'
    <3>1. TypeInv'
      BY <2>2 DEF IInv, TypeInv, TypeOK, RequestShape, Stored, vars, table, sent
    <3>2. LogoutInv'
      BY <2>2 DEF IInv, LogoutInv, Gone, BeingChecked, At, Stored, vars, table, sent
    <3>3. BlockInv'
      BY <2>2 DEF IInv, BlockInv, Shut, At, vars, table, sent
    <3>4. OrphanInv'
      <4>1. Orphans' = Orphans /\ faults' = faults
        BY <2>2 DEF Orphans, Orphan, Stored, vars, table
      <4>2. QED
        BY <2>2, <4>1 DEF IInv, OrphanInv
    <3>5. QED
      BY <3>1, <3>2, <3>3, <3>4 DEF IInv
  <2>3. QED
    BY <2>1, <2>2 DEF Next
<1>2. QED
  BY <1>1, Initially, PTL DEF Spec

(* Every reachable state is well typed; in particular a client knows only   *)
(* tokens that IssueApiTokenHandler has stored.                             *)
THEOREM TypeCorrect == Spec => []TypeOK
<1>1. IInv => TypeOK
  BY DEF IInv, TypeInv
<1>2. QED
  BY <1>1, Invariance, PTL

(* For any number of clients and processes, a token outlives its answered   *)
(* logout only through a check that was under way when it was revoked: the  *)
(* full-row save in GetAuthenticatedUserHandler is the only culprit.        *)
THEOREM LogoutHoldsWithoutOverlap == Spec => []AfterLogoutOnlyByOverlap
<1>1. IInv => AfterLogoutOnlyByOverlap
  <2>1. SUFFICES ASSUME IInv, NEW r \in latecomers, Entered(r)
                 PROVE  request[r].token \in raced
    BY DEF AfterLogoutOnlyByOverlap
  <2>2. r \in Request
    BY <2>1 DEF IInv, TypeInv, TypeOK
  <2>3. request[r].token \in raced \/ request[r].at = "finding_token"
    BY <2>1, <2>2 DEF IInv, LogoutInv
  <2>4. QED
    BY <2>1, <2>3 DEF Entered, At
<1>2. QED
  BY <1>1, Invariance, PTL

(* For any number of administrators, a user who stays barred during a whole *)
(* request enters only if UpdateUserHandler held a copy of the row from     *)
(* before the block.                                                        *)
THEOREM BlockHoldsWithoutOverlap == Spec => []AfterBlockOnlyByOverlap
<1>1. IInv => AfterBlockOnlyByOverlap
  <2>1. SUFFICES ASSUME IInv, NEW r \in outsiders, Entered(r)
                 PROVE  request[r].user \in stale
    BY DEF AfterBlockOnlyByOverlap
  <2>2. r \in Request /\ RequestShape(r)
    BY <2>1 DEF IInv, TypeInv, TypeOK
  <2>3. \/ request[r].user \in stale
        \/ request[r].kind \in {"status", "edit"}
        \/ request[r].at \in {"finding_token", "finding_user"}
    BY <2>1 DEF IInv, BlockInv
  <2>4. QED
    BY <2>1, <2>3 DEF Entered, At
<1>2. QED
  BY <1>1, Invariance, PTL

(* However many logins run, at most one token per failed request is stored  *)
(* without a client that knows it.                                          *)
THEOREM OrphansAreBounded == Spec => []OrphansCostFaults
<1>1. IInv => OrphansCostFaults
  BY DEF IInv, OrphanInv, Orphans, OrphansCostFaults
<1>2. QED
  BY <1>1, Invariance, PTL
===============================================================================
