----------------------------- MODULE UsersProofs ------------------------------
(***************************************************************************)
(* Theorems about Users, for every set of users, e-mails and requests,     *)
(* whatever the requests ask for and however many of them fail.            *)
(***************************************************************************)
EXTENDS Users, TLAPS

Edits == {"patch", "form"}

(* An object that is an edited row, not a new one.                          *)
Edited(q) ==
    \/ q.at \in {"finding", "logging", "storing", "closing"}
    \/ q.at \in {"probing", "saving"} /\ q.wish.kind # "create"

(* What a request holds and has stored at each stage.                       *)
Shape(r) ==
    LET q == request[r]
        w == q.wish
    IN /\ q.at = "waiting" <=> w = None
       /\ q.at # "answered" => q.answer = None
       /\ q.at \in {"reading", "finding"} => w.kind \in Edits
       /\ q.at \in {"probing", "saving", "logging"} => w.kind # "status"
       /\ q.at \in {"loading", "storing", "closing"} => w.status \in UserStatus
       /\ q.at = "probing" /\ w.kind = "create" => q.user = None
       /\ q.at \in {"reading", "saving", "loading"} \/ Edited(q) => q.user \in User
       /\ q.at = "saving" \/ Edited(q) => q.copy \in Row
       /\ Edited(q) \/ (q.at = "loading" /\ w.kind # "status") => users[q.user] # None
       /\ q.at \in {"waiting", "reading", "finding", "probing", "saving"} => wrote[r] = {}
       /\ q.at \in {"loading", "storing"} /\ w.kind = "status" => wrote[r] = {}
       /\ /\ q.at \in {"finding", "saving", "logging"} \/ (q.at = "probing" /\ w.kind # "create")
          /\ w.email # None
          => q.copy.email = w.email
       /\ q.at = "logging" => {q.copy.email, q.copy.status} \subseteq wrote[r]
       /\ q.at \in {"loading", "storing", "closing"} /\ w.email # None => w.email \in wrote[r]
       /\ q.at = "storing" => q.copy.status = w.status
       /\ q.at = "closing" => w.status \in wrote[r]

TypeInv ==
    /\ TypeOK
    /\ \A u \in User : users[u] # None => asked[u] # None
    /\ \A r \in Request : Shape(r)

(* A copy that will be written back agrees with what was last asked for, or *)
(* the column has been raced for.                                           *)
LostInv ==
    /\ LostOnlyByOverlap
    /\ \A q \in Request, u \in User, c \in Column :
          Carries(q, u, c) => request[q].copy[c] = asked[u][c] \/ <<u, c>> \in raced

(* Whoever else has the e-mail that a request is about to store got it      *)
(* while that request ran.                                                  *)
OthersAreNew(r) ==
    \A v \in User \ {request[r].user} :
        users[v] # None /\ users[v].email = request[r].copy.email
            => users[v].email \in since[r]

ClashInv ==
    /\ ClashOnlyByOverlap
    /\ \A r \in Request :
          /\ request[r].at \in {"saving", "storing"} => OthersAreNew(r)
          /\ request[r].at = "finding" /\ request[r].wish.email = None => OthersAreNew(r)
          /\ request[r].at = "probing" /\ request[r].wish.kind # "create"
                /\ request[r].wish.email = None =>
                \A v \in User : users[v] # None /\ users[v].email = request[r].copy.email
                                    => users[v].email \in since[r]

-------------------------------------------------------------------------------
(* What requests may ask for, and how their records move. *)

LEMMA WishFacts ==
    ASSUME NEW w \in Wish
    PROVE  /\ w # None
           /\ w.kind \in {"create", "patch", "form", "status"}
           /\ w.user \in User \cup {None} /\ w.email \in Email \cup {None}
           /\ w.kind = "create" => w.user = None
           /\ w.kind # "create" => w.user \in User
           /\ w.kind \in {"create", "form"} => w.email # None
           /\ w.kind = "status" => w.email = None
           /\ w.kind # "patch" => w.status \in UserStatus
           /\ w.status \in UserStatus \cup {None, "empty", "unknown"}
<1>1. w \in Wishes /\ None \notin Wishes /\ None \notin Email
  BY UsersAssumption DEF UsersAssumption
<1>2. QED
  BY <1>1 DEF Wishes

Moved(r, at, user, copy, answer) ==
    /\ request' \in [Request -> RequestState]
    /\ request'[r].wish = request[r].wish
    /\ request'[r].at = at
    /\ request'[r].user = user
    /\ request'[r].copy = copy
    /\ request'[r].answer = answer
    /\ \A q \in Request \ {r} : request'[q] = request[q]

Same(r, stage) == Moved(r, stage, request[r].user, request[r].copy, request[r].answer)

Answered(r, answer) == Moved(r, "answered", request[r].user, request[r].copy, answer)

LEMMA ReplyForm ==
    ASSUME TypeOK, NEW r \in Request, NEW a \in Answer, Reply(r, a)
    PROVE  Answered(r, a)
<1>1. request \in [Request -> RequestState] /\ request[r] \in RequestState
  BY DEF TypeOK
<1>2. request'[r] = [request[r] EXCEPT !.at = "answered", !.answer = a]
  BY <1>1 DEF Reply
<1>3. request'[r] \in RequestState
  BY <1>1, <1>2 DEF RequestState, Stage
<1>4. request' = [request EXCEPT ![r] = request'[r]]
  BY <1>1, <1>2 DEF Reply
<1>5. QED
  BY <1>1, <1>2, <1>3, <1>4 DEF Answered, Moved, RequestState

LEMMA GoForm ==
    ASSUME TypeOK, NEW r \in Request, NEW stage \in Stage, Go(r, stage)
    PROVE  Same(r, stage)
<1>1. request \in [Request -> RequestState] /\ request[r] \in RequestState
  BY DEF TypeOK
<1>2. request'[r] = [request[r] EXCEPT !.at = stage]
  BY <1>1 DEF Go
<1>3. request'[r] \in RequestState
  BY <1>1, <1>2 DEF RequestState, Stage
<1>4. request' = [request EXCEPT ![r] = request'[r]]
  BY <1>1, <1>2 DEF Go
<1>5. QED
  BY <1>1, <1>2, <1>3, <1>4 DEF Same, Moved, RequestState

(* The same for a stage and an object, and for a new user with them.        *)
LEMMA CopyForm ==
    ASSUME TypeOK, NEW r \in Request, NEW at \in Stage, NEW copy \in Row,
           request' = [request EXCEPT ![r].at = at, ![r].copy = copy]
    PROVE  Moved(r, at, request[r].user, copy, request[r].answer)
<1>1. request \in [Request -> RequestState] /\ request[r] \in RequestState
  BY DEF TypeOK
<1>2. request'[r] = [request[r] EXCEPT !.at = at, !.copy = copy]
  BY <1>1
<1>3. request'[r] \in RequestState
  BY <1>1, <1>2 DEF RequestState
<1>4. request' = [request EXCEPT ![r] = request'[r]]
  BY <1>1, <1>2
<1>5. QED
  BY <1>1, <1>2, <1>3, <1>4 DEF Moved, RequestState

LEMMA UserForm ==
    ASSUME TypeOK, NEW r \in Request, NEW at \in Stage, NEW user \in User, NEW copy \in Row,
           request' = [request EXCEPT ![r].at = at, ![r].user = user, ![r].copy = copy]
    PROVE  Moved(r, at, user, copy, request[r].answer)
<1>1. request \in [Request -> RequestState] /\ request[r] \in RequestState
  BY DEF TypeOK
<1>2. request'[r] = [request[r] EXCEPT !.at = at, !.user = user, !.copy = copy]
  BY <1>1
<1>3. request'[r] \in RequestState
  BY <1>1, <1>2 DEF RequestState
<1>4. request' = [request EXCEPT ![r] = request'[r]]
  BY <1>1, <1>2
<1>5. QED
  BY <1>1, <1>2, <1>3, <1>4 DEF Moved, RequestState

LEMMA ArriveForm ==
    ASSUME TypeInv, NEW r \in Request, Arrive(r)
    PROVE  /\ request[r].at = "waiting"
           /\ request' \in [Request -> RequestState]
           /\ \A q \in Request \ {r} : request'[q] = request[q]
           /\ \E w \in Wish :
                 /\ request'[r] =
                       [wish |-> w, user |-> w.user, copy |-> None, answer |-> None,
                        at |-> IF w.kind = "create" THEN "probing"
                               ELSE IF w.kind = "status" THEN "loading" ELSE "reading"]
                 /\ w # None
           /\ UNCHANGED <<users, faults, historyVars>>
<1>1. request \in [Request -> RequestState]
  BY DEF TypeInv, TypeOK
<1>2. PICK w \in Wish :
          request' = [request EXCEPT ![r] =
              [Waiting EXCEPT !.wish = w, !.user = w.user,
                 !.at = CASE w.kind = "create" -> "probing"
                          [] w.kind = "status" -> "loading"
                          [] OTHER -> "reading"]]
  BY DEF Arrive
<1> DEFINE stage == IF w.kind = "create" THEN "probing"
                    ELSE IF w.kind = "status" THEN "loading" ELSE "reading"
<1>3. (CASE w.kind = "create" -> "probing" [] w.kind = "status" -> "loading"
         [] OTHER -> "reading") = stage
  OBVIOUS
<1>4. request' = [request EXCEPT ![r] =
          [Waiting EXCEPT !.wish = w, !.user = w.user, !.at = stage]]
  BY <1>2, <1>3
<1>5. request'[r] = [wish |-> w, user |-> w.user, copy |-> None, answer |-> None, at |-> stage]
  <2> HIDE DEF stage
  <2>1. QED  BY <1>1, <1>4 DEF Waiting
<1>6. stage \in Stage /\ w.user \in User \cup {None} /\ w # None
  BY WishFacts DEF Stage
<1>7. request'[r] \in RequestState
  <2> HIDE DEF stage
  <2>1. QED  BY <1>5, <1>6 DEF RequestState
<1>8. QED
  BY <1>1, <1>2, <1>5, <1>6, <1>7 DEF Arrive

LEMMA AcceptForm ==
    ASSUME TypeInv, NEW r \in Request, AcceptCreate(r)
    PROVE  \E u \in User :
              /\ users[u] = None
              /\ Moved(r, "saving", u, [email |-> request[r].wish.email, status |-> "active"], None)
<1>1. request \in [Request -> RequestState] /\ request[r] \in RequestState /\ TypeOK
      /\ request[r].at = "probing" /\ request[r].wish.kind = "create" /\ request[r].answer = None
  BY DEF TypeInv, TypeOK, Shape, AcceptCreate, At
<1>2. PICK u \in User :
          /\ users[u] = None
          /\ request' = [request EXCEPT
                 ![r].at = "saving", ![r].user = u,
                 ![r].copy = [email |-> request[r].wish.email, status |-> "active"]]
  BY DEF AcceptCreate
<1> DEFINE copy == [email |-> request[r].wish.email, status |-> "active"]
<1>3. request[r].wish # None
  BY <1>1 DEF TypeInv, Shape
<1>4. copy \in Row /\ "saving" \in Stage
  <2>1. request[r].wish \in Wish
    BY <1>1, <1>3 DEF RequestState
  <2>2. request[r].wish.email \in Email
    BY <1>1, <2>1, WishFacts
  <2>3. QED
    BY <2>2 DEF Row, UserStatus, Stage
<1>5. request' = [request EXCEPT ![r].at = "saving", ![r].user = u, ![r].copy = copy]
  BY <1>2
<1>6. Moved(r, "saving", u, copy, None)
  <2> HIDE DEF copy
  <2>1. QED  BY <1>1, <1>4, <1>5, UserForm
<1>7. QED
  BY <1>2, <1>6

LEMMA ReadForm ==
    ASSUME TypeInv, NEW r \in Request, ReadUser(r)
    PROVE  \/ Answered(r, "not_found")
           \/ LET row == users[request[r].user]
              IN /\ row \in Row
                 /\ Moved(r, "finding", request[r].user,
                          [email |-> GivenEmail(r, row), status |-> row.status], None)
<1>1. request \in [Request -> RequestState] /\ request[r] \in RequestState /\ TypeOK /\ Shape(r)
      /\ users \in [User -> Row \cup {None}]
      /\ request[r].at = "reading" /\ request[r].wish.kind \in Edits
  BY DEF TypeInv, TypeOK, ReadUser, At, Edits
<1> DEFINE row == users[request[r].user]
<1>2. request[r].user \in User /\ request[r].answer = None /\ request[r].wish # None
  BY <1>1 DEF Shape
<1>3. CASE row = None
  BY <1>1, <1>3, ReplyForm DEF ReadUser, Answer
<1>4. CASE row # None
  <2>1. row \in Row /\ request[r].wish \in Wish
    BY <1>1, <1>2, <1>4 DEF RequestState
  <2>2. GivenEmail(r, row) \in Email
    BY <2>1, WishFacts DEF GivenEmail, Row
  <2> DEFINE copy == [email |-> GivenEmail(r, row), status |-> row.status]
  <2>3. copy \in Row /\ copy = [row EXCEPT !.email = GivenEmail(r, row)] /\ "finding" \in Stage
    BY <2>1, <2>2 DEF Row, Stage
  <2>4. request' = [request EXCEPT ![r].at = "finding", ![r].copy = copy]
    BY <1>4, <2>3 DEF ReadUser
  <2>5. Moved(r, "finding", request[r].user, copy, None)
    <3> HIDE DEF copy
    <3>1. QED  BY <1>1, <1>2, <2>3, <2>4, CopyForm
  <2>6. QED
    BY <2>1, <2>5
<1>5. QED
  BY <1>3, <1>4

LEMMA FindForm ==
    ASSUME TypeInv, NEW r \in Request, FindUser(r)
    PROVE  LET row == users[request[r].user]
               email == request[r].copy.email
           IN /\ row \in Row
              /\ Moved(r, IF row.email = email THEN "saving" ELSE "probing",
                       request[r].user, [email |-> email, status |-> row.status], None)
<1>1. request \in [Request -> RequestState] /\ request[r] \in RequestState /\ TypeOK /\ Shape(r)
      /\ users \in [User -> Row \cup {None}] /\ request[r].at = "finding"
  BY DEF TypeInv, TypeOK, FindUser, At
<1> DEFINE row == users[request[r].user]
           copy == [email |-> request[r].copy.email, status |-> row.status]
           stage == IF row.email = request[r].copy.email THEN "saving" ELSE "probing"
<1>2. /\ request[r].user \in User /\ request[r].answer = None
      /\ row \in Row /\ request[r].copy \in Row
  BY <1>1 DEF Shape, Edited
<1>3. copy \in Row /\ stage \in Stage /\ copy = [request[r].copy EXCEPT !.status = row.status]
  BY <1>2 DEF Row, Stage
<1>4. request' = [request EXCEPT ![r].at = stage, ![r].copy.status = row.status]
  BY DEF FindUser
<1>5. request' = [request EXCEPT ![r].at = stage, ![r].copy = copy]
  <2>1. request' = [request EXCEPT ![r].at = stage,
                                   ![r].copy = [request[r].copy EXCEPT !.status = row.status]]
    <3> HIDE DEF stage, row
    <3>1. QED  BY <1>1, <1>4 DEF RequestState
  <2>2. QED
    BY <1>3, <2>1
<1>6. Moved(r, stage, request[r].user, copy, None)
  <2> HIDE DEF stage, copy
  <2>1. QED  BY <1>1, <1>2, <1>3, <1>5, CopyForm
<1>7. QED
  BY <1>2, <1>6

LEMMA LoadForm ==
    ASSUME TypeInv, NEW r \in Request, LoadUser(r)
    PROVE  LET row == users[request[r].user]
           IN \/ row = None /\ Answered(r, "not_found")
              \/ /\ row \in Row
                 /\ Moved(r, "storing", request[r].user,
                          [email |-> row.email, status |-> request[r].wish.status], None)
<1>1. request \in [Request -> RequestState] /\ request[r] \in RequestState /\ TypeOK /\ Shape(r)
      /\ users \in [User -> Row \cup {None}] /\ request[r].at = "loading"
  BY DEF TypeInv, TypeOK, LoadUser
<1> DEFINE row == users[request[r].user]
<1>2. request[r].user \in User /\ request[r].answer = None /\ request[r].wish.status \in UserStatus
  BY <1>1 DEF Shape
<1>3. CASE row = None
  BY <1>1, <1>3, ReplyForm DEF LoadUser, Answer
<1>4. CASE row # None
  <2> DEFINE copy == [email |-> row.email, status |-> request[r].wish.status]
  <2>1. row \in Row
    BY <1>1, <1>2, <1>4
  <2>2. copy \in Row /\ copy = [row EXCEPT !.status = request[r].wish.status] /\ "storing" \in Stage
    BY <1>2, <2>1 DEF Row, Stage
  <2>3. request' = [request EXCEPT ![r].at = "storing", ![r].copy = copy]
    BY <1>4, <2>2 DEF LoadUser
  <2>4. Moved(r, "storing", request[r].user, copy, None)
    <3> HIDE DEF copy
    <3>1. QED  BY <1>1, <1>2, <2>2, <2>3, CopyForm
  <2>5. QED
    BY <2>1, <2>4
<1>5. QED
  BY <1>3, <1>4

LEMMA LogForm ==
    ASSUME TypeInv, NEW r \in Request, LogSaved(r)
    PROVE  LET w == request[r].wish
           IN \/ Answered(r, "invalid") /\ w.status = "empty"
              \/ Answered(r, "bad_status") /\ w.status = "unknown"
              \/ Answered(r, "ok") /\ w.status \in {None, request[r].copy.status}
              \/ Same(r, "loading") /\ w.status \in UserStatus
<1>1. request[r].at = "logging" /\ request[r].wish \in Wish /\ TypeOK
  BY DEF TypeInv, TypeOK, LogSaved, At, Shape, RequestState
<1> DEFINE w == request[r].wish
<1>2. CASE w.status = "empty"
  <2>1. w.status # "unknown" /\ w.status # None /\ w.kind = "patch"
    BY <1>1, <1>2, WishFacts, UsersAssumption DEF UsersAssumption, UserStatus
  <2>2. Reply(r, "invalid")
    BY <1>2, <2>1 DEF LogSaved
  <2>3. QED
    BY <1>1, <1>2, <2>2, ReplyForm DEF Answer
<1>3. CASE w.status = "unknown"
  <2>1. w.status # "empty" /\ w.status # None /\ w.kind = "patch"
    BY <1>1, <1>3, WishFacts, UsersAssumption DEF UsersAssumption, UserStatus
  <2>2. Reply(r, "bad_status")
    BY <1>3, <2>1 DEF LogSaved
  <2>3. QED
    BY <1>1, <1>3, <2>2, ReplyForm DEF Answer
<1>4. CASE w.status = None
  <2>1. w.status \notin {"empty", "unknown"}
    BY <1>4, UsersAssumption DEF UsersAssumption
  <2>2. Reply(r, "ok")
    BY <1>4, <2>1 DEF LogSaved
  <2>3. QED
    BY <1>1, <1>4, <2>2, ReplyForm DEF Answer
<1>5. CASE w.status \notin {"empty", "unknown", None}
  <2>1. w.status \in UserStatus
    BY <1>1, <1>5, WishFacts
  <2>2. CASE w.kind # "patch" /\ w.status = request[r].copy.status
    <3>1. Reply(r, "ok")
      BY <1>5, <2>2 DEF LogSaved
    <3>2. QED
      BY <1>1, <2>2, <3>1, ReplyForm DEF Answer
  <2>3. CASE ~ (w.kind # "patch" /\ w.status = request[r].copy.status)
    <3>1. Go(r, "loading")
      BY <1>5, <2>3 DEF LogSaved
    <3>2. QED
      BY <1>1, <2>1, <3>1, GoForm DEF Stage
  <2>4. QED
    BY <2>2, <2>3
<1>6. QED
  BY <1>2, <1>3, <1>4, <1>5

-------------------------------------------------------------------------------
(* What a step of a request does to the table. *)

(* The two statements that store the object of a request, with the columns  *)
(* that it was asked to set.                                                *)
Stores(r, named) ==
    LET u == request[r].user
        row == request[r].copy
    IN /\ u \in User /\ row \in Row
       /\ Store(r, u, row, named)
       /\ ~ Collides(u, row)
       /\ UNCHANGED faults
       /\ \/ /\ request[r].at = "saving" /\ named = Named(r)
             /\ Same(r, "logging")
          \/ /\ request[r].at = "storing" /\ named = {"status"}
             /\ Same(r, "closing")

LEMMA SaveForm ==
    ASSUME TypeInv, NEW r \in Request, Save(r)
    PROVE  \/ /\ Answered(r, "duplicate") /\ Collides(request[r].user, request[r].copy)
              /\ UNCHANGED <<users, faults, historyVars>>
           \/ Stores(r, Named(r))
<1>1. TypeOK /\ request[r].at = "saving" /\ request[r].user \in User /\ request[r].copy \in Row
  BY DEF TypeInv, Save, At, Shape
<1>2. "duplicate" \in Answer /\ "logging" \in Stage
  BY DEF Answer, Stage
<1>3. CASE Collides(request[r].user, request[r].copy)
  BY <1>1, <1>2, <1>3, ReplyForm DEF Save
<1>4. CASE ~ Collides(request[r].user, request[r].copy)
  BY <1>1, <1>2, <1>4, GoForm DEF Save, Stores
<1>5. QED
  BY <1>3, <1>4

LEMMA StatusForm ==
    ASSUME TypeInv, NEW r \in Request, StoreStatus(r)
    PROVE  \/ /\ Answered(r, "duplicate") /\ Collides(request[r].user, request[r].copy)
              /\ UNCHANGED <<users, faults, historyVars>>
           \/ Stores(r, {"status"})
<1>1. TypeOK /\ request[r].at = "storing" /\ request[r].user \in User /\ request[r].copy \in Row
  BY DEF TypeInv, StoreStatus, Shape, Edited
<1>2. "duplicate" \in Answer /\ "closing" \in Stage
  BY DEF Answer, Stage
<1>3. CASE Collides(request[r].user, request[r].copy)
  BY <1>1, <1>2, <1>3, ReplyForm DEF StoreStatus
<1>4. CASE ~ Collides(request[r].user, request[r].copy)
  BY <1>1, <1>2, <1>4, GoForm DEF StoreStatus, Stores
<1>5. QED
  BY <1>3, <1>4

(* A column that a statement stores without having been asked to comes from *)
(* a copy of a row there is.                                                *)
LEMMA NotNamed ==
    ASSUME TypeInv, NEW r \in Request, NEW named, Stores(r, named),
           NEW c \in Column, c \notin named
    PROVE  users[request[r].user] # None /\ Carries(r, request[r].user, c)
<1>1. Shape(r) /\ request[r].wish \in Wish
  BY DEF TypeInv, TypeOK, RequestState, Shape, Stores
<1>2. CASE request[r].at = "saving" /\ named = Named(r)
  <2>1. request[r].wish.kind # "create"
    <3>1. request[r].wish.kind = "create" => Named(r) = Column
      BY <1>1, WishFacts DEF Named
    <3>2. QED
      BY <1>2, <3>1
  <2>2. c = "email" => request[r].wish.email = None
    BY <1>2, <2>1 DEF Named
  <2>3. QED
    BY <1>1, <1>2, <2>1, <2>2 DEF Shape, Edited, Carries, Column
<1>3. CASE request[r].at = "storing" /\ named = {"status"}
  BY <1>1, <1>3 DEF Shape, Edited, Carries, Column
<1>4. QED
  BY <1>2, <1>3 DEF Stores

LEMMA TablesStep ==
    ASSUME TypeInv, NEW r \in Request, Step(r)
    PROVE  /\ users' \in [User -> Row \cup {None}]
           /\ DistinctEmails(users')
           /\ asked' \in [User -> Row \cup {None}]
           /\ raced' \subseteq User \X Column
           /\ since' \in [Request -> SUBSET Email]
           /\ wrote' \in [Request -> SUBSET (Email \cup UserStatus)]
           /\ faults' \in 0..MaxFaults
           /\ \A u \in User : users[u] # None => users'[u] # None
           /\ \A u \in User : users'[u] # None => asked'[u] # None
           /\ \A q \in Request \ {r} : wrote'[q] = wrote[q]
           /\ \A q \in Request : since[q] \subseteq since'[q]
<1> USE UsersAssumption DEF UsersAssumption
<1>1. TypeOK /\ \A u \in User : users[u] # None => asked[u] # None
  BY DEF TypeInv
<1>2. None \notin Row
  OBVIOUS
<1>3. ASSUME NEW named, Stores(r, named)
      PROVE  /\ users' \in [User -> Row \cup {None}]
             /\ DistinctEmails(users')
             /\ asked' \in [User -> Row \cup {None}]
             /\ raced' \subseteq User \X Column
             /\ since' \in [Request -> SUBSET Email]
             /\ wrote' \in [Request -> SUBSET (Email \cup UserStatus)]
             /\ \A u \in User : users[u] # None => users'[u] # None
             /\ \A u \in User : users'[u] # None => asked'[u] # None
             /\ \A q \in Request \ {r} : wrote'[q] = wrote[q]
             /\ \A q \in Request : since[q] \subseteq since'[q]
    <2> DEFINE v == request[r].user
               row == request[r].copy
    <2>1. v \in User /\ row \in Row /\ Store(r, v, row, named) /\ ~ Collides(v, row)
      BY <1>3 DEF Stores
    <2>2. row.email \in Email /\ row.status \in UserStatus
      BY <2>1 DEF Row
    <2>3. users' = [users EXCEPT ![v] = row]
      BY <2>1 DEF Store
    <2>4. users' \in [User -> Row \cup {None}] /\ \A u \in User : users[u] # None => users'[u] # None
      <3> HIDE DEF v, row
      <3>1. QED  BY <1>1, <1>2, <2>1, <2>3 DEF TypeOK
    <2>5. DistinctEmails(users')
      <3> HIDE DEF v, row
      <3>1. QED  BY <1>1, <2>1, <2>3 DEF TypeOK, DistinctEmails, Collides
    <2>6. [c \in Column |-> IF c \in named THEN row[c] ELSE asked[v][c]] \in Row
      <3>1. \A c \in Column : c \notin named => asked[v] \in Row
        <4>1. \A c \in Column : c \notin named => users[v] # None
          BY <1>3, NotNamed
        <4>2. QED
          BY <1>1, <2>1, <4>1 DEF TypeOK
      <3>2. \A x \in Row : x["email"] \in Email /\ x["status"] \in UserStatus
        BY DEF Row
      <3> HIDE DEF v, row
      <3>3. QED
        BY <2>1, <2>2, <3>1, <3>2 DEF Row, Column
    <2>7. asked' = [asked EXCEPT ![v] =
                       [c \in Column |-> IF c \in named THEN row[c] ELSE asked[v][c]]]
      BY <2>1, <1>1 DEF Store, TypeOK
    <2>8. asked' \in [User -> Row \cup {None}] /\ \A u \in User : users'[u] # None => asked'[u] # None
      <3> DEFINE x == [c \in Column |-> IF c \in named THEN row[c] ELSE asked[v][c]]
      <3>1. x \in Row /\ asked' = [asked EXCEPT ![v] = x]
        BY <2>6, <2>7
      <3> HIDE DEF v, row, x
      <3>2. QED
        BY <1>1, <1>2, <2>1, <2>3, <3>1 DEF TypeOK
    <2>9. raced' \subseteq User \X Column
      <3>1. named \subseteq Column
        BY <1>3 DEF Stores, Named, Column
      <3>2. raced' \subseteq raced \cup ({v} \X named)
        BY <2>1 DEF Store
      <3> HIDE DEF v, row
      <3>3. QED
        BY <1>1, <2>1, <3>1, <3>2 DEF TypeOK
    <2>10. /\ since' \in [Request -> SUBSET Email]
           /\ \A q \in Request : since[q] \subseteq since'[q]
      <3>1. since' = [q \in Request |->
                    IF q # r /\ Busy(q) THEN since[q] \cup {row.email} ELSE since[q]]
        BY <2>1 DEF Store
      <3> HIDE DEF v, row
      <3>2. QED
        BY <1>1, <2>2, <3>1 DEF TypeOK
    <2>11. /\ wrote' \in [Request -> SUBSET (Email \cup UserStatus)]
           /\ \A q \in Request \ {r} : wrote'[q] = wrote[q]
      <3>1. wrote' = [wrote EXCEPT ![r] = @ \cup {row.email, row.status}]
        BY <2>1 DEF Store
      <3> HIDE DEF v, row
      <3>2. QED
        BY <1>1, <2>2, <3>1 DEF TypeOK
    <2>12. QED
      BY <2>4, <2>5, <2>8, <2>9, <2>10, <2>11
<1>4. faults' \in 0..MaxFaults
  <2>1. CASE Fail(r)
    BY <1>1, <2>1 DEF Fail, TypeOK
  <2>2. CASE UNCHANGED faults
    BY <1>1, <2>2 DEF TypeOK
  <2>3. QED
    BY <2>1, <2>2 DEF Step, Arrive, RefuseCreate, AcceptCreate, ReadUser, FindUser, ProbeEmail,
       Save, LogSaved, LoadUser, StoreStatus, LogStatus
<1>5. UNCHANGED <<users, historyVars>> \/ \E named : Stores(r, named)
  BY SaveForm, StatusForm DEF Step, Arrive, RefuseCreate, AcceptCreate, ReadUser, FindUser,
     ProbeEmail, LogSaved, LoadUser, LogStatus, Fail
<1>6. /\ users' \in [User -> Row \cup {None}]
      /\ DistinctEmails(users')
      /\ asked' \in [User -> Row \cup {None}]
      /\ raced' \subseteq User \X Column
      /\ since' \in [Request -> SUBSET Email]
      /\ wrote' \in [Request -> SUBSET (Email \cup UserStatus)]
      /\ \A u \in User : users[u] # None => users'[u] # None
      /\ \A u \in User : users'[u] # None => asked'[u] # None
      /\ \A q \in Request \ {r} : wrote'[q] = wrote[q]
      /\ \A q \in Request : since[q] \subseteq since'[q]
  <2>1. CASE UNCHANGED <<users, historyVars>>
    BY <1>1, <2>1 DEF TypeOK, historyVars
  <2>2. CASE \E named : Stores(r, named)
    BY <1>3, <2>2
  <2>3. QED
    BY <1>5, <2>1, <2>2
<1>7. QED
  BY <1>4, <1>6, Zenon

-------------------------------------------------------------------------------
(* Type correctness, and what each request holds. *)

LEMMA ShapeStep ==
    ASSUME TypeInv, NEW r \in Request, Step(r)
    PROVE  /\ request' \in [Request -> RequestState]
           /\ \A q \in Request \ {r} : request'[q] = request[q]
           /\ Shape(r)'
<1> USE UsersAssumption DEF UsersAssumption
<1> USE DEF Edited, Edits
<1>1. TypeOK /\ Shape(r)
      /\ request \in [Request -> RequestState] /\ wrote \in [Request -> SUBSET (Email \cup UserStatus)]
      /\ request[r].wish \in Wish \cup {None}
  BY DEF TypeInv, TypeOK, RequestState
<1>2. CASE Arrive(r)
  <2>1. PICK w \in Wish :
           /\ request'[r] =
                 [wish |-> w, user |-> w.user, copy |-> None, answer |-> None,
                  at |-> IF w.kind = "create" THEN "probing"
                         ELSE IF w.kind = "status" THEN "loading" ELSE "reading"]
           /\ w # None
    BY <1>2, ArriveForm
  <2>2. /\ request[r].at = "waiting" /\ UNCHANGED <<users, wrote>>
        /\ request' \in [Request -> RequestState]
        /\ \A q \in Request \ {r} : request'[q] = request[q]
    BY <1>2, ArriveForm DEF historyVars
  <2>3. wrote[r] = {}
    BY <1>1, <2>2 DEF Shape
  <2>4. CASE w.kind = "create"
    BY <2>1, <2>2, <2>3, <2>4, WishFacts DEF Shape
  <2>5. CASE w.kind = "status"
    BY <2>1, <2>2, <2>3, <2>5, WishFacts DEF Shape
  <2>6. CASE w.kind \in {"patch", "form"}
    BY <2>1, <2>2, <2>3, <2>6, WishFacts DEF Shape
  <2>7. QED
    BY <2>2, <2>4, <2>5, <2>6, WishFacts
<1>3. ASSUME NEW answer \in Answer, Answered(r, answer), request[r].at # "waiting"
      PROVE  /\ request' \in [Request -> RequestState]
             /\ \A q \in Request \ {r} : request'[q] = request[q]
             /\ Shape(r)'
  <2>1. request[r].wish # None
    BY <1>1, <1>3 DEF Shape
  <2>2. QED
    BY <1>3, <2>1 DEF Answered, Moved, Shape
<1>4. CASE RefuseCreate(r) \/ LogStatus(r) \/ Fail(r)
  <2>1. PICK answer \in {"conflict", "ok", "failed"} : Reply(r, answer)
    BY <1>4 DEF RefuseCreate, LogStatus, Fail
  <2>2. request[r].at # "waiting" /\ answer \in Answer
    BY <1>4 DEF RefuseCreate, LogStatus, Fail, At, Busy, Answer
  <2>3. QED
    BY <1>1, <1>3, <2>1, <2>2, ReplyForm
<1>5. CASE AcceptCreate(r)
  <2>1. PICK u \in User :
           Moved(r, "saving", u, [email |-> request[r].wish.email, status |-> "active"], None)
    BY <1>5, AcceptForm
  <2>2. /\ request[r].at = "probing" /\ request[r].wish.kind = "create"
        /\ UNCHANGED <<users, wrote>> /\ request[r].wish \in Wish
    BY <1>1, <1>5 DEF AcceptCreate, At, historyVars, Shape
  <2>3. [email |-> request[r].wish.email, status |-> "active"] \in Row
    BY <2>2, WishFacts DEF Row, UserStatus
  <2>4. Shape(r)'
    BY <1>1, <2>1, <2>2, <2>3 DEF Moved, Shape
  <2>5. QED
    BY <2>1, <2>4 DEF Moved
<1>6. CASE ReadUser(r)
  <2>1. /\ request[r].at = "reading" /\ request[r].wish.kind \in Edits
        /\ UNCHANGED <<users, wrote>> /\ request[r].wish \in Wish /\ request[r].user \in User
    BY <1>1, <1>6 DEF ReadUser, At, historyVars, Shape
  <2>2. CASE Answered(r, "not_found")
    BY <1>3, <2>1, <2>2 DEF Answer
  <2>3. CASE LET row == users[request[r].user]
             IN /\ row \in Row
                /\ Moved(r, "finding", request[r].user,
                         [email |-> GivenEmail(r, row), status |-> row.status], None)
    <3> DEFINE row == users[request[r].user]
               copy == [email |-> GivenEmail(r, row), status |-> row.status]
    <3>1. row \in Row /\ Moved(r, "finding", request[r].user, copy, None)
      BY <2>3
    <3>2. copy \in Row /\ (request[r].wish.email # None => copy.email = request[r].wish.email)
      BY <2>1, <3>1, WishFacts DEF GivenEmail, Row
    <3>3. row # None
      BY <3>1
    <3> HIDE DEF copy
    <3>4. Shape(r)'
      BY <1>1, <2>1, <3>1, <3>2, <3>3 DEF Moved, Shape
    <3>5. QED
      BY <3>1, <3>4 DEF Moved
  <2>4. QED
    BY <1>6, <2>2, <2>3, ReadForm
<1>7. CASE FindUser(r)
  <2> DEFINE row == users[request[r].user]
             copy == [email |-> request[r].copy.email, status |-> row.status]
             stage == IF row.email = request[r].copy.email THEN "saving" ELSE "probing"
  <2>1. row \in Row /\ Moved(r, stage, request[r].user, copy, None)
    BY <1>7, FindForm
  <2>2. /\ request[r].at = "finding" /\ UNCHANGED <<users, wrote>> /\ request[r].copy \in Row
        /\ request[r].wish.kind \in Edits
    BY <1>1, <1>7 DEF FindUser, At, historyVars, Shape
  <2>3. copy \in Row /\ copy.email = request[r].copy.email /\ stage \in {"saving", "probing"}
    BY <2>1, <2>2 DEF Row
  <2> HIDE DEF copy, stage
  <2>4. Shape(r)'
    BY <1>1, <2>1, <2>2, <2>3 DEF Moved, Shape
  <2>5. QED
    BY <2>1, <2>4 DEF Moved
<1>8. CASE ProbeEmail(r)
  <2>1. /\ request[r].at = "probing" /\ request[r].wish.kind \in Edits /\ UNCHANGED <<users, wrote>>
    BY <1>8 DEF ProbeEmail, At, historyVars, Edits
  <2>2. Answered(r, "conflict") \/ Same(r, "saving")
    BY <1>1, <1>8, ReplyForm, GoForm DEF ProbeEmail, Answer, Stage
  <2>3. CASE Same(r, "saving")
    <3>1. Shape(r)'
      BY <1>1, <2>1, <2>3 DEF Same, Moved, Shape
    <3>2. QED
      BY <2>3, <3>1 DEF Same, Moved
  <2>4. QED
    BY <1>3, <2>1, <2>2, <2>3 DEF Answer
<1>9. CASE Save(r)
  <2>1. CASE Answered(r, "duplicate")
    BY <1>3, <1>9, <2>1 DEF Save, At, Answer
  <2>2. CASE Stores(r, Named(r))
    <3>1. /\ request[r].at = "saving" /\ Same(r, "logging")
          /\ Store(r, request[r].user, request[r].copy, Named(r))
      BY <1>9, <2>2 DEF Stores, Save, At
    <3>2. wrote'[r] = wrote[r] \cup {request[r].copy.email, request[r].copy.status}
      BY <1>1, <3>1 DEF Store
    <3>3. users'[request[r].user] # None
      BY <1>1, <2>2, <3>1 DEF Stores, Store, TypeOK
    <3>4. Shape(r)'
      BY <1>1, <3>1, <3>2, <3>3 DEF Same, Moved, Shape
    <3>5. QED
      BY <3>1, <3>4 DEF Same, Moved
  <2>3. QED
    BY <1>9, <2>1, <2>2, SaveForm
<1>10. CASE LogSaved(r)
  <2>1. request[r].at = "logging" /\ UNCHANGED <<users, wrote>>
    BY <1>10 DEF LogSaved, At, historyVars
  <2>2. CASE \E answer \in {"invalid", "bad_status", "ok"} : Answered(r, answer)
    BY <1>3, <2>1, <2>2 DEF Answer
  <2>3. CASE Same(r, "loading") /\ request[r].wish.status \in UserStatus
    <3>1. Shape(r)'
      BY <1>1, <2>1, <2>3 DEF Same, Moved, Shape
    <3>2. QED
      BY <2>3, <3>1 DEF Same, Moved
  <2>4. QED
    BY <1>10, <2>2, <2>3, LogForm
<1>11. CASE LoadUser(r)
  <2> DEFINE row == users[request[r].user]
             copy == [email |-> row.email, status |-> request[r].wish.status]
  <2>1. request[r].at = "loading" /\ UNCHANGED <<users, wrote>> /\ request[r].wish.status \in UserStatus
    BY <1>1, <1>11 DEF LoadUser, historyVars, Shape
  <2>2. CASE Answered(r, "not_found")
    BY <1>3, <2>1, <2>2 DEF Answer
  <2>3. CASE row \in Row /\ Moved(r, "storing", request[r].user, copy, None)
    <3>1. copy \in Row /\ copy.status = request[r].wish.status /\ row # None
      BY <2>1, <2>3 DEF Row
    <3>2. Moved(r, "storing", request[r].user, copy, None)
      BY <2>3
    <3> HIDE DEF copy
    <3>3. Shape(r)'
      BY <1>1, <2>1, <3>1, <3>2 DEF Moved, Shape
    <3>4. QED
      BY <3>2, <3>3 DEF Moved
  <2>4. QED
    BY <1>11, <2>2, <2>3, LoadForm
<1>12. CASE StoreStatus(r)
  <2>1. CASE Answered(r, "duplicate")
    BY <1>3, <1>12, <2>1 DEF StoreStatus, Answer
  <2>2. CASE Stores(r, {"status"})
    <3>1. /\ request[r].at = "storing" /\ Same(r, "closing")
          /\ Store(r, request[r].user, request[r].copy, {"status"})
      BY <1>12, <2>2 DEF Stores, StoreStatus
    <3>2. wrote'[r] = wrote[r] \cup {request[r].copy.email, request[r].copy.status}
      BY <1>1, <3>1 DEF Store
    <3>3. users'[request[r].user] # None
      BY <1>1, <2>2, <3>1 DEF Stores, Store, TypeOK
    <3>4. Shape(r)'
      BY <1>1, <3>1, <3>2, <3>3 DEF Same, Moved, Shape
    <3>5. QED
      BY <3>1, <3>4 DEF Same, Moved
  <2>3. QED
    BY <1>12, <2>1, <2>2, StatusForm
<1>13. QED
  BY <1>2, <1>4, <1>5, <1>6, <1>7, <1>8, <1>9, <1>10, <1>11, <1>12 DEF Step

LEMMA TypeInit == Init => TypeInv
<1> USE UsersAssumption DEF UsersAssumption
<1> SUFFICES ASSUME Init PROVE TypeInv
  OBVIOUS
<1>1. Waiting \in RequestState /\ \A r \in Request : request[r] = Waiting
  BY DEF Init, Waiting, RequestState, Stage
<1>2. TypeOK
  BY <1>1 DEF Init, TypeOK
<1>3. \A r \in Request : Shape(r)
  BY <1>1 DEF Init, Waiting, Shape, Edited
<1>4. QED
  BY <1>2, <1>3 DEF Init, TypeInv

LEMMA TypeStep == TypeInv /\ [Next]_vars => TypeInv'
<1> SUFFICES ASSUME TypeInv, [Next]_vars PROVE TypeInv'
  OBVIOUS
<1>1. ASSUME NEW r \in Request, Step(r) PROVE TypeInv'
  <2>1. /\ request' \in [Request -> RequestState]
        /\ \A q \in Request \ {r} : request'[q] = request[q]
        /\ Shape(r)'
    BY <1>1, ShapeStep
  <2>2. /\ \A u \in User : users[u] # None => users'[u] # None
        /\ \A q \in Request \ {r} : wrote'[q] = wrote[q]
    BY <1>1, TablesStep
  <2>3. ASSUME NEW q \in Request \ {r} PROVE Shape(q)'
    <3>1. Shape(q) /\ request'[q] = request[q] /\ wrote'[q] = wrote[q]
      BY <2>1, <2>2 DEF TypeInv
    <3>2. QED
      BY <2>2, <3>1 DEF Shape, Edited
  <2>4. TypeOK' /\ \A u \in User : users'[u] # None => asked'[u] # None
    BY <1>1, <2>1, TablesStep DEF TypeOK
  <2>5. QED
    BY <2>1, <2>3, <2>4 DEF TypeInv
<1>2. CASE UNCHANGED vars
  BY <1>2 DEF TypeInv, TypeOK, Shape, Edited, vars, historyVars
<1>3. QED
  BY <1>1, <1>2 DEF Next

-------------------------------------------------------------------------------
(* A value is lost only where somebody held an older copy. *)

(* What a request carries after a step that stores nothing: a value of the  *)
(* row as it is, or what it carried before.                                 *)
LEMMA CarriesStep ==
    ASSUME TypeInv, NEW r \in Request, Step(r), ~ \E named : Stores(r, named),
           NEW u \in User, NEW c \in Column, Carries(r, u, c)'
    PROVE  LET copy == request'[r].copy
           IN \/ users[u] # None /\ copy[c] = users[u][c]
              \/ Carries(r, u, c) /\ copy[c] = request[r].copy[c]
<1> USE UsersAssumption DEF UsersAssumption
<1>1. Shape(r) /\ c \in {"email", "status"} /\ request[r].wish \in Wish \cup {None}
  BY DEF TypeInv, TypeOK, RequestState, Column
<1>2. CASE Arrive(r)
  <2>1. PICK w \in Wish :
           request'[r] =
              [wish |-> w, user |-> w.user, copy |-> None, answer |-> None,
               at |-> IF w.kind = "create" THEN "probing"
                      ELSE IF w.kind = "status" THEN "loading" ELSE "reading"]
    BY <1>2, ArriveForm
  <2>2. /\ request'[r].wish = w /\ request'[r].user = w.user
        /\ request'[r].at \in {"probing", "loading", "reading"}
        /\ request'[r].at = "probing" => w.kind = "create"
    BY <2>1
  <2>3. request'[r].at = "probing" /\ w.kind = "create" /\ w.user = u
    BY <2>2 DEF Carries
  <2>4. QED
    BY <2>3, WishFacts
<1>3. CASE AcceptCreate(r)
  <2>1. PICK v \in User :
           Moved(r, "saving", v, [email |-> request[r].wish.email, status |-> "active"], None)
    BY <1>3, AcceptForm
  <2>2. request[r].wish.kind = "create" /\ request[r].wish \in Wish
    BY <1>1, <1>3 DEF AcceptCreate, At, Shape
  <2>3. QED
    BY <2>1, <2>2, WishFacts DEF Moved, Carries
<1>4. CASE ReadUser(r)
  <2>1. CASE Answered(r, "not_found")
    BY <2>1 DEF Answered, Moved, Carries
  <2>2. CASE LET row == users[request[r].user]
             IN /\ row \in Row
                /\ Moved(r, "finding", request[r].user,
                         [email |-> GivenEmail(r, row), status |-> row.status], None)
    <3>1. /\ users[request[r].user] \in Row
          /\ request'[r].user = request[r].user /\ request'[r].wish = request[r].wish
          /\ request'[r].at = "finding"
          /\ request'[r].copy.email = GivenEmail(r, users[request[r].user])
      BY <2>2 DEF Moved
    <3>2. c = "email" /\ u = request[r].user /\ request[r].wish.email = None
      BY <1>1, <3>1 DEF Carries
    <3>3. QED
      BY <3>1, <3>2 DEF GivenEmail
  <2>3. QED
    BY <1>4, <2>1, <2>2, ReadForm
<1>5. CASE FindUser(r)
  <2> DEFINE row == users[request[r].user]
             stage == IF row.email = request[r].copy.email THEN "saving" ELSE "probing"
  <2>1. /\ row \in Row
        /\ Moved(r, stage, request[r].user,
                 [email |-> request[r].copy.email, status |-> row.status], None)
    BY <1>5, FindForm
  <2>2. /\ request'[r].user = request[r].user /\ request'[r].wish = request[r].wish
        /\ request'[r].at \in {"saving", "probing"} /\ request[r].at = "finding"
        /\ request'[r].copy.email = request[r].copy.email
        /\ request'[r].copy.status = row.status
    BY <1>5, <2>1 DEF Moved, FindUser, At
  <2>3. u = request[r].user
    BY <2>2 DEF Carries
  <2>4. CASE c = "status"
    BY <2>1, <2>2, <2>3, <2>4
  <2>5. CASE c = "email"
    BY <2>2, <2>5 DEF Carries
  <2>6. QED
    BY <1>1, <2>4, <2>5
<1>6. CASE ProbeEmail(r)
  <2>1. Answered(r, "conflict") \/ Same(r, "saving")
    BY <1>6, ReplyForm, GoForm DEF ProbeEmail, Answer, Stage, TypeInv
  <2>2. QED
    BY <1>6, <2>1 DEF Answered, Same, Moved, Carries, ProbeEmail, At
<1>7. CASE LogSaved(r)
  BY <1>7, LogForm DEF Answered, Same, Moved, Carries
<1>8. CASE LoadUser(r)
  <2>1. CASE Answered(r, "not_found")
    BY <2>1 DEF Answered, Moved, Carries
  <2>2. CASE LET row == users[request[r].user]
             IN /\ row \in Row
                /\ Moved(r, "storing", request[r].user,
                         [email |-> row.email, status |-> request[r].wish.status], None)
    BY <1>1, <2>2 DEF Moved, Carries
  <2>3. QED
    BY <1>8, <2>1, <2>2, LoadForm
<1>9. CASE Save(r) \/ StoreStatus(r)
  BY <1>9, SaveForm, StatusForm DEF Answered, Moved, Carries
<1>10. CASE RefuseCreate(r) \/ LogStatus(r) \/ Fail(r)
  <2>1. \E answer \in Answer : Answered(r, answer)
    BY <1>10, ReplyForm DEF RefuseCreate, LogStatus, Fail, Answer, TypeInv
  <2>2. QED
    BY <2>1 DEF Answered, Moved, Carries
<1>11. QED
  BY <1>2, <1>3, <1>4, <1>5, <1>6, <1>7, <1>8, <1>9, <1>10 DEF Step

LEMMA LostStep == TypeInv /\ LostInv /\ [Next]_vars => LostInv'
<1> SUFFICES ASSUME TypeInv, LostInv, [Next]_vars PROVE LostInv'
  OBVIOUS
<1> DEFINE Right(q, u, c) == request[q].copy[c] = asked[u][c] \/ <<u, c>> \in raced
<1>1. /\ \A u \in User, c \in Column :
            users[u] # None => users[u][c] = asked[u][c] \/ <<u, c>> \in raced
      /\ \A q \in Request, u \in User, c \in Column : Carries(q, u, c) => Right(q, u, c)
      /\ users \in [User -> Row \cup {None}] /\ asked \in [User -> Row \cup {None}]
  BY DEF LostInv, LostOnlyByOverlap, TypeInv, TypeOK
<1>2. ASSUME NEW r \in Request, Step(r), ~ \E named : Stores(r, named) PROVE LostInv'
  <2>1. UNCHANGED <<users, asked, raced>>
    BY <1>2, SaveForm, StatusForm DEF Step, Arrive, RefuseCreate, AcceptCreate, ReadUser,
       FindUser, ProbeEmail, LogSaved, LoadUser, LogStatus, Fail, historyVars
  <2>2. LostOnlyByOverlap'
    BY <1>1, <2>1 DEF LostOnlyByOverlap
  <2>3. ASSUME NEW q \in Request, NEW u \in User, NEW c \in Column, Carries(q, u, c)'
        PROVE  (request[q].copy[c] = asked[u][c] \/ <<u, c>> \in raced)'
    <3>1. CASE q = r
      BY <1>1, <1>2, <2>1, <2>3, <3>1, CarriesStep
    <3>2. CASE q # r
      BY <1>1, <1>2, <2>1, <2>3, <3>2, ShapeStep DEF Carries
    <3>3. QED
      BY <3>1, <3>2
  <2>4. QED
    BY <2>2, <2>3 DEF LostInv
<1>3. ASSUME NEW r \in Request, Step(r), NEW named, Stores(r, named) PROVE LostInv'
  <2> DEFINE v == request[r].user
             row == request[r].copy
  <2>1. v \in User /\ row \in Row /\ Store(r, v, row, named)
    BY <1>3 DEF Stores
  <2>2. /\ users' = [users EXCEPT ![v] = row]
        /\ asked' = [asked EXCEPT ![v] =
                       [c \in Column |-> IF c \in named THEN row[c] ELSE asked[v][c]]]
    BY <1>1, <2>1 DEF Store
  <2>3. ASSUME NEW u \in User, NEW c \in Column
        PROVE  asked'[u][c] = IF u = v /\ c \in named THEN row[c] ELSE asked[u][c]
    <3> HIDE DEF v, row
    <3>1. QED
      BY <1>1, <2>1, <2>2
  <2>4. ASSUME NEW u \in User, NEW c \in Column, ~ (u = v /\ c \in named), <<u, c>> \in raced
        PROVE  <<u, c>> \in raced'
    BY <2>1, <2>4 DEF Store
  <2>5. ASSUME NEW q \in Request \ {r}, NEW c \in Column, c \in named,
               Carries(q, v, c), request[q].copy[c] # row[c]
        PROVE  <<v, c>> \in raced'
    BY <2>1, <2>5 DEF Store
  <2>6. ASSUME NEW u \in User, NEW c \in Column, users'[u] # None
        PROVE  users'[u][c] = asked'[u][c] \/ <<u, c>> \in raced'
    <3>1. CASE u # v
      BY <1>1, <2>1, <2>2, <2>3, <2>4, <2>6, <3>1
    <3>2. CASE u = v /\ c \in named
      BY <1>1, <2>1, <2>2, <2>3, <3>2
    <3>3. CASE u = v /\ c \notin named
      <4>1. Carries(r, v, c)
        BY <1>3, <3>3, NotNamed
      <4>2. row[c] = asked[v][c] \/ <<v, c>> \in raced
        BY <1>1, <2>1, <4>1
      <4>3. QED
        BY <1>1, <2>1, <2>2, <2>3, <2>4, <3>3, <4>2
    <3>4. QED
      BY <3>1, <3>2, <3>3
  <2>7. ASSUME NEW q \in Request, NEW u \in User, NEW c \in Column, Carries(q, u, c)'
        PROVE  request'[q].copy[c] = asked'[u][c] \/ <<u, c>> \in raced'
    <3>1. q # r
      BY <1>3, <2>7 DEF Stores, Same, Moved, Carries
    <3>2. request'[q] = request[q] /\ Carries(q, u, c)
      BY <1>3, <2>7, <3>1, ShapeStep DEF Carries
    <3>3. CASE u = v /\ c \in named
      BY <2>3, <2>5, <3>1, <3>2, <3>3
    <3>4. CASE ~ (u = v /\ c \in named)
      BY <1>1, <2>3, <2>4, <3>2, <3>4
    <3>5. QED
      BY <3>3, <3>4
  <2>8. QED
    BY <2>6, <2>7 DEF LostInv, LostOnlyByOverlap
<1>4. CASE UNCHANGED vars
  BY <1>1, <1>4 DEF LostInv, LostOnlyByOverlap, Carries, vars, historyVars
<1>5. QED
  BY <1>2, <1>3, <1>4 DEF Next

-------------------------------------------------------------------------------
(* Nobody meets another's e-mail that was there before. *)

(* Where a step that stores nothing leaves the request that takes it.       *)
LEMMA ClashQuietStep ==
    ASSUME TypeInv, ClashInv, NEW r \in Request, Step(r), ~ \E named : Stores(r, named)
    PROVE  /\ \/ request'[r].answer = "duplicate"
              \/ request'[r].answer = "conflict" /\ request'[r].wish.email = None
              => request'[r].copy.email \in since[r]
           /\ UNCHANGED <<users, since>>
           /\ request'[r].at \in {"saving", "storing"} => OthersAreNew(r)'
           /\ request'[r].at = "finding" /\ request'[r].wish.email = None => OthersAreNew(r)'
           /\ request'[r].at = "probing" /\ request'[r].wish.kind # "create"
                 /\ request'[r].wish.email = None =>
                 \A v \in User : users[v] # None /\ users[v].email = request'[r].copy.email
                                     => users[v].email \in since[r]
<1> USE UsersAssumption DEF UsersAssumption
<1>1. /\ Shape(r) /\ request[r].wish \in Wish \cup {None} /\ None \notin Answer
      /\ users \in [User -> Row \cup {None}] /\ DistinctEmails(users)
  BY DEF TypeInv, TypeOK, RequestState
<1>2. UNCHANGED <<users, since>>
  BY SaveForm, StatusForm DEF Step, Arrive, RefuseCreate, AcceptCreate, ReadUser,
     FindUser, ProbeEmail, LogSaved, LoadUser, LogStatus, Fail, historyVars
<1>3. /\ request[r].at \in {"saving", "storing"} => OthersAreNew(r)
      /\ request[r].at = "finding" /\ request[r].wish.email = None => OthersAreNew(r)
      /\ request[r].at = "probing" /\ request[r].wish.kind # "create"
           /\ request[r].wish.email = None =>
           \A v \in User : users[v] # None /\ users[v].email = request[r].copy.email
                               => users[v].email \in since[r]
  BY DEF ClashInv
(* An answer that is not about an e-mail, and a row of one's own.           *)
<1>4. ASSUME NEW answer \in Answer \ {"duplicate", "conflict"}, Answered(r, answer)
      PROVE  /\ request'[r].answer \notin {"duplicate", "conflict"}
             /\ request'[r].at = "answered"
  BY <1>4 DEF Answered, Moved
<1>5. ASSUME NEW stage, NEW copy, Moved(r, stage, request[r].user, copy, None),
             users[request[r].user] # None, request[r].user \in User,
             copy.email = users[request[r].user].email
      PROVE  OthersAreNew(r)' /\ request'[r].answer \notin {"duplicate", "conflict"}
  <2>1. request'[r].user = request[r].user /\ request'[r].copy = copy /\ request'[r].answer = None
    BY <1>5 DEF Moved
  <2>2. \A v \in User \ {request[r].user} : users[v] # None => users[v].email # copy.email
    BY <1>1, <1>5 DEF DistinctEmails
  <2>3. QED
    BY <1>1, <1>2, <2>1, <2>2 DEF OthersAreNew, Answer
<1>6. CASE Arrive(r)
  <2>1. /\ request'[r].answer = None
        /\ request'[r].at \in {"probing", "loading", "reading"}
        /\ request'[r].at = "probing" => request'[r].wish.kind = "create"
    <3>1. PICK w \in Wish :
             request'[r] =
                [wish |-> w, user |-> w.user, copy |-> None, answer |-> None,
                 at |-> IF w.kind = "create" THEN "probing"
                        ELSE IF w.kind = "status" THEN "loading" ELSE "reading"]
      BY <1>6, ArriveForm
    <3>2. QED
      BY <3>1
  <2>2. QED
    BY <1>1, <1>2, <2>1 DEF Answer
<1>7. CASE AcceptCreate(r)
  <2>1. PICK v \in User :
           Moved(r, "saving", v, [email |-> request[r].wish.email, status |-> "active"], None)
    BY <1>7, AcceptForm
  <2>2. /\ request'[r].copy.email = request[r].wish.email /\ request'[r].answer = None
        /\ request'[r].at = "saving"
    BY <2>1 DEF Moved
  <2>3. OthersAreNew(r)'
    BY <1>2, <1>7, <2>2 DEF AcceptCreate, EmailTaken, OthersAreNew
  <2>4. QED
    BY <1>1, <1>2, <2>2, <2>3 DEF Answer
<1>8. CASE RefuseCreate(r)
  <2>1. Answered(r, "conflict") /\ request[r].wish.kind = "create" /\ request[r].wish \in Wish
    BY <1>1, <1>8, ReplyForm DEF RefuseCreate, At, Answer, TypeInv, Shape
  <2>2. request'[r].wish.email # None /\ request'[r].at = "answered" /\ request'[r].answer = "conflict"
    BY <2>1, WishFacts DEF Answered, Moved
  <2>3. QED
    BY <1>2, <2>2
<1>9. CASE ReadUser(r)
  <2> DEFINE row == users[request[r].user]
             copy == [email |-> GivenEmail(r, row), status |-> row.status]
  <2>1. CASE Answered(r, "not_found")
    BY <1>2, <1>4, <2>1 DEF Answer
  <2>2. CASE row \in Row /\ Moved(r, "finding", request[r].user, copy, None)
    <3>1. /\ request'[r].at = "finding" /\ request'[r].wish = request[r].wish
          /\ request'[r].answer = None
      BY <2>2 DEF Moved
    <3>2. request[r].wish.email = None => OthersAreNew(r)'
      <4>1. request[r].user \in User
        BY <1>1, <1>9 DEF Shape, ReadUser, At
      <4>2. request[r].wish.email = None => copy.email = row.email
        BY DEF GivenEmail
      <4> HIDE DEF copy
      <4>3. QED
        BY <1>1, <1>5, <2>2, <4>1, <4>2
    <3>3. QED
      BY <1>1, <1>2, <3>1, <3>2 DEF Answer
  <2>3. QED
    BY <1>9, <2>1, <2>2, ReadForm
<1>10. CASE FindUser(r)
  <2> DEFINE row == users[request[r].user]
             copy == [email |-> request[r].copy.email, status |-> row.status]
             stage == IF row.email = request[r].copy.email THEN "saving" ELSE "probing"
  <2>1. row \in Row /\ Moved(r, stage, request[r].user, copy, None)
    BY <1>10, FindForm
  <2>2. request[r].at = "finding" /\ request[r].user \in User
    BY <1>1, <1>10 DEF FindUser, At, Shape, Edited
  <2>3. /\ request'[r].at = stage /\ request'[r].copy = copy /\ request'[r].answer = None
        /\ request'[r].wish = request[r].wish
    BY <2>1 DEF Moved
  <2>4. copy.email = request[r].copy.email
    OBVIOUS
  <2>5. CASE row.email = request[r].copy.email
    <3>1. stage = "saving"
      BY <2>5
    <3> HIDE DEF copy, stage
    <3>2. OthersAreNew(r)'
      BY <1>1, <1>5, <2>1, <2>2, <2>4, <2>5
    <3>3. QED
      BY <1>1, <1>2, <2>3, <3>1, <3>2 DEF Answer
  <2>6. CASE row.email # request[r].copy.email
    <3>1. stage = "probing"
      BY <2>6
    <3>2. request[r].wish.email = None =>
            \A v \in User : users[v] # None /\ users[v].email = request[r].copy.email
                                => users[v].email \in since[r]
      BY <1>3, <2>2, <2>6 DEF OthersAreNew
    <3> HIDE DEF copy, stage
    <3>3. QED
      BY <1>1, <1>2, <2>3, <2>4, <3>1, <3>2 DEF Answer
  <2>7. QED
    BY <2>5, <2>6
<1>11. CASE ProbeEmail(r)
  <2>1. request[r].at = "probing" /\ request[r].wish.kind # "create"
    BY <1>11 DEF ProbeEmail, At
  <2>2. CASE EmailTaken(request[r].copy.email)
    <3>1. Answered(r, "conflict")
      BY <1>11, <2>2, ReplyForm DEF ProbeEmail, Answer, TypeInv
    <3>2. request[r].wish.email = None => request[r].copy.email \in since[r]
      BY <1>3, <2>1, <2>2 DEF EmailTaken
    <3>3. QED
      BY <1>2, <3>1, <3>2 DEF Answered, Moved
  <2>3. CASE ~ EmailTaken(request[r].copy.email)
    <3>1. Same(r, "saving") /\ request[r].answer = None
      BY <1>1, <1>11, <2>1, <2>3, GoForm DEF ProbeEmail, Stage, TypeInv, Shape
    <3>2. OthersAreNew(r)'
      BY <1>2, <2>3, <3>1 DEF Same, Moved, OthersAreNew, EmailTaken
    <3>3. QED
      BY <1>1, <1>2, <3>1, <3>2 DEF Same, Moved, Answer
  <2>4. QED
    BY <2>2, <2>3
<1>12. CASE Save(r) \/ StoreStatus(r)
  <2>1. /\ Answered(r, "duplicate") /\ Collides(request[r].user, request[r].copy)
        /\ request[r].at \in {"saving", "storing"}
    BY <1>12, SaveForm, StatusForm DEF Save, StoreStatus, At
  <2>2. request[r].copy.email \in since[r]
    BY <1>3, <2>1 DEF OthersAreNew, Collides
  <2>3. QED
    BY <1>2, <2>1, <2>2 DEF Answered, Moved
<1>13. CASE LogSaved(r)
  <2>1. CASE \E answer \in {"invalid", "bad_status", "ok"} : Answered(r, answer)
    BY <1>2, <1>4, <2>1 DEF Answer
  <2>2. CASE Same(r, "loading")
    <3>1. request[r].answer = None
      BY <1>1, <1>13 DEF LogSaved, At, Shape
    <3>2. QED
      BY <1>1, <1>2, <2>2, <3>1 DEF Same, Moved, Answer
  <2>3. QED
    BY <1>13, <2>1, <2>2, LogForm
<1>14. CASE LoadUser(r)
  <2> DEFINE row == users[request[r].user]
             copy == [email |-> row.email, status |-> request[r].wish.status]
  <2>1. CASE Answered(r, "not_found")
    BY <1>2, <1>4, <2>1 DEF Answer
  <2>2. CASE row \in Row /\ Moved(r, "storing", request[r].user, copy, None)
    <3>1. request'[r].at = "storing" /\ request'[r].answer = None /\ request[r].user \in User
      BY <1>1, <1>14, <2>2 DEF Moved, LoadUser, Shape
    <3>2. copy.email = row.email
      OBVIOUS
    <3> HIDE DEF copy
    <3>3. OthersAreNew(r)'
      BY <1>1, <1>5, <2>2, <3>1, <3>2
    <3>4. QED
      BY <1>1, <1>2, <3>1, <3>3 DEF Answer
  <2>3. QED
    BY <1>14, <2>1, <2>2, LoadForm
<1>15. CASE LogStatus(r) \/ Fail(r)
  <2>1. \E answer \in {"ok", "failed"} : Answered(r, answer)
    BY <1>15, ReplyForm DEF LogStatus, Fail, Answer, TypeInv
  <2>2. QED
    BY <1>2, <1>4, <2>1 DEF Answer
<1>16. QED
  BY <1>6, <1>7, <1>8, <1>9, <1>10, <1>11, <1>12, <1>13, <1>14, <1>15 DEF Step

LEMMA ClashStep == TypeInv /\ ClashInv /\ [Next]_vars => ClashInv'
<1> USE UsersAssumption DEF UsersAssumption
<1> SUFFICES ASSUME TypeInv, ClashInv, [Next]_vars PROVE ClashInv'
  OBVIOUS
<1> DEFINE
      Answers(q) ==
          \/ request[q].answer = "duplicate"
          \/ request[q].answer = "conflict" /\ request[q].wish.email = None
          => request[q].copy.email \in since[q]
      Meets(q) ==
          /\ request[q].at \in {"saving", "storing"} => OthersAreNew(q)
          /\ request[q].at = "finding" /\ request[q].wish.email = None => OthersAreNew(q)
          /\ request[q].at = "probing" /\ request[q].wish.kind # "create"
                /\ request[q].wish.email = None =>
                \A v \in User : users[v] # None /\ users[v].email = request[q].copy.email
                                    => users[v].email \in since[q]
<1>1. \A q \in Request : Answers(q) /\ Meets(q)
  BY DEF ClashInv, ClashOnlyByOverlap
<1>2. ASSUME NEW r \in Request, Step(r), ~ \E named : Stores(r, named) PROVE ClashInv'
  <2>1. UNCHANGED <<users, since>> /\ (Answers(r) /\ Meets(r))'
    BY <1>2, ClashQuietStep
  <2>2. ASSUME NEW q \in Request \ {r} PROVE (Answers(q) /\ Meets(q))'
    <3>1. request'[q] = request[q] /\ Answers(q) /\ Meets(q)
      BY <1>1, <1>2, ShapeStep
    <3>2. QED
      BY <2>1, <3>1 DEF OthersAreNew
  <2>3. QED
    BY <2>1, <2>2 DEF ClashInv, ClashOnlyByOverlap
<1>3. ASSUME NEW r \in Request, Step(r), NEW named, Stores(r, named) PROVE ClashInv'
  <2> DEFINE u == request[r].user
             row == request[r].copy
  <2>1. /\ u \in User /\ row \in Row
        /\ users' = [users EXCEPT ![u] = row]
        /\ since' = [q \in Request |->
                        IF q # r /\ Busy(q) THEN since[q] \cup {row.email} ELSE since[q]]
    BY <1>3 DEF Stores, Store
  <2>2. ASSUME NEW v \in User
        PROVE  users'[v] = IF v = u THEN row ELSE users[v]
    BY <2>1 DEF TypeInv, TypeOK
  <2>3. ASSUME NEW q \in Request \ {r} PROVE (Answers(q) /\ Meets(q))'
    <3>1. request'[q] = request[q] /\ Answers(q) /\ Meets(q)
      BY <1>1, <1>3, ShapeStep
    <3>2. since[q] \subseteq since'[q]
      BY <1>3, TablesStep
    <3>3. Busy(q) => row.email \in since'[q]
      BY <2>1
    <3>4. Answers(q)'
      BY <3>1, <3>2
    <3>5. Meets(q)'
      <4>1. CASE ~ Busy(q)
        BY <3>1, <4>1 DEF Busy
      <4>2. CASE Busy(q)
        <5> HIDE DEF u, row
        <5>1. OthersAreNew(q) => OthersAreNew(q)'
          BY <2>2, <3>1, <3>2, <3>3, <4>2 DEF OthersAreNew
        <5>2. QED
          BY <2>2, <3>1, <3>2, <3>3, <4>2, <5>1
      <4>3. QED
        BY <4>1, <4>2
    <3>6. QED
      BY <3>4, <3>5
  <2>4. (Answers(r) /\ Meets(r))'
    <3>1. request'[r].at \in {"logging", "closing"} /\ request'[r].answer = None
      BY <1>3 DEF Stores, Same, Moved, TypeInv, Shape
    <3>2. QED
      BY <3>1 DEF Answer
  <2>5. QED
    BY <2>3, <2>4 DEF ClashInv, ClashOnlyByOverlap
<1>4. CASE UNCHANGED vars
  BY <1>1, <1>4 DEF ClashInv, ClashOnlyByOverlap, OthersAreNew, vars, historyVars
<1>5. QED
  BY <1>2, <1>3, <1>4 DEF Next

-------------------------------------------------------------------------------
(* What is stored when a request is answered. *)

LEMMA EffectStep ==
    ASSUME TypeInv, NEW r \in Request, Step(r)
    PROVE  LET q == request'[r]
           IN /\ q.answer = "ok" => {q.wish.email, q.wish.status} \ {None} \subseteq wrote'[r]
              /\ q.answer \in Answer \ {"ok", "failed"} /\ wrote'[r] # {} =>
                    \/ q.answer = "duplicate" /\ q.wish.status \in UserStatus
                    \/ q.wish.status \in {"empty", "unknown"}
<1> USE UsersAssumption DEF UsersAssumption
<1>1. /\ Shape(r) /\ TypeOK /\ request[r].wish \in Wish \cup {None} /\ None \notin Answer
      /\ Shape(r)' /\ request'[r] \in RequestState
  BY ShapeStep DEF TypeInv, TypeOK, RequestState
<1>2. CASE request'[r].answer = None
  BY <1>1, <1>2 DEF Answer
<1>3. CASE RefuseCreate(r) \/ ProbeEmail(r)
  <2>1. request[r].at = "probing" /\ UNCHANGED wrote
    BY <1>3 DEF RefuseCreate, ProbeEmail, At, historyVars
  <2>2. request'[r].answer \in {None, "conflict"}
    BY <1>1, <1>3, <2>1, ReplyForm, GoForm
    DEF RefuseCreate, ProbeEmail, Answered, Same, Moved, Answer, Stage, Shape
  <2>3. wrote'[r] = {}
    BY <1>1, <2>1 DEF Shape
  <2>4. QED
    BY <1>2, <2>2, <2>3
<1>4. CASE ReadUser(r)
  <2>1. request[r].at = "reading" /\ UNCHANGED wrote
    BY <1>4 DEF ReadUser, At, historyVars
  <2>2. request'[r].answer \in {None, "not_found"}
    BY <1>4, ReadForm DEF Answered, Moved
  <2>3. wrote'[r] = {}
    BY <1>1, <2>1 DEF Shape
  <2>4. QED
    BY <1>2, <2>2, <2>3
<1>5. CASE Save(r)
  <2>1. CASE Answered(r, "duplicate") /\ UNCHANGED historyVars
    BY <1>1, <1>5, <2>1 DEF Save, At, Shape, Answered, Moved, historyVars
  <2>2. CASE Stores(r, Named(r))
    BY <1>1, <1>2, <2>2 DEF Stores, Same, Moved, Shape
  <2>3. QED
    BY <1>5, <2>1, <2>2, SaveForm
<1>6. CASE StoreStatus(r)
  <2>1. CASE Answered(r, "duplicate") /\ UNCHANGED historyVars
    BY <1>1, <1>6, <2>1 DEF StoreStatus, Shape, Answered, Moved, historyVars
  <2>2. CASE Stores(r, {"status"})
    BY <1>1, <1>2, <2>2 DEF Stores, Same, Moved, Shape
  <2>3. QED
    BY <1>6, <2>1, <2>2, StatusForm
<1>7. CASE LogSaved(r)
  <2>1. request[r].at = "logging" /\ UNCHANGED wrote
    BY <1>7 DEF LogSaved, At, historyVars
  <2>2. CASE \/ Answered(r, "invalid") /\ request[r].wish.status = "empty"
             \/ Answered(r, "bad_status") /\ request[r].wish.status = "unknown"
    BY <2>2 DEF Answered, Moved
  <2>3. CASE Answered(r, "ok") /\ request[r].wish.status \in {None, request[r].copy.status}
    <3>1. request[r].wish.email # None => request[r].wish.email \in wrote[r]
      BY <1>1, <2>1 DEF Shape
    <3>2. request[r].wish.status # None => request[r].wish.status \in wrote[r]
      BY <1>1, <2>1, <2>3 DEF Shape
    <3>3. QED
      BY <2>1, <2>3, <3>1, <3>2 DEF Answered, Moved
  <2>4. CASE Same(r, "loading")
    BY <1>1, <1>2, <2>1, <2>4 DEF Same, Moved, Shape
  <2>5. QED
    BY <1>7, <2>2, <2>3, <2>4, LogForm
<1>8. CASE LoadUser(r)
  <2>1. request[r].at = "loading" /\ UNCHANGED wrote
    BY <1>8 DEF LoadUser, historyVars
  <2>2. CASE Answered(r, "not_found") /\ users[request[r].user] = None
    BY <1>1, <2>1, <2>2 DEF Answered, Moved, Shape
  <2>3. CASE users[request[r].user] \in Row
    BY <1>2, <1>8, <2>3, LoadForm DEF Moved
  <2>4. QED
    BY <1>8, <2>2, <2>3, LoadForm
<1>9. CASE LogStatus(r)
  <2>1. Answered(r, "ok") /\ UNCHANGED wrote /\ request[r].at = "closing"
    BY <1>1, <1>9, ReplyForm DEF LogStatus, Answer, historyVars
  <2>2. QED
    BY <1>1, <2>1 DEF Answered, Moved, Shape
<1>10. CASE Fail(r)
  BY <1>1, <1>10, ReplyForm DEF Fail, Answer, Answered, Moved
<1>11. CASE Arrive(r)
  <2>1. PICK w \in Wish :
           request'[r] =
              [wish |-> w, user |-> w.user, copy |-> None, answer |-> None,
               at |-> IF w.kind = "create" THEN "probing"
                      ELSE IF w.kind = "status" THEN "loading" ELSE "reading"]
    BY <1>11, ArriveForm
  <2>2. request'[r].answer = None
    BY <2>1
  <2>3. QED
    BY <1>2, <2>2
<1>12. CASE AcceptCreate(r)
  BY <1>2, <1>12, AcceptForm DEF Moved
<1>13. CASE FindUser(r)
  BY <1>2, <1>13, FindForm DEF Moved
<1>14. QED
  BY <1>3, <1>4, <1>5, <1>6, <1>7, <1>8, <1>9, <1>10, <1>11, <1>12, <1>13 DEF Step

EffectInv == ErrorsAreClean /\ SuccessTookEffect

LEMMA EffectInvStep == TypeInv /\ EffectInv /\ [Next]_vars => EffectInv'
<1> SUFFICES ASSUME TypeInv, EffectInv, [Next]_vars PROVE EffectInv'
  OBVIOUS
<1>1. ASSUME NEW r \in Request, Step(r) PROVE EffectInv'
  <2>1. ASSUME NEW q \in Request \ {r} PROVE request'[q] = request[q] /\ wrote'[q] = wrote[q]
    BY <1>1, ShapeStep, TablesStep
  <2>2. QED
    BY <1>1, <2>1, EffectStep DEF EffectInv, ErrorsAreClean, SuccessTookEffect
<1>2. CASE UNCHANGED vars
  BY <1>2 DEF EffectInv, ErrorsAreClean, SuccessTookEffect, vars, historyVars
<1>3. QED
  BY <1>1, <1>2 DEF Next

-------------------------------------------------------------------------------
(* The theorems. *)

IInv == TypeInv /\ LostInv /\ ClashInv /\ EffectInv

LEMMA QuietInit == Init => LostInv /\ ClashInv /\ EffectInv
<1> USE UsersAssumption DEF UsersAssumption
<1> SUFFICES ASSUME Init PROVE LostInv /\ ClashInv /\ EffectInv
  OBVIOUS
<1>1. \A r \in Request : request[r].at = "waiting" /\ request[r].answer = None
  BY DEF Init, Waiting
<1>2. asked = users /\ None \notin Answer
  BY DEF Init
<1>3. LostInv
  BY <1>1, <1>2 DEF LostInv, LostOnlyByOverlap, Carries
<1>4. ClashInv
  BY <1>1, <1>2 DEF ClashInv, ClashOnlyByOverlap, Answer
<1>5. EffectInv
  BY <1>1, <1>2 DEF EffectInv, ErrorsAreClean, SuccessTookEffect, Answer
<1>6. QED
  BY <1>3, <1>4, <1>5

(* The inductive invariant holds of every behaviour of Users.               *)
THEOREM Invariance == Spec => []IInv
<1>1. Init => IInv
  BY TypeInit, QuietInit DEF IInv
<1>2. IInv /\ [Next]_vars => IInv'
  BY TypeStep, LostStep, ClashStep, EffectInvStep DEF IInv
<1>3. QED
  BY <1>1, <1>2, PTL DEF Spec

(* The table keeps its types and, thanks to uq_users_email_normalized, one  *)
(* owner for every e-mail.                                                  *)
THEOREM TypeCorrect == Spec => []TypeOK
<1>1. IInv => TypeOK
  BY DEF IInv, TypeInv
<1>2. QED
  BY <1>1, Invariance, PTL

(* A column differs from what was last asked of it only if some request     *)
(* held a copy of the row when that was stored (MySqlUserRepository::save   *)
(* writes every column).                                                    *)
THEOREM LossNeedsOverlap == Spec => []LostOnlyByOverlap
<1>1. IInv => LostOnlyByOverlap
  BY DEF IInv, LostInv
<1>2. QED
  BY <1>1, Invariance, PTL

(* A request is refused for an e-mail it could not know to be taken, by the *)
(* index or by existsByEmail, only if that e-mail was stored meanwhile.     *)
THEOREM ClashNeedsOverlap == Spec => []ClashOnlyByOverlap
<1>1. IInv => ClashOnlyByOverlap
  BY DEF IInv, ClashInv
<1>2. QED
  BY <1>1, Invariance, PTL

(* An error answer means that nothing was stored, but for the three cases   *)
(* ErrorsAreClean names.                                                    *)
THEOREM ErrorsStoreNothing == Spec => []ErrorsAreClean
<1>1. IInv => ErrorsAreClean
  BY DEF IInv, EffectInv
<1>2. QED
  BY <1>1, Invariance, PTL

(* A success means that every value the request named has been stored.      *)
THEOREM SuccessStoresAll == Spec => []SuccessTookEffect
<1>1. IInv => SuccessTookEffect
  BY DEF IInv, EffectInv
<1>2. QED
  BY <1>1, Invariance, PTL
===============================================================================
