----------------------------- MODULE AccessProofs -----------------------------
(***************************************************************************)
(* Theorems about Access and the list of rules it goes by, for every set   *)
(* of users, browsers, roles and requests.                                 *)
(***************************************************************************)
EXTENDS Access, SequenceTheorems, TLAPS

-------------------------------------------------------------------------------
(* The list of rules. *)

LEMMA PrefixAgrees ==
    ASSUME NEW S, NEW s \in Seq(S), NEW t \in Seq(S)
    PROVE  IsPrefix(s, t) <=> Len(s) <= Len(t) /\ \A i \in 1..Len(s) : s[i] = t[i]
<1>1. Len(s) \in Nat /\ Len(t) \in Nat
  OBVIOUS
<1>2. ASSUME NEW q \in Seq(S), Len(s) <= Len(q)
      PROVE  /\ SubSeq(q, 1, Len(s)) \in Seq(S)
             /\ Len(SubSeq(q, 1, Len(s))) = Len(s)
             /\ \A i \in 1..Len(s) : SubSeq(q, 1, Len(s))[i] = q[i]
  <2>1. \A i \in 1..Len(s) : q[i] \in S
    BY <1>1, <1>2, ElementOfSeq
  <2>2. /\ SubSeq(q, 1, Len(s)) \in Seq(S)
        /\ Len(SubSeq(q, 1, Len(s))) = IF 1 <= Len(s) THEN Len(s) - 1 + 1 ELSE 0
        /\ \A i \in 1 .. Len(s) - 1 + 1 : SubSeq(q, 1, Len(s))[i] = q[1 + i - 1]
    BY <1>1, <2>1, SubSeqProperties
  <2>3. QED
    BY <1>1, <2>2
<1>3. CASE Len(s) <= Len(t)
  <2>1. IsPrefix(s, t) <=> SubSeq(s, 1, Len(s)) = SubSeq(t, 1, Len(s))
    BY <1>3 DEF IsPrefix
  <2>2. SubSeq(s, 1, Len(s)) = SubSeq(t, 1, Len(s)) => \A i \in 1..Len(s) : s[i] = t[i]
    BY <1>1, <1>2, <1>3
  <2>3. (\A i \in 1..Len(s) : s[i] = t[i]) => SubSeq(s, 1, Len(s)) = SubSeq(t, 1, Len(s))
    BY <1>1, <1>2, <1>3, SeqEqual
  <2>4. QED
    BY <1>3, <2>1, <2>2, <2>3
<1>4. CASE ~ (Len(s) <= Len(t))
  BY <1>4 DEF IsPrefix
<1>5. QED
  BY <1>3, <1>4

(* The provers do not know that a literal is in STRING.                     *)
Piece ==
    STRING \cup {"/dashboard", "/activity-log", "/users", "/roles", "/permissions", "/api/v1"}

LEMMA MorePieces ==
    ASSUME NEW S, NEW T, S \subseteq T
    PROVE  Seq(S) \subseteq Seq(T)
OBVIOUS

(* The longer of two prefixes comes first, and none comes twice.            *)
Sorted(rules) ==
    /\ DOMAIN rules \subseteq 1..5
    /\ \A i \in DOMAIN rules : rules[i].prefix \in Seq(Piece)
    /\ \A i, j \in DOMAIN rules :
          i < j => \/ Len(rules[j].prefix) < Len(rules[i].prefix)
                   \/ /\ Len(rules[j].prefix) = Len(rules[i].prefix)
                      /\ rules[j].prefix # rules[i].prefix

(* In a sorted list the first rule that matches is the one of the longest   *)
(* prefix.                                                                  *)
LEMMA FirstIsLongest ==
    ASSUME NEW rules, Sorted(rules), NEW path \in Seq(Piece), Matching(rules, path) # {}
    PROVE  LET matching == Matching(rules, path)
           IN (CHOOSE i \in matching : \A j \in matching : i <= j) =
              (CHOOSE i \in matching : \A j \in matching :
                   Len(rules[j].prefix) <= Len(rules[i].prefix))
<1> DEFINE matching == Matching(rules, path)
           First(i) == \A j \in matching : i <= j
           Longest(i) == \A j \in matching : Len(rules[j].prefix) <= Len(rules[i].prefix)
<1>1. /\ matching \subseteq DOMAIN rules /\ matching \subseteq Nat /\ matching # {}
      /\ \A i \in matching : /\ rules[i].prefix \in Seq(Piece)
                             /\ Len(rules[i].prefix) \in Nat
                             /\ IsPrefix(rules[i].prefix, path)
  BY DEF Matching, Sorted
<1>2. ASSUME NEW i \in matching, NEW j \in matching, i < j
      PROVE  Len(rules[j].prefix) < Len(rules[i].prefix)
  <2> DEFINE s == rules[i].prefix
             t == rules[j].prefix
  <2>1. s \in Seq(Piece) /\ t \in Seq(Piece) /\ i \in DOMAIN rules /\ j \in DOMAIN rules
    BY <1>1
  <2>2. (\A k \in 1..Len(s) : s[k] = path[k]) /\ (\A k \in 1..Len(t) : t[k] = path[k])
    BY <1>1, <2>1, PrefixAgrees
  <2>3. Len(s) = Len(t) => s = t
    BY <2>1, <2>2, SeqEqual
  <2>4. QED
    BY <1>2, <2>1, <2>3 DEF Sorted
<1>3. \E i \in matching : First(i)
  <2>1. matching \subseteq 1..5 /\ matching # {}
    BY <1>1 DEF Sorted
  <2> HIDE DEF matching
  <2>2. CASE 1 \in matching
    BY <2>1, <2>2
  <2>3. CASE 1 \notin matching /\ 2 \in matching
    BY <2>1, <2>3
  <2>4. CASE matching \cap {1, 2} = {} /\ 3 \in matching
    BY <2>1, <2>4
  <2>5. CASE matching \cap {1, 2, 3} = {}
    <3>1. matching \subseteq {4, 5}
      BY <2>1, <2>5
    <3>2. CASE 4 \in matching
      BY <3>1, <3>2
    <3>3. CASE matching \subseteq {5}
      <4>1. \A j \in matching : j = 5
        BY <3>3
      <4>2. PICK i \in matching : TRUE
        BY <2>1
      <4>3. i = 5
        BY <4>1
      <4>4. \A j \in matching : i <= j
        BY <4>1, <4>3
      <4>5. QED
        BY <4>4
    <3>4. QED
      BY <3>1, <3>2, <3>3
  <2>6. QED
    BY <2>2, <2>3, <2>4, <2>5
<1>4. PICK i \in matching : First(i)
  BY <1>3
<1>5. \A j \in matching : j # i => i < j
  BY <1>1, <1>4
<1>6. \A j \in matching : j # i => Len(rules[j].prefix) < Len(rules[i].prefix)
  BY <1>2, <1>5
<1>7. Longest(i)
  BY <1>1, <1>6
<1>8. \A j \in matching : First(j) => j = i
  BY <1>1, <1>4, <1>5
<1>9. \A j \in matching : Longest(j) => j = i
  BY <1>1, <1>6
<1>10. (CHOOSE k \in matching : First(k)) = i /\ (CHOOSE k \in matching : Longest(k)) = i
  BY <1>4, <1>7, <1>8, <1>9
<1>11. QED
  BY <1>10

LEMMA OnePiece ==
    ASSUME NEW S, NEW a \in S
    PROVE  <<a>> \in Seq(S) /\ Len(<<a>>) = 1
OBVIOUS

LEMMA TwoPieces ==
    ASSUME NEW S, NEW a \in S, NEW b \in S
    PROVE  <<a, b>> \in Seq(S) /\ Len(<<a, b>>) = 2
OBVIOUS

LEMMA SecondPiece ==
    ASSUME NEW a, NEW b, NEW c, b # c
    PROVE  <<a, b>> # <<a, c>>
OBVIOUS

LEMMA ListsAreSorted ==
    /\ Sorted(WebRules)
    /\ \A method \in Method : Sorted(ApiRules[method])
<1> DEFINE dashboard == <<"/dashboard">>
           web(piece) == <<"/dashboard", piece>>
           api(piece) == <<"/api/v1", piece>>
<1>1. dashboard \in Seq(Piece) /\ Len(dashboard) = 1
  <2>1. "/dashboard" \in Piece
    BY DEF Piece
  <2>2. QED
    BY <2>1, OnePiece
<1>2. \A piece \in Piece : /\ web(piece) \in Seq(Piece) /\ Len(web(piece)) = 2
                            /\ api(piece) \in Seq(Piece) /\ Len(api(piece)) = 2
  <2>1. "/dashboard" \in Piece /\ "/api/v1" \in Piece
    BY DEF Piece
  <2>2. QED
    BY <2>1, TwoPieces
<1>3. \A a, b : a # b => web(a) # web(b) /\ api(a) # api(b)
  BY SecondPiece
<1>4. /\ DOMAIN WebRules = 1..5
      /\ WebRules[1].prefix = web("/activity-log")
      /\ WebRules[2].prefix = web("/users")
      /\ WebRules[3].prefix = web("/roles")
      /\ WebRules[4].prefix = web("/permissions")
      /\ WebRules[5].prefix = dashboard
  BY DEF WebRules, Rule
<1>5. /\ DOMAIN ApiRules.GET = 1..3
      /\ ApiRules.GET[1].prefix = api("/users")
      /\ ApiRules.GET[2].prefix = api("/roles")
      /\ ApiRules.GET[3].prefix = api("/permissions")
  BY DEF ApiRules, Rule
<1>6. /\ DOMAIN ApiRules.POST = 1..2
      /\ ApiRules.POST[1].prefix = api("/users")
      /\ ApiRules.POST[2].prefix = api("/roles")
  BY DEF ApiRules, Rule
<1>7. /\ DOMAIN ApiRules.PATCH = 1..1 /\ ApiRules.PATCH[1].prefix = api("/users")
      /\ DOMAIN ApiRules.DELETE = 1..1 /\ ApiRules.DELETE[1].prefix = api("/users")
  BY DEF ApiRules, Rule
<1>8. /\ \A piece \in {"/users", "/roles", "/permissions"} :
            api(piece) \in Seq(Piece) /\ Len(api(piece)) = 2
      /\ api("/users") # api("/roles") /\ api("/users") # api("/permissions")
      /\ api("/roles") # api("/permissions")
  <2>1. "/users" \in Piece /\ "/roles" \in Piece /\ "/permissions" \in Piece
    BY DEF Piece
  <2>2. QED
    BY <1>2, <1>3, <2>1
<1> HIDE DEF dashboard, web, api
<1>9. Sorted(WebRules)
  <2>1. /\ "/users" \in Piece /\ "/roles" \in Piece /\ "/permissions" \in Piece
        /\ "/activity-log" \in Piece
    BY DEF Piece
  <2>2. /\ web("/activity-log") \in Seq(Piece) /\ Len(web("/activity-log")) = 2
        /\ web("/users") \in Seq(Piece) /\ Len(web("/users")) = 2
        /\ web("/roles") \in Seq(Piece) /\ Len(web("/roles")) = 2
        /\ web("/permissions") \in Seq(Piece) /\ Len(web("/permissions")) = 2
    BY <1>2, <2>1
  <2>3. /\ web("/activity-log") \notin {web("/users"), web("/roles"), web("/permissions")}
        /\ web("/users") \notin {web("/roles"), web("/permissions")}
        /\ web("/roles") # web("/permissions")
    BY <1>3
  <2>4. \A i \in 1..5 : WebRules[i].prefix \in Seq(Piece)
    BY <1>1, <1>4, <2>2
  <2>5. /\ \A i \in 1..4 : Len(WebRules[i].prefix) = 2
        /\ Len(WebRules[5].prefix) = 1
    BY <1>1, <1>4, <2>2
  <2>6. \A i, j \in 1..4 : i < j => WebRules[i].prefix # WebRules[j].prefix
    <3>1. \A j \in 2..4 : WebRules[1].prefix # WebRules[j].prefix
      BY <1>4, <2>3
    <3>2. \A j \in 3..4 : WebRules[2].prefix # WebRules[j].prefix
      BY <1>4, <2>3
    <3>3. WebRules[3].prefix # WebRules[4].prefix
      BY <1>4, <2>3
    <3>4. QED
      BY <3>1, <3>2, <3>3
  <2>7. ASSUME NEW i \in 1..5, NEW j \in 1..5, i < j
        PROVE  \/ Len(WebRules[j].prefix) < Len(WebRules[i].prefix)
               \/ /\ Len(WebRules[j].prefix) = Len(WebRules[i].prefix)
                  /\ WebRules[j].prefix # WebRules[i].prefix
    <3>1. i \in 1..4
      BY <2>7
    <3>2. CASE j = 5
      <4>1. Len(WebRules[i].prefix) = 2
        BY <2>5, <3>1
      <4>2. Len(WebRules[j].prefix) = 1
        BY <2>5, <3>2
      <4>3. Len(WebRules[j].prefix) < Len(WebRules[i].prefix)
        BY <4>1, <4>2
      <4>4. QED
        BY <4>3
    <3>3. CASE j \in 1..4
      BY <2>5, <2>6, <2>7, <3>1, <3>3
    <3>4. QED
      BY <3>2, <3>3
  <2>8. QED
    BY <1>4, <2>4, <2>7 DEF Sorted
<1>10. ASSUME NEW rules, DOMAIN rules = 1..1, rules[1].prefix = api("/users")
       PROVE  Sorted(rules)
  BY <1>8, <1>10 DEF Sorted
<1>11. ASSUME NEW rules, DOMAIN rules = 1..2, rules[1].prefix = api("/users"),
              rules[2].prefix = api("/roles")
       PROVE  Sorted(rules)
  BY <1>8, <1>11 DEF Sorted
<1>12. ASSUME NEW rules, DOMAIN rules = 1..3, rules[1].prefix = api("/users"),
              rules[2].prefix = api("/roles"), rules[3].prefix = api("/permissions")
       PROVE  Sorted(rules)
  BY <1>8, <1>12 DEF Sorted
<1>13. /\ Sorted(ApiRules.GET) /\ Sorted(ApiRules.POST)
       /\ Sorted(ApiRules.PATCH) /\ Sorted(ApiRules.DELETE)
  BY <1>5, <1>6, <1>7, <1>10, <1>11, <1>12
<1>14. QED
  BY <1>9, <1>13 DEF Method

(* RbacMiddleware asks for the permission that the list means, whatever the *)
(* path: no rule is hidden behind a shorter one (config/common/params.php). *)
THEOREM RulesAgree ==
    ASSUME NEW method \in Method, NEW path \in Seq(STRING), path \notin PublicWebPaths
    PROVE  RequiredPermission(method, path) = IntendedPermission(method, path)
<1> DEFINE rules == RulesFor(method, path)
<1>1. Sorted(rules)
  BY ListsAreSorted DEF RulesFor
<1>2. CASE Matching(rules, path) = {}
  BY <1>2 DEF RequiredPermission, IntendedPermission
<1>3. CASE Matching(rules, path) # {}
  <2> DEFINE matching == Matching(rules, path)
  <2>1. (CHOOSE i \in matching : \A j \in matching : i <= j) =
        (CHOOSE i \in matching : \A j \in matching :
             Len(rules[j].prefix) <= Len(rules[i].prefix))
    <3>1. path \in Seq(Piece)
      BY MorePieces DEF Piece
    <3>2. QED
      BY <1>1, <1>3, <3>1, FirstIsLongest
  <2>2. RequiredPermission(method, path) =
        rules[CHOOSE i \in matching : \A j \in matching : i <= j].permission
    BY <1>3 DEF RequiredPermission
  <2>3. IntendedPermission(method, path) =
        rules[CHOOSE i \in matching : \A j \in matching :
                 Len(rules[j].prefix) <= Len(rules[i].prefix)].permission
    BY <1>3 DEF IntendedPermission
  <2>4. QED
    BY <2>1, <2>2, <2>3
<1>4. QED
  BY <1>2, <1>3

-------------------------------------------------------------------------------
(* The inductive invariant. *)

(* The state is well typed, rows refer to rows there are, and so do         *)
(* sessions.                                                                *)
RowsOK ==
    /\ status \in [User -> UserStatus \cup {None}]
    /\ hash \in [User -> Hash \cup {None}]
    /\ roles \in SUBSET Role
    /\ grants \in SUBSET (Role \X Permission)
    /\ members \in SUBSET (User \X Role)
    /\ \A u \in User : hash[u] # None => status[u] # None
    /\ \A g \in grants : g[1] \in roles
    /\ \A m \in members : status[m[1]] # None /\ m[2] \in roles

RequestsOK == request \in [Request -> RequestState]

SessionsOK ==
    /\ session \in [Browser -> User \cup {None}]
    /\ \A b \in Browser : session[b] # None => status[session[b]] # None

HistoryOK ==
    /\ faults \in 0..MaxFaults
    /\ lacking \subseteq Request
    /\ carried \subseteq Browser \cup Request
    /\ secret \in [User -> Password \cup {None}]
    /\ undone \subseteq User
    /\ since \in [Request -> SUBSET Role]

(* Which requests pass which stages.                                        *)
StageOK(q) ==
    /\ q.at = "waiting" <=> q.wish = None
    /\ q.at = "authenticating" => q.wish.kind = "call"
    /\ q.at = "authorizing" => q.wish.kind \in {"page", "call"}
    /\ q.at = "inserting" => q.wish.kind = "call" /\ q.wish.method = "POST"
    /\ q.at \in {"checking", "verifying", "rehashing", "entering"} => q.wish.kind = "login"
    /\ q.at \in {"seeding", "holding", "logging"} => q.wish.kind = "seed"
    /\ q.wish # None /\ q.wish.kind \in {"call", "login"} => q.user = q.wish.user

StagesOK == \A r \in Request : StageOK(request[r])

OneSeedHolds ==
    \A q, r \in Request : request[q].at = "holding" /\ request[r].at = "holding" => q = r

LoggingIn(r) == request[r].at \in {"verifying", "rehashing", "entering"}

(* Nobody deletes users or passwords.                                       *)
LoginsKnown ==
    \A r \in Request :
        /\ LoggingIn(r) => status[request[r].user] # None
        /\ request[r].at = "rehashing" => hash[request[r].user] # None

(* Who lacked the right when the request was sent, and has not got it       *)
(* since, lacks it still.                                                   *)
LackingLack ==
    \A r \in lacking :
        \/ request[r].at = "answered"
        \/ /\ request[r].at \in {"authenticating", "authorizing"}
           /\ ~ Entitled(r)

(* A login on its way is like a session: it is older than the block.        *)
LoginsCarried ==
    \A r \in Request : LoggingIn(r) /\ status[request[r].user] # "active" => r \in carried

(* The password that a rehash is about to store was right when it was       *)
(* verified.                                                                *)
RehashSafe ==
    \A r \in Request :
        request[r].at = "rehashing" =>
            \/ request[r].wish.password = secret[request[r].user]
            \/ request[r].user \in undone

(* A code that somebody looked for in vain, and that is there now, has been *)
(* noted.                                                                   *)
SeenRemain == \A r \in Request : request[r].seen \subseteq roles

CodesNoted ==
    \A r \in Request :
        /\ request[r].at = "inserting" /\ request[r].wish.target \in roles =>
              request[r].wish.target \in since[r]
        /\ request[r].at = "seeding" => SeedMissing(r) \cap roles \subseteq since[r]

IInv ==
    /\ RowsOK
    /\ RequestsOK
    /\ SessionsOK
    /\ HistoryOK
    /\ StagesOK
    /\ OneSeedHolds
    /\ LoginsKnown
    /\ LackingLack
    /\ LoginsCarried
    /\ BlockedOnlyByOldSession
    /\ RehashSafe
    /\ OldPasswordOnlyByOverlap
    /\ SeenRemain
    /\ CodesNoted
    /\ RoleClashOnlyByOverlap

LEMMA WishFields ==
    ASSUME NEW w \in Wish
    PROVE  /\ w # None
           /\ w.kind \in {"page", "call", "login", "assign", "revoke", "seed"}
           /\ w.kind = "page" =>
                 w.browser \in Browser /\ w.method \in Method /\ w.path \in Seq(STRING)
           /\ w.kind = "call" =>
                 /\ w.user \in User /\ w.method \in Method /\ w.path \in Seq(STRING)
                 /\ w.method # "POST" => w.target \in User
                 /\ w.method = "POST" => w.target \in Role
           /\ w.kind = "login" =>
                 w.browser \in Browser /\ w.user \in User /\ w.password \in Password
           /\ w.kind \in {"assign", "revoke"} => w.user \in User /\ w.role \in Role
           /\ w.kind = "seed" => w.reset \in BOOLEAN
<1>1. w \in Wishes /\ w # None
  BY AccessAssumption
<1>2. CASE w \in [kind: {"page"}, browser: Browser, method: Method, path: Seq(STRING)]
  BY <1>1, <1>2
<1>3. CASE w \in [kind: {"call"}, user: User, method: Method \ {"POST"},
                  path: Seq(STRING), target: User]
  BY <1>1, <1>3
<1>4. CASE w \in [kind: {"call"}, user: User, method: {"POST"}, path: Seq(STRING),
                  target: Role]
  BY <1>1, <1>4 DEF Method
<1>5. CASE w \in [kind: {"login"}, browser: Browser, user: User, password: Password,
                  dashboard: BOOLEAN]
  BY <1>1, <1>5
<1>6. CASE w \in [kind: {"assign", "revoke"}, user: User, role: Role]
  BY <1>1, <1>6
<1>7. CASE w \in [kind: {"seed"}, reset: BOOLEAN]
  BY <1>1, <1>7
<1>8. QED
  BY <1>1, <1>2, <1>3, <1>4, <1>5, <1>6, <1>7 DEF Wishes

LEMMA NoneApart ==
    /\ None \notin User /\ None \notin UserStatus /\ None \notin Hash
    /\ None \notin Password /\ None \notin Answer
    /\ None # "active" /\ None # "blocked"
BY AccessAssumption DEF UserStatus

LEMMA SeedTypes ==
    /\ SeedRoles \subseteq Role /\ "admin" \in Role /\ "admin" \in SeedRoles
    /\ SeedGrants \subseteq Role \X Permission
    /\ \A g \in SeedGrants : g[1] \in SeedRoles
BY AccessAssumption DEF SeedRoles, Permission

LEMMA RecordFields ==
    ASSUME NEW q \in RequestState
    PROVE  /\ q.wish \in Wish \cup {None} /\ q.at \in Stage /\ q.user \in User \cup {None}
           /\ q.seen \in SUBSET Role /\ q.answer \in Answer \cup {None}
BY DEF RequestState

LEMMA InvariantHoldsInitially == Init => IInv
<1> SUFFICES ASSUME Init PROVE IInv
  OBVIOUS
<1>1. PICK t \in InitialTables :
         /\ status = t.status /\ hash = t.hash /\ roles = t.roles
         /\ grants = t.grants /\ members = t.members
         /\ secret = [u \in User |-> IF t.hash[u] = None THEN None ELSE t.hash[u].password]
  BY DEF Init
<1>2. t \in Tables
  BY AccessAssumption
<1>3. RowsOK
  BY <1>1, <1>2 DEF RowsOK, Tables, Columns
<1>4. /\ Waiting \in RequestState /\ StageOK(Waiting)
      /\ Waiting.at = "waiting" /\ Waiting.seen = {} /\ Waiting.answer = None
  BY DEF Waiting, RequestState, Stage, StageOK
<1>5. request \in [Request -> RequestState] /\ \A r \in Request : request[r] = Waiting
  BY <1>4 DEF Init
<1>6. RequestsOK /\ StagesOK /\ SessionsOK
  BY <1>4, <1>5 DEF Init, RequestsOK, StagesOK, SessionsOK
<1>7. \A u \in User : hash[u] # None => hash[u].password \in Password
  BY <1>3 DEF RowsOK, Hash
<1>8. HistoryOK
  <2>1. secret \in [User -> Password \cup {None}]
    BY <1>1, <1>7
  <2>2. QED
    BY <2>1, AccessAssumption DEF Init, HistoryOK
<1>9. OneSeedHolds /\ LoginsKnown /\ LoginsCarried /\ RehashSafe /\ CodesNoted
  BY <1>4, <1>5 DEF OneSeedHolds, LoginsKnown, LoginsCarried, RehashSafe, CodesNoted, LoggingIn
<1>10. LackingLack /\ BlockedOnlyByOldSession
  BY DEF Init, LackingLack, BlockedOnlyByOldSession
<1>11. OldPasswordOnlyByOverlap
  BY <1>1 DEF OldPasswordOnlyByOverlap
<1>12. SeenRemain /\ RoleClashOnlyByOverlap
  BY <1>4, <1>5, AccessAssumption DEF SeenRemain, RoleClashOnlyByOverlap, Answer
<1>13. QED
  BY <1>3, <1>6, <1>8, <1>9, <1>10, <1>11, <1>12 DEF IInv

-------------------------------------------------------------------------------
(* What one step does to its request. *)

LEMMA Gone ==
    ASSUME RequestsOK, NEW r \in Request, NEW stage \in Stage, Go(r, stage)
    PROVE  /\ request' \in [Request -> RequestState]
           /\ \A q \in Request : q # r => request'[q] = request[q]
           /\ request'[r].at = stage /\ request'[r].wish = request[r].wish
           /\ request'[r].user = request[r].user /\ request'[r].seen = request[r].seen
           /\ request'[r].answer = request[r].answer
<1>1. request[r] \in RequestState
  BY DEF RequestsOK
<1>2. [request[r] EXCEPT !.at = stage] \in RequestState
  BY <1>1 DEF RequestState
<1>3. request' = [request EXCEPT ![r] = [request[r] EXCEPT !.at = stage]]
  BY DEF Go
<1>4. QED
  BY <1>1, <1>2, <1>3 DEF RequestsOK, RequestState

LEMMA Replied ==
    ASSUME RequestsOK, NEW r \in Request, NEW answer \in Answer, Reply(r, answer)
    PROVE  /\ request' \in [Request -> RequestState]
           /\ \A q \in Request : q # r => request'[q] = request[q]
           /\ request'[r].at = "answered" /\ request'[r].wish = request[r].wish
           /\ request'[r].user = request[r].user /\ request'[r].seen = request[r].seen
           /\ request'[r].answer = answer
<1>1. request[r] \in RequestState
  BY DEF RequestsOK
<1>2. [request[r] EXCEPT !.at = "answered", !.answer = answer] \in RequestState
  BY <1>1 DEF RequestState, Stage
<1>3. request' = [request EXCEPT ![r] =
                     [request[r] EXCEPT !.at = "answered", !.answer = answer]]
  BY DEF Reply
<1>4. QED
  BY <1>1, <1>2, <1>3 DEF RequestsOK, RequestState

(* Where the steps other than Arrive lead: of the request itself they move  *)
(* the stage and the answer.                                                *)
Moved(r, stages) ==
    /\ request' \in [Request -> RequestState]
    /\ \A q \in Request : q # r => request'[q] = request[q]
    /\ request'[r].wish = request[r].wish
    /\ request'[r].user = request[r].user
    /\ request'[r].seen = request[r].seen
    /\ \/ request'[r].at \in stages /\ request'[r].answer = request[r].answer
       \/ request'[r].at = "answered" /\ request'[r].answer \in Answer

LEMMA MovedByGo ==
    ASSUME RequestsOK, NEW r \in Request, NEW stage \in Stage, Go(r, stage)
    PROVE  Moved(r, {stage})
BY Gone DEF Moved

LEMMA MovedByReply ==
    ASSUME RequestsOK, NEW r \in Request, NEW answer \in Answer, Reply(r, answer)
    PROVE  Moved(r, {})
BY Replied DEF Moved

(* A request for w.                                                         *)
Arrival(r, w) ==
    LET u == CASE w.kind = "page" -> session[w.browser]
               [] w.kind = "seed" -> root
               [] OTHER -> w.user
    IN /\ request[r].at = "waiting"
       /\ w.kind \in {"page", "login"} => BrowserFree(w.browser)
       /\ request' = [request EXCEPT ![r] = request'[r]]
       /\ \A q \in Request : q # r => request'[q] = request[q]
       /\ request'[r].wish = w
       /\ request'[r].user = u
       /\ request'[r].at = CASE w.kind = "page" -> "authorizing"
                             [] w.kind = "call" -> "authenticating"
                             [] w.kind = "login" -> "checking"
                             [] w.kind = "seed" -> "seeding"
                             [] OTHER -> "served"
       /\ request'[r].seen = IF w.kind = "seed" THEN roles ELSE {}
       /\ request'[r].answer = None
       /\ request'[r] = [wish |-> request'[r].wish, at |-> request'[r].at,
                         user |-> request'[r].user, seen |-> request'[r].seen,
                         answer |-> request'[r].answer]
       /\ lacking' = IF w.kind \in {"page", "call"} /\ Lacks(u, w)
                     THEN lacking \cup {r} ELSE lacking

LEMMA Arrived ==
    ASSUME RequestsOK, NEW r \in Request, Arrive(r)
    PROVE  \E w \in Wish : Arrival(r, w)
<1> DEFINE User_(w) == CASE w.kind = "page" -> session[w.browser]
                         [] w.kind = "seed" -> root
                         [] OTHER -> w.user
           At_(w) == CASE w.kind = "page" -> "authorizing"
                       [] w.kind = "call" -> "authenticating"
                       [] w.kind = "login" -> "checking"
                       [] w.kind = "seed" -> "seeding"
                       [] OTHER -> "served"
           Seen_(w) == IF w.kind = "seed" THEN roles ELSE {}
<1>1. PICK w \in Wish :
         /\ w.kind \in {"page", "login"} => BrowserFree(w.browser)
         /\ request' = [request EXCEPT ![r] =
               [wish |-> w, user |-> User_(w), at |-> At_(w), seen |-> Seen_(w),
                answer |-> None]]
         /\ lacking' = IF w.kind \in {"page", "call"} /\ Lacks(User_(w), w)
                       THEN lacking \cup {r} ELSE lacking
  BY DEF Arrive
<1>2. request[r].at = "waiting"
  BY DEF Arrive
<1> HIDE DEF User_, At_, Seen_
<1>4. request'[r] = [wish |-> w, user |-> User_(w), at |-> At_(w), seen |-> Seen_(w),
                     answer |-> None]
  BY <1>1 DEF RequestsOK
<1>5. request' = [request EXCEPT ![r] = request'[r]]
  BY <1>1, <1>4
<1>6. \A q \in Request : q # r => request'[q] = request[q]
  BY <1>1 DEF RequestsOK
<1>7. /\ request'[r].wish = w /\ request'[r].at = At_(w) /\ request'[r].user = User_(w)
      /\ request'[r].seen = Seen_(w) /\ request'[r].answer = None
  BY <1>4
<1>8. QED
  BY <1>1, <1>2, <1>4, <1>5, <1>6, <1>7 DEF User_, At_, Seen_, Arrival

LEMMA MovedFurther ==
    ASSUME NEW r \in Request, NEW S, NEW T, S \subseteq T, Moved(r, S)
    PROVE  Moved(r, T)
BY DEF Moved

LEMMA Moves ==
    ASSUME RequestsOK, NEW r \in Request
    PROVE  /\ Authenticate(r) => Moved(r, {"authorizing"})
           /\ Authorize(r) => Moved(r, {"served"})
           /\ AnswerPage(r) \/ AnswerRead(r) \/ SetStatus(r) => Moved(r, {})
           /\ StartCreateRole(r) => Moved(r, {"inserting"})
           /\ InsertRole(r) \/ Assign(r) \/ Revoke(r) => Moved(r, {})
           /\ CheckLogin(r) => Moved(r, {"verifying"})
           /\ Verify(r) => Moved(r, {"rehashing", "entering"})
           /\ Rehash(r) => Moved(r, {"entering"})
           /\ Enter(r) => Moved(r, {})
           /\ SeedWrite(r) => Moved(r, {"holding"})
           /\ SeedCommit(r) => Moved(r, {"logging"})
           /\ SeedLog(r) \/ Fail(r) => Moved(r, {})
<1>1. \A answer \in Answer : Reply(r, answer) => Moved(r, {})
  BY MovedByReply
<1>2. \A stage \in Stage : Go(r, stage) => Moved(r, {stage})
  BY MovedByGo
<1>3. \A answer \in Answer, stage \in Stage : Reply(r, answer) => Moved(r, {stage})
  BY <1>1, MovedFurther
<1>4. /\ Reply(r, "ok") \/ Reply(r, "refused") \/ Reply(r, "not_found")
            \/ Reply(r, "conflict") \/ Reply(r, "duplicate") \/ Reply(r, "failed")
            => Moved(r, {}) /\ \A stage \in Stage : Moved(r, {stage})
      /\ {"authorizing", "served", "inserting", "verifying", "rehashing", "entering",
          "holding", "logging"} \subseteq Stage
  BY <1>1, <1>3 DEF Answer, Stage
<1>5. Authenticate(r) => Moved(r, {"authorizing"})
  BY <1>2, <1>4 DEF Authenticate
<1>6. Authorize(r) => Moved(r, {"served"})
  BY <1>2, <1>4 DEF Authorize
<1>7. AnswerPage(r) \/ AnswerRead(r) \/ SetStatus(r) => Moved(r, {})
  BY <1>4 DEF AnswerPage, AnswerRead, SetStatus
<1>8. StartCreateRole(r) => Moved(r, {"inserting"})
  BY <1>2, <1>4 DEF StartCreateRole
<1>9. InsertRole(r) \/ Assign(r) \/ Revoke(r) => Moved(r, {})
  BY <1>4 DEF InsertRole, Assign, Revoke
<1>10. CheckLogin(r) => Moved(r, {"verifying"})
  BY <1>2, <1>4 DEF CheckLogin
<1>11. Verify(r) => Moved(r, {"rehashing", "entering"})
  <2> SUFFICES ASSUME Verify(r) PROVE Moved(r, {"rehashing", "entering"})
    OBVIOUS
  <2>1. Reply(r, "refused") \/ Go(r, "rehashing") \/ Go(r, "entering")
    BY DEF Verify
  <2>2. Moved(r, {}) \/ Moved(r, {"rehashing"}) \/ Moved(r, {"entering"})
    BY <1>2, <1>4, <2>1
  <2>3. QED
    BY <2>2 DEF Moved
<1>12. Rehash(r) => Moved(r, {"entering"})
  BY <1>2, <1>4 DEF Rehash
<1>13. Enter(r) => Moved(r, {})
  BY <1>4 DEF Enter
<1>14. SeedWrite(r) => Moved(r, {"holding"})
  BY <1>2, <1>4 DEF SeedWrite
<1>15. SeedCommit(r) => Moved(r, {"logging"})
  BY <1>2, <1>4 DEF SeedCommit
<1>16. SeedLog(r) \/ Fail(r) => Moved(r, {})
  BY <1>4 DEF SeedLog, Fail
<1>17. QED
  BY <1>5, <1>6, <1>7, <1>8, <1>9, <1>10, <1>11, <1>12, <1>13, <1>14, <1>15, <1>16

(* The stages keep to the kinds.                                            *)
LEMMA StagesKept ==
    ASSUME RequestsOK, SessionsOK, RowsOK, StagesOK, NEW r \in Request, Step(r)
    PROVE  RequestsOK' /\ StagesOK'
<1>1. CASE Arrive(r)
  <2>1. PICK w \in Wish : Arrival(r, w)
    BY <1>1, Arrived
  <2>2. request'[r].user \in User \cup {None}
    BY <2>1, WishFields, AccessAssumption DEF SessionsOK, Arrival
  <2>3. request'[r].at \in Stage /\ request'[r].seen \in SUBSET Role
    BY <2>1 DEF Stage, RowsOK, Arrival
  <2>4. request'[r] \in RequestState
    BY <2>1, <2>2, <2>3 DEF RequestState, Arrival
  <2>5. request' \in [Request -> RequestState]
    BY <2>1, <2>4 DEF RequestsOK, Arrival
  <2>6. StageOK(request'[r])
    BY <2>1, WishFields DEF StageOK, Arrival
  <2>7. QED
    BY <2>1, <2>5, <2>6 DEF RequestsOK, StagesOK, Arrival
<1>2. ASSUME NEW stages, Moved(r, stages), StageOK(request'[r])
      PROVE  RequestsOK' /\ StagesOK'
  BY <1>2 DEF Moved, RequestsOK, StagesOK
<1>3. request[r].at # "waiting" => request[r].wish # None
  BY DEF StagesOK, StageOK
<1>4. ASSUME NEW stages, Moved(r, stages), request[r].at # "waiting", stages = {}
      PROVE  StageOK(request'[r])
  BY <1>3, <1>4 DEF Moved, StagesOK, StageOK
<1>5. CASE Authenticate(r)
  <2>1. Moved(r, {"authorizing"}) /\ request[r].at # "waiting" /\ Kind(r) = "call"
    BY <1>5, Moves DEF Authenticate, At
  <2>2. StageOK(request'[r])
    BY <1>3, <2>1 DEF Moved, StagesOK, StageOK, Kind
  <2>3. QED
    BY <1>2, <2>1, <2>2
<1>6. CASE Authorize(r)
  <2>1. Moved(r, {"served"}) /\ request[r].at # "waiting"
    BY <1>6, Moves DEF Authorize, At
  <2>2. StageOK(request'[r])
    BY <1>3, <2>1 DEF Moved, StagesOK, StageOK
  <2>3. QED
    BY <1>2, <2>1, <2>2
<1>7. CASE StartCreateRole(r)
  <2>1. /\ Moved(r, {"inserting"}) /\ request[r].at # "waiting"
        /\ Kind(r) = "call" /\ request[r].wish.method = "POST"
    BY <1>7, Moves DEF StartCreateRole, At
  <2>2. StageOK(request'[r])
    BY <1>3, <2>1 DEF Moved, StagesOK, StageOK, Kind
  <2>3. QED
    BY <1>2, <2>1, <2>2
<1>8. CASE CheckLogin(r) \/ Verify(r) \/ Rehash(r)
  <2>1. /\ Moved(r, {"verifying", "rehashing", "entering"}) /\ request[r].at # "waiting"
        /\ request[r].at \in {"checking", "verifying", "rehashing"}
    BY <1>8, Moves DEF CheckLogin, Verify, Rehash, At, Moved
  <2>2. StageOK(request'[r])
    BY <1>3, <2>1 DEF Moved, StagesOK, StageOK
  <2>3. QED
    BY <1>2, <2>1, <2>2
<1>9. CASE SeedWrite(r) \/ SeedCommit(r)
  <2>1. /\ Moved(r, {"holding", "logging"}) /\ request[r].at # "waiting"
        /\ request[r].at \in {"seeding", "holding"}
    BY <1>9, Moves DEF SeedWrite, SeedCommit, Moved
  <2>2. StageOK(request'[r])
    BY <1>3, <2>1 DEF Moved, StagesOK, StageOK
  <2>3. QED
    BY <1>2, <2>1, <2>2
<1>10. CASE \/ AnswerPage(r) \/ AnswerRead(r) \/ SetStatus(r) \/ InsertRole(r) \/ Assign(r)
            \/ Revoke(r) \/ Enter(r) \/ SeedLog(r) \/ Fail(r)
  <2>1. Moved(r, {})
    BY <1>10, Moves
  <2>2. request[r].at # "waiting"
    BY <1>10 DEF AnswerPage, AnswerRead, SetStatus, InsertRole, Assign, Revoke, Enter,
       SeedLog, Fail, At, Busy
  <2>3. QED
    BY <1>2, <1>4, <2>1, <2>2
<1>11. QED
  BY <1>1, <1>5, <1>6, <1>7, <1>8, <1>9, <1>10 DEF Step

-------------------------------------------------------------------------------
(* The tables. *)

(* The steps that leave them alone.                                         *)
Aside(r) ==
    \/ Arrive(r) \/ Authenticate(r) \/ Authorize(r) \/ AnswerPage(r) \/ AnswerRead(r)
    \/ StartCreateRole(r) \/ CheckLogin(r) \/ Verify(r) \/ Enter(r)
    \/ SeedWrite(r) \/ SeedLog(r) \/ Fail(r)

LEMMA AsideChangesNoTable ==
    ASSUME NEW r \in Request, Aside(r)
    PROVE  /\ status' = status /\ hash' = hash /\ roles' = roles
           /\ grants' = grants /\ members' = members
BY DEF Aside, Arrive, Authenticate, Authorize, AnswerPage, AnswerRead, StartCreateRole,
   CheckLogin, Verify, Enter, SeedWrite, SeedLog, Fail, tables

LEMMA Steps ==
    ASSUME NEW r \in Request, Step(r)
    PROVE  Aside(r) \/ SetStatus(r) \/ InsertRole(r) \/ Assign(r) \/ Revoke(r)
               \/ Rehash(r) \/ SeedCommit(r)
BY DEF Step, Aside

(* Of what a request asks for, by its stage.                                *)
LEMMA Served ==
    ASSUME RequestsOK, StagesOK, NEW r \in Request, request[r].at # "waiting"
    PROVE  /\ request[r].wish \in Wish
           /\ request[r].wish.kind = "login" =>
                 /\ request[r].user \in User /\ request[r].wish.password \in Password
                 /\ request[r].wish.user = request[r].user
                 /\ request[r].wish.browser \in Browser
           /\ request[r].wish.kind = "call" =>
                 /\ request[r].user \in User
                 /\ request[r].wish.method # "POST" => request[r].wish.target \in User
                 /\ request[r].wish.method = "POST" => request[r].wish.target \in Role
           /\ request[r].wish.kind \in {"assign", "revoke"} =>
                 request[r].wish.user \in User /\ request[r].wish.role \in Role
           /\ request[r].wish.kind = "seed" => request[r].wish.reset \in BOOLEAN
<1>1. request[r].wish \in Wish
  BY RecordFields DEF RequestsOK, StagesOK, StageOK
<1>2. StageOK(request[r])
  BY DEF StagesOK
<1>3. QED
  BY <1>1, <1>2, WishFields DEF StageOK

LEMMA Deleting ==
    ASSUME RequestsOK, StagesOK, NEW r \in Request, SetStatus(r)
    PROVE  /\ request[r].wish.target \in User
           /\ \/ status' = status /\ carried' = carried
              \/ /\ status[request[r].wish.target] # None
                 /\ \/ /\ status' = [status EXCEPT ![request[r].wish.target] = "active"]
                       /\ carried' = carried
                    \/ /\ status' = [status EXCEPT ![request[r].wish.target] = "blocked"]
                       /\ carried' = carried
                            \cup {b \in Browser : session[b] = request[r].wish.target}
                            \cup {q \in Request :
                                     /\ request[q].user = request[r].wish.target
                                     /\ request[q].at \in {"verifying", "rehashing", "entering"}}
           /\ hash' = hash /\ roles' = roles /\ grants' = grants /\ members' = members
           /\ session' = session
<1>1. request[r].at = "served" /\ request[r].wish.kind = "call"
      /\ request[r].wish.method # "POST"
  BY DEF SetStatus, At, Kind
<1>2. request[r].wish.target \in User
  BY <1>1, Served
<1>3. QED
  BY <1>2 DEF SetStatus

LEMMA RowsKept ==
    ASSUME RowsOK, RequestsOK, StagesOK, LoginsKnown, NEW r \in Request, Step(r)
    PROVE  RowsOK'
<1>1. CASE Aside(r)
  BY <1>1, AsideChangesNoTable DEF RowsOK
<1>2. CASE SetStatus(r)
  <2>1. CASE status' = status
    BY <1>2, <2>1, Deleting DEF RowsOK
  <2>2. CASE status' # status
    <3>1. PICK s \in {"active", "blocked"} :
             status' = [status EXCEPT ![request[r].wish.target] = s]
      BY <1>2, <2>2, Deleting
    <3>2. status' \in [User -> UserStatus \cup {None}]
          /\ \A u \in User : status[u] # None => status'[u] # None
      BY <1>2, <3>1, Deleting, NoneApart DEF RowsOK, UserStatus
    <3>3. /\ hash' = hash /\ roles' = roles /\ grants' = grants /\ members' = members
          /\ \A m \in members : m[1] \in User
      BY <1>2, Deleting DEF RowsOK
    <3>4. QED
      BY <3>2, <3>3 DEF RowsOK
  <2>3. QED
    BY <2>1, <2>2
<1>3. CASE InsertRole(r)
  <2>1. request[r].wish.target \in Role
    <3>1. request[r].at = "inserting"
      BY <1>3 DEF InsertRole
    <3>2. QED
      BY <3>1, Served DEF StagesOK, StageOK
  <2>2. roles' \in SUBSET Role /\ roles \subseteq roles'
    BY <1>3, <2>1 DEF InsertRole, RowsOK
  <2>3. status' = status /\ hash' = hash /\ grants' = grants /\ members' = members
    BY <1>3 DEF InsertRole
  <2>4. QED
    BY <2>2, <2>3 DEF RowsOK
<1>4. CASE Assign(r)
  <2>1. request[r].wish.user \in User /\ request[r].wish.role \in Role
    BY <1>4, Served DEF Assign, At, Kind
  <2>2. status' = status /\ hash' = hash /\ roles' = roles /\ grants' = grants
    BY <1>4 DEF Assign
  <2>3. \/ members' = members
        \/ /\ members' = members \cup {<<request[r].wish.user, request[r].wish.role>>}
           /\ status[request[r].wish.user] # None /\ request[r].wish.role \in roles
    BY <1>4 DEF Assign
  <2>4. members' \in SUBSET (User \X Role)
        /\ \A m \in members' : status[m[1]] # None /\ m[2] \in roles
    BY <2>1, <2>3 DEF RowsOK
  <2>5. QED
    BY <2>2, <2>4 DEF RowsOK
<1>5. CASE Revoke(r)
  <2>1. /\ status' = status /\ hash' = hash /\ roles' = roles /\ grants' = grants
        /\ members' \subseteq members
    BY <1>5 DEF Revoke
  <2>2. QED
    BY <2>1 DEF RowsOK
<1>6. CASE Rehash(r)
  <2>1. /\ request[r].at = "rehashing" /\ request[r].wish.kind = "login"
    BY <1>6 DEF Rehash, StagesOK, StageOK
  <2>2. /\ request[r].user \in User /\ request[r].wish.password \in Password
        /\ status[request[r].user] # None
    BY <2>1, Served DEF LoginsKnown, LoggingIn
  <2>3. [password |-> request[r].wish.password, outdated |-> FALSE] \in Hash
    BY <2>2 DEF Hash
  <2>4. /\ hash' = [hash EXCEPT ![request[r].user] =
                       [password |-> request[r].wish.password, outdated |-> FALSE]]
        /\ status' = status /\ roles' = roles /\ grants' = grants /\ members' = members
    BY <1>6 DEF Rehash
  <2>5. hash' \in [User -> Hash \cup {None}]
        /\ \A u \in User : hash'[u] # None => status[u] # None
    BY <2>2, <2>3, <2>4 DEF RowsOK
  <2>6. QED
    BY <2>4, <2>5 DEF RowsOK
<1>7. CASE SeedCommit(r)
  <2>1. /\ status' = [status EXCEPT ![root] = "active"]
        /\ hash' = [hash EXCEPT ![root] = SeedHash(r)]
        /\ roles' = roles \cup SeedRoles
        /\ grants' = grants \cup SeedGrants
        /\ members' = members \cup {<<root, "admin">>}
    BY <1>7 DEF SeedCommit, SeedMembers
  <2>2. status' \in [User -> UserStatus \cup {None}]
        /\ status'[root] # None /\ \A u \in User : status[u] # None => status'[u] # None
    BY <2>1, NoneApart, AccessAssumption DEF RowsOK, UserStatus
  <2>3. SeedHash(r) \in Hash
    <3>1. [password |-> default, outdated |-> FALSE] \in Hash
      BY AccessAssumption DEF Hash
    <3>2. QED
      BY <3>1, AccessAssumption DEF SeedHash, RowsOK
  <2>4. hash' \in [User -> Hash \cup {None}]
        /\ \A u \in User : hash'[u] # None => status'[u] # None
    BY <2>1, <2>2, <2>3 DEF RowsOK
  <2>5. roles' \in SUBSET Role /\ grants' \in SUBSET (Role \X Permission)
        /\ \A g \in grants' : g[1] \in roles'
    BY <2>1, SeedTypes DEF RowsOK
  <2>6. members' \in SUBSET (User \X Role)
        /\ \A m \in members' : status'[m[1]] # None /\ m[2] \in roles'
    BY <2>1, <2>2, SeedTypes, AccessAssumption DEF RowsOK
  <2>7. QED
    BY <2>2, <2>4, <2>5, <2>6 DEF RowsOK
<1>8. QED
  BY <1>1, <1>2, <1>3, <1>4, <1>5, <1>6, <1>7, Steps

(* Users stay, with a password if they had one, and so do roles.            *)
LEMMA NobodyVanishes ==
    ASSUME RowsOK, RequestsOK, StagesOK, LoginsKnown, NEW r \in Request, Step(r)
    PROVE  /\ \A u \in User : status[u] # None => status'[u] # None
           /\ \A u \in User : hash[u] # None => hash'[u] # None
           /\ roles \subseteq roles'
<1>1. CASE Aside(r)
  BY <1>1, AsideChangesNoTable
<1>2. CASE SetStatus(r)
  BY <1>2, Deleting, NoneApart DEF RowsOK
<1>3. CASE InsertRole(r) \/ Assign(r) \/ Revoke(r)
  BY <1>3 DEF InsertRole, Assign, Revoke
<1>4. CASE Rehash(r)
  <2>1. request[r].wish.password \in Password
    BY <1>4, Served DEF Rehash, StagesOK, StageOK
  <2>2. [password |-> request[r].wish.password, outdated |-> FALSE] # None
    <3>1. [password |-> request[r].wish.password, outdated |-> FALSE] \in Hash
      BY <2>1 DEF Hash
    <3>2. QED
      BY <3>1, NoneApart
  <2>3. QED
    BY <1>4, <2>2 DEF Rehash, RowsOK
<1>5. CASE SeedCommit(r)
  <2>1. [password |-> default, outdated |-> FALSE] # None
    <3>1. [password |-> default, outdated |-> FALSE] \in Hash
      BY AccessAssumption DEF Hash
    <3>2. QED
      BY <3>1, NoneApart
  <2>2. SeedHash(r) # None
    BY <2>1 DEF SeedHash
  <2>3. QED
    BY <1>5, <2>2, NoneApart DEF SeedCommit, RowsOK
<1>6. QED
  BY <1>1, <1>2, <1>3, <1>4, <1>5, Steps

(* Where a login may have come from.                                        *)
LEMMA LoginMoves ==
    ASSUME RequestsOK, SessionsOK, StagesOK, NEW r \in Request, Step(r)
    PROVE  \A q \in Request :
              /\ LoggingIn(q)' => /\ request'[q].user = request[q].user
                                  /\ request'[q].wish = request[q].wish
              /\ LoggingIn(q)' /\ ~ LoggingIn(q) =>
                    q = r /\ CheckLogin(r) /\ status[request[r].user] = "active"
              /\ request'[q].at = "rehashing" /\ request[q].at # "rehashing" =>
                    /\ q = r /\ Verify(r) /\ hash[request[r].user] # None
                    /\ hash[request[r].user].password = request[r].wish.password
<1> DEFINE Fine(q) ==
       /\ LoggingIn(q)' => /\ request'[q].user = request[q].user
                           /\ request'[q].wish = request[q].wish
       /\ LoggingIn(q)' /\ ~ LoggingIn(q) =>
             q = r /\ CheckLogin(r) /\ status[request[r].user] = "active"
       /\ request'[q].at = "rehashing" /\ request[q].at # "rehashing" =>
             /\ q = r /\ Verify(r) /\ hash[request[r].user] # None
             /\ hash[request[r].user].password = request[r].wish.password
<1>1. CASE Arrive(r)
  <2>1. PICK w \in Wish : Arrival(r, w)
    BY <1>1, Arrived
  <2>2. \A q \in Request : q # r => request'[q] = request[q]
    BY <2>1 DEF Arrival
  <2>3. request'[r].at \notin {"verifying", "rehashing", "entering"}
    BY <2>1 DEF Arrival
  <2>4. QED
    BY <2>2, <2>3 DEF LoggingIn
<1>2. ASSUME NEW stages, Moved(r, stages), Fine(r)
      PROVE  \A q \in Request : Fine(q)
  BY <1>2 DEF Moved, LoggingIn
<1>3. ASSUME NEW stages, Moved(r, stages),
             stages \cap {"verifying", "rehashing", "entering"} = {}
      PROVE  Fine(r)
  BY <1>3 DEF Moved, LoggingIn
<1>4. CASE \/ AnswerPage(r) \/ AnswerRead(r) \/ SetStatus(r) \/ InsertRole(r) \/ Assign(r)
           \/ Revoke(r) \/ Enter(r) \/ SeedLog(r) \/ Fail(r)
  <2>1. Moved(r, {})
    BY <1>4, Moves
  <2>2. QED
    BY <1>2, <1>3, <2>1
<1>5. CASE Authenticate(r) \/ Authorize(r) \/ StartCreateRole(r) \/ SeedWrite(r) \/ SeedCommit(r)
  <2>1. Moved(r, {"authorizing", "served", "inserting", "holding", "logging"})
    BY <1>5, Moves DEF Moved
  <2>2. QED
    BY <1>2, <1>3, <2>1
<1>6. CASE CheckLogin(r)
  <2>1. Moved(r, {"verifying"})
    BY <1>6, Moves
  <2>2. status[request[r].user] # "active" => request'[r].at = "answered"
    <3>1. status[request[r].user] # "active" => Reply(r, "refused")
      BY <1>6 DEF CheckLogin, MayLogIn
    <3>2. QED
      BY <3>1, Replied DEF Answer
  <2>3. Fine(r)
    BY <1>6, <2>1, <2>2 DEF Moved, LoggingIn
  <2>4. QED
    BY <1>2, <2>1, <2>3
<1>7. CASE Verify(r)
  <2>1. Moved(r, {"rehashing", "entering"}) /\ request[r].at = "verifying"
    BY <1>7, Moves DEF Verify, At
  <2>2. hash[request[r].user] = None \/ hash[request[r].user].password # request[r].wish.password
           => request'[r].at = "answered"
    <3>1. hash[request[r].user] = None
             \/ hash[request[r].user].password # request[r].wish.password
          => Reply(r, "refused")
      BY <1>7 DEF Verify
    <3>2. QED
      BY <3>1, Replied DEF Answer
  <2>3. Fine(r)
    BY <1>7, <2>1, <2>2 DEF Moved, LoggingIn
  <2>4. QED
    BY <1>2, <2>1, <2>3
<1>8. CASE Rehash(r)
  <2>1. Moved(r, {"entering"}) /\ request[r].at = "rehashing"
    BY <1>8, Moves DEF Rehash
  <2>2. Fine(r)
    BY <2>1 DEF Moved, LoggingIn
  <2>3. QED
    BY <1>2, <2>1, <2>2
<1>9. QED
  BY <1>1, <1>4, <1>5, <1>6, <1>7, <1>8 DEF Step

LEMMA LoginsKnownKept ==
    ASSUME RowsOK, RequestsOK, SessionsOK, StagesOK, LoginsKnown, NEW r \in Request, Step(r)
    PROVE  LoginsKnown'
<1> SUFFICES ASSUME NEW q \in Request
             PROVE  /\ LoggingIn(q)' => status'[request'[q].user] # None
                    /\ request'[q].at = "rehashing" => hash'[request'[q].user] # None
  BY DEF LoginsKnown
<1>1. LoggingIn(q)' => request'[q].user \in User /\ request'[q].user = request[q].user
  <2>1. LoggingIn(q)' => request[q].at \in {"checking", "verifying", "rehashing", "entering"}
    BY LoginMoves DEF LoggingIn, CheckLogin, At
  <2>2. QED
    BY <2>1, LoginMoves, Served DEF StagesOK, StageOK
<1>2. LoggingIn(q)' => status[request[q].user] # None
  BY LoginMoves, NoneApart DEF LoginsKnown
<1>3. request'[q].at = "rehashing" => LoggingIn(q)' /\ hash[request[q].user] # None
  BY LoginMoves DEF LoginsKnown, LoggingIn
<1>4. QED
  BY <1>1, <1>2, <1>3, NobodyVanishes

(* Only these steps touch sessions.                                         *)
LEMMA SessionMoves ==
    ASSUME NEW r \in Request, Step(r)
    PROVE  session' = session \/ AnswerPage(r) \/ Enter(r)
BY DEF Step, Arrive, Authenticate, Authorize, AnswerRead, SetStatus, StartCreateRole,
   InsertRole, Assign, Revoke, CheckLogin, Verify, Rehash, SeedWrite, SeedCommit, SeedLog, Fail

LEMMA Entering ==
    ASSUME RequestsOK, StagesOK, SessionsOK, NEW r \in Request, Enter(r)
    PROVE  /\ request[r].at = "entering" /\ request[r].wish.browser \in Browser
           /\ request[r].user \in User /\ LoggingIn(r)
           /\ \/ session' = [session EXCEPT ![request[r].wish.browser] = None]
              \/ session' = [session EXCEPT ![request[r].wish.browser] = request[r].user]
           /\ status' = status
           /\ \/ /\ r \in carried
                 /\ carried' = (carried \ {r}) \cup {request[r].wish.browser}
              \/ /\ r \notin carried
                 /\ carried' = carried \ {request[r].wish.browser}
<1>1. request[r].at = "entering" /\ request[r].wish.kind = "login"
  BY DEF Enter, StagesOK, StageOK
<1>2. request[r].wish.browser \in Browser /\ request[r].user \in User
      /\ request[r].wish.user = request[r].user
  BY <1>1, Served
<1>3. QED
  BY <1>1, <1>2 DEF Enter, LoggingIn, tables

LEMMA SessionsKept ==
    ASSUME RowsOK, RequestsOK, SessionsOK, StagesOK, LoginsKnown, NEW r \in Request, Step(r)
    PROVE  SessionsOK'
<1>1. \A u \in User : status[u] # None => status'[u] # None
  BY NobodyVanishes
<1>2. CASE session' = session
  BY <1>1, <1>2, NoneApart DEF SessionsOK
<1>3. CASE AnswerPage(r)
  <2>1. /\ session' \in [Browser -> User \cup {None}]
        /\ \A b \in Browser : session'[b] = session[b] \/ session'[b] = None
    BY <1>3 DEF AnswerPage, SessionsOK
  <2>2. QED
    BY <1>1, <2>1, NoneApart DEF SessionsOK
<1>4. CASE Enter(r)
  <2>1. PICK u \in User \cup {None} :
           /\ session' = [session EXCEPT ![request[r].wish.browser] = u]
           /\ u = None \/ u = request[r].user
    BY <1>4, Entering
  <2>2. u # None => status'[u] # None
    BY <1>1, <1>4, <2>1, Entering DEF LoginsKnown
  <2>3. QED
    BY <1>1, <2>1, <2>2 DEF SessionsOK
<1>5. QED
  BY <1>2, <1>3, <1>4, SessionMoves

LEMMA HoldersKept ==
    ASSUME RequestsOK, SessionsOK, RowsOK, StagesOK, OneSeedHolds, NEW r \in Request, Step(r)
    PROVE  OneSeedHolds'
<1>1. \A q \in Request :
         request'[q].at = "holding" => request[q].at = "holding" \/ (q = r /\ ~ SeedHolds)
  <2>1. CASE Arrive(r)
    <3>1. PICK w \in Wish : Arrival(r, w)
      BY <2>1, Arrived
    <3>2. request'[r].at # "holding" /\ \A q \in Request : q # r => request'[q] = request[q]
      BY <3>1 DEF Arrival
    <3>3. QED
      BY <3>2
  <2>2. CASE SeedWrite(r)
    <3>1. ~ SeedHolds /\ Moved(r, {"holding"})
      BY <2>2, Moves DEF SeedWrite
    <3>2. QED
      BY <3>1 DEF Moved
  <2>3. CASE ~ Arrive(r) /\ ~ SeedWrite(r)
    <3>1. Moved(r, Stage \ {"holding"})
      BY <2>3, Moves DEF Step, Moved, Stage
    <3>2. QED
      BY <3>1 DEF Moved
  <2>4. QED
    BY <2>1, <2>2, <2>3
<1>2. QED
  BY <1>1 DEF OneSeedHolds, SeedHolds

-------------------------------------------------------------------------------
(* History, rights and blocks. *)

LEMMA HistoryKept ==
    ASSUME RequestsOK, SessionsOK, RowsOK, StagesOK, HistoryOK, NEW r \in Request, Step(r)
    PROVE  HistoryOK'
<1>1. since' \in [Request -> SUBSET Role]
  <2>1. \A codes \in SUBSET Role : NoteRoles(r, codes) => since' \in [Request -> SUBSET Role]
    BY DEF NoteRoles, HistoryOK
  <2>2. CASE InsertRole(r)
    <3>1. {request[r].wish.target} \in SUBSET Role
      BY <2>2, Served DEF InsertRole, StagesOK, StageOK
    <3>2. since' = since \/ NoteRoles(r, {request[r].wish.target})
      BY <2>2 DEF InsertRole
    <3>3. QED
      BY <2>1, <3>1, <3>2 DEF HistoryOK
  <2>3. CASE SeedCommit(r)
    <3>1. SeedMissing(r) \in SUBSET Role /\ NoteRoles(r, SeedMissing(r))
      BY <2>3, SeedTypes DEF SeedCommit, SeedMissing
    <3>2. QED
      BY <2>1, <3>1
  <2>4. CASE ~ InsertRole(r) /\ ~ SeedCommit(r)
    <3>1. since' = since
      BY <2>4 DEF Step, Arrive, Authenticate, Authorize, AnswerPage, AnswerRead, SetStatus,
         StartCreateRole, Assign, Revoke, CheckLogin, Verify, Rehash, Enter, SeedWrite, SeedLog,
         Fail, historyVars
    <3>2. QED
      BY <3>1 DEF HistoryOK
  <2>5. QED
    BY <2>2, <2>3, <2>4
<1>2. carried' \subseteq Browser \cup Request
  <2>1. CASE SetStatus(r)
    BY <2>1, Deleting DEF HistoryOK
  <2>2. CASE Enter(r)
    BY <2>2, Entering DEF HistoryOK
  <2>3. CASE ~ SetStatus(r) /\ ~ Enter(r)
    <3>1. carried' = carried
      BY <2>3 DEF Step, Arrive, Authenticate, Authorize, AnswerPage, AnswerRead, InsertRole,
         StartCreateRole, Assign, Revoke, CheckLogin, Verify, Rehash, SeedWrite, SeedCommit,
         SeedLog, Fail, historyVars
    <3>2. QED
      BY <3>1 DEF HistoryOK
  <2>4. QED
    BY <2>1, <2>2, <2>3
<1>3. secret' \in [User -> Password \cup {None}] /\ undone' \subseteq User
  <2>1. CASE SeedCommit(r)
    <3>1. secret' \in [User -> Password \cup {None}]
      BY <2>1, AccessAssumption DEF SeedCommit, HistoryOK
    <3>2. undone' \subseteq User
      BY <2>1, AccessAssumption DEF SeedCommit, HistoryOK
    <3>3. QED
      BY <3>1, <3>2
  <2>2. CASE ~ SeedCommit(r)
    <3>1. secret' = secret /\ undone' = undone
      BY <2>2 DEF Step, Arrive, Authenticate, Authorize, AnswerPage, AnswerRead, SetStatus,
         InsertRole, StartCreateRole, Assign, Revoke, CheckLogin, Verify, Rehash, Enter,
         SeedWrite, SeedLog, Fail, historyVars
    <3>2. QED
      BY <3>1 DEF HistoryOK
  <2>3. QED
    BY <2>1, <2>2
<1>4. lacking' \subseteq Request
  <2>1. CASE Arrive(r)
    <3>1. lacking' = lacking \/ lacking' = lacking \cup {r}
      BY <2>1, Arrived DEF Arrival
    <3>2. QED
      BY <3>1 DEF HistoryOK
  <2>2. CASE Assign(r) \/ SeedCommit(r)
    <3>1. lacking' \subseteq lacking
      BY <2>2 DEF Assign, SeedCommit
    <3>2. QED
      BY <3>1 DEF HistoryOK
  <2>3. CASE ~ Arrive(r) /\ ~ Assign(r) /\ ~ SeedCommit(r)
    <3>1. lacking' = lacking
      BY <2>3 DEF Step, Authenticate, Authorize, AnswerPage, AnswerRead, SetStatus,
         InsertRole, StartCreateRole, Revoke, CheckLogin, Verify, Rehash, Enter,
         SeedWrite, SeedLog, Fail, historyVars
    <3>2. QED
      BY <3>1 DEF HistoryOK
  <2>4. QED
    BY <2>1, <2>2, <2>3
<1>5. faults' \in 0..MaxFaults
  <2>1. CASE Fail(r)
    BY <2>1, AccessAssumption DEF Fail, HistoryOK
  <2>2. CASE ~ Fail(r)
    <3>1. faults' = faults
      BY <2>2 DEF Step, Arrive, Authenticate, Authorize, AnswerPage, AnswerRead, SetStatus,
         InsertRole, StartCreateRole, Assign, Revoke, CheckLogin, Verify, Rehash, Enter,
         SeedWrite, SeedCommit, SeedLog
    <3>2. QED
      BY <3>1 DEF HistoryOK
  <2>3. QED
    BY <2>1, <2>2
<1>6. QED
  BY <1>1, <1>2, <1>3, <1>4, <1>5 DEF HistoryOK

LEMMA EntitledSame ==
    ASSUME NEW q \in Request, members' = members, grants' = grants, request'[q].wish = request[q].wish,
           request'[q].user = request[q].user
    PROVE  Entitled(q)' <=> Entitled(q)
BY DEF Entitled, Lacks, Has

LEMMA LackingLackKept ==
    ASSUME RequestsOK, SessionsOK, RowsOK, StagesOK, HistoryOK, LackingLack,
           NEW r \in Request, Step(r)
    PROVE  LackingLack'
<1> SUFFICES ASSUME NEW q \in Request, q \in lacking'
             PROVE  \/ request'[q].at = "answered"
                    \/ /\ request'[q].at \in {"authenticating", "authorizing"}
                       /\ ~ Entitled(q)'
  BY HistoryKept DEF LackingLack, HistoryOK
<1>1. q \in lacking => \/ request[q].at = "answered"
                       \/ /\ request[q].at \in {"authenticating", "authorizing"}
                          /\ ~ Entitled(q)
  BY DEF LackingLack
<1>2. CASE Arrive(r)
  <2>1. PICK w \in Wish : Arrival(r, w)
    BY <1>2, Arrived
  <2>2. members' = members /\ grants' = grants
    BY <1>2 DEF Arrive, tables
  <2>3. CASE q # r
    <3>1. q \in lacking /\ request'[q] = request[q]
      BY <2>1, <2>3 DEF Arrival
    <3>2. QED
      BY <1>1, <2>2, <3>1, EntitledSame
  <2>4. CASE q = r
    <3>1. request[r].at = "waiting"
      BY <2>1 DEF Arrival
    <3>2. q \notin lacking
      BY <1>1, <2>4, <3>1
    <3>3. /\ w.kind \in {"page", "call"}
          /\ request'[q].at \in {"authenticating", "authorizing"}
          /\ request'[q].wish = w
      BY <2>1, <2>4, <3>2 DEF Arrival
    <3>4. Lacks(request'[q].user, w)
      BY <2>1, <2>4, <3>2 DEF Arrival
    <3>5. ~ Entitled(q)'
      BY <2>2, <3>3, <3>4 DEF Entitled, Lacks, Has
    <3>6. QED
      BY <3>3, <3>5
  <2>5. QED
    BY <2>3, <2>4
<1>3. CASE Assign(r) \/ SeedCommit(r)
  <2>1. q \in lacking /\ ~ Entitled(q)'
    BY <1>3 DEF Assign, SeedCommit
  <2>2. request[r].at \in {"served", "holding"}
    BY <1>3 DEF Assign, SeedCommit, At
  <2>3. q # r
    BY <1>1, <2>1, <2>2
  <2>4. request'[q] = request[q]
    BY <1>3, <2>3, Moves DEF Moved
  <2>5. QED
    BY <1>1, <2>1, <2>4
<1>4. CASE Authenticate(r)
  <2>1. Moved(r, {"authorizing"}) /\ members' = members /\ grants' = grants /\ lacking' = lacking
    BY <1>4, Moves DEF Authenticate, tables, historyVars
  <2>2. Entitled(q)' <=> Entitled(q)
    BY <2>1, EntitledSame DEF Moved
  <2>3. CASE q = r
    <3>1. request[q].at = "authenticating"
      BY <1>4, <2>3 DEF Authenticate, At
    <3>2. QED
      BY <1>1, <2>1, <2>2, <2>3, <3>1 DEF Moved
  <2>4. CASE q # r
    BY <1>1, <2>1, <2>2, <2>4 DEF Moved
  <2>5. QED
    BY <2>3, <2>4
<1>5. CASE Authorize(r)
  <2>1. Moved(r, {"served"}) /\ members' = members /\ grants' = grants /\ lacking' = lacking
    BY <1>5, Moves DEF Authorize, tables, historyVars
  <2>2. CASE q = r
    <3>1. /\ request[r].at = "authorizing" /\ request[r].wish.kind \in {"page", "call"}
          /\ Lacks(request[r].user, request[r].wish)
      BY <1>1, <1>5, <2>1, <2>2 DEF Authorize, At, Kind, Entitled
    <3>2. /\ request[r].wish.method \in Method /\ request[r].wish.path \in Seq(STRING)
      BY <3>1, Served, WishFields
    <3>3. /\ Needed(request[r].wish) # None
          /\ request[r].user = None \/ ~ Has(request[r].user, Needed(request[r].wish))
      BY <3>1 DEF Lacks
    <3>4. request[r].wish.path \notin PublicWebPaths
      BY <3>3 DEF Needed, IntendedPermission
    <3>5. RequiredPermission(request[r].wish.method, request[r].wish.path)
             = Needed(request[r].wish)
      BY <3>2, <3>4, RulesAgree DEF Needed
    <3>6. Reply(r, "refused")
      BY <1>5, <3>3, <3>4, <3>5 DEF Authorize
    <3>7. QED
      BY <2>2, <3>6, Replied DEF Answer
  <2>3. CASE q # r
    BY <1>1, <2>1, <2>3, EntitledSame DEF Moved
  <2>4. QED
    BY <2>2, <2>3
<1>6. CASE Revoke(r)
  <2>1. /\ members' \subseteq members /\ grants' = grants /\ lacking' = lacking
        /\ request[r].at = "served" /\ Moved(r, {})
    BY <1>6, Moves DEF Revoke, At, historyVars
  <2>2. q # r
    BY <1>1, <2>1
  <2>3. request'[q] = request[q]
    BY <2>1, <2>2 DEF Moved
  <2>4. ~ Entitled(q) => ~ Entitled(q)'
    BY <2>1, <2>3 DEF Entitled, Lacks, Has
  <2>5. QED
    BY <1>1, <2>1, <2>3, <2>4
<1>7. CASE \/ AnswerPage(r) \/ AnswerRead(r) \/ SetStatus(r) \/ StartCreateRole(r)
           \/ InsertRole(r) \/ CheckLogin(r) \/ Verify(r) \/ Rehash(r) \/ Enter(r)
           \/ SeedWrite(r) \/ SeedLog(r) \/ Fail(r)
  <2>1. members' = members /\ grants' = grants /\ lacking' = lacking
    BY <1>7 DEF AnswerPage, AnswerRead, SetStatus, InsertRole, StartCreateRole, CheckLogin,
       Verify, Rehash, Enter, SeedWrite, SeedLog, Fail, tables, historyVars
  <2>2. CASE q # r
    <3>1. request'[q] = request[q]
      BY <1>7, <2>2, Moves DEF Moved
    <3>2. QED
      BY <1>1, <2>1, <3>1, EntitledSame
  <2>3. CASE q = r
    <3>1. request[q].at \notin {"answered", "authenticating", "authorizing"} \/ Fail(r)
      BY <1>7, <2>3 DEF AnswerPage, AnswerRead, SetStatus, InsertRole, StartCreateRole,
         CheckLogin, Verify, Rehash, Enter, SeedWrite, SeedLog, At
    <3>2. CASE Fail(r)
      <4>1. request'[r].at = "answered"
        BY <3>2, Moves DEF Moved
      <4>2. QED
        BY <2>3, <4>1
    <3>3. QED
      BY <1>1, <2>1, <3>1, <3>2
  <2>4. QED
    BY <2>2, <2>3
<1>8. QED
  BY <1>2, <1>3, <1>4, <1>5, <1>6, <1>7 DEF Step

(* Only SetStatus and SeedCommit change a status, only SetStatus, Enter and *)
(* nobody else what is carried.                                             *)
LEMMA StatusMoves ==
    ASSUME NEW r \in Request, Step(r)
    PROVE  /\ status' = status \/ SetStatus(r) \/ SeedCommit(r)
           /\ carried' = carried \/ SetStatus(r) \/ Enter(r)
<1>1. status' = status \/ SetStatus(r) \/ SeedCommit(r)
  BY DEF Step, Arrive, Authenticate, Authorize, AnswerPage, AnswerRead, StartCreateRole,
     InsertRole, Assign, Revoke, CheckLogin, Verify, Rehash, Enter, SeedWrite, SeedLog, Fail,
     tables
<1>2. carried' = carried \/ SetStatus(r) \/ Enter(r)
  BY DEF Step, Arrive, Authenticate, Authorize, AnswerPage, AnswerRead, StartCreateRole,
     InsertRole, Assign, Revoke, CheckLogin, Verify, Rehash, SeedWrite, SeedCommit, SeedLog,
     Fail, historyVars
<1>3. QED
  BY <1>1, <1>2

(* Who was active and is not any more has just been blocked.                *)
LEMMA BlockIsNoted ==
    ASSUME RowsOK, RequestsOK, StagesOK, NEW r \in Request, Step(r), NEW u \in User,
           status'[u] # "active"
    PROVE  \/ status[u] # "active"
           \/ /\ SetStatus(r)
              /\ \A b \in Browser : session[b] = u => b \in carried'
              /\ \A q \in Request : LoggingIn(q) /\ request[q].user = u => q \in carried'
<1>1. CASE status' = status
  BY <1>1
<1>2. CASE SetStatus(r) /\ status' # status
  <2>1. \/ status' = [status EXCEPT ![request[r].wish.target] = "active"]
        \/ /\ status' = [status EXCEPT ![request[r].wish.target] = "blocked"]
           /\ carried' = carried
                \cup {b \in Browser : session[b] = request[r].wish.target}
                \cup {q \in Request :
                         /\ request[q].user = request[r].wish.target
                         /\ request[q].at \in {"verifying", "rehashing", "entering"}}
    BY <1>2, Deleting
  <2>2. CASE u = request[r].wish.target
    BY <1>2, <2>1, <2>2 DEF RowsOK, LoggingIn
  <2>3. CASE u # request[r].wish.target
    BY <2>1, <2>3 DEF RowsOK
  <2>4. QED
    BY <2>2, <2>3
<1>3. CASE SeedCommit(r)
  BY <1>3 DEF SeedCommit, RowsOK
<1>4. QED
  BY <1>1, <1>2, <1>3, StatusMoves

LEMMA CarriedGrows ==
    ASSUME RequestsOK, StagesOK, NEW r \in Request, Step(r), ~ Enter(r)
    PROVE  carried \subseteq carried'
BY StatusMoves, Deleting

LEMMA LoginsCarriedKept ==
    ASSUME RowsOK, RequestsOK, SessionsOK, StagesOK, LoginsCarried, NEW r \in Request, Step(r)
    PROVE  LoginsCarried'
<1> SUFFICES ASSUME NEW q \in Request, LoggingIn(q)', status'[request'[q].user] # "active"
             PROVE  q \in carried'
  BY DEF LoginsCarried
<1>1. request'[q].user = request[q].user /\ request[q].user \in User
  <2>1. request[q].at \in {"checking", "verifying", "rehashing", "entering"}
    BY LoginMoves DEF LoggingIn, CheckLogin, At
  <2>2. QED
    BY <2>1, LoginMoves, Served DEF StagesOK, StageOK
<1>2. CASE LoggingIn(q)
  <2>1. CASE status[request[q].user] # "active"
    <3>1. q \in carried
      BY <1>2, <2>1 DEF LoginsCarried
    <3>2. CASE Enter(r)
      <4>1. q # r
        BY <3>2, Moves DEF Moved, LoggingIn
      <4>2. request[r].wish.browser # q
        BY <3>2, Entering, AccessAssumption
      <4>3. QED
        BY <3>1, <3>2, <4>1, <4>2, Entering
    <3>3. CASE ~ Enter(r)
      BY <3>1, <3>3, CarriedGrows
    <3>4. QED
      BY <3>2, <3>3
  <2>2. CASE status[request[q].user] = "active"
    BY <1>1, <1>2, <2>2, BlockIsNoted
  <2>3. QED
    BY <2>1, <2>2
<1>3. CASE ~ LoggingIn(q)
  <2>1. q = r /\ CheckLogin(r) /\ status[request[q].user] = "active"
    BY <1>3, LoginMoves
  <2>2. status' = status
    BY <2>1 DEF CheckLogin, tables
  <2>3. QED
    BY <1>1, <2>1, <2>2
<1>4. QED
  BY <1>2, <1>3

LEMMA BlockedKept ==
    ASSUME RowsOK, RequestsOK, SessionsOK, StagesOK, LoginsKnown, LoginsCarried,
           BlockedOnlyByOldSession, NEW r \in Request, Step(r)
    PROVE  BlockedOnlyByOldSession'
<1> SUFFICES ASSUME NEW b \in Browser, session'[b] # None, status'[session'[b]] # "active"
             PROVE  b \in carried'
  BY DEF BlockedOnlyByOldSession
<1>1. session'[b] \in User
  BY SessionsKept DEF SessionsOK
<1>2. CASE session'[b] = session[b] /\ ~ Enter(r)
  <2>1. CASE status[session[b]] # "active"
    BY <1>2, <2>1, CarriedGrows DEF BlockedOnlyByOldSession
  <2>2. CASE status[session[b]] = "active"
    BY <1>1, <1>2, <2>2, BlockIsNoted
  <2>3. QED
    BY <2>1, <2>2
<1>3. CASE Enter(r)
  <2>1. status' = status
    BY <1>3, Entering
  <2>2. CASE b = request[r].wish.browser
    <3>1. session'[b] = request[r].user
      BY <1>3, <2>2, Entering DEF SessionsOK
    <3>2. r \in carried
      BY <1>3, <2>1, <3>1, Entering DEF LoginsCarried
    <3>3. QED
      BY <1>3, <2>2, <3>2, Entering
  <2>3. CASE b # request[r].wish.browser
    <3>1. session'[b] = session[b]
      BY <1>3, <2>3, Entering DEF SessionsOK
    <3>2. b \in carried /\ b # r
      BY <2>1, <3>1, AccessAssumption DEF BlockedOnlyByOldSession
    <3>3. QED
      BY <1>3, <2>3, <3>2, Entering
  <2>4. QED
    BY <2>2, <2>3
<1>4. CASE AnswerPage(r)
  <2>1. session'[b] = session[b] \/ session'[b] = None
    BY <1>4 DEF AnswerPage, SessionsOK
  <2>2. ~ Enter(r)
    BY <1>4 DEF AnswerPage, Enter, At
  <2>3. QED
    BY <1>2, <2>1, <2>2
<1>5. QED
  BY <1>2, <1>3, <1>4, SessionMoves

-------------------------------------------------------------------------------
(* Passwords. *)

LEMMA PasswordMoves ==
    ASSUME NEW r \in Request, Step(r)
    PROVE  /\ hash' = hash \/ Rehash(r) \/ SeedCommit(r)
           /\ (secret' = secret /\ undone' = undone) \/ SeedCommit(r)
<1>1. hash' = hash \/ Rehash(r) \/ SeedCommit(r)
  BY DEF Step, Arrive, Authenticate, Authorize, AnswerPage, AnswerRead, SetStatus,
     StartCreateRole, InsertRole, Assign, Revoke, CheckLogin, Verify, Enter, SeedWrite,
     SeedLog, Fail, tables
<1>2. (secret' = secret /\ undone' = undone) \/ SeedCommit(r)
  BY DEF Step, Arrive, Authenticate, Authorize, AnswerPage, AnswerRead, SetStatus,
     StartCreateRole, InsertRole, Assign, Revoke, CheckLogin, Verify, Rehash, Enter, SeedWrite,
     SeedLog, Fail, historyVars
<1>3. QED
  BY <1>1, <1>2

LEMMA Resetting ==
    ASSUME RowsOK, HistoryOK, RequestsOK, StagesOK, NEW r \in Request, SeedCommit(r)
    PROVE  /\ undone \subseteq undone'
           /\ \A u \in User : u # root => hash'[u] = hash[u] /\ secret'[u] = secret[u]
           /\ \/ hash'[root] = hash[root] /\ secret'[root] = secret[root]
              \/ /\ hash'[root] = [password |-> default, outdated |-> FALSE]
                 /\ secret'[root] = default
                 /\ \/ hash[root] = None
                    \/ root \in undone'
                    \/ \A q \in Request :
                          request[q].at = "rehashing" /\ request[q].user = root =>
                              request[q].wish.password = default
<1>1. request[r].at = "holding"
  BY DEF SeedCommit
<1>2. root \in User
  BY AccessAssumption
<1>3. /\ hash' = [hash EXCEPT ![root] = SeedHash(r)]
      /\ secret' = [secret EXCEPT ![root] =
                       IF hash[root] = None \/ request[r].wish.reset THEN default ELSE @]
  BY DEF SeedCommit
<1>4. undone \subseteq undone'
  BY DEF SeedCommit
<1>5. \A u \in User : u # root => hash'[u] = hash[u] /\ secret'[u] = secret[u]
  BY <1>3 DEF RowsOK, HistoryOK
<1>6. CASE hash[root] = None \/ request[r].wish.reset
  <2>1. /\ hash'[root] = [password |-> default, outdated |-> FALSE]
        /\ secret'[root] = default
    BY <1>2, <1>3, <1>6 DEF RowsOK, HistoryOK, SeedHash
  <2>2. hash[root] # None =>
           \/ root \in undone'
           \/ \A q \in Request :
                 request[q].at = "rehashing" /\ request[q].user = root =>
                     request[q].wish.password = default
    BY <1>6 DEF SeedCommit
  <2>3. QED
    BY <1>4, <1>5, <2>1, <2>2
<1>7. CASE ~ (hash[root] = None \/ request[r].wish.reset)
  <2>1. hash'[root] = hash[root] /\ secret'[root] = secret[root]
    BY <1>2, <1>3, <1>7 DEF RowsOK, HistoryOK, SeedHash
  <2>2. QED
    BY <1>4, <1>5, <2>1
<1>8. QED
  BY <1>6, <1>7

LEMMA PasswordsKept ==
    ASSUME RowsOK, RequestsOK, SessionsOK, StagesOK, HistoryOK, LoginsKnown, RehashSafe,
           OldPasswordOnlyByOverlap, NEW r \in Request, Step(r)
    PROVE  RehashSafe' /\ OldPasswordOnlyByOverlap'
<1>1. undone \subseteq undone'
  BY PasswordMoves, Resetting
<1>2. ASSUME NEW q \in Request, request'[q].at = "rehashing"
      PROVE  \/ request'[q].wish.password = secret'[request'[q].user]
             \/ request'[q].user \in undone'
  <2>1. /\ request'[q].user = request[q].user /\ request'[q].wish = request[q].wish
        /\ request[q].at \in {"verifying", "rehashing"}
    BY <1>2, LoginMoves DEF LoggingIn, Verify, At
  <2>2. request[q].user \in User
    BY <2>1, Served DEF StagesOK, StageOK
  <2>3. CASE request[q].at = "rehashing"
    <3>1. \/ request[q].wish.password = secret[request[q].user]
          \/ request[q].user \in undone
      BY <2>3 DEF RehashSafe
    <3>2. CASE secret' = secret
      BY <1>1, <2>1, <3>1, <3>2
    <3>3. CASE SeedCommit(r)
      <4>1. CASE request[q].user # root
        BY <1>1, <2>1, <2>2, <3>1, <3>3, <4>1, Resetting
      <4>2. CASE request[q].user = root
        <5>1. hash[root] # None
          BY <2>3, <4>2 DEF LoginsKnown
        <5>2. QED
          BY <1>1, <2>1, <2>3, <3>1, <3>3, <4>2, <5>1, Resetting
      <4>3. QED
        BY <4>1, <4>2
    <3>4. QED
      BY <3>2, <3>3, PasswordMoves
  <2>4. CASE request[q].at # "rehashing"
    <3>1. /\ q = r /\ Verify(r) /\ hash[request[q].user] # None
          /\ hash[request[q].user].password = request[q].wish.password
      BY <1>2, <2>4, LoginMoves
    <3>2. secret' = secret /\ undone' = undone
      BY <3>1 DEF Verify, historyVars
    <3>3. QED
      BY <2>1, <2>2, <3>1, <3>2 DEF OldPasswordOnlyByOverlap
  <2>5. QED
    BY <2>3, <2>4
<1>3. ASSUME NEW u \in User, hash'[u] # None, hash'[u].password # secret'[u]
      PROVE  u \in undone'
  <2>1. CASE hash' = hash /\ secret' = secret
    BY <1>1, <1>3, <2>1 DEF OldPasswordOnlyByOverlap
  <2>2. CASE Rehash(r)
    <3>1. secret' = secret /\ request[r].at = "rehashing"
      BY <2>2 DEF Rehash, historyVars
    <3>2. CASE u # request[r].user
      <4>1. hash'[u] = hash[u]
        BY <2>2, <3>2 DEF Rehash, RowsOK
      <4>2. QED
        BY <1>1, <1>3, <3>1, <4>1 DEF OldPasswordOnlyByOverlap
    <3>3. CASE u = request[r].user
      <4>1. hash'[u].password = request[r].wish.password
        BY <2>2, <3>3 DEF Rehash, RowsOK
      <4>2. QED
        BY <1>1, <1>3, <3>1, <3>3, <4>1 DEF RehashSafe
    <3>4. QED
      BY <3>2, <3>3
  <2>3. CASE SeedCommit(r)
    <3>1. CASE hash'[u] = hash[u] /\ secret'[u] = secret[u]
      BY <1>1, <1>3, <3>1 DEF OldPasswordOnlyByOverlap
    <3>2. CASE hash'[u] = [password |-> default, outdated |-> FALSE] /\ secret'[u] = default
      BY <1>3, <3>2
    <3>3. QED
      BY <2>3, <3>1, <3>2, Resetting
  <2>4. QED
    BY <2>1, <2>2, <2>3, PasswordMoves
<1>4. QED
  BY <1>2, <1>3 DEF RehashSafe, OldPasswordOnlyByOverlap

-------------------------------------------------------------------------------
(* Role codes. *)

LEMMA NewCodesNoted ==
    ASSUME RequestsOK, StagesOK, HistoryOK, SeenRemain, NEW r \in Request, Step(r)
    PROVE  \A q \in Request :
              /\ since[q] \subseteq since'[q]
              /\ q # r /\ request[q].at \in {"inserting", "seeding"} =>
                    roles' \subseteq roles \cup since'[q]
<1>1. ASSUME NEW codes, NoteRoles(r, codes), roles' \subseteq roles \cup codes
      PROVE  \A q \in Request :
                /\ since[q] \subseteq since'[q]
                /\ q # r /\ request[q].at \in {"inserting", "seeding"} =>
                      roles' \subseteq roles \cup since'[q]
  BY <1>1 DEF NoteRoles
<1>2. CASE InsertRole(r)
  <2>1. \/ since' = since /\ roles' = roles
        \/ /\ NoteRoles(r, {request[r].wish.target})
           /\ roles' = roles \cup {request[r].wish.target}
    BY <1>2 DEF InsertRole
  <2>2. QED
    BY <1>1, <2>1
<1>3. CASE SeedCommit(r)
  <2>1. NoteRoles(r, SeedMissing(r)) /\ roles' = roles \cup SeedRoles
    BY <1>3 DEF SeedCommit
  <2>2. SeedRoles \subseteq roles \cup SeedMissing(r)
    BY DEF SeedMissing, SeenRemain
  <2>3. QED
    BY <1>1, <2>1, <2>2
<1>4. CASE ~ InsertRole(r) /\ ~ SeedCommit(r)
  <2>1. since' = since /\ roles' = roles
    BY <1>4 DEF Step, Arrive, Authenticate, Authorize, AnswerPage, AnswerRead, SetStatus,
       StartCreateRole, Assign, Revoke, CheckLogin, Verify, Rehash, Enter, SeedWrite, SeedLog,
       Fail, historyVars, tables
  <2>2. QED
    BY <2>1
<1>5. QED
  BY <1>2, <1>3, <1>4

LEMMA SeenKept ==
    ASSUME RowsOK, RequestsOK, StagesOK, LoginsKnown, SeenRemain, NEW r \in Request, Step(r)
    PROVE  SeenRemain'
<1>1. roles \subseteq roles'
  BY NobodyVanishes
<1>2. CASE Arrive(r)
  <2>1. PICK w \in Wish : Arrival(r, w)
    BY <1>2, Arrived
  <2>2. request'[r].seen \subseteq roles /\ \A q \in Request : q # r => request'[q] = request[q]
    BY <2>1 DEF Arrival
  <2>3. QED
    BY <1>1, <2>2 DEF SeenRemain
<1>3. CASE ~ Arrive(r)
  <2>1. Moved(r, Stage)
    BY <1>3, Moves DEF Step, Moved, Stage
  <2>2. \A q \in Request : request'[q].seen = request[q].seen
    BY <2>1 DEF Moved
  <2>3. QED
    BY <1>1, <2>2 DEF SeenRemain
<1>4. QED
  BY <1>2, <1>3

(* Where those who have looked for a code came from.                        *)
LEMMA LookingMoves ==
    ASSUME RequestsOK, StagesOK, NEW r \in Request, Step(r)
    PROVE  \A q \in Request :
              /\ request'[q].at \in {"inserting", "seeding"} =>
                    \/ q # r /\ request'[q] = request[q]
                    \/ /\ q = r /\ roles' = roles /\ StartCreateRole(r)
                       /\ request'[r].wish = request[r].wish
                       /\ request[r].wish.target \notin roles
                       /\ request'[r].at = "inserting"
                    \/ /\ q = r /\ roles' = roles /\ Arrive(r)
                       /\ request'[r].seen = roles /\ request'[r].at = "seeding"
<1>1. CASE Arrive(r)
  <2>1. PICK w \in Wish : Arrival(r, w)
    BY <1>1, Arrived
  <2>2. roles' = roles
    BY <1>1 DEF Arrive, tables
  <2>3. request'[r].at \in {"inserting", "seeding"} =>
           request'[r].seen = roles /\ request'[r].at = "seeding"
    BY <2>1 DEF Arrival
  <2>4. \A q \in Request : q # r => request'[q] = request[q]
    BY <2>1 DEF Arrival
  <2>5. QED
    BY <1>1, <2>2, <2>3, <2>4
<1>2. CASE StartCreateRole(r)
  <2>1. Moved(r, {"inserting"}) /\ roles' = roles
    BY <1>2, Moves DEF StartCreateRole, tables
  <2>2. request[r].wish.target \in roles => request'[r].at = "answered"
    <3>1. request[r].wish.target \in roles => Reply(r, "conflict")
      BY <1>2 DEF StartCreateRole
    <3>2. QED
      BY <3>1, Replied DEF Answer
  <2>3. QED
    BY <1>2, <2>1, <2>2 DEF Moved
<1>3. CASE ~ Arrive(r) /\ ~ StartCreateRole(r)
  <2>1. Moved(r, Stage \ {"inserting", "seeding"})
    BY <1>3, Moves DEF Step, Moved, Stage
  <2>2. QED
    BY <2>1 DEF Moved
<1>4. QED
  BY <1>1, <1>2, <1>3

LEMMA CodesNotedKept ==
    ASSUME RequestsOK, StagesOK, HistoryOK, SeenRemain, CodesNoted, NEW r \in Request, Step(r)
    PROVE  CodesNoted'
<1> SUFFICES ASSUME NEW q \in Request
             PROVE  /\ request'[q].at = "inserting" /\ request'[q].wish.target \in roles' =>
                          request'[q].wish.target \in since'[q]
                    /\ request'[q].at = "seeding" =>
                          (SeedRoles \ request'[q].seen) \cap roles' \subseteq since'[q]
  BY DEF CodesNoted, SeedMissing
<1>1. CASE q # r /\ request'[q] = request[q]
  BY <1>1, NewCodesNoted DEF CodesNoted, SeedMissing
<1>2. CASE /\ roles' = roles
           /\ request'[q].wish.target \notin roles
           /\ request'[q].at = "inserting"
  BY <1>2
<1>3. CASE roles' = roles /\ request'[q].seen = roles /\ request'[q].at = "seeding"
  BY <1>3
<1>4. QED
  BY <1>1, <1>2, <1>3, LookingMoves

LEMMA DuplicateMoves ==
    ASSUME RequestsOK, StagesOK, NEW r \in Request, Step(r), NEW q \in Request,
           request'[q].answer = "duplicate"
    PROVE  /\ request'[q].wish = request[q].wish /\ request'[q].seen = request[q].seen
           /\ \/ request[q].answer = "duplicate"
              \/ /\ request[q].at = "inserting" /\ request[q].wish.target \in roles
              \/ /\ request[q].at = "seeding" /\ SeedMissing(q) \cap roles # {}
<1>1. CASE Arrive(r)
  <2>1. PICK w \in Wish : Arrival(r, w)
    BY <1>1, Arrived
  <2>2. request'[r].answer = None /\ \A p \in Request : p # r => request'[p] = request[p]
    BY <2>1 DEF Arrival
  <2>3. None # "duplicate"
    BY AccessAssumption DEF Answer
  <2>4. QED
    BY <2>2, <2>3
<1>2. CASE ~ Arrive(r)
  <2>1. Moved(r, Stage)
    BY <1>2, Moves DEF Step, Moved, Stage
  <2>2. CASE q # r
    BY <2>1, <2>2 DEF Moved
  <2>3. CASE q = r
    <3>1. request'[q].wish = request[q].wish /\ request'[q].seen = request[q].seen
      BY <2>1, <2>3 DEF Moved
    <3>2. \A answer \in Answer : Reply(r, answer) => request'[r].answer = answer
      BY Replied
    <3>3. \A stage \in Stage : Go(r, stage) => request'[r].answer = request[r].answer
      BY Gone
    <3>4. /\ Reply(r, "ok") \/ Reply(r, "refused") \/ Reply(r, "not_found")
                \/ Reply(r, "conflict") \/ Reply(r, "failed")
             => request'[r].answer # "duplicate"
          /\ Go(r, "authorizing") \/ Go(r, "served") \/ Go(r, "inserting")
                \/ Go(r, "verifying") \/ Go(r, "rehashing") \/ Go(r, "entering")
                \/ Go(r, "holding") \/ Go(r, "logging")
             => request'[r].answer = request[r].answer
      BY <3>2, <3>3 DEF Answer, Stage
    <3>5. CASE InsertRole(r)
      <4>1. \/ request[r].wish.target \in roles
            \/ Reply(r, "ok")
        BY <3>5 DEF InsertRole
      <4>2. request[r].at = "inserting"
        BY <3>5 DEF InsertRole
      <4>3. QED
        BY <2>3, <3>1, <3>4, <4>1, <4>2
    <3>6. CASE SeedWrite(r)
      <4>1. SeedMissing(r) \cap roles # {} \/ Go(r, "holding")
        BY <3>6 DEF SeedWrite
      <4>2. request[r].at = "seeding"
        BY <3>6 DEF SeedWrite
      <4>3. QED
        BY <2>3, <3>1, <3>4, <4>1, <4>2
    <3>7. CASE Authenticate(r) \/ Authorize(r) \/ StartCreateRole(r) \/ CheckLogin(r)
      <4>1. \/ Go(r, "authorizing") \/ Go(r, "served") \/ Go(r, "inserting")
            \/ Go(r, "verifying") \/ Reply(r, "refused") \/ Reply(r, "conflict")
        BY <3>7 DEF Authenticate, Authorize, StartCreateRole, CheckLogin
      <4>2. QED
        BY <2>3, <3>1, <3>4, <4>1
    <3>8. CASE Verify(r) \/ Rehash(r) \/ SeedCommit(r)
      <4>1. \/ Go(r, "rehashing") \/ Go(r, "entering") \/ Go(r, "logging")
            \/ Reply(r, "refused")
        BY <3>8 DEF Verify, Rehash, SeedCommit
      <4>2. QED
        BY <2>3, <3>1, <3>4, <4>1
    <3>9. CASE \/ AnswerPage(r) \/ AnswerRead(r) \/ SetStatus(r) \/ Assign(r) \/ Revoke(r)
               \/ Enter(r) \/ SeedLog(r) \/ Fail(r)
      <4>1. Reply(r, "ok") \/ Reply(r, "refused") \/ Reply(r, "not_found") \/ Reply(r, "failed")
        BY <3>9 DEF AnswerPage, AnswerRead, SetStatus, Assign, Revoke, Enter, SeedLog, Fail
      <4>2. QED
        BY <2>3, <3>1, <3>4, <4>1
    <3>10. QED
      BY <1>2, <3>5, <3>6, <3>7, <3>8, <3>9 DEF Step
  <2>4. QED
    BY <2>2, <2>3
<1>3. QED
  BY <1>1, <1>2

LEMMA ClashKept ==
    ASSUME RequestsOK, StagesOK, HistoryOK, SeenRemain, CodesNoted, RoleClashOnlyByOverlap,
           NEW r \in Request, Step(r)
    PROVE  RoleClashOnlyByOverlap'
<1> DEFINE Looked(q) == IF Kind(q) = "seed" THEN SeedMissing(q) ELSE {request[q].wish.target}
<1> SUFFICES ASSUME NEW q \in Request, request'[q].answer = "duplicate"
             PROVE  (IF request'[q].wish.kind = "seed" THEN SeedRoles \ request'[q].seen
                     ELSE {request'[q].wish.target}) \cap since'[q] # {}
  BY DEF RoleClashOnlyByOverlap, SeedMissing, Kind
<1>1. request'[q].wish = request[q].wish /\ request'[q].seen = request[q].seen
  BY DuplicateMoves
<1>2. since[q] \subseteq since'[q]
  BY NewCodesNoted
<1>3. Looked(q) \cap since[q] # {}
  <2>1. CASE request[q].answer = "duplicate"
    BY <2>1 DEF RoleClashOnlyByOverlap
  <2>2. CASE request[q].at = "inserting" /\ request[q].wish.target \in roles
    <3>1. Kind(q) = "call" /\ request[q].wish.target \in since[q]
      BY <2>2 DEF CodesNoted, StagesOK, StageOK, Kind
    <3>2. QED
      BY <3>1
  <2>3. CASE request[q].at = "seeding" /\ SeedMissing(q) \cap roles # {}
    <3>1. Kind(q) = "seed" /\ SeedMissing(q) \cap roles \subseteq since[q]
      BY <2>3 DEF CodesNoted, StagesOK, StageOK, Kind
    <3>2. QED
      BY <2>3, <3>1
  <2>4. QED
    BY <2>1, <2>2, <2>3, DuplicateMoves
<1>4. QED
  BY <1>1, <1>2, <1>3 DEF SeedMissing, Kind

-------------------------------------------------------------------------------
(* The theorems. *)

LEMMA InvariantIsKept == IInv /\ [Next]_vars => IInv'
<1> SUFFICES ASSUME IInv, [Next]_vars PROVE IInv'
  OBVIOUS
<1>1. CASE UNCHANGED vars
  BY <1>1 DEF vars, tables, historyVars, IInv, RowsOK, RequestsOK, SessionsOK, HistoryOK,
     StagesOK, OneSeedHolds, LoginsKnown, LackingLack, LoginsCarried, BlockedOnlyByOldSession,
     RehashSafe, OldPasswordOnlyByOverlap, SeenRemain, CodesNoted, RoleClashOnlyByOverlap,
     LoggingIn, Entitled, Lacks, Has, SeedMissing, Kind
<1>2. ASSUME NEW r \in Request, Step(r)
      PROVE  IInv'
  <2>1. RowsOK' /\ RequestsOK' /\ StagesOK' /\ SessionsOK' /\ HistoryOK'
    BY <1>2, RowsKept, StagesKept, SessionsKept, HistoryKept DEF IInv
  <2>2. OneSeedHolds' /\ LoginsKnown' /\ LackingLack'
    BY <1>2, HoldersKept, LoginsKnownKept, LackingLackKept DEF IInv
  <2>3. LoginsCarried' /\ BlockedOnlyByOldSession'
    BY <1>2, LoginsCarriedKept, BlockedKept DEF IInv
  <2>4. RehashSafe' /\ OldPasswordOnlyByOverlap'
    BY <1>2, PasswordsKept DEF IInv
  <2>5. SeenRemain' /\ CodesNoted' /\ RoleClashOnlyByOverlap'
    BY <1>2, SeenKept, CodesNotedKept, ClashKept DEF IInv
  <2>6. QED
    BY <2>1, <2>2, <2>3, <2>4, <2>5 DEF IInv
<1>3. QED
  BY <1>1, <1>2 DEF Next

(* The inductive invariant holds in every reachable state of Access.tla.    *)
THEOREM Invariance == Spec => []IInv
<1>1. QED
  BY InvariantHoldsInitially, InvariantIsKept, PTL DEF Spec

(* Rows refer to rows there are, sessions to users there are, and one seed  *)
(* at most holds the rows that it writes (CoreRbacAdminSeeder).             *)
THEOREM TypeCorrect == Spec => []TypeOK
<1>1. IInv => TypeOK
  <2> SUFFICES ASSUME IInv PROVE TypeOK
    OBVIOUS
  <2>1. [status |-> status, hash |-> hash, roles |-> roles, grants |-> grants,
         members |-> members] \in Tables
    BY DEF IInv, RowsOK, Tables, Columns
  <2>2. QED
    BY <2>1 DEF IInv, RequestsOK, SessionsOK, HistoryOK, OneSeedHolds, TypeOK
<1>2. QED
  BY <1>1, Invariance, PTL

(* Whose right was gone before the request was sent does not get past       *)
(* RbacMiddleware, whatever the path.                                       *)
THEOREM NoRightNoEntry == Spec => []RevocationIsFinal
<1>1. IInv => RevocationIsFinal
  BY DEF IInv, LackingLack, RevocationIsFinal
<1>2. QED
  BY <1>1, Invariance, PTL

(* LoginHandler gives no session to a user who has been blocked before its  *)
(* check: only sessions older than the block outlive it.                    *)
THEOREM BlockStopsLogins == Spec => []BlockedOnlyByOldSession
<1>1. IInv => BlockedOnlyByOldSession
  BY DEF IInv
<1>2. QED
  BY <1>1, Invariance, PTL

(* The rehash of LoginHandler brings back an old password only when a reset *)
(* by the seed fell into the middle of that login.                          *)
THEOREM PasswordIsTheLastGiven == Spec => []OldPasswordOnlyByOverlap
<1>1. IInv => OldPasswordOnlyByOverlap
  BY DEF IInv
<1>2. QED
  BY <1>1, Invariance, PTL

(* CreateRoleHandler and the seed meet the unique index on codes only by    *)
(* overlap.                                                                 *)
THEOREM RoleClashNeedsOverlap == Spec => []RoleClashOnlyByOverlap
<1>1. IInv => RoleClashOnlyByOverlap
  BY DEF IInv
<1>2. QED
  BY <1>1, Invariance, PTL

(* Whatever went on before and meanwhile, the commit of the seed leaves an  *)
(* active administrator with a password and every right                     *)
(* (CoreRbacAdminSeeder, SeedCommand).                                      *)
THEOREM SeedIsTheWayBack == Spec => SeedRestoresAdmin
<1> DEFINE Restored(r) ==
       request[r].at = "holding" /\ request'[r].at = "logging" =>
          /\ status'[root] = "active"
          /\ hash'[root] # None
          /\ request[r].wish.reset => hash'[root].password = default
          /\ RootHasAll'
<1>1. IInv /\ [Next]_vars => [\A r \in Request : Restored(r)]_vars
  <2> SUFFICES ASSUME IInv, NEW q \in Request, Step(q), NEW r \in Request,
                      request[r].at = "holding", request'[r].at = "logging"
               PROVE  /\ status'[root] = "active"
                      /\ hash'[root] # None
                      /\ request[r].wish.reset => hash'[root].password = default
                      /\ RootHasAll'
    BY DEF Next
  <2>1. RequestsOK /\ StagesOK /\ RowsOK
    BY DEF IInv
  <2>2. SeedCommit(r)
    <3>1. CASE Arrive(q)
      <4>1. PICK w \in Wish : Arrival(q, w)
        BY <2>1, <3>1, Arrived
      <4>2. request'[q].at # "logging" /\ \A p \in Request : p # q => request'[p] = request[p]
        BY <4>1 DEF Arrival
      <4>3. QED
        BY <4>2
    <3>2. CASE ~ Arrive(q) /\ ~ SeedCommit(q)
      <4>1. Moved(q, Stage \ {"logging"})
        BY <2>1, <3>2, Moves DEF Step, Moved, Stage
      <4>2. QED
        BY <4>1 DEF Moved
    <3>3. CASE SeedCommit(q)
      <4>1. Moved(q, {"logging"})
        BY <2>1, <3>3, Moves
      <4>2. q = r
        BY <4>1 DEF Moved
      <4>3. QED
        BY <3>3, <4>2
    <3>4. QED
      BY <3>1, <3>2, <3>3
  <2>3. status'[root] = "active"
    BY <2>1, <2>2, AccessAssumption DEF SeedCommit, RowsOK
  <2>4. hash'[root] = SeedHash(r)
    BY <2>1, <2>2, AccessAssumption DEF SeedCommit, RowsOK
  <2>5. SeedHash(r) # None
    <3>1. [password |-> default, outdated |-> FALSE] \in Hash
      BY AccessAssumption DEF Hash
    <3>2. [password |-> default, outdated |-> FALSE] # None
      BY <3>1, NoneApart
    <3>3. QED
      BY <3>2 DEF SeedHash
  <2>6. request[r].wish.reset => SeedHash(r).password = default
    BY DEF SeedHash
  <2>7. RootHasAll'
    <3>1. ASSUME NEW p \in Permission
          PROVE  "admin" \in Role /\ <<root, "admin">> \in members' /\ <<"admin", p>> \in grants'
      BY <2>2, SeedTypes, AccessAssumption DEF SeedCommit, SeedMembers
    <3>2. QED
      BY <3>1 DEF RootHasAll, Has
  <2>8. QED
    BY <2>3, <2>4, <2>5, <2>6, <2>7
<1>2. QED
  BY <1>1, Invariance, PTL DEF Spec, SeedRestoresAdmin
===============================================================================
