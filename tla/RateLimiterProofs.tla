-------------------------- MODULE RateLimiterProofs ---------------------------
(***************************************************************************)
(* Theorems about RateLimiter, for every set of clients and requests, every*)
(* limit, every window and every number of failing commands.               *)
(***************************************************************************)
EXTENDS RateLimiter, FiniteSetTheorems, TLAPS

(* What a request knows and where it has been counted, at each stage.       *)
RequestShape(r) ==
    LET q == request[r]
    IN /\ q.at = "waiting" => q.key = None
       /\ q.at # "waiting" =>
             /\ q.read \in Time /\ q.read <= now
             /\ \E c \in Client : q.key = <<c, WindowStart(q.read)>>
       /\ q.at \in {"waiting", "counting"} => r \notin counted
       /\ q.at = "expiring" => r \in counted
       /\ q.at \in {"deciding", "admitted"} => r \in counted \cup exempt
       /\ q.at = "deciding" /\ q.attempts > 0 => r \in counted
       /\ q.at = "limited" => r \in counted /\ q.retryAfter = RetryAfter(r)

TypeInv ==
    /\ TypeOK
    /\ IsFiniteSet(counted)
    /\ \A r \in Request : RequestShape(r)

CountOf(k) == IF counters[k] = None THEN 0 ELSE counters[k].count

(* The requests the counter of k vouches for: admitted, or about to be.     *)
Vouched(k) ==
    {r \in counted \ (exempt \cup late) :
        /\ request[r].key = k
        /\ \/ request[r].at = "admitted"
           \/ request[r].at \in {"expiring", "deciding"} /\ request[r].attempts <= Limit}

(* While its window lasts, and a second longer, a counter knows of all the  *)
(* requests it vouches for, because it does not expire any sooner.          *)
WindowInv ==
    \A k \in Key :
        /\ Cardinality(Vouched(k)) <= Limit
        /\ now <= k[2] + Window => Cardinality(Vouched(k)) <= CountOf(k)
        /\ counters[k] # None /\ counters[k].expires # None
              => counters[k].expires > k[2] + Window

CountedOn(k) == {r \in counted : request[r].key = k}

(* No counter, and no number a request holds, exceeds the number counted.   *)
FullInv ==
    /\ \A k \in Key : CountOf(k) <= Cardinality(CountedOn(k))
    /\ \A r \in Request :
          /\ request[r].at \in {"expiring", "deciding"} =>
                request[r].attempts <= Cardinality(CountedOn(request[r].key))
          /\ request[r].at = "limited" =>
                Cardinality(CountedOn(request[r].key)) > Limit

Leaks == {k \in Key : Leaked(k)}

LeakInv == IsFiniteSet(Leaks) /\ Cardinality(Leaks) <= faults

-------------------------------------------------------------------------------
(* Windows. *)

(* A window starts at a multiple of its length and holds what is read in it.*)
LEMMA WindowStartFacts ==
    ASSUME NEW t \in Nat
    PROVE  /\ WindowStart(t) \in Nat
           /\ WindowStart(t) <= t
           /\ t < WindowStart(t) + Window
<1> USE RateLimiterAssumption DEF RateLimiterAssumption
<1> DEFINE W == Window
<1>1. W \in Nat \ {0}
  OBVIOUS
<1>2. (t \div W) * W \in Nat /\ (t \div W) * W <= t /\ t < (t \div W) * W + W
  <2> HIDE DEF W
  <2>1. QED
    BY <1>1
<1>3. QED
  BY <1>2 DEF WindowStart

(* Two times lie in the same window when the later one is before its end.   *)
LEMMA SameWindow ==
    ASSUME NEW s \in Nat, NEW t \in Nat, s <= t
    PROVE  WindowStart(t) = WindowStart(s) <=> t < WindowStart(s) + Window
<1> USE RateLimiterAssumption DEF RateLimiterAssumption
<1> DEFINE W == Window  a == s \div W  b == t \div W
<1>1. W \in Nat \ {0} /\ a \in Nat /\ b \in Nat
  OBVIOUS
<1>2. /\ a * W <= s /\ s < a * W + W
      /\ b * W <= t /\ t < b * W + W
  BY WindowStartFacts DEF WindowStart
<1>3. ASSUME t < a * W + W PROVE a = b
  <2>1. b < a + 1
    <3>1. b * W < (a + 1) * W
      <4> HIDE DEF W, a, b
      <4>1. QED  BY <1>1, <1>2, <1>3
    <3>2. QED
      <4> HIDE DEF W, a, b
      <4>1. QED  BY <1>1, <3>1
  <2>2. a < b + 1
    <3>1. a * W < (b + 1) * W
      <4> HIDE DEF W, a, b
      <4>1. QED  BY <1>1, <1>2
    <3>2. QED
      <4> HIDE DEF W, a, b
      <4>1. QED  BY <1>1, <3>1
  <2>3. QED
    <3> HIDE DEF W, a, b
    <3>1. QED  BY <1>1, <2>1, <2>2
<1>4. QED
  BY <1>2, <1>3, WindowStartFacts DEF WindowStart

-------------------------------------------------------------------------------
(* Type correctness. *)

(* The key of a request that has read the clock is one of the keys.         *)
LEMMA KeyOf ==
    ASSUME TypeInv, NEW r \in Request, request[r].at # "waiting"
    PROVE  /\ request[r].key \in Key
           /\ request[r].key # None
           /\ request[r].key[2] = WindowStart(request[r].read)
           /\ request[r].key[2] \in Nat
           /\ request[r].key[2] <= now
           /\ request[r].read \in Time
<1> USE RateLimiterAssumption DEF RateLimiterAssumption
<1>1. PICK c \in Client : request[r].key = <<c, WindowStart(request[r].read)>>
  BY DEF TypeInv, RequestShape
<1>2. request[r].read \in Time /\ request[r].read <= now /\ now \in Time
  BY DEF TypeInv, TypeOK, RequestShape
<1>3. WindowStart(request[r].read) \in Nat /\ WindowStart(request[r].read) <= request[r].read
  BY <1>2, WindowStartFacts DEF Time
<1>4. request[r].key \in Client \X Int
  BY <1>1, <1>3
<1>5. QED
  BY <1>1, <1>2, <1>3, <1>4 DEF Key, Time

LEMMA CounterFacts ==
    ASSUME TypeInv, NEW k \in Key
    PROVE  /\ counters[k] \in Counter \cup {None}
           /\ None \notin Counter
           /\ Incremented(k) \in Counter
           /\ Incremented(k).count = CountOf(k) + 1
           /\ CountOf(k) \in Nat
           /\ counters[k] = None => Incremented(k).expires = None
           /\ counters[k] # None =>
                 /\ Incremented(k).expires = counters[k].expires
                 /\ Expiring(k) \in Counter
                 /\ Expiring(k).count = counters[k].count
                 /\ Expiring(k).expires = now + Window + 1
                 /\ CountOf(k) >= 1
<1> USE RateLimiterAssumption DEF RateLimiterAssumption
<1>1. counters[k] \in Counter \cup {None} /\ now \in Nat
  BY DEF TypeInv, TypeOK, Time
<1>2. None \notin Counter
  BY DEF Counter
<1>3. CASE counters[k] = None
  BY <1>1, <1>2, <1>3 DEF Incremented, CountOf, Counter
<1>4. CASE counters[k] # None
  BY <1>1, <1>2, <1>4 DEF Incremented, Expiring, CountOf, Counter
<1>5. QED
  BY <1>1, <1>2, <1>3, <1>4

(* The steps, by what they do to the request that takes them: everything    *)
(* the proofs need of `request'.                                            *)
LEMMA RequestStep ==
    ASSUME TypeInv, NEW r \in Request, Step(r)
    PROVE  /\ request' \in [Request -> RequestState]
           /\ \A q \in Request \ {r} : request'[q] = request[q]
           /\ request[r].at # "waiting" =>
                 /\ request'[r].key = request[r].key
                 /\ request'[r].read = request[r].read
                 /\ request'[r].at # "waiting"
           /\ now' = now
           /\ counted \subseteq counted'
           /\ counted' \subseteq counted \cup {r}
           /\ r \in counted' \ counted => request[r].at = "counting"
           /\ RequestShape(r)'
<1> USE RateLimiterAssumption DEF RateLimiterAssumption
<1>1. /\ request \in [Request -> RequestState] /\ request[r] \in RequestState
      /\ now \in Time /\ RequestShape(r)
  BY DEF TypeInv, TypeOK
<1>2. CASE ReadClock(r)
  <2>1. PICK c \in Client :
          request' = [request EXCEPT ![r] =
              [Waiting EXCEPT !.at = "counting", !.read = now,
                              !.key = <<c, WindowStart(now)>>]]
    BY <1>2 DEF ReadClock
  <2>2. <<c, WindowStart(now)>> \in Key
    BY <1>1 DEF Key
  <2>3. request'[r] = [at |-> "counting", key |-> <<c, WindowStart(now)>>, read |-> now,
                       attempts |-> 0, retryAfter |-> 0]
    BY <1>1, <2>1 DEF Waiting
  <2>4. request'[r] \in RequestState
    BY <1>1, <2>2, <2>3 DEF RequestState, Stage
  <2>5. r \notin counted /\ UNCHANGED <<now, counted>> /\ request[r].at = "waiting"
    BY <1>1, <1>2 DEF ReadClock, At, RequestShape, historyVars
  <2>6. RequestShape(r)'
    BY <1>1, <2>3, <2>5 DEF RequestShape, Time
  <2>7. QED
    BY <1>1, <2>1, <2>4, <2>5, <2>6
<1>3. ASSUME NEW stage \in Stage, NEW n \in Nat, NEW w \in Nat,
             request' = [request EXCEPT ![r].at = stage, ![r].attempts = n, ![r].retryAfter = w]
      PROVE  /\ request' \in [Request -> RequestState]
             /\ request'[r] = [at |-> stage, key |-> request[r].key, read |-> request[r].read,
                               attempts |-> n, retryAfter |-> w]
             /\ \A q \in Request \ {r} : request'[q] = request[q]
  BY <1>1, <1>3 DEF RequestState
<1>4. CASE Count(r)
  <2> DEFINE n == Incremented(request[r].key).count
  <2>1. n \in Nat /\ n >= 1
    BY <1>4, KeyOf, CounterFacts DEF Count, At
  <2>2. request' = [request EXCEPT ![r].attempts = n,
                            ![r].at = IF n = 1 THEN "expiring" ELSE "deciding"]
    BY <1>4 DEF Count
  <2>3. /\ request' \in [Request -> RequestState]
        /\ request'[r] = [at |-> IF n = 1 THEN "expiring" ELSE "deciding",
                          key |-> request[r].key, read |-> request[r].read,
                          attempts |-> n, retryAfter |-> request[r].retryAfter]
        /\ \A q \in Request \ {r} : request'[q] = request[q]
    <3> HIDE DEF n
    <3>1. QED  BY <1>1, <2>1, <2>2 DEF RequestState, Stage
  <2>4. counted' = counted \cup {r} /\ now' = now /\ exempt' = exempt /\ request[r].at = "counting"
    BY <1>4 DEF Count, NoteCounted, At
  <2>5. RequestShape(r)'
    <3> HIDE DEF n
    <3>1. QED  BY <1>1, <2>3, <2>4 DEF RequestShape
  <2>6. QED
    <3> HIDE DEF n
    <3>1. QED  BY <2>3, <2>4, <2>5
<1>5. CASE CountRaises(r) \/ LetExpireRaises(r)
  <2>1. /\ request' = [request EXCEPT ![r].at = "deciding", ![r].attempts = 0]
        /\ exempt' = exempt \cup {r} /\ now' = now
        /\ request[r].at \in {"counting", "expiring"}
        /\ \/ counted' = counted
           \/ counted' = counted \cup {r} /\ request[r].at = "counting"
    BY <1>5 DEF CountRaises, LetExpireRaises, FailOpen, NoteCounted, At
  <2>2. /\ request' \in [Request -> RequestState]
        /\ request'[r] = [at |-> "deciding", key |-> request[r].key, read |-> request[r].read,
                          attempts |-> 0, retryAfter |-> request[r].retryAfter]
        /\ \A q \in Request \ {r} : request'[q] = request[q]
    BY <1>1, <2>1 DEF RequestState, Stage
  <2>3. RequestShape(r)'
    BY <1>1, <2>1, <2>2 DEF RequestShape
  <2>4. QED
    BY <2>1, <2>2, <2>3
<1>6. CASE LetExpire(r) \/ Admit(r) \/ BreakOff(r)
  <2>1. PICK stage \in {"deciding", "admitted", "broken"}, n \in {0, request[r].attempts} :
          /\ request' = [request EXCEPT ![r].at = stage, ![r].attempts = n]
          /\ stage = "deciding" => request[r].at = "expiring"
          /\ stage = "admitted" => request[r].at = "deciding"
          /\ request[r].at # "waiting"
    <3>1. CASE LetExpire(r)
      BY <1>1, <3>1 DEF LetExpire, Go, At, RequestState
    <3>2. CASE Admit(r)
      BY <1>1, <3>2 DEF Admit, At, RequestState
    <3>3. CASE BreakOff(r)
      BY <1>1, <3>3 DEF BreakOff, Go, RequestState
    <3>4. QED
      BY <1>6, <3>1, <3>2, <3>3
  <2>2. /\ request' \in [Request -> RequestState]
        /\ request'[r] = [at |-> stage, key |-> request[r].key, read |-> request[r].read,
                          attempts |-> n, retryAfter |-> request[r].retryAfter]
        /\ \A q \in Request \ {r} : request'[q] = request[q]
    <3>1. stage \in Stage /\ n \in Nat
      BY <1>1 DEF RequestState, Stage
    <3>2. request' = [request EXCEPT ![r].at = stage, ![r].attempts = n,
                                     ![r].retryAfter = request[r].retryAfter]
      BY <1>1, <2>1 DEF RequestState
    <3>3. request[r].retryAfter \in Nat
      BY <1>1 DEF RequestState
    <3>4. QED
      BY <1>3, <3>1, <3>2, <3>3
  <2>3. UNCHANGED <<now, counted, exempt>>
    BY <1>6 DEF LetExpire, Admit, BreakOff, historyVars
  <2>4. RequestShape(r)'
    BY <1>1, <2>1, <2>2, <2>3 DEF RequestShape
  <2>5. QED
    BY <2>1, <2>2, <2>3, <2>4
<1>7. CASE Refuse(r)
  <2>1. /\ request' = [request EXCEPT ![r].at = "limited", ![r].attempts = 0,
                                      ![r].retryAfter = RetryAfter(r)]
        /\ request[r].at = "deciding" /\ request[r].attempts > Limit
        /\ UNCHANGED <<now, counted, exempt>>
    BY <1>7 DEF Refuse, At, IsLimited, historyVars
  <2>2. RetryAfter(r) \in Nat
    BY <2>1, KeyOf DEF RetryAfter, AtLeastOne, Time
  <2>3. /\ request' \in [Request -> RequestState]
        /\ request'[r] = [at |-> "limited", key |-> request[r].key, read |-> request[r].read,
                          attempts |-> 0, retryAfter |-> RetryAfter(r)]
        /\ \A q \in Request \ {r} : request'[q] = request[q]
    BY <1>1, <2>1, <2>2 DEF RequestState, Stage
  <2>4. r \in counted
    BY <1>1, <2>1 DEF RequestShape, RequestState
  <2>5. RetryAfter(r)' = RetryAfter(r)
    BY <2>3 DEF RetryAfter
  <2>6. RequestShape(r)'
    BY <1>1, <2>1, <2>3, <2>4, <2>5 DEF RequestShape
  <2>7. QED
    BY <2>1, <2>3, <2>6
<1>8. QED
  BY <1>2, <1>4, <1>5, <1>6, <1>7 DEF Step

(* What a step of a request does to the counters: only the one of its key   *)
(* changes, and only the EXPIRE of its first request gives it a lifetime.   *)
LEMMA CounterStep ==
    ASSUME TypeInv, NEW r \in Request, Step(r)
    PROVE  \/ UNCHANGED counters
           \/ /\ request[r].at = "counting"
              /\ counters' = [counters EXCEPT ![request[r].key] = Incremented(request[r].key)]
           \/ /\ request[r].at = "expiring"
              /\ counters' = [counters EXCEPT ![request[r].key] = Expiring(request[r].key)]
BY DEF Step, ReadClock, Count, LetExpire, CountRaises, LetExpireRaises, Admit, Refuse,
       BreakOff, At

(* Who is about to let a counter expire after a step: whoever was, or the   *)
(* request whose INCR created it.                                           *)
LEMMA ExpiringStep ==
    ASSUME TypeInv, NEW r \in Request, Step(r), request'[r].at = "expiring"
    PROVE  /\ request[r].at = "counting"
           /\ counters[request[r].key] = None
           /\ counters' = [counters EXCEPT ![request[r].key] = Incremented(request[r].key)]
<1>1. /\ request \in [Request -> RequestState] /\ request[r] \in RequestState
  BY DEF TypeInv, TypeOK
<1>2. CASE Count(r)
  <2> DEFINE k == request[r].key
  <2>1. request'[r].at = "expiring" => Incremented(k).count = 1
    BY <1>1, <1>2 DEF Count, RequestState
  <2>2. k \in Key
    BY <1>2, KeyOf DEF Count, At
  <2>3. counters[k] = None
    BY <2>1, <2>2, CounterFacts
  <2>4. QED
    BY <1>2, <2>3 DEF Count, At
<1>3. CASE ReadClock(r)
  BY <1>1, <1>3 DEF ReadClock, Waiting, RequestState
<1>4. CASE LetExpire(r) \/ CountRaises(r) \/ LetExpireRaises(r) \/ Admit(r) \/ Refuse(r) \/ BreakOff(r)
  <2>1. request'[r].at # "expiring"
    BY <1>1, <1>4 DEF LetExpire, CountRaises, LetExpireRaises, FailOpen, Admit, Refuse,
                      BreakOff, Go, RequestState
  <2>2. QED
    BY <2>1
<1>5. QED
  BY <1>2, <1>3, <1>4 DEF Step

LEMMA TypeInit == Init => TypeInv
<1> USE RateLimiterAssumption DEF RateLimiterAssumption
<1> SUFFICES ASSUME Init PROVE TypeInv
  OBVIOUS
<1>1. Waiting \in RequestState /\ Waiting.at = "waiting" /\ Waiting.key = None
  BY DEF Waiting, RequestState, Stage
<1>2. request = [r \in Request |-> Waiting] /\ \A r \in Request : request[r] = Waiting
  BY DEF Init
<1>3. TypeOK
  BY <1>1, <1>2 DEF Init, TypeOK, Time
<1>4. IsFiniteSet(counted)
  BY FS_EmptySet DEF Init
<1>5. \A r \in Request : RequestShape(r)
  BY <1>1, <1>2 DEF Init, RequestShape
<1>6. QED
  BY <1>3, <1>4, <1>5 DEF TypeInv

LEMMA TypeStep == TypeInv /\ [Next]_vars => TypeInv'
<1> USE RateLimiterAssumption DEF RateLimiterAssumption
<1> SUFFICES ASSUME TypeInv, [Next]_vars PROVE TypeInv'
  OBVIOUS
<1>1. TypeOK /\ IsFiniteSet(counted) /\ \A r \in Request : RequestShape(r)
  BY DEF TypeInv
<1>2. ASSUME NEW r \in Request, Step(r) PROVE TypeInv'
  <2>1. /\ request' \in [Request -> RequestState]
        /\ \A q \in Request \ {r} : request'[q] = request[q]
        /\ request[r].at # "waiting" => request'[r].key = request[r].key
        /\ now' = now
        /\ counted \subseteq counted'
        /\ counted' \subseteq counted \cup {r}
        /\ RequestShape(r)'
    BY <1>2, RequestStep
  <2>2. counters' \in [Key -> Counter \cup {None}]
    <3>1. CASE UNCHANGED counters
      BY <1>1, <3>1 DEF TypeOK
    <3>2. CASE ~ UNCHANGED counters
      <4>1. request[r].at \in {"counting", "expiring"}
        BY <1>2, <3>2, CounterStep
      <4>2. request[r].key \in Key
        BY <4>1, KeyOf
      <4>3. Incremented(request[r].key) \in Counter
        BY <4>2, CounterFacts
      <4>4. request[r].at = "expiring" => Expiring(request[r].key) \in Counter
        BY <1>1, <4>2, CounterFacts DEF TypeOK
      <4>5. QED
        BY <1>1, <1>2, <3>2, <4>2, <4>3, <4>4, CounterStep DEF TypeOK
    <3>3. QED
      BY <3>1, <3>2
  <2>3. /\ counted' \subseteq Request /\ late' \subseteq counted'
        /\ exempt' \subseteq Request /\ faults' \in 0..MaxFaults
    <3>1. late \subseteq counted /\ counted \subseteq Request /\ exempt \subseteq Request
          /\ faults \in 0..MaxFaults
      BY <1>1 DEF TypeOK
    <3>2. CASE Count(r)
      BY <3>1, <3>2 DEF Count, NoteCounted
    <3>3. CASE CountRaises(r)
      BY <3>1, <3>3 DEF CountRaises, FailOpen, Fault, NoteCounted
    <3>4. CASE LetExpireRaises(r)
      BY <3>1, <3>4 DEF LetExpireRaises, FailOpen, Fault
    <3>5. CASE BreakOff(r)
      BY <3>1, <3>5 DEF BreakOff, Fault
    <3>6. CASE UNCHANGED historyVars
      BY <3>1, <3>6 DEF historyVars
    <3>7. QED
      BY <1>2, <3>2, <3>3, <3>4, <3>5, <3>6 DEF Step, ReadClock, LetExpire, Admit, Refuse
  <2>4. ASSUME NEW q \in Request, request'[q].at = "expiring"
        PROVE  /\ counters'[request'[q].key] # None
               /\ counters'[request'[q].key].expires = None
               /\ \A p \in Request \ {q} :
                     request'[p].at = "expiring" => request'[p].key # request'[q].key
    <3> DEFINE k == request[r].key
    <3>1. CASE request'[r].at = "expiring"
      <4>1. /\ request[r].at = "counting" /\ counters[k] = None
            /\ counters' = [counters EXCEPT ![k] = Incremented(k)]
        BY <1>2, <3>1, ExpiringStep
      <4>2. k \in Key /\ request'[r].key = k
        BY <2>1, <4>1, KeyOf
      <4>3. counters'[k] = Incremented(k) /\ Incremented(k) # None /\ Incremented(k).expires = None
        BY <1>1, <4>1, <4>2, CounterFacts DEF TypeOK
      <4>4. \A p \in Request \ {r} : request[p].at = "expiring" => request[p].key # k
        BY <1>1, <4>1 DEF TypeOK
      <4>5. \A p \in Request \ {r} : request[p].at = "expiring" =>
               counters'[request[p].key] = counters[request[p].key]
        BY <1>1, <4>1, <4>4, KeyOf DEF TypeOK
      <4>6. CASE q = r
        BY <2>1, <4>2, <4>3, <4>4, <4>6
      <4>7. CASE q # r
        BY <1>1, <2>1, <2>4, <4>2, <4>4, <4>5, <4>7 DEF TypeOK
      <4>8. QED
        BY <4>6, <4>7
    <3>2. CASE request'[r].at # "expiring"
      <4>1. q # r /\ request'[q] = request[q] /\ request[q].at = "expiring"
        BY <2>1, <2>4, <3>2
      <4>2. request[q].key \in Key
        BY <4>1, KeyOf
      <4>3. /\ counters[request[q].key] # None
            /\ counters[request[q].key].expires = None
            /\ \A p \in Request \ {q} :
                  request[p].at = "expiring" => request[p].key # request[q].key
        BY <1>1, <4>1 DEF TypeOK
      <4>4. \A p \in Request \ {q} :
                  request'[p].at = "expiring" => request'[p].key # request'[q].key
        BY <2>1, <3>2, <4>1, <4>3
      <4>5. /\ counters'[request[q].key] # None
            /\ counters'[request[q].key].expires = None
        <5>1. CASE UNCHANGED counters
          BY <4>3, <5>1
        <5>2. CASE /\ counters' = [counters EXCEPT ![k] = Incremented(k)]
                   /\ request[r].at = "counting"
          <6>1. k \in Key
            BY <5>2, KeyOf
          <6>2. QED
            BY <1>1, <4>2, <4>3, <5>2, <6>1, CounterFacts DEF TypeOK
        <5>3. CASE /\ counters' = [counters EXCEPT ![k] = Expiring(k)]
                   /\ request[r].at = "expiring"
          BY <1>1, <4>1, <4>2, <4>3, <5>3 DEF TypeOK
        <5>4. QED
          BY <1>2, <5>1, <5>2, <5>3, CounterStep
      <4>6. QED
        BY <4>1, <4>4, <4>5
    <3>3. QED
      BY <3>1, <3>2
  <2>5. TypeOK'
    BY <1>1, <2>1, <2>2, <2>3, <2>4 DEF TypeOK
  <2>6. IsFiniteSet(counted')
    <3>1. IsFiniteSet(counted \cup {r})
      BY <1>1, FS_AddElement
    <3>2. QED
      BY <2>1, <3>1, FS_Subset
  <2>7. ASSUME NEW q \in Request, q # r PROVE RequestShape(q)'
    <3>1. request'[q] = request[q] /\ RequestShape(q) /\ (q \in counted' <=> q \in counted)
      BY <1>1, <2>1, <2>7
    <3>2. exempt \subseteq exempt'
      BY <1>2 DEF Step, ReadClock, Count, LetExpire, CountRaises, LetExpireRaises, FailOpen,
                  Admit, Refuse, BreakOff, historyVars
    <3>3. RetryAfter(q)' = RetryAfter(q)
      BY <3>1 DEF RetryAfter
    <3>4. QED
      BY <2>1, <3>1, <3>2, <3>3 DEF RequestShape
  <2>8. QED
    BY <2>1, <2>5, <2>6, <2>7 DEF TypeInv
<1>3. CASE Tick
  <2>1. now' = now + 1 /\ now' \in Time /\ now \in Time /\ UNCHANGED <<counters, request, historyVars>>
    BY <1>1, <1>3 DEF Tick, TypeOK, Time
  <2>2. TypeOK'
    BY <1>1, <2>1 DEF TypeOK, historyVars
  <2>3. \A r \in Request : RequestShape(r)'
    BY <1>1, <2>1 DEF RequestShape, RetryAfter, historyVars, Time
  <2>4. QED
    BY <1>1, <2>1, <2>2, <2>3 DEF TypeInv, historyVars
<1>4. ASSUME NEW k \in Key, Vanish(k) PROVE TypeInv'
  <2>1. /\ counters' = [counters EXCEPT ![k] = None]
        /\ UNCHANGED <<now, request, historyVars>>
        /\ counters[k].expires # None
    BY <1>4 DEF Vanish, Due
  <2>2. \A q \in Request : request[q].at = "expiring" =>
           counters'[request[q].key] = counters[request[q].key]
    BY <1>1, <2>1, KeyOf DEF TypeOK
  <2>3. TypeOK'
    BY <1>1, <2>1, <2>2 DEF TypeOK, historyVars
  <2>4. \A r \in Request : RequestShape(r)'
    BY <1>1, <2>1 DEF RequestShape, RetryAfter, historyVars
  <2>5. QED
    BY <1>1, <2>1, <2>3, <2>4 DEF TypeInv, historyVars
<1>5. CASE UNCHANGED vars
  BY <1>1, <1>5 DEF TypeInv, TypeOK, RequestShape, RetryAfter, vars, historyVars
<1>6. QED
  BY <1>2, <1>3, <1>4, <1>5 DEF Next

-------------------------------------------------------------------------------
(* A counter never counts less than it vouches for, while its window lasts. *)

LEMMA VouchedFacts ==
    ASSUME TypeInv, NEW k \in Key
    PROVE  IsFiniteSet(Vouched(k)) /\ Cardinality(Vouched(k)) \in Nat
<1>1. Vouched(k) \subseteq counted /\ IsFiniteSet(counted)
  BY DEF Vouched, TypeInv
<1>2. QED
  BY <1>1, FS_Subset, FS_CardinalityType

(* Only a successful INCR makes a counter vouch for one request more.       *)
LEMMA VouchedStep ==
    ASSUME TypeInv, NEW r \in Request, Step(r), NEW k \in Key
    PROVE  \/ Vouched(k)' \subseteq Vouched(k)
           \/ /\ Count(r) /\ k = request[r].key
              /\ now <= k[2] + Window
              /\ Incremented(k).count <= Limit
              /\ Vouched(k)' \subseteq Vouched(k) \cup {r}
<1> USE RateLimiterAssumption DEF RateLimiterAssumption
<1>1. /\ \A q \in Request \ {r} : request'[q] = request[q]
      /\ request[r].at # "waiting" => request'[r].key = request[r].key
      /\ counted \subseteq counted' /\ counted' \subseteq counted \cup {r}
      /\ r \in counted' \ counted => request[r].at = "counting"
  BY RequestStep
<1>2. exempt \subseteq exempt' /\ late \subseteq late' /\ counted \subseteq Request
  BY DEF Step, ReadClock, Count, LetExpire, CountRaises, LetExpireRaises, FailOpen,
         NoteCounted, Admit, Refuse, BreakOff, historyVars, TypeInv, TypeOK
<1>3. \A q \in Vouched(k)' : q # r => q \in Vouched(k)
  BY <1>1, <1>2 DEF Vouched
<1>4. request \in [Request -> RequestState] /\ RequestShape(r)
  BY DEF TypeInv, TypeOK
<1>5. CASE Count(r)
  <2>1. CASE r \notin Vouched(k)'
    BY <1>3, <2>1
  <2>2. CASE r \in Vouched(k)'
    <3>1. r \notin late' /\ request'[r].key = k /\ request'[r].attempts <= Limit
          /\ request[r].at = "counting"
      BY <1>4, <1>5, <2>2 DEF Vouched, Count, At, RequestState
    <3>2. request[r].key = k
      BY <1>1, <3>1
    <3>3. request'[r].attempts = Incremented(k).count
      BY <1>4, <1>5, <3>2 DEF Count, RequestState
    <3>4. ~ (now > k[2] + Window)
      BY <1>5, <3>1, <3>2 DEF Count, NoteCounted
    <3>5. k[2] \in Nat /\ now \in Nat
      BY <3>1, <3>2, KeyOf DEF TypeInv, TypeOK, Time
    <3>6. QED
      BY <1>3, <1>5, <3>1, <3>2, <3>3, <3>4, <3>5
  <2>3. QED
    BY <2>1, <2>2
<1>6. CASE CountRaises(r) \/ LetExpireRaises(r) \/ BreakOff(r) \/ ReadClock(r) \/ Refuse(r)
  <2>1. r \notin Vouched(k)'
    <3>1. CASE CountRaises(r) \/ LetExpireRaises(r)
      BY <3>1 DEF CountRaises, LetExpireRaises, FailOpen, Vouched
    <3>2. CASE BreakOff(r) \/ ReadClock(r) \/ Refuse(r)
      <4>1. request'[r].at \in {"broken", "counting", "limited"}
        <5>1. CASE BreakOff(r)
          BY <1>4, <5>1 DEF BreakOff, Go, RequestState
        <5>2. CASE ReadClock(r)
          BY <1>4, <5>2 DEF ReadClock, Waiting, RequestState
        <5>3. CASE Refuse(r)
          BY <1>4, <5>3 DEF Refuse, RequestState
        <5>4. QED
          BY <3>2, <5>1, <5>2, <5>3
      <4>2. QED
        BY <4>1 DEF Vouched
    <3>3. QED
      BY <1>6, <3>1, <3>2
  <2>2. QED
    BY <1>3, <2>1
<1>7. CASE LetExpire(r) \/ Admit(r)
  <2>1. r \in Vouched(k)' => r \in Vouched(k)
    <3>1. UNCHANGED historyVars /\ request'[r].key = request[r].key
      BY <1>1, <1>7 DEF LetExpire, Admit, At
    <3>2. CASE LetExpire(r)
      BY <1>4, <3>1, <3>2 DEF LetExpire, Go, At, Vouched, RequestState, historyVars
    <3>3. CASE Admit(r)
      BY <1>4, <3>1, <3>3 DEF Admit, IsLimited, At, Vouched, RequestState, historyVars
    <3>4. QED
      BY <1>7, <3>2, <3>3
  <2>2. QED
    BY <1>3, <2>1
<1>8. QED
  BY <1>5, <1>6, <1>7 DEF Step

LEMMA WindowInit == Init => WindowInv
<1> USE RateLimiterAssumption DEF RateLimiterAssumption
<1> SUFFICES ASSUME Init, NEW k \in Key
             PROVE  /\ Cardinality(Vouched(k)) = 0
                    /\ counters[k] = None
  BY DEF WindowInv, CountOf
<1>1. Vouched(k) = {}
  BY DEF Vouched, Init
<1>2. QED
  BY <1>1, FS_EmptySet DEF Init

LEMMA WindowStep == TypeInv /\ WindowInv /\ [Next]_vars => WindowInv'
<1> USE RateLimiterAssumption DEF RateLimiterAssumption
<1> SUFFICES ASSUME TypeInv, WindowInv, [Next]_vars, NEW k \in Key
             PROVE  /\ Cardinality(Vouched(k))' <= Limit
                    /\ (now <= k[2] + Window => Cardinality(Vouched(k)) <= CountOf(k))'
                    /\ (counters[k] # None /\ counters[k].expires # None
                          => counters[k].expires > k[2] + Window)'
  BY DEF WindowInv
<1>1. /\ Cardinality(Vouched(k)) <= Limit
      /\ now <= k[2] + Window => Cardinality(Vouched(k)) <= CountOf(k)
      /\ counters[k] # None /\ counters[k].expires # None
            => counters[k].expires > k[2] + Window
  BY DEF WindowInv
<1>2. /\ IsFiniteSet(Vouched(k)) /\ Cardinality(Vouched(k)) \in Nat
      /\ CountOf(k) \in Nat /\ now \in Nat /\ k[2] \in Nat
      /\ counters \in [Key -> Counter \cup {None}]
  <2>1. k[2] \in Nat
    BY WindowStartFacts DEF Key, Time
  <2>2. QED
    BY <2>1, VouchedFacts, CounterFacts DEF TypeInv, TypeOK, Time
<1>3. ASSUME Vouched(k)' \subseteq Vouched(k)
      PROVE  Cardinality(Vouched(k)') <= Cardinality(Vouched(k)) /\ Cardinality(Vouched(k)') \in Nat
  BY <1>2, <1>3, FS_Subset, FS_CardinalityType
<1>4. ASSUME NEW r \in Request, Step(r)
      PROVE  /\ Cardinality(Vouched(k)') <= Limit
             /\ now' <= k[2] + Window => Cardinality(Vouched(k)') <= CountOf(k)'
             /\ counters'[k] # None /\ counters'[k].expires # None
                  => counters'[k].expires > k[2] + Window
  <2>1. now' = now
    BY <1>4, RequestStep
  <2>2. counters'[k].expires > k[2] + Window \/ counters'[k] = None \/ counters'[k].expires = None
    <3>1. CASE counters'[k] = counters[k]
      BY <1>1, <3>1
    <3>2. CASE counters'[k] # counters[k]
      <4>1. /\ request[r].key = k /\ request[r].at # "waiting"
            /\ counters'[k] = Incremented(k) \/ counters'[k] = Expiring(k)
        BY <1>2, <1>4, <3>2, CounterStep
      <4>2. request[r].at = "expiring" \/ counters'[k] = Incremented(k)
        BY <1>2, <1>4, <3>2, CounterStep
      <4>3. k[2] <= now
        BY <4>1, KeyOf
      <4>4. CASE counters'[k] = Incremented(k)
        BY <1>1, <4>4, CounterFacts
      <4>5. CASE request[r].at = "expiring" /\ counters'[k] = Expiring(k)
        <5>1. counters[k] # None
          BY <4>1, <4>5 DEF TypeInv, TypeOK
        <5>2. counters'[k].expires = now + Window + 1
          BY <4>5, <5>1, CounterFacts
        <5>3. QED
          BY <1>2, <4>3, <5>2
      <4>6. QED
        BY <4>1, <4>2, <4>4, <4>5
    <3>3. QED
      BY <3>1, <3>2
  <2>3. CountOf(k)' >= CountOf(k) /\ CountOf(k)' \in Nat
        /\ (Count(r) /\ k = request[r].key => CountOf(k)' = CountOf(k) + 1)
    <3>1. CASE counters'[k] = counters[k]
      <4>1. Count(r) /\ k = request[r].key => counters'[k] = Incremented(k)
        BY <1>2 DEF Count
      <4>2. Incremented(k) # counters[k]
        BY <1>2, CounterFacts DEF CountOf
      <4>3. QED
        BY <1>2, <3>1, <4>1, <4>2 DEF CountOf
    <3>2. CASE counters'[k] = Incremented(k)
      BY <1>2, <3>2, CounterFacts DEF CountOf
    <3>3. CASE request[r].at = "expiring" /\ request[r].key = k /\ counters'[k] = Expiring(k)
      <4>1. counters[k] # None /\ ~ Count(r)
        BY <3>3 DEF TypeInv, TypeOK, Count, At
      <4>2. Expiring(k) # None /\ Expiring(k).count = counters[k].count
        BY <4>1, CounterFacts
      <4>3. QED
        BY <1>2, <3>3, <4>1, <4>2 DEF CountOf
    <3>4. QED
      BY <1>2, <1>4, <3>1, <3>2, <3>3, CounterStep
  <2>4. CASE Vouched(k)' \subseteq Vouched(k)
    BY <1>1, <1>2, <1>3, <2>1, <2>2, <2>3, <2>4
  <2>5. CASE /\ Count(r) /\ k = request[r].key
             /\ now <= k[2] + Window
             /\ Incremented(k).count <= Limit
             /\ Vouched(k)' \subseteq Vouched(k) \cup {r}
    <3>1. /\ IsFiniteSet(Vouched(k) \cup {r})
          /\ Cardinality(Vouched(k) \cup {r}) <= Cardinality(Vouched(k)) + 1
          /\ Cardinality(Vouched(k) \cup {r}) \in Nat
      <4>1. IsFiniteSet(Vouched(k) \cup {r})
        BY <1>2, FS_AddElement
      <4>2. \/ Cardinality(Vouched(k) \cup {r}) = Cardinality(Vouched(k))
            \/ Cardinality(Vouched(k) \cup {r}) = Cardinality(Vouched(k)) + 1
        BY <1>2, FS_AddElement
      <4>3. QED
        BY <1>2, <4>1, <4>2
    <3>2. /\ Cardinality(Vouched(k)') <= Cardinality(Vouched(k) \cup {r})
          /\ Cardinality(Vouched(k)') \in Nat
      BY <2>5, <3>1, FS_Subset, FS_CardinalityType
    <3>3. Incremented(k).count = CountOf(k) + 1
      BY CounterFacts
    <3>4. QED
      BY <1>1, <1>2, <2>1, <2>2, <2>3, <2>5, <3>1, <3>2, <3>3
  <2>6. QED
    BY <1>4, <2>4, <2>5, VouchedStep
<1>5. CASE Tick
  <2>1. now' = now + 1 /\ UNCHANGED <<counters, request, counted, late, exempt>>
    BY <1>5 DEF Tick, historyVars
  <2>2. Vouched(k)' = Vouched(k) /\ CountOf(k)' = CountOf(k)
    BY <2>1 DEF Vouched, CountOf
  <2>3. QED
    BY <1>1, <1>2, <2>1, <2>2
<1>6. ASSUME NEW c \in Key, Vanish(c)
      PROVE  /\ Cardinality(Vouched(k)') <= Limit
             /\ now' <= k[2] + Window => Cardinality(Vouched(k)') <= CountOf(k)'
             /\ counters'[k] # None /\ counters'[k].expires # None
                  => counters'[k].expires > k[2] + Window
  <2>1. UNCHANGED <<now, request, counted, late, exempt>> /\ counters' = [counters EXCEPT ![c] = None]
    BY <1>6 DEF Vanish, historyVars
  <2>2. Vouched(k)' = Vouched(k)
    BY <2>1 DEF Vouched
  <2>3. CASE c # k
    BY <1>1, <1>2, <2>1, <2>2, <2>3 DEF CountOf
  <2>4. CASE c = k
    <3>1. counters[k] # None /\ counters[k].expires # None /\ counters[k].expires <= now
      BY <1>6, <2>4 DEF Vanish, Due
    <3>2. counters[k].expires \in Nat
      BY <1>2, <3>1 DEF Counter
    <3>3. now > k[2] + Window
      BY <1>1, <1>2, <3>1, <3>2
    <3>4. QED
      BY <1>1, <1>2, <2>1, <2>2, <2>4, <3>3
  <2>5. QED
    BY <2>3, <2>4
<1>7. CASE UNCHANGED vars
  BY <1>1, <1>7 DEF vars, historyVars, Vouched, CountOf
<1>8. QED
  BY <1>4, <1>5, <1>6, <1>7 DEF Next

-------------------------------------------------------------------------------
(* No number a request holds exceeds the requests counted on its key.       *)

LEMMA CountedOnFacts ==
    ASSUME TypeInv, NEW k
    PROVE  IsFiniteSet(CountedOn(k)) /\ Cardinality(CountedOn(k)) \in Nat
<1>1. CountedOn(k) \subseteq counted /\ IsFiniteSet(counted)
  BY DEF CountedOn, TypeInv
<1>2. QED
  BY <1>1, FS_Subset, FS_CardinalityType

(* The requests counted on a key never become fewer, and a counter grows    *)
(* only with them.                                                          *)
LEMMA CountedOnStep ==
    ASSUME TypeInv, NEW r \in Request, Step(r), NEW k \in Key
    PROVE  /\ IsFiniteSet(CountedOn(k)')
           /\ Cardinality(CountedOn(k)') \in Nat
           /\ Cardinality(CountedOn(k)') >= Cardinality(CountedOn(k))
           /\ \/ CountOf(k)' = CountOf(k) /\ ~ (Count(r) /\ request[r].key = k)
              \/ /\ CountOf(k)' = CountOf(k) + 1
                 /\ Cardinality(CountedOn(k)') = Cardinality(CountedOn(k)) + 1
<1> USE RateLimiterAssumption DEF RateLimiterAssumption
<1>1. /\ counters \in [Key -> Counter \cup {None}] /\ RequestShape(r)
      /\ IsFiniteSet(counted)
  BY DEF TypeInv, TypeOK
<1>2. /\ \A q \in Request \ {r} : request'[q] = request[q]
      /\ request[r].at # "waiting" => request'[r].key = request[r].key
      /\ counted \subseteq counted' /\ counted' \subseteq counted \cup {r}
      /\ counted \subseteq Request
  BY RequestStep DEF TypeInv, TypeOK
<1>3. CountedOn(k) \subseteq CountedOn(k)'
  <2>1. r \in counted => request'[r].key = request[r].key
    BY <1>1, <1>2 DEF RequestShape
  <2>2. QED
    BY <1>2, <2>1 DEF CountedOn
<1>4. IsFiniteSet(CountedOn(k)') /\ IsFiniteSet(CountedOn(k)) /\ Cardinality(CountedOn(k)) \in Nat
  <2>1. IsFiniteSet(counted \cup {r})
    BY <1>1, FS_AddElement
  <2>2. CountedOn(k)' \subseteq counted \cup {r}
    BY <1>2 DEF CountedOn
  <2>3. QED
    BY <2>1, <2>2, FS_Subset, CountedOnFacts
<1>5. Cardinality(CountedOn(k)') \in Nat /\ Cardinality(CountedOn(k)') >= Cardinality(CountedOn(k))
  BY <1>3, <1>4, FS_Subset, FS_CardinalityType
<1>6. CASE /\ request[r].key = k /\ request[r].at = "counting"
           /\ counters' = [counters EXCEPT ![k] = Incremented(k)]
  <2>1. counters'[k] = Incremented(k) /\ CountOf(k)' = CountOf(k) + 1
    BY <1>1, <1>6, CounterFacts DEF CountOf
  <2>2. counters' # counters
    BY <1>1, <2>1, CounterFacts DEF CountOf
  <2>3. counted' = counted \cup {r}
    BY <1>6, <2>2 DEF Step, ReadClock, Count, LetExpire, CountRaises, LetExpireRaises, At,
                      NoteCounted, Admit, Refuse, BreakOff
  <2>4. r \notin CountedOn(k) /\ CountedOn(k)' = CountedOn(k) \cup {r}
    BY <1>1, <1>2, <1>6, <2>3 DEF RequestShape, CountedOn
  <2>5. Cardinality(CountedOn(k)') = Cardinality(CountedOn(k)) + 1
    BY <1>4, <2>4, FS_AddElement
  <2>6. QED
    BY <1>4, <1>5, <2>1, <2>5
<1>7. CASE ~ (/\ request[r].key = k /\ request[r].at = "counting"
              /\ counters' = [counters EXCEPT ![k] = Incremented(k)])
  <2>1. ~ (Count(r) /\ request[r].key = k)
    BY <1>7 DEF Count, At
  <2>2. CountOf(k)' = CountOf(k)
    <3>1. CASE counters'[k] = counters[k]
      BY <3>1 DEF CountOf
    <3>2. CASE request[r].key = k /\ request[r].at = "expiring" /\ counters'[k] = Expiring(k)
      BY <1>1, <3>2, CounterFacts DEF TypeInv, TypeOK, CountOf
    <3>3. QED
      BY <1>1, <1>7, <3>1, <3>2, CounterStep
  <2>3. QED
    BY <1>4, <1>5, <2>1, <2>2
<1>8. QED
  BY <1>6, <1>7

(* Where the number comes from that a request decides by.                   *)
LEMMA AttemptsStep ==
    ASSUME TypeInv, NEW r \in Request, Step(r), request'[r].at \in {"expiring", "deciding"}
    PROVE  \/ Count(r) /\ request'[r].attempts = Incremented(request[r].key).count
           \/ request'[r].attempts = 0
           \/ request[r].at = "expiring" /\ request'[r].attempts = request[r].attempts
<1>1. request \in [Request -> RequestState] /\ request[r] \in RequestState
  BY DEF TypeInv, TypeOK
<1>2. CASE Count(r)
  BY <1>1, <1>2 DEF Count, RequestState
<1>3. CASE CountRaises(r) \/ LetExpireRaises(r)
  BY <1>1, <1>3 DEF CountRaises, LetExpireRaises, FailOpen, RequestState
<1>4. CASE LetExpire(r)
  BY <1>1, <1>4 DEF LetExpire, Go, At, RequestState
<1>5. CASE ReadClock(r)
  BY <1>1, <1>5 DEF ReadClock, Waiting, RequestState
<1>6. CASE Admit(r)
  BY <1>1, <1>6 DEF Admit, RequestState
<1>7. CASE Refuse(r)
  BY <1>1, <1>7 DEF Refuse, RequestState
<1>8. CASE BreakOff(r)
  BY <1>1, <1>8 DEF BreakOff, Go, RequestState
<1>9. QED
  BY <1>2, <1>3, <1>4, <1>5, <1>6, <1>7, <1>8 DEF Step

LEMMA FullInit == Init /\ TypeInv => FullInv
<1> SUFFICES ASSUME Init, TypeInv PROVE FullInv
  OBVIOUS
<1>1. \A k \in Key : CountOf(k) = 0
  BY DEF Init, CountOf
<1>2. \A r \in Request : request[r].at = "waiting"
  BY DEF Init, Waiting
<1>3. QED
  BY <1>1, <1>2, CountedOnFacts DEF FullInv

LEMMA FullStep == TypeInv /\ FullInv /\ [Next]_vars => FullInv'
<1> USE RateLimiterAssumption DEF RateLimiterAssumption
<1> SUFFICES ASSUME TypeInv, FullInv, [Next]_vars PROVE FullInv'
  OBVIOUS
<1>1. ASSUME NEW r \in Request, Step(r) PROVE FullInv'
  <2>1. ASSUME NEW k \in Key PROVE (CountOf(k) <= Cardinality(CountedOn(k)))'
    <3>1. /\ CountOf(k) <= Cardinality(CountedOn(k)) /\ CountOf(k) \in Nat
          /\ Cardinality(CountedOn(k)) \in Nat
      BY CounterFacts, CountedOnFacts DEF FullInv
    <3>2. QED
      BY <1>1, <3>1, CountedOnStep
  <2>2. ASSUME NEW q \in Request, request'[q].at \in {"expiring", "deciding", "limited"}
        PROVE  LET c == Cardinality(CountedOn(request[q].key)')
               IN /\ request'[q].key = request[q].key
                  /\ request'[q].at \in {"expiring", "deciding"} => request'[q].attempts <= c
                  /\ request'[q].at = "limited" => c > Limit
    <3> DEFINE k == request[q].key
    <3>1. /\ request' \in [Request -> RequestState] /\ request \in [Request -> RequestState]
          /\ q # r => request'[q] = request[q]
      BY <1>1, RequestStep DEF TypeInv, TypeOK
    <3>2. request[q].at # "waiting"
      <4>1. request[r].at = "waiting" => request'[r].at = "counting"
        BY <1>1, <3>1 DEF Step, ReadClock, Waiting, Count, LetExpire, CountRaises,
             LetExpireRaises, Admit, Refuse, BreakOff, At
      <4>2. QED
        BY <2>2, <3>1, <4>1
    <3>3. k \in Key /\ request'[q].key = k
      BY <1>1, <3>1, <3>2, KeyOf, RequestStep
    <3>4. /\ Cardinality(CountedOn(k)') \in Nat /\ Cardinality(CountedOn(k)) \in Nat
          /\ Cardinality(CountedOn(k)') >= Cardinality(CountedOn(k))
      BY <1>1, <3>3, CountedOnStep, CountedOnFacts
    <3>5. /\ request[q].at \in {"expiring", "deciding"} =>
                request[q].attempts <= Cardinality(CountedOn(k))
          /\ request[q].at = "limited" => Cardinality(CountedOn(k)) > Limit
          /\ request[q].attempts \in Nat
      BY <3>1 DEF FullInv, RequestState
    <3>6. CASE q # r
      BY <3>1, <3>3, <3>4, <3>5, <3>6
    <3>7. CASE q = r /\ request'[r].at \in {"expiring", "deciding"}
      <4>1. CASE Count(r) /\ request'[r].attempts = Incremented(k).count
        <5>1. CountOf(k) <= Cardinality(CountedOn(k)) /\ Incremented(k).count = CountOf(k) + 1
              /\ CountOf(k) \in Nat
          BY <3>3, CounterFacts DEF FullInv
        <5>2. Cardinality(CountedOn(k)') = Cardinality(CountedOn(k)) + 1
          BY <1>1, <3>3, <3>7, <4>1, CountedOnStep
        <5>3. QED
          BY <3>3, <3>4, <3>7, <4>1, <5>1, <5>2
      <4>2. CASE \/ request'[r].attempts = 0
                 \/ request[r].at = "expiring" /\ request'[r].attempts = request[r].attempts
        BY <3>3, <3>4, <3>5, <3>7, <4>2
      <4>3. QED
        BY <1>1, <3>7, <4>1, <4>2, AttemptsStep
    <3>8. CASE q = r /\ request'[r].at = "limited"
      <4>1. \/ request[r].at = "deciding" /\ request[r].attempts > Limit
            \/ request[r].at = "limited"
        <5>1. CASE Refuse(r)
          BY <5>1 DEF Refuse, IsLimited, At
        <5>2. CASE ~ Refuse(r)
          <6>1. CASE Count(r)
            BY <3>1, <3>8, <6>1 DEF Count, RequestState
          <6>2. CASE LetExpire(r) \/ BreakOff(r)
            BY <3>1, <3>8, <6>2 DEF LetExpire, BreakOff, Go, RequestState
          <6>3. CASE CountRaises(r) \/ LetExpireRaises(r)
            BY <3>1, <3>8, <6>3 DEF CountRaises, LetExpireRaises, FailOpen, RequestState
          <6>4. CASE Admit(r)
            BY <3>1, <3>8, <6>4 DEF Admit, RequestState
          <6>5. CASE ReadClock(r)
            BY <3>2, <3>8, <6>5 DEF ReadClock, At
          <6>6. QED
            BY <1>1, <5>2, <6>1, <6>2, <6>3, <6>4, <6>5 DEF Step
        <5>3. QED
          BY <5>1, <5>2
      <4>2. QED
        BY <3>3, <3>4, <3>5, <3>8, <4>1
    <3>9. QED
      BY <2>2, <3>6, <3>7, <3>8
  <2>3. QED
    BY <2>1, <2>2 DEF FullInv, CountedOn
<1>2. CASE Tick \/ UNCHANGED vars
  <2>1. UNCHANGED <<counters, request, counted>>
    BY <1>2 DEF Tick, vars, historyVars
  <2>2. QED
    BY <2>1 DEF FullInv, CountOf, CountedOn
<1>3. ASSUME NEW k \in Key, Vanish(k) PROVE FullInv'
  <2>1. counters' = [counters EXCEPT ![k] = None] /\ UNCHANGED <<request, counted>>
    BY <1>3 DEF Vanish, historyVars
  <2>2. \A c \in Key : CountOf(c)' = IF c = k THEN 0 ELSE CountOf(c)
    BY <2>1 DEF CountOf, TypeInv, TypeOK
  <2>3. \A c : CountedOn(c)' = CountedOn(c) /\ Cardinality(CountedOn(c)) \in Nat
    BY <2>1, CountedOnFacts DEF CountedOn
  <2>4. QED
    BY <2>1, <2>2, <2>3 DEF FullInv
<1>4. QED
  BY <1>1, <1>2, <1>3 DEF Next

-------------------------------------------------------------------------------
(* Every counter without a lifetime cost a fault. *)

LEMMA LeakStep ==
    ASSUME TypeInv, NEW r \in Request, Step(r)
    PROVE  \/ Leaks' \subseteq Leaks /\ faults' >= faults
           \/ Leaks' \subseteq Leaks \cup {request[r].key} /\ faults' = faults + 1
<1> USE RateLimiterAssumption DEF RateLimiterAssumption
<1>1. /\ counters \in [Key -> Counter \cup {None}] /\ faults \in Nat /\ now \in Nat
      /\ request \in [Request -> RequestState]
      /\ \A q \in Request \ {r} : request'[q] = request[q]
      /\ request[r].at # "waiting" => request'[r].key = request[r].key
  BY RequestStep DEF TypeInv, TypeOK, Time
<1>2. ASSUME NEW k \in Leaks'
      PROVE  /\ k \in Key
             /\ counters'[k] # None /\ counters'[k].expires = None
             /\ \A q \in Request : request'[q].at = "expiring" => request'[q].key # k
  BY <1>2 DEF Leaks, Leaked, At
<1>3. ASSUME NEW k \in Leaks', request[r].key # k
      PROVE  k \in Leaks
  <2>1. counters'[k] = counters[k]
    <3>1. CASE UNCHANGED counters
      BY <3>1
    <3>2. CASE ~ UNCHANGED counters
      BY <1>1, <1>2, <1>3, <3>2, CounterStep
    <3>3. QED
      BY <3>1, <3>2
  <2>2. \A q \in Request : request[q].at = "expiring" => request[q].key # k
    BY <1>1, <1>2, <1>3
  <2>3. QED
    BY <1>2, <2>1, <2>2 DEF Leaks, Leaked, At
<1>4. CASE CountRaises(r) \/ LetExpireRaises(r) \/ BreakOff(r)
  <2>1. faults' = faults + 1
    BY <1>4 DEF CountRaises, LetExpireRaises, BreakOff, FailOpen, Fault
  <2>2. QED
    BY <1>3, <2>1
<1>5. CASE ReadClock(r) \/ Admit(r) \/ Refuse(r)
  <2>1. UNCHANGED <<counters, faults>> /\ request[r].at # "expiring"
    BY <1>5 DEF ReadClock, Admit, Refuse, At, historyVars
  <2>2. QED
    BY <1>1, <1>2, <2>1 DEF Leaks, Leaked, At
<1>6. CASE Count(r)
  <2>1. faults' = faults /\ request[r].at = "counting"
    BY <1>6 DEF Count, At
  <2>2. ASSUME NEW k \in Leaks', request[r].key = k PROVE k \in Leaks
    <3>1. counters'[k] = Incremented(k) /\ k \in Key /\ request'[r].key = k
      BY <1>1, <1>2, <1>6, <2>1, <2>2 DEF Count
    <3>2. CASE counters[k] = None
      <4>1. Incremented(k).count = 1
        BY <3>1, <3>2, CounterFacts DEF CountOf
      <4>2. request'[r].at = "expiring"
        BY <1>1, <1>6, <2>2, <4>1 DEF Count, RequestState
      <4>3. QED
        BY <1>2, <3>1, <4>2
    <3>3. CASE counters[k] # None
      <4>1. counters[k].expires = None
        BY <1>2, <3>1, <3>3, CounterFacts
      <4>2. \A q \in Request : request[q].at = "expiring" => request[q].key # k
        BY <1>1, <1>2, <2>1
      <4>3. QED
        BY <3>1, <3>3, <4>1, <4>2 DEF Leaks, Leaked, At
    <3>4. QED
      BY <3>2, <3>3
  <2>3. QED
    BY <1>1, <1>3, <2>1, <2>2
<1>7. CASE LetExpire(r)
  <2>1. /\ faults' = faults /\ request[r].at = "expiring"
        /\ counters' = [counters EXCEPT ![request[r].key] = Expiring(request[r].key)]
    BY <1>7 DEF LetExpire, At, historyVars
  <2>2. request[r].key \in Key /\ counters[request[r].key] # None
    BY <2>1, KeyOf DEF TypeInv, TypeOK
  <2>3. counters'[request[r].key].expires = now + Window + 1
    BY <1>1, <2>1, <2>2, CounterFacts
  <2>4. request[r].key \notin Leaks'
    BY <1>1, <1>2, <2>3
  <2>5. QED
    BY <1>1, <1>3, <2>1, <2>4
<1>8. QED
  BY <1>4, <1>5, <1>6, <1>7 DEF Step

LEMMA LeakInit == Init => LeakInv
<1> SUFFICES ASSUME Init PROVE LeakInv
  OBVIOUS
<1>1. Leaks = {}
  BY DEF Init, Leaks, Leaked
<1>2. QED
  BY <1>1, FS_EmptySet DEF Init, LeakInv

LEMMA LeakInvStep == TypeInv /\ LeakInv /\ [Next]_vars => LeakInv'
<1> USE RateLimiterAssumption DEF RateLimiterAssumption
<1> SUFFICES ASSUME TypeInv, LeakInv, [Next]_vars PROVE LeakInv'
  OBVIOUS
<1>1. /\ IsFiniteSet(Leaks) /\ Cardinality(Leaks) <= faults
      /\ Cardinality(Leaks) \in Nat /\ faults \in Nat
  BY FS_CardinalityType DEF LeakInv, TypeInv, TypeOK
<1>2. ASSUME Leaks' \subseteq Leaks, faults' >= faults, faults' \in Nat PROVE LeakInv'
  <2>1. IsFiniteSet(Leaks') /\ Cardinality(Leaks') <= Cardinality(Leaks)
    BY <1>1, <1>2, FS_Subset
  <2>2. Cardinality(Leaks') \in Nat
    BY <2>1, FS_CardinalityType
  <2>3. QED
    BY <1>1, <1>2, <2>1, <2>2 DEF LeakInv
<1>3. faults' \in Nat
  BY TypeStep DEF TypeInv, TypeOK
<1>4. ASSUME NEW r \in Request, Step(r) PROVE LeakInv'
  <2>1. CASE Leaks' \subseteq Leaks /\ faults' >= faults
    BY <1>2, <1>3, <2>1
  <2>2. CASE Leaks' \subseteq Leaks \cup {request[r].key} /\ faults' = faults + 1
    <3> DEFINE k == request[r].key
    <3>1. /\ IsFiniteSet(Leaks \cup {k})
          /\ Cardinality(Leaks \cup {k}) =
                IF k \in Leaks THEN Cardinality(Leaks) ELSE Cardinality(Leaks) + 1
      <4> HIDE DEF k
      <4>1. QED
        BY <1>1, FS_AddElement
    <3>2. IsFiniteSet(Leaks') /\ Cardinality(Leaks') <= Cardinality(Leaks \cup {k})
      BY <2>2, <3>1, FS_Subset
    <3>3. Cardinality(Leaks') \in Nat
      BY <3>2, FS_CardinalityType
    <3>4. QED
      BY <1>1, <2>2, <3>1, <3>2, <3>3 DEF LeakInv
  <2>3. QED
    BY <1>4, <2>1, <2>2, LeakStep
<1>5. CASE Tick \/ UNCHANGED vars
  <2>1. UNCHANGED <<counters, request, faults>>
    BY <1>5 DEF Tick, vars, historyVars
  <2>2. Leaks' = Leaks
    BY <2>1 DEF Leaks, Leaked, At
  <2>3. QED
    BY <1>1, <1>2, <2>1, <2>2
<1>6. ASSUME NEW k \in Key, Vanish(k) PROVE LeakInv'
  <2>1. UNCHANGED <<request, faults>> /\ counters' = [counters EXCEPT ![k] = None]
    BY <1>6 DEF Vanish, historyVars
  <2>2. Leaks' \subseteq Leaks
    BY <2>1 DEF Leaks, Leaked, At, TypeInv, TypeOK
  <2>3. QED
    BY <1>1, <1>2, <2>1, <2>2
<1>7. QED
  BY <1>4, <1>5, <1>6 DEF Next

-------------------------------------------------------------------------------
(* The theorems. *)

IInv == TypeInv /\ WindowInv /\ FullInv /\ LeakInv

(* The inductive invariant holds of every behaviour of RateLimiter.         *)
THEOREM Invariance == Spec => []IInv
<1>1. Init => IInv
  BY TypeInit, WindowInit, FullInit, LeakInit DEF IInv
<1>2. IInv /\ [Next]_vars => IInv'
  BY TypeStep, WindowStep, FullStep, LeakInvStep DEF IInv
<1>3. QED
  BY <1>1, <1>2, PTL DEF Spec

(* Every variable keeps its type, and between the INCR that creates a       *)
(* counter and its EXPIRE no other request of that key is about to set a    *)
(* lifetime (RedisRateLimiter::hit).                                        *)
THEOREM TypeCorrect == Spec => []TypeOK
<1>1. IInv => TypeOK
  BY DEF IInv, TypeInv
<1>2. QED
  BY <1>1, Invariance, PTL

(* No window admits more than its limit, but for requests whose commands    *)
(* failed or that were counted a second or more after their window, however *)
(* many requests race on the same counter.                                  *)
THEOREM LimitIsKept == Spec => []WindowKeepsLimit
<1> USE RateLimiterAssumption DEF RateLimiterAssumption
<1>1. IInv => WindowKeepsLimit
  <2> SUFFICES ASSUME IInv, NEW k \in Key
               PROVE  Cardinality(AdmittedTo(k) \ (exempt \cup late)) <= Limit
    BY DEF WindowKeepsLimit
  <2>1. /\ IsFiniteSet(Vouched(k)) /\ Cardinality(Vouched(k)) \in Nat
        /\ Cardinality(Vouched(k)) <= Limit
    BY VouchedFacts DEF IInv, WindowInv
  <2>2. AdmittedTo(k) \ (exempt \cup late) \subseteq Vouched(k)
    BY DEF IInv, TypeInv, RequestShape, AdmittedTo, Vouched, At
  <2>3. /\ IsFiniteSet(AdmittedTo(k) \ (exempt \cup late))
        /\ Cardinality(AdmittedTo(k) \ (exempt \cup late)) <= Cardinality(Vouched(k))
    BY <2>1, <2>2, FS_Subset
  <2>4. Cardinality(AdmittedTo(k) \ (exempt \cup late)) \in Nat
    BY <2>3, FS_CardinalityType
  <2>5. QED
    BY <2>1, <2>3, <2>4
<1>2. QED
  BY <1>1, Invariance, PTL

(* A 429 is answered only when Limit other requests of the same client were *)
(* counted in the same window: requests of one window never use up another. *)
THEOREM RefusalIsDeserved == Spec => []RefusedOnlyWhenFull
<1> USE RateLimiterAssumption DEF RateLimiterAssumption
<1>1. IInv => RefusedOnlyWhenFull
  <2> SUFFICES ASSUME IInv, NEW r \in Request, request[r].at = "limited"
               PROVE  Cardinality({q \in counted \ {r} : request[q].key = request[r].key}) >= Limit
    BY DEF RefusedOnlyWhenFull, At
  <2> DEFINE C == CountedOn(request[r].key)
  <2>1. IsFiniteSet(C) /\ Cardinality(C) \in Nat /\ Cardinality(C) > Limit /\ r \in C
    BY CountedOnFacts DEF IInv, FullInv, TypeInv, RequestShape, CountedOn
  <2>2. {q \in counted \ {r} : request[q].key = request[r].key} = C \ {r}
    BY DEF CountedOn
  <2>3. Cardinality(C \ {r}) = Cardinality(C) - 1
    <3> HIDE DEF C
    <3>1. QED
      BY <2>1, FS_RemoveElement
  <2>4. Cardinality(C \ {r}) >= Limit
    <3> HIDE DEF C
    <3>1. QED
      BY <2>1, <2>3
  <2>5. QED
    BY <2>2, <2>4
<1>2. QED
  BY <1>1, Invariance, PTL

(* A counter that nobody will ever let expire cost a failing command or a   *)
(* process that ended between INCR and EXPIRE.                              *)
THEOREM LeaksAreFaults == Spec => []LeaksCostFaults
<1>1. IInv => LeaksCostFaults
  BY DEF IInv, LeakInv, Leaks, LeaksCostFaults
<1>2. QED
  BY <1>1, Invariance, PTL

(* The seconds in Retry-After end with the window: a client that waits as   *)
(* long is counted in a later one, and one that does not is counted again.  *)
THEOREM RetryAfterCorrect == Spec => []RetryAfterIsExact
<1> USE RateLimiterAssumption DEF RateLimiterAssumption
<1>1. IInv => RetryAfterIsExact
  <2> SUFFICES ASSUME IInv, NEW r \in Request, NEW q \in Request,
                      request[r].at = "limited", request[q].key # None,
                      request[q].key[1] = request[r].key[1],
                      request[q].read >= request[r].read
               PROVE  request[q].key = request[r].key
                         <=> request[q].read < request[r].read + request[r].retryAfter
    BY DEF RetryAfterIsExact, At
  <2> DEFINE s == request[r].read  t == request[q].read
  <2>1. /\ request[q].at # "waiting"
        /\ RequestShape(q) /\ RequestShape(r)
        /\ request[r].retryAfter = RetryAfter(r)
    BY DEF IInv, TypeInv, RequestShape
  <2>2. s \in Nat /\ t \in Nat /\ s <= t
    BY <2>1 DEF RequestShape, Time
  <2>3. PICK c \in Client : request[r].key = <<c, WindowStart(s)>>
    BY <2>1 DEF RequestShape
  <2>4. PICK d \in Client : request[q].key = <<d, WindowStart(t)>>
    BY <2>1 DEF RequestShape
  <2>5. request[q].key = request[r].key <=> WindowStart(t) = WindowStart(s)
    BY <2>3, <2>4
  <2>6. WindowStart(t) = WindowStart(s) <=> t < WindowStart(s) + Window
    BY <2>2, SameWindow
  <2>7. s + request[r].retryAfter = WindowStart(s) + Window
    <3>1. WindowStart(s) \in Nat /\ s < WindowStart(s) + Window
      BY <2>2, WindowStartFacts
    <3>2. request[r].key[2] = WindowStart(s)
      BY <2>3
    <3>3. QED
      BY <2>1, <2>2, <3>1, <3>2 DEF RetryAfter, AtLeastOne
  <2>8. QED
    BY <2>5, <2>6, <2>7
<1>2. QED
  BY <1>1, Invariance, PTL
===============================================================================
