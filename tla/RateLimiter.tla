----------------------------- MODULE RateLimiter ------------------------------
(***************************************************************************)
(* The limit on API requests: RateLimitMiddleware and RedisRateLimiter.    *)
(*                                                                         *)
(* A request reads the clock, which fixes its window and its key, counts   *)
(* itself with INCR, lets the counter expire if it was the first, and is   *)
(* let through or answered 429.  INCR and EXPIRE are two commands of Redis,*)
(* and between any two steps the clock may go on.  One member of Request   *)
(* is one HTTP request; method, path and address, which make up the rest   *)
(* of the key, are a Client.                                               *)
(*                                                                         *)
(* `counted', `late', `exempt' and `faults' are history.                   *)
(***************************************************************************)
EXTENDS Integers, FiniteSets

CONSTANTS
    Client, Request,
    Limit,           (* requests a window admits                             *)
    Window,          (* its length in seconds                                *)
    MaxTime,         (* bound of the clock                                   *)
    MaxFaults,       (* commands that may fail and requests that may break off *)
    None             (* no counter, no time, no request yet                  *)

ASSUME RateLimiterAssumption ==
    /\ Limit \in Nat
    /\ Window \in Nat \ {0}
    /\ MaxTime \in Nat
    /\ MaxFaults \in Nat
    /\ None \notin Int \cup (Client \X Int) \cup [count: Nat, expires: Nat \cup {None}]

VARIABLES
    now,         (* the clock, in seconds                                    *)
    counters,    (* the keys in Redis: their value and when they expire      *)
    request,     (* what each request is doing                               *)
    counted,     (* requests whose INCR took effect                          *)
    late,        (* those of them that did so a second or more after their window *)
    exempt,      (* requests let through because a command failed            *)
    faults       (* failed commands and broken off requests                  *)

historyVars == <<counted, late, exempt, faults>>
vars == <<now, counters, request, historyVars>>

Time == 0..MaxTime

WindowStart(t) == (t \div Window) * Window

Key == Client \X {WindowStart(t) : t \in Time}

(* `expires' is None for a key without a time to live.                      *)
Counter == [count: Nat \ {0}, expires: Nat \cup {None}]

Stage == {"waiting", "counting", "expiring", "deciding", "admitted", "limited", "broken"}

RequestState ==
    [at: Stage, key: Key \cup {None}, read: Time \cup {None},
     attempts: Nat, retryAfter: Nat]

Waiting == [at |-> "waiting", key |-> None, read |-> None, attempts |-> 0, retryAfter |-> 0]

(* The first of a counter is the only one that is about to let it expire.   *)
TypeOK ==
    /\ now \in Time
    /\ counters \in [Key -> Counter \cup {None}]
    /\ request \in [Request -> RequestState]
    /\ counted \subseteq Request
    /\ late \subseteq counted
    /\ exempt \subseteq Request
    /\ faults \in 0..MaxFaults
    /\ \A r \in Request : request[r].at = "expiring" =>
          /\ counters[request[r].key] # None
          /\ counters[request[r].key].expires = None
          /\ \A q \in Request \ {r} :
                request[q].at = "expiring" => request[q].key # request[r].key

Init ==
    /\ now = 0
    /\ counters = [k \in Key |-> None]
    /\ request = [r \in Request |-> Waiting]
    /\ counted = {}
    /\ late = {}
    /\ exempt = {}
    /\ faults = 0

-------------------------------------------------------------------------------
(* Time and Redis.  A counter is gone before the second after `expires'.    *)

Due(k) ==
    /\ counters[k] # None
    /\ counters[k].expires # None
    /\ counters[k].expires <= now

Tick ==
    /\ now < MaxTime
    /\ \A k \in Key : ~ Due(k)
    /\ now' = now + 1
    /\ UNCHANGED <<counters, request, historyVars>>

Vanish(k) ==
    /\ Due(k)
    /\ counters' = [counters EXCEPT ![k] = None]
    /\ UNCHANGED <<now, request, historyVars>>

Incremented(k) ==
    IF counters[k] = None THEN [count |-> 1, expires |-> None]
                          ELSE [counters[k] EXCEPT !.count = @ + 1]

(* Mutant: the counter lives for exactly one window.                        *)
LifetimeOfOneWindow(k) == [counters[k] EXCEPT !.expires = now + Window]

(* The one second more is for requests that count a little late.            *)
Expiring(k) == [counters[k] EXCEPT !.expires = now + Window + 1]

-------------------------------------------------------------------------------
(* RedisRateLimiter::hit. *)

At(r, stage) == request[r].at = stage

Go(r, stage) == request' = [request EXCEPT ![r].at = stage]

Fault ==
    /\ faults < MaxFaults
    /\ faults' = faults + 1

NoteCounted(r) ==
    /\ counted' = counted \cup {r}
    /\ late' = IF now > request[r].key[2] + Window THEN late \cup {r} ELSE late

ReadClock(r) ==
    /\ At(r, "waiting")
    /\ \E c \in Client :
          request' = [request EXCEPT ![r] =
              [Waiting EXCEPT !.at = "counting", !.read = now,
                              !.key = <<c, WindowStart(now)>>]]
    /\ UNCHANGED <<now, counters, historyVars>>

(* Mutant: a counter that has reached the limit counts refused requests     *)
(* from one again.                                                          *)
CountInTurns(r) ==
    /\ At(r, "counting")
    /\ LET k == request[r].key
           n == IF counters[k] = None \/ counters[k].count > Limit THEN 1
                ELSE counters[k].count + 1
       IN /\ counters' = [counters EXCEPT ![k] = [Incremented(k) EXCEPT !.count = n]]
          /\ request' = [request EXCEPT ![r].attempts = n,
                            ![r].at = IF n = 1 THEN "expiring" ELSE "deciding"]
    /\ NoteCounted(r)
    /\ UNCHANGED <<now, exempt, faults>>

(* Mutant: the first attempt is taken to be number zero.                   *)
CountFromZero(r) ==
    /\ At(r, "counting")
    /\ LET k == request[r].key
           n == Incremented(k).count
       IN /\ counters' = [counters EXCEPT ![k] = Incremented(k)]
          /\ request' = [request EXCEPT ![r].attempts = n,
                            ![r].at = IF n = 0 THEN "expiring" ELSE "deciding"]
    /\ NoteCounted(r)
    /\ UNCHANGED <<now, exempt, faults>>

Count(r) ==
    /\ At(r, "counting")
    /\ LET k == request[r].key
           n == Incremented(k).count
       IN /\ counters' = [counters EXCEPT ![k] = Incremented(k)]
          /\ request' = [request EXCEPT ![r].attempts = n,
                            ![r].at = IF n = 1 THEN "expiring" ELSE "deciding"]
    /\ NoteCounted(r)
    /\ UNCHANGED <<now, exempt, faults>>

LetExpire(r) ==
    /\ At(r, "expiring")
    /\ LET k == request[r].key
       IN counters' = [counters EXCEPT ![k] = Expiring(k)]
    /\ Go(r, "deciding")
    /\ UNCHANGED <<now, historyVars>>

(* The catch block: zero attempts, the request is let through.  Whether the *)
(* failed command took effect is not known.                                 *)
FailOpen(r) ==
    /\ request' = [request EXCEPT ![r].at = "deciding", ![r].attempts = 0]
    /\ exempt' = exempt \cup {r}
    /\ Fault

CountRaises(r) ==
    /\ At(r, "counting")
    /\ FailOpen(r)
    /\ \/ UNCHANGED <<counters, counted, late>>
       \/ LET k == request[r].key
          IN /\ counters' = [counters EXCEPT ![k] = Incremented(k)]
             /\ NoteCounted(r)
    /\ UNCHANGED now

LetExpireRaises(r) ==
    /\ At(r, "expiring")
    /\ FailOpen(r)
    /\ \/ UNCHANGED counters
       \/ LET k == request[r].key
          IN counters' = [counters EXCEPT ![k] = Expiring(k)]
    /\ UNCHANGED <<now, counted, late>>

-------------------------------------------------------------------------------
(* RateLimitMiddleware::process. *)

AtLeastOne(n) == IF n < 1 THEN 1 ELSE n

RetryAfter(r) == AtLeastOne((request[r].key[2] + Window) - request[r].read)

(* Mutant: one request more than the limit is refused.                      *)
IsLimitedEarly(r) == request[r].attempts >= Limit

IsLimited(r) == request[r].attempts > Limit

Admit(r) ==
    /\ At(r, "deciding")
    /\ ~ IsLimited(r)
    /\ request' = [request EXCEPT ![r].at = "admitted", ![r].attempts = 0]
    /\ UNCHANGED <<now, counters, historyVars>>

Refuse(r) ==
    /\ At(r, "deciding")
    /\ IsLimited(r)
    /\ request' = [request EXCEPT ![r].at = "limited", ![r].attempts = 0,
                                  ![r].retryAfter = RetryAfter(r)]
    /\ UNCHANGED <<now, counters, historyVars>>

(* The process ends, or the entry about a refused request raises.           *)
BreakOff(r) ==
    /\ request[r].at \in {"counting", "expiring", "deciding"}
    /\ Fault
    /\ Go(r, "broken")
    /\ UNCHANGED <<now, counters, counted, late, exempt>>

-------------------------------------------------------------------------------
Step(r) ==
    \/ ReadClock(r) \/ Count(r) \/ LetExpire(r)
    \/ CountRaises(r) \/ LetExpireRaises(r)
    \/ Admit(r) \/ Refuse(r) \/ BreakOff(r)

Next ==
    \/ Tick
    \/ \E k \in Key : Vanish(k)
    \/ \E r \in Request : Step(r)

Spec == Init /\ [][Next]_vars

-------------------------------------------------------------------------------
(* Properties. *)

AdmittedTo(k) == {r \in Request : At(r, "admitted") /\ request[r].key = k}

(* A window admits no more than its limit, except requests whose commands   *)
(* failed and requests so late that their counter may have expired: hit()   *)
(* reads the clock once, and the INCR may reach Redis much later.           *)
WindowKeepsLimit ==
    \A k \in Key :
        Cardinality(AdmittedTo(k) \ (exempt \cup late)) <= Limit

(* Nobody is refused before the window is full: at least Limit other        *)
(* requests have been counted on the same key.  In particular a counter     *)
(* that never expires harms no later window.                                *)
RefusedOnlyWhenFull ==
    \A r \in Request :
        At(r, "limited") =>
            Cardinality({q \in counted \ {r} : request[q].key = request[r].key}) >= Limit

(* Counters that nobody will ever let expire: each cost a failing EXPIRE or *)
(* a process that ended between its two commands.                           *)
Leaked(k) ==
    /\ counters[k] # None
    /\ counters[k].expires = None
    /\ \A r \in Request : ~ (At(r, "expiring") /\ request[r].key = k)

LeaksCostFaults == Cardinality({k \in Key : Leaked(k)}) <= faults

(* A client that obeys Retry-After comes back in a later window, and one    *)
(* that comes back sooner is counted in the same window again: the header   *)
(* says neither too little nor too much.                                    *)
RetryAfterIsExact ==
    \A r, q \in Request :
        /\ At(r, "limited")
        /\ request[q].key # None
        /\ request[q].key[1] = request[r].key[1]
        /\ request[q].read >= request[r].read
        => (request[q].key = request[r].key
                <=> request[q].read < request[r].read + request[r].retryAfter)
===============================================================================
