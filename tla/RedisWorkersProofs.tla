-------------------------- MODULE RedisWorkersProofs ---------------------------
(***************************************************************************)
(* Theorems about RedisWorkers, for every set of jobs and of workers, every *)
(* quota and every budget of disturbances.                                 *)
(***************************************************************************)
EXTENDS RedisWorkers, SequenceTheorems, FiniteSetTheorems, TLAPS

-------------------------------------------------------------------------------
(* Facts about lists of messages. *)

Within(s, j) == \E i \in DOMAIN s : s[i].job = j

OnceIn(s, j) == \A i, l \in DOMAIN s : s[i].job = j /\ s[l].job = j => i = l

Elements(s) == {s[i] : i \in DOMAIN s}

(* RPUSH adds one message at the end.                                       *)
LEMMA Pushed ==
    ASSUME NEW s \in Seq(Message), NEW m \in Message
    PROVE  /\ Append(s, m) \in Seq(Message)
           /\ Elements(Append(s, m)) = Elements(s) \cup {m}
           /\ \A j : Within(Append(s, m), j) <=> Within(s, j) \/ m.job = j
           /\ \A j : OnceIn(s, j) /\ (m.job = j => ~ Within(s, j)) => OnceIn(Append(s, m), j)
<1> DEFINE t == Append(s, m)
           n == Len(s)
<1>1. /\ n \in Nat
      /\ DOMAIN s = 1..n
      /\ t \in Seq(Message)
      /\ Len(t) = n + 1
      /\ \A i \in 1..n : t[i] = s[i]
      /\ t[n + 1] = m
  BY AppendProperties, LenProperties
<1>2. DOMAIN t = 1..(n + 1)
  BY <1>1, LenProperties
<1> HIDE DEF t, n
<1>3. 1..(n + 1) = 1..n \cup {n + 1}
  BY <1>1
<1>4. Elements(t) = Elements(s) \cup {m}
  BY <1>1, <1>2, <1>3 DEF Elements
<1>5. ASSUME NEW j PROVE Within(t, j) <=> Within(s, j) \/ m.job = j
  BY <1>1, <1>2, <1>3 DEF Within
<1>6. ASSUME NEW j, OnceIn(s, j), m.job = j => ~ Within(s, j) PROVE OnceIn(t, j)
  BY <1>1, <1>2, <1>3, <1>6 DEF Within, OnceIn
<1>7. QED
  BY <1>1, <1>4, <1>5, <1>6 DEF t

(* LPOP takes the first one away.                                           *)
LEMMA Popped ==
    ASSUME NEW s \in Seq(Message), s # <<>>
    PROVE  /\ Head(s) \in Message
           /\ Tail(s) \in Seq(Message)
           /\ Head(s) \in Elements(s)
           /\ Elements(Tail(s)) \subseteq Elements(s)
           /\ Within(s, Head(s).job)
           /\ \A j : Within(s, j) => Within(Tail(s), j) \/ Head(s).job = j
           /\ \A j : Within(Tail(s), j) => Within(s, j)
           /\ \A j : OnceIn(s, j) => OnceIn(Tail(s), j)
           /\ \A j : OnceIn(s, j) /\ Head(s).job = j => ~ Within(Tail(s), j)
<1> DEFINE t == Tail(s)
           n == Len(s)
<1>1. /\ n \in Nat /\ n # 0
      /\ DOMAIN s = 1..n
      /\ Head(s) \in Message
      /\ t \in Seq(Message)
      /\ Len(t) = n - 1
      /\ \A i \in 1..(n - 1) : t[i] = s[i + 1]
  BY HeadTailProperties, LenProperties, EmptySeq
<1>2. Head(s) = s[1]
  BY <1>1
<1>3. DOMAIN t = 1..(n - 1)
  BY <1>1, LenProperties
<1>0. 1 \in DOMAIN s
  BY <1>1
<1> HIDE DEF t, n
<1>4. \A i \in 1..(n - 1) : i + 1 \in 1..n
  BY <1>1
<1>5. \A i \in 1..n : i = 1 \/ (i - 1 \in 1..(n - 1) /\ t[i - 1] = s[i])
  BY <1>1
<1>6. Elements(t) \subseteq Elements(s)
  BY <1>1, <1>3, <1>4 DEF Elements
<1>7. Head(s) \in Elements(s) /\ Within(s, Head(s).job)
  BY <1>0, <1>2 DEF Elements, Within
<1>8. ASSUME NEW j PROVE Within(s, j) => Within(t, j) \/ Head(s).job = j
  BY <1>1, <1>2, <1>3, <1>5 DEF Within
<1>9. ASSUME NEW j PROVE Within(t, j) => Within(s, j)
  BY <1>1, <1>3, <1>4 DEF Within
<1>10. ASSUME NEW j, OnceIn(s, j) PROVE OnceIn(t, j)
  <2>1. ASSUME NEW i \in DOMAIN t, NEW l \in DOMAIN t, t[i].job = j, t[l].job = j
        PROVE  i = l
    <3>1. i + 1 = l + 1
      BY <1>1, <1>3, <1>4, <1>10, <2>1 DEF OnceIn
    <3>2. QED
      BY <1>3, <3>1
  <2>2. QED
    BY <2>1 DEF OnceIn
<1>11. ASSUME NEW j, OnceIn(s, j), Head(s).job = j PROVE ~ Within(t, j)
  <2>1. ASSUME NEW i \in DOMAIN t, t[i].job = j PROVE FALSE
    <3>1. i + 1 = 1
      BY <1>0, <1>1, <1>2, <1>3, <1>4, <1>11, <2>1 DEF OnceIn
    <3>2. QED
      BY <1>3, <3>1
  <2>2. QED
    BY <2>1 DEF Within
<1>12. QED
  BY <1>1, <1>6, <1>7, <1>8, <1>9, <1>10, <1>11 DEF t

-------------------------------------------------------------------------------
(* Types, and what a process holds at each location. *)

Bounded == \A d \in Disturbance : left[d] <= Budget[d]

ClaimsAJob == \A w \in Worker : Claims(w) => JobOf(w) \in Job

MovesOne ==
    \A w \in Worker :
        /\ moving[w] # {} => pc[w] = "reserving"
        /\ \A m, n \in moving[w] : m = n

TypeInv == TypeOK /\ Bounded /\ ClaimsAJob /\ MovesOne

(* The worker's half of every step.                                         *)
LEMMA WorkerHalf ==
    ASSUME NEW w \in Worker, WorkerTypeOK, ClaimsAJob,
           \/ BootRun(w) \/ ReceiveSignal(w) \/ LeaveLoop(w) \/ LeaveOnLimit(w)
           \/ Die(w) \/ ReservedNothing(w) \/ EnterTry(w)
           \/ HandleReturned(w) \/ MarkedDone(w) \/ Disposed(w)
           \/ EnterCatch(w, "handling") \/ EnterCatch(w, "completing")
           \/ NextIteration(w, "completing") \/ NextIteration(w, "reporting")
           \/ BeginReserve(w, NoReservation)
           \/ \E r \in ReservedJob : r.job \in Job /\ EndReserve(w, r)
           \/ UNCHANGED workerVars
    PROVE  WorkerTypeOK' /\ ClaimsAJob'
<1> USE DEF WorkerTypeOK, ClaimsAJob, Claims, JobOf, Location, ReservedJob, NoReservation,
            Step, LetGo
<1>1. CASE BootRun(w)
  BY <1>1 DEF BootRun
<1>2. CASE ReceiveSignal(w) \/ LeaveLoop(w) \/ LeaveOnLimit(w)
  BY <1>2 DEF ReceiveSignal, LeaveLoop, LeaveOnLimit
<1>3. CASE Die(w)
  BY <1>3 DEF Die
<1>4. CASE ReservedNothing(w)
  BY <1>4 DEF ReservedNothing
<1>5. CASE EnterTry(w) \/ HandleReturned(w) \/ Disposed(w)
  BY <1>5 DEF EnterTry, HandleReturned, Disposed
<1>6. CASE MarkedDone(w)
  BY <1>6 DEF MarkedDone
<1>7. CASE EnterCatch(w, "handling")
  BY <1>7 DEF EnterCatch, CountFailure
<1>8. CASE EnterCatch(w, "completing")
  BY <1>8 DEF EnterCatch, CountFailure
<1>9. CASE NextIteration(w, "completing") \/ NextIteration(w, "reporting")
  BY <1>9 DEF NextIteration
<1>10. CASE BeginReserve(w, NoReservation)
  BY <1>10 DEF BeginReserve
<1>11. CASE \E r \in ReservedJob : r.job \in Job /\ EndReserve(w, r)
  BY <1>11 DEF EndReserve
<1>12. CASE UNCHANGED workerVars
  BY <1>12 DEF workerVars
<1>13. QED
  BY <1>1, <1>2, <1>3, <1>4, <1>5, <1>6, <1>7, <1>8, <1>9, <1>10, <1>11, <1>12

(* The message a popped job makes a reservation of, and the one a           *)
(* reservation is stored as.                                                *)
LEMMA ReservationType ==
    ASSUME NEW m \in Message
    PROVE  Reservation(m) \in ReservedJob /\ Reservation(m).job = m.job /\ m.job \in Job
BY DEF Reservation, ReservedJob, Message, AtLeastOne

LEMMA StoredType ==
    ASSUME NEW r \in ReservedJob, r.job \in Job
    PROVE  Stored(r) \in Message /\ Stored(r).job = r.job
BY DEF Stored, ReservedJob, Message

LEMMA FreshType ==
    ASSUME NEW j \in Job, NEW n \in Int
    PROVE  /\ Fresh(j, n) \in Message
           /\ Fresh(j, n).job = j
           /\ AtLeastOne(n) \in Nat \ {0}
BY DEF Fresh, Message, AtLeastOne

(* The server's half of every step.                                         *)
LEMMA RedisHalf ==
    ASSUME NEW w \in Worker, RedisTypeOK, MovesOne,
           \/ \E m \in Message, d \in BOOLEAN : Store(m, d)
           \/ \E m \in Message : BecomeDue(m)
           \/ ReadDue(w) \/ PushMoved(w) \/ PopHead(w)
           \/ \E m \in Message : RemoveDue(w, m)
           \/ \E r \in ReservedJob : r.job \in Job /\ MarkFailed(r)
           \/ Forget(w) /\ UNCHANGED <<pending, delayed, due, failedList>>
           \/ /\ Forget(w) /\ UNCHANGED <<pending, failedList>>
              /\ \E m \in Message : delayed' = delayed \ {m} /\ due' = due \ {m}
           \/ /\ Forget(w) /\ UNCHANGED <<delayed, due, failedList>>
              /\ \E m \in moving[w] : pending' = Append(pending, m)
           \/ UNCHANGED redisVars
    PROVE  RedisTypeOK'
<1> USE DEF RedisTypeOK
<1>1. CASE \E m \in Message, d \in BOOLEAN : Store(m, d)
  <2>1. PICK m \in Message, d \in BOOLEAN : Store(m, d)
    BY <1>1
  <2>2. Append(pending, m) \in Seq(Message)
    BY Pushed
  <2>3. QED
    BY <2>1, <2>2 DEF Store
<1>2. CASE \E m \in Message : BecomeDue(m)
  BY <1>2 DEF BecomeDue
<1>3. CASE ReadDue(w)
  BY <1>3 DEF ReadDue
<1>4. CASE PushMoved(w)
  <2>1. PICK m \in moving[w] : pending' = Append(pending, m)
    BY <1>4 DEF PushMoved
  <2>2. Append(pending, m) \in Seq(Message)
    BY Pushed
  <2>3. QED
    BY <1>4, <2>1, <2>2 DEF PushMoved
<1>5. CASE PopHead(w)
  <2>1. Tail(pending) \in Seq(Message)
    BY <1>5, Popped DEF PopHead
  <2>2. QED
    BY <1>5, <2>1 DEF PopHead
<1>6. CASE \E m \in Message : RemoveDue(w, m)
  BY <1>6 DEF RemoveDue
<1>7. CASE \E r \in ReservedJob : r.job \in Job /\ MarkFailed(r)
  <2>1. PICK r \in ReservedJob : r.job \in Job /\ MarkFailed(r)
    BY <1>7
  <2>2. Append(failedList, Stored(r)) \in Seq(Message)
    BY <2>1, StoredType, Pushed
  <2>3. QED
    BY <2>1, <2>2 DEF MarkFailed
<1>8. CASE Forget(w) /\ UNCHANGED <<pending, delayed, due, failedList>>
  BY <1>8 DEF Forget
<1>9. CASE /\ Forget(w) /\ UNCHANGED <<pending, failedList>>
           /\ \E m \in Message : delayed' = delayed \ {m} /\ due' = due \ {m}
  BY <1>9 DEF Forget
<1>10. CASE /\ Forget(w) /\ UNCHANGED <<delayed, due, failedList>>
            /\ \E m \in moving[w] : pending' = Append(pending, m)
  <2>1. PICK m \in moving[w] : pending' = Append(pending, m)
    BY <1>10
  <2>2. Append(pending, m) \in Seq(Message)
    BY Pushed
  <2>3. QED
    BY <1>10, <2>1, <2>2 DEF Forget
<1>11. CASE UNCHANGED redisVars
  BY <1>11 DEF redisVars
<1>12. QED
  BY <1>1, <1>2, <1>3, <1>4, <1>5, <1>6, <1>7, <1>8, <1>9, <1>10, <1>11

(* Every step is, for the worker's variables, one of the worker's halves.   *)
LEMMA WorkerVarsStep ==
    ASSUME TypeInv, Next
    PROVE  WorkerTypeOK' /\ ClaimsAJob'
<1> USE DEF TypeInv, TypeOK
<1>0. PICK anyone \in Worker : TRUE
  BY QueueTypesAssumption DEF QueueTypesAssumption
<1>1. CASE (\E j \in Job : Producer(j)) \/ (\E m \in delayed : DelayElapses(m))
  <2>1. UNCHANGED workerVars
    BY <1>1 DEF Producer, DelayElapses, Push
  <2>2. QED
    BY <1>0, <2>1, WorkerHalf
<1>2. ASSUME NEW w \in Worker, Boot(w) \/ Advance(w) \/ Disturb(w)
      PROVE  WorkerTypeOK' /\ ClaimsAJob'
  <2>1. ASSUME Pop(w)
        PROVE  \E r \in ReservedJob : r.job \in Job /\ EndReserve(w, r)
    <3>1. Head(pending) \in Message
      BY <2>1, Popped DEF Pop, PopHead, RedisTypeOK
    <3>2. QED
      BY <2>1, <3>1, ReservationType DEF Pop
  <2>2. ASSUME \/ Boot(w) \/ Signal(w) \/ Leave(w) \/ LimitReached(w) \/ Crash(w)
               \/ StartSweep(w) \/ MakePending(w) \/ PopNothing(w) \/ DropPayload(w)
               \/ PopRaises(w)
               \/ \E m \in sweep[w] : MoveDue(w, m)
               \/ \E a \in BOOLEAN : \/ MakePendingRaises(w, a)
                                     \/ \E m \in sweep[w] : MoveDueRaises(w, m, a)
        PROVE  \/ BootRun(w) \/ ReceiveSignal(w) \/ LeaveLoop(w) \/ LeaveOnLimit(w)
               \/ Die(w) \/ ReservedNothing(w) \/ BeginReserve(w, NoReservation)
               \/ UNCHANGED workerVars
    BY <2>2 DEF Boot, Signal, Leave, LimitReached, Crash, StartSweep, MakePending, PopNothing,
                DropPayload, PopRaises, MoveDue, MakePendingRaises, MoveDueRaises
  <2>3. ASSUME \/ LogStarted(w) \/ HandlerReturns(w) \/ HandlerThrows(w) \/ Ack(w)
               \/ LogCompleted(w) \/ LogDisposal(w)
               \/ \E d \in BOOLEAN : Dispose(w, d) \/ DisposeRefused(w, d)
        PROVE  \/ EnterTry(w) \/ HandleReturned(w) \/ MarkedDone(w) \/ Disposed(w) \/ Die(w)
               \/ EnterCatch(w, "handling")
               \/ NextIteration(w, "completing") \/ NextIteration(w, "reporting")
    BY <2>3 DEF LogStarted, HandlerReturns, HandlerThrows, Ack, LogCompleted, LogDisposal,
                Dispose, DisposeRefused
  <2>4. ASSUME \/ LogStartedRaises(w) \/ LogCompletedRaises(w) \/ LogDisposalRaises(w)
               \/ \E a, d \in BOOLEAN : DisposeRaises(w, d, a)
        PROVE  Die(w) \/ EnterCatch(w, "completing")
    BY <2>4 DEF LogStartedRaises, LogCompletedRaises, LogDisposalRaises, DisposeRaises
  <2>5. QED
    BY <1>2, <2>1, <2>2, <2>3, <2>4, WorkerHalf DEF Advance, Disturb
<1>3. QED
  BY <1>1, <1>2 DEF Next

(* Every step is, for the keys and the sweeps, one command or none.         *)
LEMMA RedisVarsStep ==
    ASSUME TypeInv, Next
    PROVE  RedisTypeOK'
<1> USE DEF TypeInv, TypeOK
<1>0. PICK anyone \in Worker : TRUE
  BY QueueTypesAssumption DEF QueueTypesAssumption
<1>1. ASSUME NEW j \in Job, Producer(j)
      PROVE  RedisTypeOK'
  <2>1. PICK d \in BOOLEAN, n \in Int : Store(Fresh(j, n), d)
    BY <1>1, RedisWorkersAssumption DEF RedisWorkersAssumption, Producer, Push
  <2>2. QED
    BY <1>0, <2>1, FreshType, RedisHalf
<1>2. ASSUME NEW m \in delayed, DelayElapses(m)
      PROVE  RedisTypeOK'
  BY <1>0, <1>2, RedisHalf DEF DelayElapses, RedisTypeOK
<1>3. ASSUME NEW w \in Worker, Boot(w) \/ Advance(w) \/ Disturb(w)
      PROVE  RedisTypeOK'
  <2>1. held[w] \in ReservedJob /\ (pc[w] = "failing" => held[w].job \in Job)
    BY DEF WorkerTypeOK, ClaimsAJob, Claims, JobOf
  <2>2. ASSUME NEW d \in BOOLEAN, pc[w] = "failing", Settle(w, d)
        PROVE  RedisTypeOK'
    <3>1. CASE MarkFailed(held[w])
      BY <2>1, <2>2, <3>1, RedisHalf
    <3>2. CASE Release(held[w], d)
      BY <2>1, <2>2, <3>2, StoredType, RedisHalf DEF Release
    <3>3. QED
      BY <2>2, <3>1, <3>2 DEF Settle
  <2>3. ASSUME \E d \in BOOLEAN : Dispose(w, d) \/ \E a \in BOOLEAN : DisposeRaises(w, d, a)
        PROVE  RedisTypeOK'
    <3>1. CASE UNCHANGED redisVars
      BY <3>1, RedisHalf
    <3>2. CASE \E d \in BOOLEAN : pc[w] = "failing" /\ Settle(w, d)
      BY <2>2, <3>2
    <3>3. QED
      BY <2>3, <3>1, <3>2 DEF Dispose, Disposed, Step, DisposeRaises
  <2>4. ASSUME \/ Boot(w) \/ Signal(w) \/ Leave(w) \/ LimitReached(w) \/ PopNothing(w)
               \/ LogStarted(w) \/ HandlerReturns(w) \/ HandlerThrows(w) \/ Ack(w)
               \/ LogCompleted(w) \/ LogDisposal(w)
               \/ \E d \in BOOLEAN : DisposeRefused(w, d)
               \/ LogStartedRaises(w) \/ LogCompletedRaises(w) \/ LogDisposalRaises(w)
        PROVE  UNCHANGED redisVars
    BY <2>4 DEF Boot, Signal, Leave, LimitReached, PopNothing, LogStarted, HandlerReturns,
                HandlerThrows, Ack, LogCompleted, LogDisposal, DisposeRefused,
                LogStartedRaises, LogCompletedRaises, LogDisposalRaises
  <2>5. ASSUME \/ Crash(w) \/ StartSweep(w) \/ MakePending(w) \/ Pop(w)
               \/ DropPayload(w) \/ PopRaises(w)
        PROVE  \/ Forget(w) /\ UNCHANGED <<pending, delayed, due, failedList>>
               \/ ReadDue(w) \/ PushMoved(w) \/ PopHead(w)
    BY <2>5 DEF Crash, StartSweep, MakePending, Pop, DropPayload, PopRaises
  <2>6. ASSUME NEW m \in sweep[w], MoveDue(w, m) \/ \E a \in BOOLEAN : MoveDueRaises(w, m, a)
        PROVE  RedisTypeOK'
    <3>1. m \in Message
      BY DEF RedisTypeOK
    <3>2. CASE MoveDue(w, m)
      BY <3>1, <3>2, RedisHalf DEF MoveDue
    <3>3. CASE \E a \in BOOLEAN : MoveDueRaises(w, m, a)
      <4>1. /\ Forget(w) /\ UNCHANGED <<pending, failedList>>
            /\ \/ UNCHANGED <<delayed, due>>
               \/ delayed' = delayed \ {m} /\ due' = due \ {m}
        BY <3>3 DEF MoveDueRaises
      <4>2. QED
        BY <3>1, <4>1, RedisHalf
    <3>4. QED
      BY <2>6, <3>2, <3>3
  <2>7. ASSUME NEW a \in BOOLEAN, MakePendingRaises(w, a)
        PROVE  \/ Forget(w) /\ UNCHANGED <<pending, delayed, due, failedList>>
               \/ /\ Forget(w) /\ UNCHANGED <<delayed, due, failedList>>
                  /\ \E m \in moving[w] : pending' = Append(pending, m)
    BY <2>7 DEF MakePendingRaises
  <2>8. QED
    BY <1>3, <2>3, <2>4, <2>5, <2>6, <2>7, RedisHalf DEF Advance, Disturb
<1>4. QED
  BY <1>1, <1>2, <1>3 DEF Next

(* The variables of neither half.                                           *)
BookTypeOK ==
    /\ left \in [Disturbance -> Nat]
    /\ phase \in [Job -> Phase]
    /\ limit \in [Job -> Nat]
    /\ delivered \in [Job -> Nat]
    /\ successes \in [Job -> Nat]
    /\ losses \in [Cause -> Nat]

(* Counting one more leaves a count.                                        *)
LEMMA CountType ==
    ASSUME NEW S, NEW f \in [S -> Nat], NEW x \in S
    PROVE  [f EXCEPT ![x] = @ + 1] \in [S -> Nat]
<1>1. f[x] + 1 \in Nat
  OBVIOUS
<1>2. QED
  BY <1>1

(* Spending from the budget leaves a budget.                                *)
LEMMA SpendType ==
    ASSUME left \in [Disturbance -> Nat], Bounded, NEW d \in Disturbance, Spend(d)
    PROVE  left' \in [Disturbance -> Nat] /\ Bounded'
<1>1. left[d] - 1 \in Nat /\ left[d] - 1 <= left[d] /\ left[d] \in Nat
  BY DEF Spend
<1>2. Budget \in [Disturbance -> Nat]
  BY RedisWorkersAssumption DEF RedisWorkersAssumption
<1>3. left' = [left EXCEPT ![d] = left[d] - 1]
  BY DEF Spend
<1>4. left' \in [Disturbance -> Nat]
  BY <1>1, <1>3
<1>5. ASSUME NEW e \in Disturbance PROVE left'[e] <= Budget[e]
  <2>1. left[e] <= Budget[e] /\ Budget[e] \in Nat /\ Budget[d] \in Nat /\ left[d] <= Budget[d]
    BY <1>2 DEF Bounded
  <2>2. CASE e = d
    <3>1. left'[e] = left[d] - 1
      BY <1>3, <2>2
    <3>2. QED
      BY <1>1, <2>1, <2>2, <3>1
  <2>3. CASE e # d
    BY <1>3, <2>1, <2>3
  <2>4. QED
    BY <2>2, <2>3
<1>6. QED
  BY <1>4, <1>5 DEF Bounded

(* Every step leaves the books as they are, or enters one thing.            *)
LEMMA BookVarsStep ==
    ASSUME TypeInv, Next
    PROVE  BookTypeOK' /\ Bounded'
<1> USE DEF TypeInv, TypeOK, BookTypeOK
<1> DEFINE Kept == UNCHANGED <<historyVars, left>>
<1>1. ASSUME Kept PROVE BookTypeOK' /\ Bounded'
  BY <1>1 DEF historyVars, Bounded
<1>2. ASSUME NEW d \in Disturbance, Spend(d) PROVE left' \in [Disturbance -> Nat] /\ Bounded'
  BY <1>2, SpendType
<1>3. ASSUME UNCHANGED left PROVE left' \in [Disturbance -> Nat] /\ Bounded'
  BY <1>3 DEF Bounded
<1>4. ASSUME NEW j \in Job, Producer(j)
      PROVE  BookTypeOK' /\ Bounded'
  <2>1. PICK n \in Int : /\ Phases(j, "queued")
                         /\ limit' = [limit EXCEPT ![j] = AtLeastOne(n)]
                         /\ UNCHANGED <<delivered, successes, losses, left>>
    BY <1>4, RedisWorkersAssumption DEF RedisWorkersAssumption, Producer, Push
  <2>2. AtLeastOne(n) \in Nat
    BY FreshType
  <2>3. phase' \in [Job -> Phase] /\ limit' \in [Job -> Nat]
    BY <2>1, <2>2 DEF Phases, Phase
  <2>4. QED
    BY <1>3, <2>1, <2>3
<1>5. ASSUME NEW w \in Worker, Boot(w) \/ Advance(w) \/ Disturb(w)
      PROVE  BookTypeOK' /\ Bounded'
  <2>1. Claims(w) => JobOf(w) \in Job
    BY DEF ClaimsAJob
  <2>2. ASSUME \/ Boot(w) \/ Leave(w) \/ StartSweep(w) \/ MakePending(w) \/ Pop(w)
               \/ PopNothing(w) \/ LogCompleted(w) \/ LogDisposal(w)
               \/ \E m \in sweep[w] : MoveDue(w, m)
        PROVE  Kept
    BY <2>2 DEF Boot, Leave, StartSweep, MakePending, Pop, PopNothing, LogCompleted,
                LogDisposal, MoveDue
  <2>3. ASSUME \/ Signal(w) \/ LimitReached(w) \/ Crash(w) \/ PopRaises(w)
               \/ LogStartedRaises(w) \/ LogCompletedRaises(w) \/ LogDisposalRaises(w)
               \/ \E a \in BOOLEAN : \/ MakePendingRaises(w, a)
                                     \/ \E m \in sweep[w] : MoveDueRaises(w, m, a)
        PROVE  UNCHANGED historyVars /\ \E d \in Disturbance : Spend(d)
    BY <2>3 DEF Signal, LimitReached, Crash, PopRaises, LogStartedRaises, LogCompletedRaises,
                LogDisposalRaises, MakePendingRaises, MoveDueRaises, Disturbance
  <2>4. ASSUME LogStarted(w) PROVE BookTypeOK' /\ Bounded'
    <3>1. JobOf(w) \in Job
      BY <2>1, <2>4 DEF LogStarted, EnterTry, Step, Claims
    <3>2. delivered' \in [Job -> Nat]
      BY <2>4, <3>1, CountType DEF LogStarted
    <3>3. QED
      BY <1>3, <2>4, <3>2 DEF LogStarted, Phases, Phase
  <2>5. ASSUME HandlerReturns(w) PROVE BookTypeOK' /\ Bounded'
    <3>1. JobOf(w) \in Job
      BY <2>1, <2>5 DEF HandlerReturns, HandleReturned, Step, Claims
    <3>2. successes' \in [Job -> Nat]
      BY <2>5, <3>1, CountType DEF HandlerReturns
    <3>3. QED
      BY <1>3, <2>5, <3>2 DEF HandlerReturns, Phases, Phase
  <2>6. ASSUME HandlerThrows(w) \/ Ack(w) PROVE BookTypeOK' /\ Bounded'
    BY <1>3, <2>6 DEF HandlerThrows, Ack, Phases, Phase
  <2>7. ASSUME NEW d \in BOOLEAN, Settle(w, d) PROVE phase' \in [Job -> Phase]
    BY <2>7 DEF Settle, Phases, Phase
  <2>8. ASSUME NEW d \in BOOLEAN, Dispose(w, d) PROVE BookTypeOK' /\ Bounded'
    BY <1>3, <2>7, <2>8 DEF Dispose
  <2>9. ASSUME NEW d \in BOOLEAN, NEW a \in BOOLEAN, DisposeRaises(w, d, a)
        PROVE  BookTypeOK' /\ Bounded'
    <3>1. phase' \in [Job -> Phase]
      BY <2>7, <2>9 DEF DisposeRaises
    <3>2. left' \in [Disturbance -> Nat] /\ Bounded'
      BY <1>2, <2>9 DEF DisposeRaises, Disturbance
    <3>3. QED
      BY <2>9, <3>1, <3>2 DEF DisposeRaises
  <2>10. ASSUME UNCHANGED historyVars, NEW d \in Disturbance, Spend(d)
         PROVE  BookTypeOK' /\ Bounded'
    BY <1>2, <2>10 DEF historyVars
  <2>11. ASSUME DropPayload(w) \/ \E d \in BOOLEAN : DisposeRefused(w, d)
         PROVE  BookTypeOK' /\ Bounded'
    <3>1. /\ \E c \in Cause : CountLoss(c)
          /\ UNCHANGED <<phase, limit, delivered, successes, left>>
      BY <2>11 DEF DropPayload, DisposeRefused, Cause
    <3>2. losses' \in [Cause -> Nat]
      BY <3>1, CountType DEF CountLoss
    <3>3. QED
      BY <1>3, <3>1, <3>2
  <2>12. QED
    BY <1>1, <1>5, <2>2, <2>3, <2>4, <2>5, <2>6, <2>8, <2>9, <2>10, <2>11 DEF Advance, Disturb
<1>6. ASSUME NEW m \in delayed, DelayElapses(m) PROVE BookTypeOK' /\ Bounded'
  BY <1>1, <1>6 DEF DelayElapses
<1>7. QED
  BY <1>4, <1>5, <1>6 DEF Next

(* A process moves one message at a time, while it reserves.                *)
LEMMA MovesStep ==
    ASSUME TypeInv, Next
    PROVE  MovesOne'
<1> USE DEF TypeInv, TypeOK, WorkerTypeOK, RedisTypeOK
<1>1. ASSUME NEW w \in Worker,
             \/ moving' = moving
             \/ \E S \in {{}} \cup {{m} : m \in Message} :
                   /\ moving' = [moving EXCEPT ![w] = S]
                   /\ S = {} \/ pc'[w] = "reserving",
             \/ pc' = pc
             \/ moving'[w] = {} /\ \E to \in Location : pc' = [pc EXCEPT ![w] = to]
      PROVE  MovesOne'
  <2>1. ASSUME NEW v \in Worker, v # w
        PROVE  moving'[v] = moving[v] /\ pc'[v] = pc[v]
    BY <1>1, <2>1
  <2>2. moving'[w] # {} => pc'[w] = "reserving"
    <3>1. CASE moving' = moving
      BY <1>1, <3>1 DEF MovesOne
    <3>2. CASE moving' # moving
      BY <1>1, <3>2
    <3>3. QED
      BY <3>1, <3>2
  <2>3. \A m, n \in moving'[w] : m = n
    <3>1. CASE moving' = moving
      BY <3>1 DEF MovesOne
    <3>2. CASE moving' # moving
      BY <1>1, <3>2
    <3>3. QED
      BY <3>1, <3>2
  <2>4. QED
    BY <2>1, <2>2, <2>3 DEF MovesOne
<1>0. PICK anyone \in Worker : TRUE
  BY QueueTypesAssumption DEF QueueTypesAssumption
<1>2. CASE (\E j \in Job : Producer(j)) \/ (\E m \in delayed : DelayElapses(m))
  <2>1. moving' = moving /\ pc' = pc
    BY <1>2 DEF Producer, DelayElapses, Push, Store, BecomeDue, workerVars
  <2>2. QED
    BY <1>0, <1>1, <2>1
<1>3. ASSUME NEW w \in Worker, Boot(w) \/ Advance(w) \/ Disturb(w)
      PROVE  MovesOne'
  <2>1. pc[w] # "reserving" => moving[w] = {}
    BY DEF MovesOne
  <2>2. ASSUME \/ Boot(w) \/ Leave(w) \/ LimitReached(w) \/ StartSweep(w)
               \/ LogStarted(w) \/ HandlerReturns(w) \/ HandlerThrows(w) \/ Ack(w)
               \/ LogCompleted(w) \/ LogDisposal(w)
               \/ LogStartedRaises(w) \/ LogCompletedRaises(w) \/ LogDisposalRaises(w)
               \/ \E d \in BOOLEAN : DisposeRefused(w, d)
        PROVE  /\ moving' = moving /\ moving[w] = {}
               /\ \E to \in Location : pc' = [pc EXCEPT ![w] = to]
    BY <2>1, <2>2
    DEF Boot, Leave, LimitReached, StartSweep, LogStarted, HandlerReturns, HandlerThrows, Ack,
        LogCompleted, LogDisposal, LogStartedRaises, LogCompletedRaises, LogDisposalRaises,
        DisposeRefused, BootRun, LeaveLoop, LeaveOnLimit, BeginReserve, ReadDue, EnterTry,
        HandleReturned, EnterCatch, MarkedDone, NextIteration, Die, Step, Location, redisVars
  <2>3. ASSUME \E d \in BOOLEAN : Dispose(w, d) \/ \E a \in BOOLEAN : DisposeRaises(w, d, a)
        PROVE  /\ moving' = moving /\ moving[w] = {}
               /\ \E to \in Location : pc' = [pc EXCEPT ![w] = to]
    BY <2>1, <2>3 DEF Dispose, DisposeRaises, Disposed, Die, Settle, Step, Location, MarkFailed,
                      Release, Store, redisVars
  <2>4. ASSUME \/ Pop(w) \/ PopNothing(w) \/ DropPayload(w) \/ PopRaises(w)
        PROVE  /\ moving' = moving /\ moving[w] = {}
               /\ \E to \in Location : pc' = [pc EXCEPT ![w] = to]
    BY <2>4 DEF Pop, PopNothing, DropPayload, PopRaises, PopHead, Swept, EndReserve,
                ReservedNothing, Step, Location, redisVars
  <2>5. ASSUME \/ Crash(w)
               \/ \E a \in BOOLEAN : \/ MakePendingRaises(w, a)
                                     \/ \E m \in sweep[w] : MoveDueRaises(w, m, a)
        PROVE  /\ moving' = [moving EXCEPT ![w] = {}]
               /\ \E to \in Location : pc' = [pc EXCEPT ![w] = to]
    BY <2>5 DEF Crash, MakePendingRaises, MoveDueRaises, Forget, ReservedNothing, Die, Step, Location
  <2>6. ASSUME MakePending(w)
        PROVE  pc' = pc /\ moving' = [moving EXCEPT ![w] = {}]
    BY <2>6 DEF MakePending, PushMoved, workerVars
  <2>7. ASSUME NEW m \in sweep[w], MoveDue(w, m)
        PROVE  MovesOne'
    <3>1. m \in Message
      OBVIOUS
    <3>2. /\ pc' = pc /\ pc[w] = "reserving"
          /\ moving' = [moving EXCEPT ![w] = {m} \cap delayed]
      BY <2>7 DEF MoveDue, RemoveDue, workerVars
    <3>3. {m} \cap delayed = {} \/ {m} \cap delayed = {m}
      OBVIOUS
    <3>4. QED
      BY <1>1, <3>1, <3>2, <3>3
  <2>8. ASSUME Signal(w)
        PROVE  moving' = moving /\ pc' = pc
    BY <2>8 DEF Signal, ReceiveSignal, redisVars
  <2>9. moving' = [moving EXCEPT ![w] = {}] => moving'[w] = {}
    OBVIOUS
  <2>10. QED
    BY <1>1, <1>3, <2>2, <2>3, <2>4, <2>5, <2>6, <2>7, <2>8, <2>9 DEF Advance, Disturb
<1>4. QED
  BY <1>2, <1>3 DEF Next

LEMMA TypeInit == Init => TypeInv
<1> SUFFICES ASSUME Init PROVE TypeInv
  OBVIOUS
<1> USE DEF Init, WorkerInit, RedisInit
<1>1. WorkerTypeOK
  BY DEF WorkerTypeOK, Location, ReservedJob, NoReservation
<1>2. RedisTypeOK
  BY EmptySeq DEF RedisTypeOK
<1>3. Budget \in [Disturbance -> Nat]
  BY RedisWorkersAssumption DEF RedisWorkersAssumption
<1>4. BookTypeOK /\ Bounded
  BY <1>3 DEF BookTypeOK, Bounded, Phase
<1>5. ClaimsAJob /\ MovesOne
  BY DEF ClaimsAJob, Claims, MovesOne
<1>6. QED
  BY <1>1, <1>2, <1>4, <1>5 DEF TypeInv, TypeOK, BookTypeOK

LEMMA TypeStep == TypeInv /\ [Next]_vars => TypeInv'
<1> SUFFICES ASSUME TypeInv, [Next]_vars PROVE TypeInv'
  OBVIOUS
<1>1. CASE Next
  BY <1>1, WorkerVarsStep, RedisVarsStep, BookVarsStep, MovesStep DEF TypeInv, TypeOK, BookTypeOK
<1>2. CASE UNCHANGED vars
  BY <1>2 DEF vars, workerVars, redisVars, historyVars, TypeInv, TypeOK, WorkerTypeOK,
              RedisTypeOK, Bounded, ClaimsAJob, Claims, JobOf, MovesOne
<1>3. QED
  BY <1>1, <1>2

-------------------------------------------------------------------------------
(* One job: where it is, and what its only copy says. *)

InPending(j) == Within(pending, j)

InDelayed(j) == \E m \in delayed : m.job = j

Moves(w, j) == \E m \in moving[w] : m.job = j

InMoving(j) == \E w \in Worker : Moves(w, j)

Holds(w, j) == Claims(w) /\ JobOf(w) = j

InHands(j) == \E w \in Worker : Holds(w, j)

(* In one place at most, and once there.                                    *)
Placed(j) ==
    /\ OnceIn(pending, j)
    /\ \A m, n \in delayed : m.job = j /\ n.job = j => m = n
    /\ \A v, w \in Worker : Moves(v, j) /\ Moves(w, j) => v = w
    /\ \A v, w \in Worker : Holds(v, j) /\ Holds(w, j) => v = w
    /\ InPending(j) => ~ InDelayed(j) /\ ~ InMoving(j) /\ ~ InHands(j)
    /\ InDelayed(j) => ~ InMoving(j) /\ ~ InHands(j)
    /\ InMoving(j) => ~ InHands(j)

(* A stored message counts the deliveries there were, and leaves one.       *)
MessageOK(m) ==
    /\ phase[m.job] = "queued"
    /\ m.attempt = delivered[m.job]
    /\ m.maxAttempts = limit[m.job]
    /\ delivered[m.job] < limit[m.job]

MessagesOK(j) ==
    /\ \A m \in Elements(pending) : m.job = j => MessageOK(m)
    /\ \A m \in delayed : m.job = j => MessageOK(m)
    /\ \A w \in Worker : \A m \in moving[w] : m.job = j => MessageOK(m)

(* A reservation counts the delivery it is for.  In the catch block the job *)
(* threw, or it is done and an activity entry is to blame.                  *)
ClaimOK(w) ==
    /\ held[w].maxAttempts = limit[JobOf(w)]
    /\ held[w].attempt <= limit[JobOf(w)]
    /\ held[w].attempt = delivered[JobOf(w)] + (IF pc[w] = "starting" THEN 1 ELSE 0)
    /\ pc[w] = "starting" => phase[JobOf(w)] = "queued"
    /\ pc[w] = "handling" => phase[JobOf(w)] = "running"
    /\ pc[w] = "acking" => phase[JobOf(w)] = "succeeded"
    /\ pc[w] = "completing" => phase[JobOf(w)] = "done"
    /\ pc[w] = "failing" =>
          /\ successes[JobOf(w)] <= Spent("audit")
          /\ \/ phase[JobOf(w)] = "threw"
             \/ phase[JobOf(w)] = "done" /\ Spent("audit") > 0

(* The success under way comes on top of those that entries made vain.      *)
Counted(j) ==
    successes[j] <= Spent("audit") + (IF phase[j] \in {"succeeded", "done"} THEN 1 ELSE 0)

JobOK(j) ==
    /\ Placed(j)
    /\ MessagesOK(j)
    /\ \A w \in Worker : Holds(w, j) => ClaimOK(w)
    /\ Failed(j) => phase[j] = "failed"
    /\ Counted(j)
    /\ phase[j] = "absent" => delivered[j] = 0

JobsOK == \A j \in Job : JobOK(j)

-------------------------------------------------------------------------------
(* What does not touch a job. *)

(* No new copy of job j.                                                    *)
Fewer(j) ==
    /\ OnceIn(pending, j) => OnceIn(pending', j)
    /\ Within(pending', j) => Within(pending, j)
    /\ \A m \in Elements(pending') : m.job = j => m \in Elements(pending)
    /\ \A m \in delayed' : m.job = j => m \in delayed
    /\ \A w \in Worker : \A m \in moving'[w] : m.job = j => m \in moving[w]
    /\ \A w \in Worker : Holds(w, j)' => Holds(w, j)

(* Whoever still has it is where he was.                                    *)
Still(j) == \A w \in Worker : Holds(w, j)' => pc'[w] = pc[w] /\ held'[w] = held[w]

SameBooks(j) ==
    /\ phase'[j] = phase[j]
    /\ limit'[j] = limit[j]
    /\ delivered'[j] = delivered[j]
    /\ successes'[j] = successes[j]
    /\ Failed(j)' => Failed(j)

AuditGrows == Spent("audit") \in Nat /\ Spent("audit")' \in Nat /\ Spent("audit") <= Spent("audit")'

LEMMA PlacedKept ==
    ASSUME NEW j, Placed(j), Fewer(j)
    PROVE  Placed(j)'
<1>1. ASSUME NEW w \in Worker, Moves(w, j)' PROVE Moves(w, j)
  BY <1>1 DEF Fewer, Moves
<1>2. InMoving(j)' => InMoving(j)
  BY <1>1 DEF InMoving
<1>3. InHands(j)' => InHands(j)
  BY DEF Fewer, InHands
<1>4. InDelayed(j)' => InDelayed(j)
  BY DEF Fewer, InDelayed
<1>5. InPending(j)' => InPending(j)
  BY DEF Fewer, InPending
<1>6. /\ OnceIn(pending, j)'
      /\ \A m, n \in delayed' : m.job = j /\ n.job = j => m = n
  BY DEF Fewer, Placed
<1>7. \A v, w \in Worker : Moves(v, j)' /\ Moves(w, j)' => v = w
  BY <1>1 DEF Placed
<1>8. \A v, w \in Worker : Holds(v, j)' /\ Holds(w, j)' => v = w
  BY DEF Placed, Fewer
<1>9. QED
  BY <1>2, <1>3, <1>4, <1>5, <1>6, <1>7, <1>8 DEF Placed

LEMMA JobKept ==
    ASSUME TypeInv, NEW j \in Job, JobOK(j), Fewer(j), Still(j), SameBooks(j), AuditGrows
    PROVE  JobOK(j)'
<1>1. Placed(j)'
  BY PlacedKept DEF JobOK
<1>2. ASSUME NEW m, m.job = j, MessageOK(m) PROVE MessageOK(m)'
  BY <1>2 DEF MessageOK, SameBooks
<1>3. MessagesOK(j)'
  <2>1. \A m \in Elements(pending') : m.job = j => MessageOK(m)
    BY DEF JobOK, MessagesOK, Fewer
  <2>2. \A m \in delayed' : m.job = j => MessageOK(m)
    BY DEF JobOK, MessagesOK, Fewer
  <2>3. \A w \in Worker : \A m \in moving'[w] : m.job = j => MessageOK(m)
    BY DEF JobOK, MessagesOK, Fewer
  <2>4. Elements(pending)' = Elements(pending')
    BY DEF Elements
  <2>5. QED
    BY <1>2, <2>1, <2>2, <2>3, <2>4 DEF MessagesOK
<1>4. ASSUME NEW w \in Worker, Holds(w, j)' PROVE ClaimOK(w)'
  <2>1. Holds(w, j) /\ ClaimOK(w)
    BY <1>4 DEF JobOK, Fewer
  <2>2. pc'[w] = pc[w] /\ held'[w] = held[w]
    BY <1>4 DEF Still
  <2>3. JobOf(w) = j /\ JobOf(w)' = j
    BY <2>1, <2>2 DEF Holds, JobOf
  <2>4. successes[j] \in Nat
    BY DEF TypeInv, TypeOK
  <2>5. QED
    BY <2>1, <2>2, <2>3, <2>4 DEF ClaimOK, SameBooks, AuditGrows
<1>5. Failed(j)' => phase'[j] = "failed"
  BY DEF JobOK, SameBooks
<1>6. Counted(j)'
  <2>1. successes[j] \in Nat
    BY DEF TypeInv, TypeOK
  <2>2. QED
    BY <2>1 DEF JobOK, Counted, SameBooks, AuditGrows
<1>7. phase'[j] = "absent" => delivered'[j] = 0
  BY DEF JobOK, SameBooks
<1>8. QED
  BY <1>1, <1>3, <1>4, <1>5, <1>6, <1>7 DEF JobOK

(* The budget of entries is only spent.                                     *)
LEMMA AuditSpent ==
    ASSUME TypeInv, UNCHANGED left \/ \E d \in Disturbance : Spend(d)
    PROVE  /\ AuditGrows
           /\ Spend("audit") => Spent("audit")' = Spent("audit") + 1
           /\ UNCHANGED left => Spent("audit")' = Spent("audit")
<1>1. /\ left["audit"] \in Nat
      /\ Budget["audit"] \in Nat
      /\ left["audit"] <= Budget["audit"]
      /\ left \in [Disturbance -> Nat]
      /\ "audit" \in Disturbance
  BY RedisWorkersAssumption DEF TypeInv, TypeOK, Bounded, Disturbance, RedisWorkersAssumption
<1>2. \A d \in Disturbance :
         Spend(d) => left'["audit"] = IF d = "audit" THEN left["audit"] - 1 ELSE left["audit"]
  BY <1>1 DEF Spend
<1>3. Spend("audit") => left'["audit"] = left["audit"] - 1 /\ left["audit"] > 0
  BY <1>1 DEF Spend
<1>4. \/ left'["audit"] = left["audit"]
      \/ left'["audit"] = left["audit"] - 1 /\ left["audit"] > 0
  BY <1>2, <1>3
<1>5. QED
  BY <1>1, <1>3, <1>4 DEF AuditGrows, Spent

-------------------------------------------------------------------------------
(* Steps that only forget copies, if they change any. *)

BooksSame == UNCHANGED <<failedList, phase, limit, delivered, successes>>

(* Nobody but w begins, ends or goes on with a job.                         *)
OthersStill(w) == \A v \in Worker \ {w} : pc'[v] = pc[v] /\ held'[v] = held[v]

HandsStill ==
    \A v \in Worker : Claims(v)' => Claims(v) /\ pc'[v] = pc[v] /\ held'[v] = held[v]

Forgets ==
    /\ pending' = pending \/ (pending # <<>> /\ pending' = Tail(pending))
    /\ delayed' \subseteq delayed
    /\ \A v \in Worker : moving'[v] \subseteq moving[v]
    /\ HandsStill
    /\ BooksSame
    /\ UNCHANGED left \/ \E d \in Disturbance : Spend(d)

LEMMA ForgetsKeeps ==
    ASSUME TypeInv, JobsOK, Forgets
    PROVE  JobsOK'
<1> SUFFICES ASSUME NEW j \in Job PROVE JobOK(j)'
  BY DEF JobsOK
<1>1. AuditGrows
  BY AuditSpent DEF Forgets
<1>2. SameBooks(j)
  BY DEF SameBooks, Forgets, BooksSame, Failed
<1>3. Still(j)
  BY DEF Still, Forgets, HandsStill, Holds
<1>4. \A w \in Worker : Holds(w, j)' => Holds(w, j)
  BY DEF Forgets, HandsStill, Holds, JobOf
<1>5. /\ OnceIn(pending, j) => OnceIn(pending', j)
      /\ Within(pending', j) => Within(pending, j)
      /\ Elements(pending') \subseteq Elements(pending)
  BY Popped DEF Forgets, TypeInv, TypeOK, RedisTypeOK
<1>6. Fewer(j)
  BY <1>4, <1>5 DEF Fewer, Forgets
<1>7. QED
  BY <1>1, <1>2, <1>3, <1>6, JobKept DEF JobsOK

(* The process: nothing of it is about a job, unless it is killed.          *)
LEMMA ProcessForgets ==
    ASSUME TypeInv, NEW w \in Worker,
           \/ Boot(w) \/ Signal(w) \/ Leave(w) \/ LimitReached(w) \/ Crash(w)
           \/ StartSweep(w) \/ PopNothing(w) \/ LogCompleted(w) \/ LogDisposal(w)
           \/ LogStartedRaises(w) \/ LogDisposalRaises(w)
           \/ \E d \in BOOLEAN : DisposeRefused(w, d)
    PROVE  Forgets
<1> USE DEF Step, LetGo
<1>1. WorkerTypeOK /\ moving \in [Worker -> SUBSET Message]
  BY DEF TypeInv, TypeOK, RedisTypeOK
<1>2. HandsStill
  <2>1. ASSUME NEW to \in {"down", "loop", "reserving"}, pc' = [pc EXCEPT ![w] = to],
               NEW r, held' = [held EXCEPT ![w] = r] \/ held' = held
        PROVE  HandsStill
    BY <1>1, <2>1 DEF HandsStill, Claims, WorkerTypeOK
  <2>2. CASE Signal(w)
    BY <2>2 DEF Signal, ReceiveSignal, HandsStill, Claims
  <2>3. CASE Boot(w) \/ Leave(w) \/ LimitReached(w) \/ Crash(w) \/ StartSweep(w)
    BY <2>1, <2>3 DEF Boot, Leave, LimitReached, Crash, StartSweep, BootRun, LeaveLoop,
                      LeaveOnLimit, Die, BeginReserve
  <2>4. CASE \/ PopNothing(w) \/ LogCompleted(w) \/ LogDisposal(w)
             \/ LogStartedRaises(w) \/ LogDisposalRaises(w)
             \/ \E d \in BOOLEAN : DisposeRefused(w, d)
    BY <2>1, <2>4 DEF PopNothing, LogCompleted, LogDisposal, LogStartedRaises, LogDisposalRaises,
                      DisposeRefused, ReservedNothing, NextIteration, Die
  <2>5. QED
    BY <2>2, <2>3, <2>4
<1>3. /\ pending' = pending /\ delayed' = delayed /\ failedList' = failedList
      /\ UNCHANGED <<phase, limit, delivered, successes>>
      /\ moving' = moving \/ moving' = [moving EXCEPT ![w] = {}]
  BY DEF Boot, Signal, Leave, LimitReached, Crash, StartSweep, PopNothing, LogCompleted,
         LogDisposal, LogStartedRaises, LogDisposalRaises, DisposeRefused, ReadDue, Forget,
         redisVars, historyVars
<1>4. UNCHANGED left \/ \E d \in Disturbance : Spend(d)
  BY DEF Boot, Signal, Leave, LimitReached, Crash, StartSweep, PopNothing, LogCompleted,
         LogDisposal, LogStartedRaises, LogDisposalRaises, DisposeRefused, Disturbance
<1>5. \A v \in Worker : moving'[v] \subseteq moving[v]
  BY <1>1, <1>3
<1>6. QED
  BY <1>2, <1>3, <1>4, <1>5 DEF Forgets, BooksSame, historyVars

(* A pop or a sweep that raises, and a payload that does not decode.        *)
LEMMA ReserveForgets ==
    ASSUME TypeInv, NEW w \in Worker,
           \/ DropPayload(w) \/ PopRaises(w)
           \/ \E m \in sweep[w], a \in BOOLEAN : MoveDueRaises(w, m, a)
           \/ MakePendingRaises(w, FALSE)
    PROVE  Forgets
<1>1. WorkerTypeOK /\ moving \in [Worker -> SUBSET Message]
  BY DEF TypeInv, TypeOK, RedisTypeOK
<1>2. ReservedNothing(w)
  BY DEF DropPayload, PopRaises, MoveDueRaises, MakePendingRaises
<1>3. HandsStill
  BY <1>1, <1>2 DEF ReservedNothing, Step, LetGo, HandsStill, Claims, WorkerTypeOK
<1>4. /\ pending' = pending \/ (pending # <<>> /\ pending' = Tail(pending))
      /\ delayed' \subseteq delayed
      /\ failedList' = failedList
      /\ UNCHANGED <<phase, limit, delivered, successes>>
      /\ moving' = moving \/ moving' = [moving EXCEPT ![w] = {}]
      /\ UNCHANGED left \/ \E d \in Disturbance : Spend(d)
  BY DEF DropPayload, PopRaises, MoveDueRaises, MakePendingRaises, PopHead, Forget, Disturbance,
         historyVars
<1>5. \A v \in Worker : moving'[v] \subseteq moving[v]
  BY <1>1, <1>4
<1>6. QED
  BY <1>3, <1>4, <1>5 DEF Forgets, BooksSame, historyVars

LEMMA DelayForgets ==
    ASSUME NEW m, DelayElapses(m)
    PROVE  Forgets
BY DEF DelayElapses, BecomeDue, Forgets, HandsStill, Claims, BooksSame, historyVars, workerVars

(* A disposal that raises without having reached the server.                *)
LEMMA DisposeForgets ==
    ASSUME TypeInv, NEW w \in Worker, NEW d, DisposeRaises(w, d, FALSE)
    PROVE  Forgets
<1>1. WorkerTypeOK
  BY DEF TypeInv, TypeOK
<1>2. HandsStill
  BY <1>1 DEF DisposeRaises, Die, LetGo, HandsStill, Claims, WorkerTypeOK
<1>3. QED
  BY <1>2 DEF DisposeRaises, Forgets, BooksSame, redisVars, Disturbance

-------------------------------------------------------------------------------
(* Steps of a process with the job it holds. *)

LEMMA JobOfClaim ==
    ASSUME TypeInv, JobsOK, NEW w \in Worker, Claims(w)
    PROVE  /\ JobOf(w) \in Job
           /\ ClaimOK(w)
           /\ Holds(w, JobOf(w))
           /\ ~ InPending(JobOf(w)) /\ ~ InDelayed(JobOf(w)) /\ ~ InMoving(JobOf(w))
           /\ \A v \in Worker : Holds(v, JobOf(w)) => v = w
           /\ ~ Failed(JobOf(w))
           /\ Counted(JobOf(w))
<1>1. JobOf(w) \in Job /\ Holds(w, JobOf(w))
  BY DEF TypeInv, ClaimsAJob, Holds
<1>2. JobOK(JobOf(w))
  BY <1>1 DEF JobsOK
<1>3. ClaimOK(w) /\ InHands(JobOf(w))
  BY <1>1, <1>2 DEF JobOK, InHands
<1>4. phase[JobOf(w)] # "failed"
  BY <1>3 DEF ClaimOK, Claims
<1>5. QED
  BY <1>1, <1>2, <1>3, <1>4 DEF JobOK, Placed

(* The step is about the job in hand alone.                                 *)
LEMMA Progress ==
    ASSUME TypeInv, JobsOK, NEW w \in Worker, Claims(w), Claims(w)', held' = held,
           OthersStill(w), AuditGrows,
           UNCHANGED <<pending, delayed, moving, failedList, limit>>,
           \A k \in Job \ {JobOf(w)} :
               /\ phase'[k] = phase[k]
               /\ delivered'[k] = delivered[k]
               /\ successes'[k] = successes[k],
           ClaimOK(w)', Counted(JobOf(w))'
    PROVE  JobsOK'
<1> DEFINE j == JobOf(w)
<1>1. JobOf(w)' = JobOf(w)
  BY DEF JobOf
<1>2. ASSUME NEW k PROVE Fewer(k)
  <2>1. ASSUME NEW v \in Worker, Holds(v, k)' PROVE Holds(v, k)
    BY <2>1 DEF Holds, OthersStill, Claims, JobOf
  <2>2. QED
    BY <2>1 DEF Fewer
<1>3. ASSUME NEW k \in Job, k # j PROVE JobOK(k)'
  <2>1. Still(k)
    <3>1. ~ Holds(w, k)'
      BY <1>1, <1>3 DEF Holds
    <3>2. QED
      BY <3>1 DEF Still, OthersStill
  <2>2. SameBooks(k)
    BY <1>3 DEF SameBooks, Failed
  <2>3. QED
    BY <1>2, <2>1, <2>2, JobKept DEF JobsOK
<1>4. JobOK(j)'
  <2>1. /\ j \in Job /\ Placed(j) /\ ~ InPending(j) /\ ~ InDelayed(j) /\ ~ InMoving(j)
        /\ ~ Failed(j)
        /\ \A v \in Worker : Holds(v, j) => v = w
    BY JobOfClaim DEF JobsOK, JobOK
  <2>2. Placed(j)'
    BY <1>1, <1>2, <2>1, PlacedKept
  <2>3. MessagesOK(j)'
    <3>1. ~ \E m \in Elements(pending) : m.job = j
      BY <2>1 DEF InPending, Within, Elements
    <3>2. ~ \E m \in delayed : m.job = j
      BY <2>1 DEF InDelayed
    <3>3. \A v \in Worker : ~ \E m \in moving[v] : m.job = j
      BY <2>1 DEF InMoving, Moves
    <3>4. Elements(pending)' = Elements(pending)
      BY DEF Elements
    <3>5. QED
      BY <1>1, <3>1, <3>2, <3>3, <3>4 DEF MessagesOK
  <2>4. ASSUME NEW v \in Worker, Holds(v, j)' PROVE ClaimOK(v)'
    <3>1. v = w
      BY <1>1, <1>2, <2>1, <2>4 DEF Fewer
    <3>2. QED
      BY <3>1
  <2>5. ~ Failed(j)'
    BY <1>1, <2>1 DEF Failed
  <2>6. phase'[j] # "absent"
    BY <1>1 DEF ClaimOK, Claims
  <2>7. QED
    BY <1>1, <2>2, <2>3, <2>4, <2>5, <2>6 DEF JobOK
<1>5. QED
  BY <1>1, <1>3, <1>4 DEF JobsOK

LEMMA TryStep ==
    ASSUME TypeInv, JobsOK, NEW w \in Worker,
           \/ LogStarted(w) \/ HandlerReturns(w) \/ HandlerThrows(w) \/ Ack(w)
           \/ LogCompletedRaises(w)
    PROVE  JobsOK'
<1> DEFINE j == JobOf(w)
<1>0. pc \in [Worker -> Location] /\ delivered \in [Job -> Nat] /\ successes \in [Job -> Nat]
      /\ phase \in [Job -> Phase] /\ limit \in [Job -> Nat] /\ held \in [Worker -> ReservedJob]
  BY DEF TypeInv, TypeOK, WorkerTypeOK
<1>1. /\ pc[w] \in {"starting", "handling", "acking", "completing"}
      /\ held' = held
      /\ UNCHANGED <<redisVars, limit>>
      /\ \E to \in Location : pc' = [pc EXCEPT ![w] = to]
      /\ UNCHANGED left \/ \E d \in Disturbance : Spend(d)
  BY DEF LogStarted, HandlerReturns, HandlerThrows, Ack, LogCompletedRaises, EnterTry,
         HandleReturned, EnterCatch, MarkedDone, Step, Location, Disturbance, historyVars
<1>2. Claims(w) /\ OthersStill(w)
  BY <1>0, <1>1 DEF Claims, OthersStill
<1>3. /\ j \in Job /\ ClaimOK(w) /\ Counted(j)
      /\ delivered[j] \in Nat /\ successes[j] \in Nat /\ limit[j] \in Nat
      /\ JobOf(w)' = j /\ j' = j
  BY <1>0, <1>1, <1>2, JobOfClaim DEF JobOf
<1>4. AuditGrows /\ (UNCHANGED left => Spent("audit")' = Spent("audit"))
  BY <1>1, AuditSpent
<1>5. UNCHANGED <<pending, delayed, moving, failedList, limit>>
  BY <1>1 DEF redisVars
<1> HIDE DEF j
<1> SUFFICES /\ Claims(w)'
             /\ \A k \in Job \ {j} :
                   /\ phase'[k] = phase[k]
                   /\ delivered'[k] = delivered[k]
                   /\ successes'[k] = successes[k]
             /\ ClaimOK(w)'
             /\ Counted(j)'
  BY <1>1, <1>2, <1>3, <1>4, <1>5, Progress DEF j
<1>6. CASE LogStarted(w)
  <2>1. /\ pc[w] = "starting" /\ pc'[w] = "handling"
        /\ phase' = [phase EXCEPT ![j] = "running"]
        /\ delivered' = [delivered EXCEPT ![j] = delivered[j] + 1]
        /\ UNCHANGED <<successes, left>>
    BY <1>0, <1>6 DEF LogStarted, EnterTry, Step, Phases, j
  <2>2. phase'[j] = "running" /\ delivered'[j] = delivered[j] + 1 /\ phase[j] = "queued"
    BY <1>0, <1>3, <2>1 DEF ClaimOK, j
  <2>3. ClaimOK(w)'
    BY <1>1, <1>3, <1>5, <2>1, <2>2 DEF ClaimOK, j
  <2>4. Counted(j)'
    BY <1>3, <1>4, <2>1, <2>2 DEF Counted
  <2>5. QED
    BY <1>0, <2>1, <2>3, <2>4 DEF Claims
<1>7. CASE HandlerReturns(w)
  <2>1. /\ pc[w] = "handling" /\ pc'[w] = "acking"
        /\ phase' = [phase EXCEPT ![j] = "succeeded"]
        /\ successes' = [successes EXCEPT ![j] = successes[j] + 1]
        /\ UNCHANGED <<delivered, left>>
    BY <1>0, <1>7 DEF HandlerReturns, HandleReturned, Step, Phases, j
  <2>2. phase'[j] = "succeeded" /\ successes'[j] = successes[j] + 1 /\ phase[j] = "running"
    BY <1>0, <1>3, <2>1 DEF ClaimOK, j
  <2>3. ClaimOK(w)'
    BY <1>1, <1>3, <1>5, <2>1, <2>2 DEF ClaimOK, j
  <2>4. Counted(j)'
    <3>1. successes[j] <= Spent("audit")
      BY <1>3, <1>4, <2>2 DEF Counted, AuditGrows
    <3>2. Spent("audit")' = Spent("audit") /\ Spent("audit") \in Nat
      BY <1>4, <2>1 DEF AuditGrows
    <3>3. QED
      BY <1>3, <2>2, <3>1, <3>2 DEF Counted
  <2>5. QED
    BY <1>0, <2>1, <2>3, <2>4 DEF Claims
<1>8. CASE HandlerThrows(w)
  <2>1. /\ pc[w] = "handling" /\ pc'[w] = "failing"
        /\ phase' = [phase EXCEPT ![j] = "threw"]
        /\ UNCHANGED <<delivered, successes, left>>
    BY <1>0, <1>8 DEF HandlerThrows, EnterCatch, Step, Phases, j
  <2>2. phase'[j] = "threw" /\ phase[j] = "running"
    BY <1>0, <1>3, <2>1 DEF ClaimOK, j
  <2>3. successes[j] <= Spent("audit") /\ Spent("audit")' = Spent("audit")
    BY <1>3, <1>4, <2>1, <2>2 DEF Counted, AuditGrows
  <2>4. ClaimOK(w)'
    BY <1>1, <1>3, <1>5, <2>1, <2>2, <2>3 DEF ClaimOK, j
  <2>5. Counted(j)'
    BY <1>3, <1>4, <2>1, <2>2, <2>3 DEF Counted, AuditGrows
  <2>6. QED
    BY <1>0, <2>1, <2>4, <2>5 DEF Claims
<1>9. CASE Ack(w)
  <2>1. /\ pc[w] = "acking" /\ pc'[w] = "completing"
        /\ phase' = [phase EXCEPT ![j] = "done"]
        /\ UNCHANGED <<delivered, successes, left>>
    BY <1>0, <1>9 DEF Ack, MarkedDone, Step, Phases, j
  <2>2. phase'[j] = "done" /\ phase[j] = "succeeded"
    BY <1>0, <1>3, <2>1 DEF ClaimOK, j
  <2>3. ClaimOK(w)'
    BY <1>1, <1>3, <1>5, <2>1, <2>2 DEF ClaimOK, j
  <2>4. Counted(j)'
    BY <1>3, <1>4, <2>1, <2>2 DEF Counted, AuditGrows
  <2>5. QED
    BY <1>0, <2>1, <2>3, <2>4 DEF Claims
<1>10. CASE LogCompletedRaises(w)
  <2>1. /\ pc[w] = "completing" /\ pc'[w] = "failing"
        /\ Spend("audit")
        /\ UNCHANGED <<phase, delivered, successes>>
    BY <1>0, <1>10 DEF LogCompletedRaises, EnterCatch, Step, historyVars
  <2>2. Spent("audit")' = Spent("audit") + 1
    BY <2>1, AuditSpent DEF Disturbance
  <2>3. phase[j] = "done" /\ successes[j] <= Spent("audit") + 1
    BY <1>3, <1>4, <2>1 DEF ClaimOK, Counted, AuditGrows, j
  <2>4. ClaimOK(w)'
    BY <1>1, <1>3, <1>4, <1>5, <2>1, <2>2, <2>3 DEF ClaimOK, AuditGrows, j
  <2>5. Counted(j)'
    BY <1>3, <1>4, <2>1, <2>2, <2>3 DEF Counted, AuditGrows
  <2>6. QED
    BY <2>1, <2>4, <2>5 DEF Claims
<1>11. QED
  BY <1>6, <1>7, <1>8, <1>9, <1>10

-------------------------------------------------------------------------------
(* Steps that take a job from one place to another. *)

(* The step is about no job but j.                                          *)
About(j) ==
    /\ \/ pending' = pending
       \/ pending # <<>> /\ pending' = Tail(pending)
       \/ \E m \in Message : m.job = j /\ pending' = Append(pending, m)
    /\ \A m \in delayed' : m \in delayed \/ m.job = j
    /\ \A v \in Worker : \A m \in moving'[v] : m \in moving[v] \/ m.job = j
    /\ \A v \in Worker :
          Claims(v)' => \/ Claims(v) /\ pc'[v] = pc[v] /\ held'[v] = held[v]
                        \/ JobOf(v)' = j
    /\ \A k \in Job \ {j} : SameBooks(k)
    /\ AuditGrows

LEMMA OtherJobsKept ==
    ASSUME TypeInv, JobsOK, NEW j, About(j), NEW k \in Job, k # j
    PROVE  JobOK(k)'
<1>1. pending \in Seq(Message)
  BY DEF TypeInv, TypeOK, RedisTypeOK
<1>2. /\ OnceIn(pending, k) => OnceIn(pending', k)
      /\ Within(pending', k) => Within(pending, k)
      /\ \A m \in Elements(pending') : m.job = k => m \in Elements(pending)
  <2>1. CASE pending' = pending
    BY <2>1
  <2>2. CASE pending # <<>> /\ pending' = Tail(pending)
    BY <1>1, <2>2, Popped
  <2>3. CASE \E m \in Message : m.job = j /\ pending' = Append(pending, m)
    BY <1>1, <2>3, Pushed
  <2>4. QED
    BY <2>1, <2>2, <2>3 DEF About
<1>3. \A v \in Worker :
         Holds(v, k)' => Holds(v, k) /\ pc'[v] = pc[v] /\ held'[v] = held[v]
  BY DEF About, Holds, JobOf
<1>4. Fewer(k) /\ Still(k)
  BY <1>2, <1>3 DEF Fewer, Still, About
<1>5. QED
  BY <1>4, JobKept DEF About, JobsOK

(* A job that is not queued is not stored, and one that is absent or failed *)
(* is nowhere.                                                              *)
LEMMA Nowhere ==
    ASSUME NEW j, JobOK(j)
    PROVE  /\ phase[j] # "queued" => ~ InPending(j) /\ ~ InDelayed(j) /\ ~ InMoving(j)
           /\ phase[j] \in {"absent", "failed"} => ~ InHands(j)
<1>1. ASSUME phase[j] # "queued" PROVE ~ InPending(j) /\ ~ InDelayed(j) /\ ~ InMoving(j)
  BY <1>1 DEF JobOK, MessagesOK, MessageOK, InPending, InDelayed, InMoving, Moves, Within, Elements
<1>2. ASSUME phase[j] \in {"absent", "failed"} PROVE ~ InHands(j)
  BY <1>2 DEF JobOK, ClaimOK, InHands, Holds, Claims
<1>3. QED
  BY <1>1, <1>2

(* What is left to show of a job that is in one place after the step.       *)
LEMMA NowPending ==
    ASSUME NEW j, NEW m, OnceIn(pending', j),
           \A n \in Elements(pending') : n.job = j => n = m,
           ~ InDelayed(j)', ~ InMoving(j)', ~ InHands(j)',
           MessageOK(m)', ~ Failed(j)', Counted(j)', phase'[j] # "absent"
    PROVE  JobOK(j)'
BY DEF JobOK, Placed, MessagesOK, InDelayed, InMoving, InHands, Moves, Elements

LEMMA NowDelayed ==
    ASSUME NEW j, NEW m, \A n \in delayed' : n.job = j => n = m,
           ~ InPending(j)', ~ InMoving(j)', ~ InHands(j)',
           MessageOK(m)', ~ Failed(j)', Counted(j)', phase'[j] # "absent"
    PROVE  JobOK(j)'
BY DEF JobOK, Placed, MessagesOK, InPending, InMoving, InHands, Moves, Within, OnceIn, Elements

LEMMA NowMoving ==
    ASSUME NEW j, NEW m, NEW w \in Worker,
           \A v \in Worker : \A n \in moving'[v] : n.job = j => v = w /\ n = m,
           ~ InPending(j)', ~ InDelayed(j)', ~ InHands(j)',
           MessageOK(m)', ~ Failed(j)', Counted(j)', phase'[j] # "absent"
    PROVE  JobOK(j)'
BY DEF JobOK, Placed, MessagesOK, InPending, InDelayed, InHands, Moves, Within, OnceIn, Elements

LEMMA NowHeld ==
    ASSUME NEW j, NEW w \in Worker, \A v \in Worker : Holds(v, j)' => v = w,
           ~ InPending(j)', ~ InDelayed(j)', ~ InMoving(j)',
           ClaimOK(w)', ~ Failed(j)', Counted(j)', phase'[j] # "absent"
    PROVE  JobOK(j)'
BY DEF JobOK, Placed, MessagesOK, InPending, InDelayed, InMoving, Moves, Within, OnceIn, Elements

LEMMA NowFailed ==
    ASSUME NEW j,
           ~ InPending(j)', ~ InDelayed(j)', ~ InMoving(j)', ~ InHands(j)',
           phase'[j] = "failed", Counted(j)'
    PROVE  JobOK(j)'
BY DEF JobOK, Placed, MessagesOK, InPending, InDelayed, InMoving, InHands, Moves, Within, OnceIn,
       Elements

(* A message at the end of the list of the pending ones.                    *)
LEMMA Appended ==
    ASSUME TypeInv, NEW m \in Message, ~ InPending(m.job), pending' = Append(pending, m)
    PROVE  OnceIn(pending', m.job) /\ \A n \in Elements(pending') : n.job = m.job => n = m
<1>1. pending \in Seq(Message) /\ ~ Within(pending, m.job)
  BY DEF TypeInv, TypeOK, RedisTypeOK, InPending
<1>2. OnceIn(pending, m.job)
  BY <1>1 DEF OnceIn, Within
<1>3. OnceIn(pending', m.job) /\ Elements(pending') = Elements(pending) \cup {m}
  BY <1>1, <1>2, Pushed
<1>4. \A n \in Elements(pending) : n.job # m.job
  BY <1>1 DEF Elements, Within
<1>5. QED
  BY <1>3, <1>4

(* The only copy of a job is stored.                                        *)
LEMMA StoreKeeps ==
    ASSUME TypeInv, JobsOK, NEW m \in Message, NEW d \in BOOLEAN, Store(m, d),
           ~ InPending(m.job), ~ InDelayed(m.job), ~ InMoving(m.job), ~ InHands(m.job)',
           ~ Failed(m.job), HandsStill, AuditGrows,
           \A k \in Job \ {m.job} :
               /\ phase'[k] = phase[k]
               /\ limit'[k] = limit[k]
               /\ delivered'[k] = delivered[k]
               /\ successes'[k] = successes[k],
           MessageOK(m)', Counted(m.job)'
    PROVE  JobsOK'
<1>1. PICK j \in Job : j = m.job
  BY DEF Message
<1>2. /\ pending' = pending \/ pending' = Append(pending, m)
      /\ delayed' = delayed \/ delayed' = delayed \cup {m}
      /\ moving' = moving /\ failedList' = failedList
  BY DEF Store
<1>3. About(j)
  BY <1>1, <1>2 DEF About, HandsStill, SameBooks, Failed
<1>4. ~ InMoving(j)' /\ ~ InHands(j)' /\ ~ Failed(j)' /\ Counted(j)' /\ phase'[j] # "absent"
  BY <1>1, <1>2 DEF InMoving, Moves, Failed, MessageOK
<1>5. JobOK(j)'
  <2>1. CASE pending' = Append(pending, m) /\ delayed' = delayed
    <3>1. ~ InDelayed(j)'
      BY <1>1, <2>1 DEF InDelayed
    <3>2. OnceIn(pending', j) /\ \A n \in Elements(pending') : n.job = j => n = m
      BY <1>1, <2>1, Appended
    <3>3. QED
      BY <1>4, <3>1, <3>2, NowPending
  <2>2. CASE pending' = pending /\ delayed' = delayed \cup {m}
    <3>1. ~ InPending(j)'
      BY <1>1, <2>2 DEF InPending
    <3>2. \A n \in delayed' : n.job = j => n = m
      BY <1>1, <2>2 DEF InDelayed
    <3>3. QED
      BY <1>4, <3>1, <3>2, NowDelayed
  <2>3. QED
    BY <2>1, <2>2 DEF Store
<1>6. QED
  BY <1>3, <1>5, OtherJobsKept DEF JobsOK

LEMMA PushKeeps ==
    ASSUME TypeInv, JobsOK, NEW j \in Job, NEW d \in BOOLEAN, NEW n \in Int, Push(j, d, n)
    PROVE  JobsOK'
<1>1. PICK m \in Message : m = Fresh(j, n)
  BY FreshType
<1>2. m.job = j /\ m.attempt = 0 /\ m.maxAttempts = AtLeastOne(n) /\ AtLeastOne(n) \in Nat \ {0}
  BY <1>1, FreshType DEF Fresh
<1>3. JobOK(j) /\ phase[j] = "absent" /\ delivered[j] = 0
  BY DEF JobsOK, JobOK, Push
<1>4. ~ InPending(j) /\ ~ InDelayed(j) /\ ~ InMoving(j) /\ ~ InHands(j) /\ ~ Failed(j)
  BY <1>3, Nowhere DEF JobOK
<1>5. /\ phase'[j] = "queued" /\ limit'[j] = AtLeastOne(n)
      /\ \A k \in Job \ {j} : phase'[k] = phase[k] /\ limit'[k] = limit[k]
      /\ UNCHANGED <<workerVars, delivered, successes, left>>
  BY DEF Push, Phases, TypeInv, TypeOK
<1>6. HandsStill /\ ~ InHands(j)'
  BY <1>4, <1>5 DEF HandsStill, Claims, InHands, Holds, JobOf, workerVars
<1>7. AuditGrows /\ Spent("audit")' = Spent("audit")
  BY <1>5, AuditSpent
<1>8. MessageOK(m)'
  BY <1>2, <1>3, <1>5 DEF MessageOK
<1>9. Counted(j)'
  BY <1>3, <1>5, <1>7 DEF JobOK, Counted
<1>10. QED
  BY <1>1, <1>2, <1>4, <1>5, <1>6, <1>7, <1>8, <1>9, StoreKeeps DEF Push

(* ZREM: the item is now in the hands of the process that removed it, if    *)
(* nobody was faster.                                                       *)
LEMMA MoveDueKeeps ==
    ASSUME TypeInv, JobsOK, NEW w \in Worker, NEW m \in sweep[w], MoveDue(w, m)
    PROVE  JobsOK'
<1>1. m \in Message /\ moving \in [Worker -> SUBSET Message]
  BY DEF TypeInv, TypeOK, RedisTypeOK
<1>2. PICK j \in Job : j = m.job
  BY <1>1 DEF Message
<1>3. /\ UNCHANGED <<workerVars, historyVars, left, pending, failedList>>
      /\ delayed' = delayed \ {m}
      /\ moving' = [moving EXCEPT ![w] = {m} \cap delayed]
  BY DEF MoveDue, RemoveDue
<1>4. AuditGrows /\ Spent("audit")' = Spent("audit")
  BY <1>3, AuditSpent
<1>5. About(j)
  BY <1>1, <1>2, <1>3, <1>4 DEF About, SameBooks, Failed, workerVars, historyVars, Claims
<1>6. CASE m \notin delayed
  <2>1. \A v \in Worker : moving'[v] \subseteq moving[v]
    BY <1>1, <1>3, <1>6
  <2>2. Forgets
    BY <1>3, <2>1 DEF Forgets, HandsStill, Claims, BooksSame, workerVars, historyVars
  <2>3. QED
    BY <2>2, ForgetsKeeps
<1>7. CASE m \in delayed
  <2>1. JobOK(j) /\ MessageOK(m) /\ InDelayed(j)
    BY <1>2, <1>7 DEF JobsOK, JobOK, MessagesOK, InDelayed
  <2>2. ~ InPending(j) /\ ~ InMoving(j) /\ ~ InHands(j) /\ ~ Failed(j) /\ Counted(j)
    BY <1>2, <2>1 DEF JobOK, Placed, MessageOK
  <2>3. /\ ~ InPending(j)' /\ ~ InHands(j)' /\ ~ Failed(j)' /\ Counted(j)' /\ MessageOK(m)'
        /\ phase'[j] # "absent"
    BY <1>2, <1>3, <1>4, <2>1, <2>2
    DEF InPending, InHands, Holds, Claims, JobOf, Failed, Counted, MessageOK, workerVars, historyVars
  <2>4. ~ InDelayed(j)'
    BY <1>2, <1>3, <1>7, <2>1 DEF InDelayed, JobOK, Placed
  <2>5. \A v \in Worker : \A n \in moving'[v] : n.job = j => v = w /\ n = m
    BY <1>1, <1>2, <1>3, <2>2 DEF InMoving, Moves
  <2>6. JobOK(j)'
    BY <2>3, <2>4, <2>5, NowMoving
  <2>7. QED
    BY <1>5, <2>6, OtherJobsKept DEF JobsOK
<1>8. QED
  BY <1>6, <1>7

(* RPUSH: the item is pending, whether the answer arrives or not.           *)
LEMMA MakePendingKeeps ==
    ASSUME TypeInv, JobsOK, NEW w \in Worker,
           MakePending(w) \/ MakePendingRaises(w, TRUE)
    PROVE  JobsOK'
<1>1. moving \in [Worker -> SUBSET Message] /\ WorkerTypeOK
  BY DEF TypeInv, TypeOK, RedisTypeOK
<1>2. PICK m \in moving[w] : pending' = Append(pending, m)
  BY DEF MakePending, PushMoved, MakePendingRaises
<1>3. m \in Message /\ moving[w] = {m}
  BY <1>1, <1>2 DEF TypeInv, MovesOne
<1>4. PICK j \in Job : j = m.job
  BY <1>3 DEF Message
<1>5. /\ UNCHANGED <<historyVars, delayed, failedList>>
      /\ moving' = [moving EXCEPT ![w] = {}]
      /\ UNCHANGED left \/ \E d \in Disturbance : Spend(d)
      /\ UNCHANGED workerVars \/ ReservedNothing(w)
  BY DEF MakePending, PushMoved, MakePendingRaises, Forget, Disturbance
<1>6. AuditGrows
  BY <1>5, AuditSpent
<1>7. HandsStill
  BY <1>1, <1>5 DEF ReservedNothing, Step, LetGo, HandsStill, Claims, WorkerTypeOK, workerVars
<1>8. About(j)
  BY <1>1, <1>2, <1>3, <1>4, <1>5, <1>6, <1>7
  DEF About, HandsStill, SameBooks, Failed, historyVars
<1>9. JobOK(j) /\ MessageOK(m) /\ InMoving(j) /\ Moves(w, j)
  BY <1>2, <1>4 DEF JobsOK, JobOK, MessagesOK, InMoving, Moves
<1>10. ~ InPending(j) /\ ~ InDelayed(j) /\ ~ InHands(j) /\ ~ Failed(j) /\ Counted(j)
  BY <1>4, <1>9 DEF JobOK, Placed, MessageOK
<1>11. /\ ~ InDelayed(j)' /\ ~ Failed(j)' /\ MessageOK(m)' /\ phase'[j] # "absent"
  BY <1>4, <1>5, <1>9, <1>10 DEF InDelayed, Failed, MessageOK, historyVars
<1>12. ~ InHands(j)'
  BY <1>7, <1>10 DEF HandsStill, InHands, Holds, JobOf
<1>13. ~ InMoving(j)'
  BY <1>1, <1>5, <1>9 DEF JobOK, Placed, InMoving, Moves
<1>14. Counted(j)'
  BY <1>5, <1>6, <1>10 DEF Counted, AuditGrows, historyVars, TypeInv, TypeOK
<1>15. OnceIn(pending', j) /\ \A n \in Elements(pending') : n.job = j => n = m
  BY <1>2, <1>3, <1>4, <1>10, Appended
<1>16. JobOK(j)'
  BY <1>11, <1>12, <1>13, <1>14, <1>15, NowPending
<1>17. QED
  BY <1>8, <1>16, OtherJobsKept DEF JobsOK

(* LPOP: the list's copy is now the reservation of the process.             *)
LEMMA PopKeeps ==
    ASSUME TypeInv, JobsOK, NEW w \in Worker, Pop(w)
    PROVE  JobsOK'
<1>1. /\ pending \in Seq(Message) /\ pending # <<>>
      /\ WorkerTypeOK
      /\ delivered \in [Job -> Nat] /\ limit \in [Job -> Nat]
  BY DEF TypeInv, TypeOK, RedisTypeOK, Pop, PopHead
<1>2. PICK m \in Message : m = Head(pending)
  BY <1>1, Popped
<1>3. PICK j \in Job : j = m.job
  BY DEF Message
<1>4. /\ pending' = Tail(pending)
      /\ UNCHANGED <<delayed, failedList, moving, historyVars, left>>
      /\ pc[w] = "reserving"
      /\ pc' = [pc EXCEPT ![w] = "starting"]
      /\ held' = [held EXCEPT ![w] = Reservation(m)]
  BY <1>2 DEF Pop, PopHead, EndReserve, Step
<1>5. AuditGrows /\ Spent("audit")' = Spent("audit")
  BY <1>4, AuditSpent
<1>6. /\ m \in Elements(pending) /\ InPending(j)
      /\ JobOK(j) /\ MessageOK(m)
  BY <1>1, <1>2, <1>3, Popped DEF JobsOK, JobOK, MessagesOK, InPending
<1>7. ~ InDelayed(j) /\ ~ InMoving(j) /\ ~ InHands(j) /\ ~ Failed(j) /\ Counted(j)
  BY <1>3, <1>6 DEF JobOK, Placed, MessageOK
<1>8. pc'[w] = "starting" /\ held'[w] = Reservation(m) /\ JobOf(w)' = j
  BY <1>1, <1>3, <1>4 DEF WorkerTypeOK, JobOf, Reservation
<1>9. \A v \in Worker \ {w} : pc'[v] = pc[v] /\ held'[v] = held[v]
  BY <1>1, <1>4 DEF WorkerTypeOK
<1>10. About(j)
  BY <1>1, <1>4, <1>5, <1>8, <1>9 DEF About, Claims, SameBooks, Failed, historyVars
<1>11. \A v \in Worker : Holds(v, j)' => v = w
  BY <1>7, <1>9 DEF InHands, Holds, Claims, JobOf
<1>12. ~ InPending(j)'
  BY <1>1, <1>2, <1>3, <1>4, <1>6, Popped DEF InPending, JobOK, Placed
<1>13. /\ ~ InDelayed(j)' /\ ~ InMoving(j)' /\ ~ Failed(j)' /\ Counted(j)' /\ phase'[j] # "absent"
  BY <1>3, <1>4, <1>5, <1>6, <1>7
  DEF InDelayed, InMoving, Moves, Failed, Counted, MessageOK, historyVars
<1>14. ClaimOK(w)'
  <2>1. /\ delivered[j] \in Nat /\ limit[j] \in Nat
        /\ m.attempt = delivered[j] /\ m.maxAttempts = limit[j] /\ delivered[j] < limit[j]
        /\ phase[j] = "queued"
    BY <1>1, <1>3, <1>6 DEF MessageOK
  <2>2. held'[w].attempt = delivered[j] + 1 /\ held'[w].maxAttempts = limit[j]
    BY <1>8, <2>1 DEF Reservation, AtLeastOne
  <2>3. QED
    BY <1>4, <1>8, <2>1, <2>2 DEF ClaimOK, historyVars
<1>15. JobOK(j)'
  BY <1>11, <1>12, <1>13, <1>14, NowHeld
<1>16. QED
  BY <1>10, <1>15, OtherJobsKept DEF JobsOK

(* markFailed or release reached the server: the reservation is stored as   *)
(* it was, or listed as failed.                                             *)
LEMMA SettleKeeps ==
    ASSUME TypeInv, JobsOK, NEW w \in Worker, NEW d \in BOOLEAN,
           Dispose(w, d) \/ DisposeRaises(w, d, TRUE)
    PROVE  JobsOK'
<1>1. /\ WorkerTypeOK
      /\ failedList \in Seq(Message)
      /\ phase \in [Job -> Phase] /\ delivered \in [Job -> Nat] /\ limit \in [Job -> Nat]
      /\ successes \in [Job -> Nat]
  BY DEF TypeInv, TypeOK, RedisTypeOK
<1>2. /\ pc[w] = "failing" /\ Settle(w, d)
      /\ UNCHANGED <<limit, delivered, successes>>
      /\ \E to \in {"reporting", "down"} : pc' = [pc EXCEPT ![w] = to]
      /\ held' = held \/ held' = [held EXCEPT ![w] = NoReservation]
      /\ UNCHANGED left \/ \E b \in Disturbance : Spend(b)
  BY DEF Dispose, Disposed, DisposeRaises, Die, Step, LetGo, Disturbance
<1>3. Claims(w)
  BY <1>2 DEF Claims
<1>4. PICK j \in Job : j = JobOf(w)
  BY <1>3, JobOfClaim
<1>5. /\ ClaimOK(w) /\ Counted(j)
      /\ ~ InPending(j) /\ ~ InDelayed(j) /\ ~ InMoving(j) /\ ~ Failed(j)
      /\ \A v \in Worker : Holds(v, j) => v = w
  BY <1>3, <1>4, JobOfClaim
<1>6. AuditGrows
  BY <1>2, AuditSpent
<1>7. HandsStill /\ ~ Claims(w)'
  BY <1>1, <1>2 DEF HandsStill, Claims, WorkerTypeOK
<1>8. ~ InHands(j)'
  BY <1>5, <1>7 DEF HandsStill, InHands, Holds, JobOf
<1>9. Counted(j)'
  <2>1. successes[j] <= Spent("audit")
    BY <1>2, <1>4, <1>5 DEF ClaimOK
  <2>2. QED
    BY <1>1, <1>2, <1>6, <2>1 DEF Counted, AuditGrows
<1>10. \A k \in Job \ {j} : phase'[k] = phase[k]
  BY <1>1, <1>2, <1>4 DEF Settle, Phases
<1>11. held[w] \in ReservedJob /\ held[w].job = j
  BY <1>1, <1>4 DEF WorkerTypeOK, JobOf
<1>12. PICK m \in Message : m = Stored(held[w])
  BY <1>11, StoredType
<1>13. m.job = j /\ m.attempt = held[w].attempt /\ m.maxAttempts = held[w].maxAttempts
  BY <1>11, <1>12 DEF Stored
<1>14. CASE Exhausted(w)
  <2>1. /\ failedList' = Append(failedList, m)
        /\ UNCHANGED <<pending, delayed, moving>>
        /\ phase'[j] = "failed"
    BY <1>1, <1>2, <1>4, <1>12, <1>14 DEF Settle, MarkFailed, Phases
  <2>2. \A k : Within(failedList', k) <=> Within(failedList, k) \/ m.job = k
    BY <1>1, <2>1, Pushed
  <2>3. ASSUME NEW k, k # j PROVE Failed(k)' => Failed(k)
    BY <1>13, <2>2, <2>3 DEF Failed, Within
  <2>4. About(j)
    BY <1>2, <1>6, <1>7, <1>10, <2>1, <2>3 DEF About, HandsStill, SameBooks
  <2>5. ~ InPending(j)' /\ ~ InDelayed(j)' /\ ~ InMoving(j)'
    BY <1>5, <2>1 DEF InPending, InDelayed, InMoving, Moves
  <2>6. JobOK(j)'
    BY <1>8, <1>9, <2>1, <2>5, NowFailed
  <2>7. QED
    BY <2>4, <2>6, OtherJobsKept DEF JobsOK
<1>15. CASE ~ Exhausted(w)
  <2>1. Store(m, d) /\ phase'[j] = "queued"
    BY <1>1, <1>2, <1>4, <1>12, <1>15 DEF Settle, Release, Phases
  <2>2. MessageOK(m)'
    <3>1. /\ held[w].maxAttempts = limit[j] /\ held[w].attempt = delivered[j]
          /\ delivered[j] \in Nat /\ limit[j] \in Nat
      BY <1>1, <1>2, <1>4, <1>5 DEF ClaimOK
    <3>2. delivered[j] < limit[j]
      BY <1>15, <3>1 DEF Exhausted
    <3>3. QED
      BY <1>2, <1>13, <2>1, <3>1, <3>2 DEF MessageOK
  <2>3. QED
    BY <1>2, <1>5, <1>6, <1>7, <1>8, <1>9, <1>10, <1>13, <2>1, <2>2, StoreKeeps
<1>16. QED
  BY <1>14, <1>15

-------------------------------------------------------------------------------
(* The invariant. *)

IInv == TypeInv /\ JobsOK

LEMMA JobsInit == Init => JobsOK
<1> SUFFICES ASSUME Init, NEW j \in Job PROVE JobOK(j)
  BY DEF JobsOK
<1>1. /\ ~ InPending(j) /\ ~ InDelayed(j) /\ ~ InMoving(j) /\ ~ InHands(j) /\ ~ Failed(j)
      /\ Elements(pending) = {}
      /\ delayed = {} /\ \A w \in Worker : moving[w] = {}
      /\ \A w \in Worker : ~ Holds(w, j)
  BY DEF Init, WorkerInit, RedisInit, InPending, InDelayed, InMoving, InHands, Moves, Holds,
         Claims, Failed, Within, Elements
<1>2. Placed(j) /\ MessagesOK(j)
  BY <1>1 DEF Placed, MessagesOK, InPending, InDelayed, InMoving, InHands, OnceIn, Within
<1>3. Spent("audit") = 0
  BY RedisWorkersAssumption DEF RedisWorkersAssumption, Init, Spent, Disturbance
<1>4. Counted(j) /\ delivered[j] = 0
  BY <1>3 DEF Init, Counted
<1>5. QED
  BY <1>1, <1>2, <1>4 DEF JobOK

LEMMA JobsStep == IInv /\ [Next]_vars => JobsOK'
<1> SUFFICES ASSUME TypeInv, JobsOK, [Next]_vars PROVE JobsOK'
  BY DEF IInv
<1>1. ASSUME NEW j \in Job, Producer(j) PROVE JobsOK'
  BY <1>1, PushKeeps, RedisWorkersAssumption DEF Producer, RedisWorkersAssumption
<1>2. ASSUME NEW m \in delayed, DelayElapses(m) PROVE JobsOK'
  BY <1>2, DelayForgets, ForgetsKeeps
<1>3. ASSUME NEW w \in Worker, Boot(w) \/ Advance(w) \/ Disturb(w) PROVE JobsOK'
  <2>1. ASSUME \/ Boot(w) \/ Signal(w) \/ Leave(w) \/ LimitReached(w) \/ Crash(w)
               \/ StartSweep(w) \/ PopNothing(w) \/ LogCompleted(w) \/ LogDisposal(w)
               \/ LogStartedRaises(w) \/ LogDisposalRaises(w)
               \/ \E d \in BOOLEAN : DisposeRefused(w, d)
        PROVE  JobsOK'
    BY <2>1, ProcessForgets, ForgetsKeeps
  <2>2. ASSUME \/ DropPayload(w) \/ PopRaises(w)
               \/ \E m \in sweep[w], a \in BOOLEAN : MoveDueRaises(w, m, a)
               \/ MakePendingRaises(w, FALSE)
        PROVE  JobsOK'
    BY <2>2, ReserveForgets, ForgetsKeeps
  <2>3. ASSUME \/ LogStarted(w) \/ HandlerReturns(w) \/ HandlerThrows(w) \/ Ack(w)
               \/ LogCompletedRaises(w)
        PROVE  JobsOK'
    BY <2>3, TryStep
  <2>4. ASSUME \/ \E m \in sweep[w] : MoveDue(w, m)
               \/ MakePending(w) \/ MakePendingRaises(w, TRUE) \/ Pop(w)
        PROVE  JobsOK'
    BY <2>4, MoveDueKeeps, MakePendingKeeps, PopKeeps
  <2>5. ASSUME NEW d \in BOOLEAN, Dispose(w, d) \/ DisposeRaises(w, d, TRUE)
        PROVE  JobsOK'
    BY <2>5, SettleKeeps
  <2>6. ASSUME NEW d \in BOOLEAN, DisposeRaises(w, d, FALSE)
        PROVE  JobsOK'
    BY <2>6, DisposeForgets, ForgetsKeeps
  <2>7. QED
    BY <1>3, <2>1, <2>2, <2>3, <2>4, <2>5, <2>6 DEF Advance, Disturb
<1>4. ASSUME UNCHANGED vars PROVE JobsOK'
  <2>1. Forgets
    BY <1>4 DEF vars, workerVars, redisVars, historyVars, Forgets, HandsStill, Claims, BooksSame
  <2>2. QED
    BY <2>1, ForgetsKeeps
<1>5. QED
  BY <1>1, <1>2, <1>3, <1>4 DEF Next

(* The invariant of the Redis processes and of every copy of every job.     *)
THEOREM Invariance == Spec => []IInv
<1>1. Init => IInv
  BY TypeInit, JobsInit DEF IInv
<1>2. IInv /\ [Next]_vars => IInv'
  BY TypeStep, JobsStep DEF IInv
<1>3. QED
  BY <1>1, <1>2, PTL DEF Spec

(* Every variable of the processes and of the three Redis keys keeps its    *)
(* type, whatever the processes and the disturbances do.                    *)
THEOREM TypeCorrect == Spec => []TypeOK
<1>1. IInv => TypeOK
  BY DEF IInv, TypeInv
<1>2. QED
  BY <1>1, Invariance, PTL

(* A handler returns for the same job a second time only if the entry of    *)
(* its completion failed, once for every such failure: Worker::run has the  *)
(* entry in the try block, so the finished job enters the catch block.      *)
THEOREM RepeatsAreCounted == Spec => []RepeatsCostAudit
<1>1. IInv => RepeatsCostAudit
  <2> SUFFICES ASSUME IInv, NEW j \in Job PROVE successes[j] <= 1 + Spent("audit")
    BY DEF RepeatsCostAudit
  <2>1. Counted(j)
    BY DEF IInv, JobsOK, JobOK
  <2>2. /\ successes[j] \in Nat
        /\ left["audit"] \in Nat /\ Budget["audit"] \in Nat
    BY RedisWorkersAssumption
    DEF IInv, TypeInv, TypeOK, Disturbance, RedisWorkersAssumption
  <2>3. QED
    BY <2>1, <2>2 DEF Counted, Spent
<1>2. QED
  BY <1>1, Invariance, PTL

-------------------------------------------------------------------------------
(* The copies of a job, counted. *)

LEMMA OneCopy ==
    ASSUME NEW j \in Job, Placed(j)
    PROVE  \A x, y \in Copies(j) : x = y
<1> DEFINE P == {<<"pending", i>> : i \in {k \in DOMAIN pending : pending[k].job = j}}
           D == {<<"delayed", m>> : m \in {n \in delayed : n.job = j}}
           M == {<<"moving", w>> : w \in {v \in Worker : \E m \in moving[v] : m.job = j}}
           H == {<<"held", w>> : w \in {v \in Worker : Claims(v) /\ JobOf(v) = j}}
<1>1. P # {} => InPending(j)
  BY DEF InPending, Within
<1>2. D # {} => InDelayed(j)
  BY DEF InDelayed
<1>3. M # {} => InMoving(j)
  BY DEF InMoving, Moves
<1>4. H # {} => InHands(j)
  BY DEF InHands, Holds
<1>5. \A x, y \in P : x = y
  BY DEF Placed, OnceIn
<1>6. \A x, y \in D : x = y
  BY DEF Placed
<1>7. \A x, y \in M : x = y
  BY DEF Placed, Moves
<1>8. \A x, y \in H : x = y
  BY DEF Placed, Holds
<1>9. Copies(j) = P \cup D \cup M \cup H
  BY DEF Copies
<1> HIDE DEF P, D, M, H
<1>10. QED
  BY <1>1, <1>2, <1>3, <1>4, <1>5, <1>6, <1>7, <1>8, <1>9 DEF Placed

HasCopy(j) == InPending(j) \/ InDelayed(j) \/ InMoving(j) \/ InHands(j)

LEMMA NoCopy ==
    ASSUME NEW j
    PROVE  Copies(j) = {} <=> ~ HasCopy(j)
<1>1. InPending(j) <=> \E i \in DOMAIN pending : pending[i].job = j
  BY DEF InPending, Within
<1>2. InMoving(j) <=> \E w \in Worker : \E m \in moving[w] : m.job = j
  BY DEF InMoving, Moves
<1>3. InHands(j) <=> \E w \in Worker : Claims(w) /\ JobOf(w) = j
  BY DEF InHands, Holds
<1>4. QED
  BY <1>1, <1>2, <1>3 DEF HasCopy, Copies, InDelayed

(* However the sweeps, the pops and the disturbances interleave, a job is   *)
(* in one place: in the list, in the sorted set, between the two in one     *)
(* process, or with the process that popped it; a failed one is in none.    *)
THEOREM OneCopyAtMost == Spec => []AtMostOneCopy
<1>1. IInv => AtMostOneCopy
  <2> SUFFICES ASSUME IInv, NEW j \in Job
               PROVE  Cardinality(Copies(j)) <= 1 /\ (Failed(j) => Copies(j) = {})
    BY DEF AtMostOneCopy
  <2>1. JobOK(j)
    BY DEF IInv, JobsOK
  <2>2. Cardinality(Copies(j)) <= 1
    <3>1. \A x, y \in Copies(j) : x = y
      BY <2>1, OneCopy DEF JobOK
    <3>2. CASE Copies(j) = {}
      BY <3>2, FS_EmptySet
    <3>3. CASE Copies(j) # {}
      <4>1. PICK x \in Copies(j) : TRUE
        BY <3>3
      <4>2. Copies(j) = {x}
        BY <3>1, <4>1
      <4>3. Cardinality({x}) = 1
        BY FS_Singleton, Zenon
      <4>4. QED
        BY <4>2, <4>3
    <3>4. QED
      BY <3>2, <3>3
  <2>3. Failed(j) => ~ HasCopy(j)
    BY <2>1, Nowhere DEF JobOK, HasCopy
  <2>4. QED
    BY <2>2, <2>3, NoCopy
<1>2. QED
  BY <1>1, Invariance, PTL

-------------------------------------------------------------------------------
(* Losses. *)

Alive(j) == HasCopy(j) \/ phase[j] \in {"absent", "done", "failed"}

(* The step takes away no copy but of job x.                                *)
Spares(x) ==
    /\ \A j \in Job : j # x /\ Within(pending, j) => Within(pending', j)
    /\ \A m \in delayed : m.job # x => m \in delayed'
    /\ \A v \in Worker : \A m \in moving[v] : m.job # x => m \in moving'[v]
    /\ \A v \in Worker : Claims(v) /\ JobOf(v) # x => Claims(v)' /\ JobOf(v)' = JobOf(v)
    /\ \A j \in Job \ {x} : phase'[j] = phase[j]

LEMMA SparedLive ==
    ASSUME NEW x, Spares(x), NEW j \in Job, j # x, Alive(j)
    PROVE  Alive(j)'
<1>1. InPending(j) => InPending(j)'
  BY DEF Spares, InPending
<1>2. InDelayed(j) => InDelayed(j)'
  BY DEF Spares, InDelayed
<1>3. InMoving(j) => InMoving(j)'
  BY DEF Spares, InMoving, Moves
<1>4. InHands(j) => InHands(j)'
  BY DEF Spares, InHands, Holds
<1>5. phase'[j] = phase[j]
  BY DEF Spares
<1>6. QED
  BY <1>1, <1>2, <1>3, <1>4, <1>5 DEF Alive, HasCopy

(* What a step does to the jobs: it loses none, or it loses one and is a    *)
(* fault, a refused retry or a dropped payload, and counted as such.        *)
LosesNone == \E x : Spares(x) /\ (x \in Job => Alive(x)')

LosesOne == \E x : Spares(x)

IsFault == \E d \in {"crash", "storage", "audit"} : Spend(d)

LossStep ==
    \/ LosesNone /\ (UNCHANGED left \/ \E d \in Disturbance : Spend(d))
    \/ LosesOne /\ IsFault
    \/ LosesOne /\ UNCHANGED left /\ \E c \in Cause : CountLoss(c)

(* Nothing is taken away.                                                   *)
SparesAll ==
    /\ pending' = pending
    /\ \A m \in delayed : m \in delayed'
    /\ \A v \in Worker : \A m \in moving[v] : m \in moving'[v]
    /\ \A v \in Worker : Claims(v) => Claims(v)' /\ JobOf(v)' = JobOf(v)
    /\ phase' = phase

LEMMA SparesAllLosesNone ==
    ASSUME SparesAll
    PROVE  LosesNone
<1>1. Spares(NoJob)
  BY DEF SparesAll, Spares
<1>2. NoJob \notin Job
  BY QueueTypesAssumption DEF QueueTypesAssumption
<1>3. QED
  BY <1>1, <1>2 DEF LosesNone

(* The steps of a process that holds no job, or keeps it.                   *)
LEMMA ProcessLoses ==
    ASSUME TypeInv, NEW w \in Worker,
           \/ Boot(w) \/ Signal(w) \/ Leave(w) \/ LimitReached(w)
           \/ StartSweep(w) \/ PopNothing(w) \/ LogDisposal(w)
           \/ LogCompletedRaises(w) \/ LogDisposalRaises(w)
    PROVE  LossStep
<1> USE DEF Step, LetGo
<1>1. WorkerTypeOK /\ moving \in [Worker -> SUBSET Message]
  BY DEF TypeInv, TypeOK, RedisTypeOK
<1>2. UNCHANGED <<pending, delayed, moving, phase>>
  BY DEF Boot, Signal, Leave, LimitReached, StartSweep, PopNothing, LogDisposal,
         LogCompletedRaises, LogDisposalRaises, ReadDue, redisVars, historyVars
<1>3. UNCHANGED left \/ \E d \in Disturbance : Spend(d)
  BY DEF Boot, Signal, Leave, LimitReached, StartSweep, PopNothing, LogDisposal,
         LogCompletedRaises, LogDisposalRaises, Disturbance
<1>4. \A v \in Worker : Claims(v) => Claims(v)' /\ JobOf(v)' = JobOf(v)
  <2> USE <1>1 DEF WorkerTypeOK, Claims, JobOf
  <2>1. CASE Boot(w) \/ Signal(w) \/ Leave(w) \/ LimitReached(w)
    BY <2>1 DEF Boot, Signal, Leave, LimitReached, BootRun, ReceiveSignal, LeaveLoop,
                LeaveOnLimit, Polls
  <2>2. CASE StartSweep(w) \/ PopNothing(w) \/ LogDisposal(w)
    BY <2>2 DEF StartSweep, PopNothing, LogDisposal, BeginReserve, ReservedNothing, NextIteration
  <2>3. CASE LogCompletedRaises(w)
    BY <2>3 DEF LogCompletedRaises, EnterCatch
  <2>4. CASE LogDisposalRaises(w)
    BY <2>4 DEF LogDisposalRaises, Die
  <2>5. QED
    BY <2>1, <2>2, <2>3, <2>4
<1>5. SparesAll
  BY <1>2, <1>4 DEF SparesAll
<1>6. QED
  BY <1>3, <1>5, SparesAllLosesNone DEF LossStep

(* The steps that may take away the job of the process, and spend a fault,  *)
(* or find it done.                                                         *)
LEMMA HolderLoses ==
    ASSUME TypeInv, JobsOK, NEW w \in Worker,
           \/ LogCompleted(w) \/ LogStartedRaises(w)
           \/ \E d \in BOOLEAN : DisposeRaises(w, d, FALSE)
    PROVE  LossStep
<1> USE DEF Step, LetGo
<1>1. WorkerTypeOK /\ Claims(w)
  BY DEF TypeInv, TypeOK, LogCompleted, NextIteration, LogStartedRaises, DisposeRaises, Claims
<1>2. PICK j \in Job : j = JobOf(w) /\ ClaimOK(w)
  BY <1>1, JobOfClaim
<1>3. UNCHANGED <<pending, delayed, moving, phase>>
  BY DEF LogCompleted, LogStartedRaises, DisposeRaises, redisVars, historyVars
<1>4. \A v \in Worker \ {w} : pc'[v] = pc[v] /\ held'[v] = held[v]
  BY <1>1 DEF LogCompleted, NextIteration, LogStartedRaises, DisposeRaises, Die, WorkerTypeOK
<1>5. Spares(j)
  BY <1>2, <1>3, <1>4 DEF Spares, Claims, JobOf
<1>6. CASE LogCompleted(w)
  <2>1. phase'[j] = "done" /\ UNCHANGED left
    BY <1>2, <1>3, <1>6 DEF LogCompleted, NextIteration, ClaimOK
  <2>2. QED
    BY <1>5, <2>1 DEF Alive, LosesNone, LossStep
<1>7. CASE LogStartedRaises(w) \/ \E d \in BOOLEAN : DisposeRaises(w, d, FALSE)
  BY <1>5, <1>7 DEF LogStartedRaises, DisposeRaises, LosesOne, IsFault, LossStep
<1>8. QED
  BY <1>6, <1>7

(* The steps that take the job of the process further.                      *)
LEMMA TryLoses ==
    ASSUME TypeInv, JobsOK, NEW w \in Worker,
           LogStarted(w) \/ HandlerReturns(w) \/ HandlerThrows(w) \/ Ack(w)
    PROVE  LossStep
<1>1. WorkerTypeOK /\ phase \in [Job -> Phase]
  BY DEF TypeInv, TypeOK
<1>2. /\ UNCHANGED <<pending, delayed, moving, held, left>>
      /\ pc[w] \in {"starting", "handling", "acking"}
      /\ \E to \in {"handling", "acking", "failing", "completing"} :
            pc' = [pc EXCEPT ![w] = to]
      /\ \E p \in Phase : phase' = [phase EXCEPT ![JobOf(w)] = p]
  BY DEF LogStarted, HandlerReturns, HandlerThrows, Ack, EnterTry, HandleReturned, EnterCatch,
         MarkedDone, Step, Phases, Phase, redisVars
<1>3. Claims(w)
  BY <1>2 DEF Claims
<1>4. PICK j \in Job : j = JobOf(w)
  BY <1>3, JobOfClaim
<1>5. /\ \A v \in Worker : Claims(v) => Claims(v)' /\ JobOf(v)' = JobOf(v)
      /\ \A k \in Job \ {j} : phase'[k] = phase[k]
  BY <1>1, <1>2, <1>4 DEF Claims, JobOf, WorkerTypeOK
<1>6. Spares(j)
  BY <1>2, <1>5 DEF Spares
<1>7. InHands(j)'
  BY <1>3, <1>4, <1>5 DEF InHands, Holds
<1>8. QED
  BY <1>2, <1>6, <1>7 DEF Alive, HasCopy, LosesNone, LossStep

LEMMA ArrivalLoses ==
    ASSUME TypeInv,
           \/ \E j \in Job, d \in BOOLEAN, n \in Int : Push(j, d, n)
           \/ \E m \in delayed : DelayElapses(m)
    PROVE  LossStep
<1>1. pending \in Seq(Message) /\ phase \in [Job -> Phase]
  BY DEF TypeInv, TypeOK, RedisTypeOK
<1>2. ASSUME NEW j \in Job, NEW d \in BOOLEAN, NEW n \in Int, Push(j, d, n)
      PROVE  LossStep
  <2>1. PICK m \in Message : m = Fresh(j, n) /\ m.job = j
    BY FreshType
  <2>2. /\ \/ pending' = pending /\ delayed' = delayed \cup {m}
           \/ pending' = Append(pending, m) /\ delayed' = delayed
        /\ UNCHANGED <<moving, workerVars, left>>
        /\ phase' = [phase EXCEPT ![j] = "queued"]
    BY <1>2, <2>1 DEF Push, Store, Phases
  <2>3. \A k : Within(Append(pending, m), k) <=> Within(pending, k) \/ m.job = k
    BY <1>1, Pushed
  <2>4. Spares(j)
    BY <1>1, <2>2, <2>3 DEF Spares, Claims, JobOf, workerVars
  <2>5. InPending(j)' \/ InDelayed(j)'
    BY <2>1, <2>2, <2>3 DEF InPending, InDelayed
  <2>6. QED
    BY <2>2, <2>4, <2>5 DEF Alive, HasCopy, LosesNone, LossStep
<1>3. ASSUME NEW m \in delayed, DelayElapses(m)
      PROVE  LossStep
  <2>1. SparesAll
    BY <1>3 DEF DelayElapses, BecomeDue, SparesAll, Claims, JobOf, workerVars, historyVars
  <2>2. QED
    BY <1>3, <2>1, SparesAllLosesNone DEF DelayElapses, LossStep
<1>4. QED
  BY <1>2, <1>3

(* An item between the sorted set and the list.                             *)
LEMMA SweepLoses ==
    ASSUME TypeInv, NEW w \in Worker,
           \/ \E m \in sweep[w] : MoveDue(w, m) \/ \E a \in BOOLEAN : MoveDueRaises(w, m, a)
           \/ MakePending(w)
           \/ \E a \in BOOLEAN : MakePendingRaises(w, a)
    PROVE  LossStep
<1>1. /\ WorkerTypeOK
      /\ moving \in [Worker -> SUBSET Message] /\ sweep \in [Worker -> SUBSET Message]
      /\ pending \in Seq(Message)
  BY DEF TypeInv, TypeOK, RedisTypeOK
<1>2. ASSUME ReservedNothing(w)
      PROVE  \A v \in Worker : Claims(v) => Claims(v)' /\ JobOf(v)' = JobOf(v)
  BY <1>1, <1>2 DEF ReservedNothing, Step, LetGo, Claims, JobOf, WorkerTypeOK
<1>3. ASSUME NEW m \in sweep[w], MoveDue(w, m)
      PROVE  LossStep
  <2>1. /\ UNCHANGED <<workerVars, historyVars, left, pending>>
        /\ delayed' = delayed \ {m}
        /\ moving[w] = {}
        /\ moving' = [moving EXCEPT ![w] = {m} \cap delayed]
    BY <1>3 DEF MoveDue, RemoveDue
  <2>2. CASE m \notin delayed
    <3>1. SparesAll
      BY <1>1, <2>1, <2>2 DEF SparesAll, Claims, JobOf, workerVars, historyVars
    <3>2. QED
      BY <2>1, <3>1, SparesAllLosesNone DEF LossStep
  <2>3. CASE m \in delayed
    <3>1. PICK j \in Job : j = m.job
      BY <1>1 DEF Message
    <3>2. Spares(j)
      BY <1>1, <2>1, <3>1 DEF Spares, Claims, JobOf, workerVars, historyVars
    <3>3. InMoving(j)'
      BY <1>1, <2>1, <2>3, <3>1 DEF InMoving, Moves
    <3>4. QED
      BY <2>1, <3>2, <3>3 DEF Alive, HasCopy, LosesNone, LossStep
  <2>4. QED
    BY <2>2, <2>3
<1>4. ASSUME NEW m \in sweep[w], NEW a \in BOOLEAN, MoveDueRaises(w, m, a)
      PROVE  LossStep
  <2>1. /\ UNCHANGED <<historyVars, pending>>
        /\ delayed \ {m} \subseteq delayed'
        /\ moving[w] = {}
        /\ moving' = [moving EXCEPT ![w] = {}]
        /\ ReservedNothing(w) /\ Spend("storage")
    BY <1>4 DEF MoveDueRaises, Forget
  <2>2. Spares(m.job)
    BY <1>1, <1>2, <2>1 DEF Spares, historyVars
  <2>3. QED
    BY <2>1, <2>2 DEF LosesOne, IsFault, LossStep
<1>5. ASSUME NEW m \in moving[w], pending' = Append(pending, m) \/ pending' = pending,
             moving' = [moving EXCEPT ![w] = {}], UNCHANGED <<delayed, phase>>,
             \A v \in Worker : Claims(v) => Claims(v)' /\ JobOf(v)' = JobOf(v)
      PROVE  Spares(m.job)
  <2>1. moving[w] = {m} /\ m \in Message
    BY <1>1 DEF TypeInv, MovesOne
  <2>2. \A k : Within(Append(pending, m), k) <=> Within(pending, k) \/ m.job = k
    BY <1>1, <2>1, Pushed
  <2>3. QED
    BY <1>1, <1>5, <2>1, <2>2 DEF Spares
<1>6. ASSUME MakePending(w)
      PROVE  LossStep
  <2>1. PICK m \in moving[w] : pending' = Append(pending, m)
    BY <1>6 DEF MakePending, PushMoved
  <2>2. /\ moving' = [moving EXCEPT ![w] = {}]
        /\ UNCHANGED <<delayed, phase, workerVars, left>>
    BY <1>6 DEF MakePending, PushMoved, historyVars
  <2>3. Spares(m.job)
    BY <1>5, <2>1, <2>2 DEF workerVars, Claims, JobOf
  <2>4. InPending(m.job)'
    BY <1>1, <2>1, Pushed DEF InPending
  <2>5. QED
    BY <2>2, <2>3, <2>4 DEF Alive, HasCopy, LosesNone, LossStep
<1>7. ASSUME NEW a \in BOOLEAN, MakePendingRaises(w, a)
      PROVE  LossStep
  <2>1. PICK m \in moving[w] : pending' = Append(pending, m) \/ pending' = pending
    BY <1>7 DEF MakePendingRaises
  <2>2. /\ moving' = [moving EXCEPT ![w] = {}]
        /\ UNCHANGED <<delayed, phase>>
        /\ ReservedNothing(w) /\ Spend("storage")
    BY <1>7 DEF MakePendingRaises, Forget, historyVars
  <2>3. Spares(m.job)
    BY <1>2, <1>5, <2>1, <2>2
  <2>4. QED
    BY <2>2, <2>3 DEF LosesOne, IsFault, LossStep
<1>8. QED
  BY <1>3, <1>4, <1>6, <1>7

(* The pop.                                                                 *)
LEMMA PopLoses ==
    ASSUME TypeInv, NEW w \in Worker, Pop(w) \/ DropPayload(w) \/ PopRaises(w)
    PROVE  LossStep
<1>1. /\ WorkerTypeOK
      /\ pending \in Seq(Message) /\ pending # <<>>
      /\ pc[w] = "reserving"
      /\ pending' = Tail(pending)
      /\ UNCHANGED <<delayed, moving, phase>>
  BY DEF TypeInv, TypeOK, RedisTypeOK, Pop, DropPayload, PopRaises, PopHead, EndReserve,
         ReservedNothing, Step, historyVars
<1>2. PICK m \in Message : m = Head(pending)
  BY <1>1, Popped
<1>3. PICK j \in Job : j = m.job
  BY DEF Message
<1>4. \A v \in Worker \ {w} : pc'[v] = pc[v] /\ held'[v] = held[v]
  BY <1>1 DEF Pop, DropPayload, PopRaises, EndReserve, ReservedNothing, Step, LetGo, WorkerTypeOK
<1>5. \A k : Within(pending, k) => Within(Tail(pending), k) \/ m.job = k
  BY <1>1, <1>2, Popped
<1>6. Spares(j)
  BY <1>1, <1>3, <1>4, <1>5 DEF Spares, Claims, JobOf
<1>7. CASE Pop(w)
  <2>1. pc'[w] = "starting" /\ held'[w] = Reservation(m) /\ UNCHANGED left
    BY <1>1, <1>2, <1>7 DEF Pop, EndReserve, Step, WorkerTypeOK
  <2>2. InHands(j)'
    BY <1>3, <2>1 DEF InHands, Holds, Claims, JobOf, Reservation
  <2>3. QED
    BY <1>6, <2>1, <2>2 DEF Alive, HasCopy, LosesNone, LossStep
<1>8. CASE DropPayload(w)
  <2>1. CountLoss("undecodable") /\ UNCHANGED left
    BY <1>8 DEF DropPayload
  <2>2. QED
    BY <1>6, <2>1 DEF LosesOne, LossStep, Cause
<1>9. CASE PopRaises(w)
  BY <1>6, <1>9 DEF PopRaises, LosesOne, IsFault, LossStep
<1>10. QED
  BY <1>7, <1>8, <1>9

(* A kill: the process holds one job at most, or one item of a sweep.       *)
LEMMA CrashLoses ==
    ASSUME TypeInv, NEW w \in Worker, Crash(w)
    PROVE  LossStep
<1>1. WorkerTypeOK /\ moving \in [Worker -> SUBSET Message]
  BY DEF TypeInv, TypeOK, RedisTypeOK
<1>2. /\ UNCHANGED <<pending, delayed, phase>>
      /\ moving' = [moving EXCEPT ![w] = {}]
      /\ Spend("crash")
  BY DEF Crash, Forget, historyVars
<1>3. \A v \in Worker \ {w} : pc'[v] = pc[v] /\ held'[v] = held[v]
  BY <1>1 DEF Crash, Die, LetGo, WorkerTypeOK
<1>4. \E x : /\ \A m \in moving[w] : m.job = x
             /\ Claims(w) => JobOf(w) = x
  <2>1. CASE Claims(w)
    <3>1. moving[w] = {}
      BY <2>1 DEF TypeInv, MovesOne, Claims
    <3>2. QED
      BY <3>1
  <2>2. CASE ~ Claims(w)
    <3>1. \A m, n \in moving[w] : m = n
      BY DEF TypeInv, MovesOne
    <3>2. QED
      BY <2>2, <3>1
  <2>3. QED
    BY <2>1, <2>2
<1>5. PICK x : /\ \A m \in moving[w] : m.job = x
               /\ Claims(w) => JobOf(w) = x
  BY <1>4
<1>6. Spares(x)
  BY <1>1, <1>2, <1>3, <1>5 DEF Spares, Claims, JobOf
<1>7. QED
  BY <1>2, <1>6 DEF LosesOne, IsFault, LossStep

(* The disposal.                                                            *)
LEMMA SettleLoses ==
    ASSUME TypeInv, JobsOK, NEW w \in Worker, NEW d \in BOOLEAN,
           Dispose(w, d) \/ DisposeRaises(w, d, TRUE)
    PROVE  LossStep
<1>1. /\ WorkerTypeOK /\ phase \in [Job -> Phase]
      /\ pending \in Seq(Message)
  BY DEF TypeInv, TypeOK, RedisTypeOK
<1>2. /\ pc[w] = "failing" /\ Settle(w, d)
      /\ \A v \in Worker \ {w} : pc'[v] = pc[v] /\ held'[v] = held[v]
      /\ UNCHANGED left \/ \E b \in Disturbance : Spend(b)
  BY <1>1 DEF Dispose, Disposed, DisposeRaises, Die, Step, LetGo, Disturbance, WorkerTypeOK
<1>3. Claims(w)
  BY <1>2 DEF Claims
<1>4. PICK j \in Job : j = JobOf(w)
  BY <1>3, JobOfClaim
<1>5. held[w] \in ReservedJob /\ held[w].job = j
  BY <1>1, <1>4 DEF WorkerTypeOK, JobOf
<1>6. PICK m \in Message : m = Stored(held[w]) /\ m.job = j
  BY <1>5, StoredType
<1>7. \A k : Within(Append(pending, m), k) <=> Within(pending, k) \/ m.job = k
  BY <1>1, Pushed
<1>8. /\ \/ pending' = pending /\ delayed' = delayed /\ phase' = [phase EXCEPT ![j] = "failed"]
         \/ pending' = pending /\ delayed' = delayed \cup {m}
         \/ pending' = Append(pending, m) /\ delayed' = delayed
      /\ moving' = moving
      /\ \A k \in Job \ {j} : phase'[k] = phase[k]
  BY <1>1, <1>2, <1>4, <1>6 DEF Settle, MarkFailed, Release, Store, Phases
<1>9. Spares(j)
  BY <1>2, <1>4, <1>7, <1>8 DEF Spares, Claims, JobOf
<1>10. InPending(j)' \/ InDelayed(j)' \/ phase'[j] = "failed"
  BY <1>1, <1>6, <1>7, <1>8 DEF InPending, InDelayed
<1>11. QED
  BY <1>2, <1>9, <1>10 DEF Alive, HasCopy, LosesNone, LossStep

(* The retry the server refuses: the process dies with the job it popped.   *)
LEMMA RefusalLoses ==
    ASSUME TypeInv, JobsOK, NEW w \in Worker, NEW d \in BOOLEAN, DisposeRefused(w, d)
    PROVE  LossStep
<1>1. WorkerTypeOK /\ Claims(w)
  BY DEF TypeInv, TypeOK, DisposeRefused, Claims
<1>2. PICK j \in Job : j = JobOf(w)
  BY <1>1, JobOfClaim
<1>3. /\ UNCHANGED <<pending, delayed, moving, phase, left>>
      /\ \A v \in Worker \ {w} : pc'[v] = pc[v] /\ held'[v] = held[v]
      /\ CountLoss("refused")
  BY <1>1 DEF DisposeRefused, Die, LetGo, redisVars, WorkerTypeOK
<1>4. Spares(j)
  BY <1>2, <1>3 DEF Spares, Claims, JobOf
<1>5. QED
  BY <1>3, <1>4 DEF LosesOne, LossStep, Cause

(* Every step loses nothing, or loses one job and is counted.               *)
LEMMA EveryLossStep ==
    ASSUME IInv, Next
    PROVE  LossStep
<1> USE DEF IInv
<1>1. ASSUME NEW j \in Job, Producer(j) PROVE LossStep
  BY <1>1, ArrivalLoses, RedisWorkersAssumption DEF Producer, RedisWorkersAssumption
<1>2. ASSUME NEW m \in delayed, DelayElapses(m) PROVE LossStep
  BY <1>2, ArrivalLoses
<1>3. ASSUME NEW w \in Worker, Boot(w) \/ Advance(w) \/ Disturb(w) PROVE LossStep
  <2>1. ASSUME \/ Boot(w) \/ Signal(w) \/ Leave(w) \/ LimitReached(w)
               \/ StartSweep(w) \/ PopNothing(w) \/ LogDisposal(w)
               \/ LogCompletedRaises(w) \/ LogDisposalRaises(w)
        PROVE  LossStep
    BY <2>1, ProcessLoses
  <2>2. ASSUME \/ LogCompleted(w) \/ LogStartedRaises(w)
               \/ \E d \in BOOLEAN : DisposeRaises(w, d, FALSE)
        PROVE  LossStep
    BY <2>2, HolderLoses
  <2>3. ASSUME LogStarted(w) \/ HandlerReturns(w) \/ HandlerThrows(w) \/ Ack(w)
        PROVE  LossStep
    BY <2>3, TryLoses
  <2>4. ASSUME \/ \E m \in sweep[w] : MoveDue(w, m) \/ \E a \in BOOLEAN : MoveDueRaises(w, m, a)
               \/ MakePending(w)
               \/ \E a \in BOOLEAN : MakePendingRaises(w, a)
        PROVE  LossStep
    BY <2>4, SweepLoses
  <2>5. ASSUME Pop(w) \/ DropPayload(w) \/ PopRaises(w)
        PROVE  LossStep
    BY <2>5, PopLoses
  <2>6. ASSUME Crash(w) PROVE LossStep
    BY <2>6, CrashLoses
  <2>7. ASSUME NEW d \in BOOLEAN, Dispose(w, d) \/ DisposeRaises(w, d, TRUE)
        PROVE  LossStep
    BY <2>7, SettleLoses
  <2>8. ASSUME NEW d \in BOOLEAN, DisposeRefused(w, d) PROVE LossStep
    BY <2>8, RefusalLoses
  <2>9. QED
    BY <1>3, <2>1, <2>2, <2>3, <2>4, <2>5, <2>6, <2>7, <2>8 DEF Advance, Disturb
<1>4. QED
  BY <1>1, <1>2, <1>3 DEF Next

(* Every fault is counted once.                                             *)
LEMMA FaultsCounted ==
    ASSUME TypeInv, UNCHANGED left \/ \E d \in Disturbance : Spend(d)
    PROVE  /\ Faults \in Nat /\ Faults' \in Nat
           /\ Faults <= Faults'
           /\ IsFault => Faults' = Faults + 1
<1>1. /\ \A d \in Disturbance : left[d] \in Nat /\ Budget[d] \in Nat /\ left[d] <= Budget[d]
      /\ left \in [Disturbance -> Nat]
      /\ {"crash", "storage", "audit"} \subseteq Disturbance
  BY RedisWorkersAssumption DEF TypeInv, TypeOK, Bounded, Disturbance, RedisWorkersAssumption
<1>2. ASSUME NEW d \in Disturbance, Spend(d)
      PROVE  /\ left[d] > 0
             /\ \A e \in Disturbance : left'[e] = IF e = d THEN left[e] - 1 ELSE left[e]
  BY <1>1, <1>2 DEF Spend
<1>3. /\ left["crash"] \in Nat /\ left["storage"] \in Nat /\ left["audit"] \in Nat
      /\ Budget["crash"] \in Nat /\ Budget["storage"] \in Nat /\ Budget["audit"] \in Nat
      /\ left["crash"] <= Budget["crash"]
      /\ left["storage"] <= Budget["storage"]
      /\ left["audit"] <= Budget["audit"]
  BY <1>1
<1>4. CASE UNCHANGED left
  <2>1. ~ IsFault
    BY <1>1, <1>2, <1>4 DEF IsFault
  <2>2. QED
    BY <1>3, <1>4, <2>1 DEF Faults, Spent
<1>5. CASE Spend("crash")
  <2>1. /\ left["crash"] > 0 /\ left'["crash"] = left["crash"] - 1
        /\ left'["storage"] = left["storage"] /\ left'["audit"] = left["audit"]
    BY <1>1, <1>2, <1>5
  <2>2. /\ Spent("crash") \in Nat /\ Spent("crash")' = Spent("crash") + 1
        /\ Spent("storage") \in Nat /\ Spent("storage")' = Spent("storage")
        /\ Spent("audit") \in Nat /\ Spent("audit")' = Spent("audit")
    BY <1>3, <2>1 DEF Spent
  <2>3. QED
    BY <2>2 DEF Faults
<1>6. CASE Spend("storage")
  <2>1. /\ left["storage"] > 0 /\ left'["storage"] = left["storage"] - 1
        /\ left'["crash"] = left["crash"] /\ left'["audit"] = left["audit"]
    BY <1>1, <1>2, <1>6
  <2>2. /\ Spent("storage") \in Nat /\ Spent("storage")' = Spent("storage") + 1
        /\ Spent("crash") \in Nat /\ Spent("crash")' = Spent("crash")
        /\ Spent("audit") \in Nat /\ Spent("audit")' = Spent("audit")
    BY <1>3, <2>1 DEF Spent
  <2>3. QED
    BY <2>2 DEF Faults
<1>7. CASE Spend("audit")
  <2>1. /\ left["audit"] > 0 /\ left'["audit"] = left["audit"] - 1
        /\ left'["crash"] = left["crash"] /\ left'["storage"] = left["storage"]
    BY <1>1, <1>2, <1>7
  <2>2. /\ Spent("audit") \in Nat /\ Spent("audit")' = Spent("audit") + 1
        /\ Spent("crash") \in Nat /\ Spent("crash")' = Spent("crash")
        /\ Spent("storage") \in Nat /\ Spent("storage")' = Spent("storage")
    BY <1>3, <2>1 DEF Spent
  <2>3. QED
    BY <2>2 DEF Faults
<1>8. CASE Spend("stop")
  <2>1. /\ left'["crash"] = left["crash"] /\ left'["storage"] = left["storage"]
        /\ left'["audit"] = left["audit"]
    BY <1>1, <1>2, <1>8 DEF Disturbance
  <2>2. ~ IsFault
    BY <1>1, <1>2, <2>1, <1>3 DEF IsFault
  <2>3. QED
    BY <1>3, <2>1, <2>2 DEF Faults, Spent
<1>9. QED
  BY <1>4, <1>5, <1>6, <1>7, <1>8 DEF Disturbance

(* What the queue drops by itself is counted once, and nothing uncounted.   *)
LEMMA DropsAreCounted ==
    ASSUME IInv, Next
    PROVE  UNCHANGED losses \/ \E c \in Cause : CountLoss(c)
<1>1. ASSUME NEW j \in Job, Producer(j) PROVE UNCHANGED losses
  BY <1>1 DEF Producer, Push
<1>2. ASSUME NEW m \in delayed, DelayElapses(m) PROVE UNCHANGED losses
  BY <1>2 DEF DelayElapses, historyVars
<1>3. ASSUME NEW w \in Worker, Advance(w)
      PROVE  UNCHANGED losses \/ \E c \in Cause : CountLoss(c)
  BY <1>3 DEF Advance, Leave, StartSweep, MakePending, Pop, PopNothing, DropPayload, LogStarted,
              HandlerReturns, HandlerThrows, Ack, LogCompleted, Dispose, DisposeRefused,
              LogDisposal, MoveDue, historyVars, Cause
<1>4. ASSUME NEW w \in Worker, Boot(w) \/ Disturb(w) PROVE UNCHANGED losses
  BY <1>4 DEF Boot, Disturb, Signal, LimitReached, Crash, PopRaises, LogStartedRaises,
              LogCompletedRaises, LogDisposalRaises, MakePendingRaises, MoveDueRaises,
              DisposeRaises, historyVars
<1>5. QED
  BY <1>1, <1>2, <1>3, <1>4 DEF Next

(* Causes are never uncounted, and a step that is one counts one more.      *)
LEMMA CausesGrow ==
    ASSUME TypeInv,
           UNCHANGED left \/ \E d \in Disturbance : Spend(d),
           UNCHANGED losses \/ \E c \in Cause : CountLoss(c)
    PROVE  /\ LossCauses \in Nat /\ LossCauses' \in Nat
           /\ LossCauses <= LossCauses'
           /\ IsFault \/ (\E c \in Cause : CountLoss(c)) => LossCauses + 1 <= LossCauses'
<1>1. /\ Faults \in Nat /\ Faults' \in Nat /\ Faults <= Faults'
      /\ IsFault => Faults' = Faults + 1
  BY FaultsCounted
<1>2. /\ losses \in [Cause -> Nat]
      /\ losses["refused"] \in Nat /\ losses["undecodable"] \in Nat
  BY DEF TypeInv, TypeOK, Cause
<1>3. ASSUME CountLoss("refused")
      PROVE  /\ losses'["refused"] = losses["refused"] + 1
             /\ losses'["undecodable"] = losses["undecodable"]
  BY <1>2, <1>3 DEF CountLoss, Cause
<1>4. ASSUME CountLoss("undecodable")
      PROVE  /\ losses'["refused"] = losses["refused"]
             /\ losses'["undecodable"] = losses["undecodable"] + 1
  BY <1>2, <1>4 DEF CountLoss, Cause
<1>5. CASE UNCHANGED losses
  <2>1. ~ \E c \in Cause : CountLoss(c)
    BY <1>2, <1>3, <1>4, <1>5 DEF Cause
  <2>2. QED
    BY <1>1, <1>2, <1>5, <2>1 DEF LossCauses
<1>6. CASE CountLoss("refused")
  BY <1>1, <1>2, <1>3, <1>6 DEF LossCauses
<1>7. CASE CountLoss("undecodable")
  BY <1>1, <1>2, <1>4, <1>7 DEF LossCauses
<1>8. QED
  BY <1>5, <1>6, <1>7 DEF Cause

LossInv ==
    /\ IsFiniteSet(Lost)
    /\ Cardinality(Lost) <= LossCauses

LEMMA LostIsDead == \A j : j \in Lost <=> j \in Job /\ ~ Alive(j)
BY NoCopy DEF Lost, Alive

LEMMA LossInit == Init => LossInv
<1> SUFFICES ASSUME Init PROVE LossInv
  OBVIOUS
<1>1. \A j \in Job : phase[j] = "absent"
  BY DEF Init
<1>2. Lost = {}
  BY <1>1 DEF Lost
<1>3. Faults = 0
  BY RedisWorkersAssumption DEF Init, Faults, Spent, Disturbance, RedisWorkersAssumption
<1>4. LossCauses = 0
  BY <1>3 DEF Init, LossCauses, Cause
<1>5. QED
  BY <1>2, <1>4, FS_EmptySet DEF LossInv

LEMMA LossStepInv ==
    ASSUME IInv, LossInv, [Next]_vars
    PROVE  LossInv'
<1>1. (\A j : j \in Lost <=> j \in Job /\ ~ Alive(j))'
  BY LostIsDead, PTL
<1>2. CASE Next
  <2>1. LossStep
    BY <1>2, EveryLossStep
  <2>2. UNCHANGED left \/ \E d \in Disturbance : Spend(d)
    BY <2>1 DEF LossStep, IsFault, Disturbance
  <2>3. /\ LossCauses \in Nat /\ LossCauses' \in Nat /\ LossCauses <= LossCauses'
        /\ IsFault \/ (\E c \in Cause : CountLoss(c)) => LossCauses + 1 <= LossCauses'
    BY <1>2, <2>2, DropsAreCounted, CausesGrow DEF IInv
  <2>4. ASSUME NEW x, Spares(x), NEW j \in Lost', j # x
        PROVE  j \in Lost
    <3>1. j \in Job /\ ~ Alive(j)'
      BY <1>1, <2>4
    <3>2. ~ Alive(j)
      BY <2>4, <3>1, SparedLive
    <3>3. QED
      BY <3>1, <3>2, LostIsDead
  <2>5. IsFiniteSet(Lost) /\ Cardinality(Lost) \in Nat /\ Cardinality(Lost) <= LossCauses
    BY FS_CardinalityType DEF LossInv
  <2>6. CASE LosesNone
    <3>1. PICK x : Spares(x) /\ (x \in Job => Alive(x)')
      BY <2>6 DEF LosesNone
    <3>2. Lost' \subseteq Lost
      BY <1>1, <2>4, <3>1
    <3>3. /\ IsFiniteSet(Lost') /\ Cardinality(Lost') <= Cardinality(Lost)
          /\ Cardinality(Lost') \in Nat
      BY <2>5, <3>2, FS_Subset, FS_CardinalityType
    <3>4. QED
      BY <2>3, <2>5, <3>3 DEF LossInv
  <2>7. CASE LosesOne /\ (IsFault \/ \E c \in Cause : CountLoss(c))
    <3>1. PICK x : Spares(x)
      BY <2>7 DEF LosesOne
    <3>2. Lost' \subseteq Lost \cup {x}
      BY <2>4, <3>1
    <3>3. IsFiniteSet(Lost \cup {x}) /\ Cardinality(Lost \cup {x}) <= Cardinality(Lost) + 1
      BY <2>5, FS_AddElement
    <3>4. /\ IsFiniteSet(Lost') /\ Cardinality(Lost') <= Cardinality(Lost \cup {x})
          /\ Cardinality(Lost') \in Nat /\ Cardinality(Lost \cup {x}) \in Nat
      BY <3>2, <3>3, FS_Subset, FS_CardinalityType
    <3>5. QED
      BY <2>3, <2>5, <2>7, <3>3, <3>4 DEF LossInv
  <2>8. QED
    BY <2>1, <2>6, <2>7 DEF LossStep
<1>3. CASE UNCHANGED vars
  BY <1>3 DEF vars, workerVars, redisVars, historyVars, LossInv, Lost, Copies, Claims, JobOf,
              LossCauses, Faults, Spent
<1>4. QED
  BY <1>2, <1>3

(* With the client installed and with one that reads ZADD as pushMeta       *)
(* writes it: every job that is pushed, unfinished and nowhere has a kill,  *)
(* a failing command, a failing entry, a refused retry or an undecodable    *)
(* payload of its own.  Nothing is lost to the order in which the processes *)
(* sweep and pop, to signals, limits, quotas or handlers that throw.        *)
THEOREM LossIsCounted == Spec => []LossesAreCounted
<1>1. Init => LossInv
  BY LossInit
<1>2. IInv /\ LossInv /\ [Next]_vars => LossInv'
  BY LossStepInv
<1>3. LossInv => LossesAreCounted
  BY DEF LossInv, LossesAreCounted
<1>4. QED
  BY <1>1, <1>2, <1>3, Invariance, PTL DEF Spec

-------------------------------------------------------------------------------
(* The contract of a job. *)

Untouched == UNCHANGED <<phase, delivered, limit>>

Refines == Contract!Next \/ Untouched

LEMMA PushRefines ==
    ASSUME TypeInv, NEW j \in Job, NEW d \in BOOLEAN, NEW n \in Int, Push(j, d, n)
    PROVE  Refines
<1>1. limit \in [Job -> Nat] /\ AtLeastOne(n) \in Nat \ {0}
  BY FreshType DEF TypeInv, TypeOK
<1>2. /\ limit' = [limit EXCEPT ![j] = AtLeastOne(n)]
      /\ phase[j] = "absent" /\ phase' = [phase EXCEPT ![j] = "queued"]
      /\ UNCHANGED delivered
  BY DEF Push, Phases
<1>3. limit'[j] = AtLeastOne(n)
  BY <1>1, <1>2
<1>4. limit' = [limit EXCEPT ![j] = limit'[j]]
  BY <1>2, <1>3
<1>5. Contract!Submit(j)
  BY <1>1, <1>2, <1>3, <1>4 DEF Contract!Submit, Contract!Move
<1>6. QED
  BY <1>5 DEF Refines, Contract!Next

LEMMA TryRefines ==
    ASSUME TypeInv, JobsOK, NEW w \in Worker,
           LogStarted(w) \/ HandlerReturns(w) \/ HandlerThrows(w) \/ Ack(w)
    PROVE  Refines
<1>1. Claims(w)
  BY DEF LogStarted, HandlerReturns, HandlerThrows, Ack, EnterTry, HandleReturned, EnterCatch,
         MarkedDone, Step, Claims
<1>2. PICK j \in Job : j = JobOf(w) /\ ClaimOK(w)
  BY <1>1, JobOfClaim
<1>3. /\ delivered \in [Job -> Nat] /\ limit \in [Job -> Nat]
      /\ held[w].attempt \in Nat
  BY DEF TypeInv, TypeOK, WorkerTypeOK, ReservedJob
<1>4. CASE LogStarted(w)
  <2>1. /\ pc[w] = "starting" /\ UNCHANGED limit
        /\ phase' = [phase EXCEPT ![j] = "running"]
        /\ delivered' = [delivered EXCEPT ![j] = @ + 1]
    BY <1>2, <1>4 DEF LogStarted, EnterTry, Step, Phases
  <2>2. phase[j] = "queued" /\ delivered[j] < limit[j]
    BY <1>2, <1>3, <2>1 DEF ClaimOK
  <2>3. Contract!Deliver(j)
    BY <2>1, <2>2 DEF Contract!Deliver, Contract!Move
  <2>4. QED
    BY <2>3 DEF Refines, Contract!Next
<1>5. CASE HandlerReturns(w)
  <2>1. Contract!Succeed(j)
    BY <1>2, <1>5 DEF HandlerReturns, HandleReturned, Step, Phases, ClaimOK, Contract!Succeed,
                      Contract!Move
  <2>2. QED
    BY <2>1 DEF Refines, Contract!Next
<1>6. CASE HandlerThrows(w)
  <2>1. Contract!Throw(j)
    BY <1>2, <1>6 DEF HandlerThrows, EnterCatch, Step, Phases, ClaimOK, Contract!Throw,
                      Contract!Move
  <2>2. QED
    BY <2>1 DEF Refines, Contract!Next
<1>7. CASE Ack(w)
  <2>1. Contract!Settle(j)
    BY <1>2, <1>7 DEF Ack, MarkedDone, Step, Phases, ClaimOK, Contract!Settle, Contract!Move
  <2>2. QED
    BY <2>1 DEF Refines, Contract!Next
<1>8. QED
  BY <1>4, <1>5, <1>6, <1>7

LEMMA SettleRefines ==
    ASSUME TypeInv, JobsOK, Budget["audit"] = 0, NEW w \in Worker, NEW d \in BOOLEAN,
           pc[w] = "failing", Settle(w, d), UNCHANGED <<delivered, limit>>
    PROVE  Refines
<1>1. Claims(w)
  BY DEF Claims
<1>2. PICK j \in Job : j = JobOf(w) /\ ClaimOK(w)
  BY <1>1, JobOfClaim
<1>3. /\ delivered[j] \in Nat /\ limit[j] \in Nat
      /\ held[w].attempt \in Nat /\ held[w].maxAttempts \in Nat
      /\ left["audit"] \in Nat /\ left["audit"] <= 0
  BY DEF TypeInv, TypeOK, WorkerTypeOK, ReservedJob, Bounded, Disturbance
<1>4. Spent("audit") = 0
  BY <1>3 DEF Spent
<1>5. /\ phase[j] = "threw"
      /\ held[w].maxAttempts = limit[j]
      /\ held[w].attempt <= limit[j]
      /\ held[w].attempt = delivered[j]
  BY <1>2, <1>3, <1>4 DEF ClaimOK
<1>6. CASE Exhausted(w)
  <2>1. delivered[j] = limit[j]
    BY <1>3, <1>5, <1>6 DEF Exhausted
  <2>2. Contract!GiveUp(j)
    BY <1>2, <1>5, <1>6, <2>1 DEF Settle, Phases, Contract!GiveUp, Contract!Move
  <2>3. QED
    BY <2>2 DEF Refines, Contract!Next
<1>7. CASE ~ Exhausted(w)
  <2>1. delivered[j] < limit[j]
    BY <1>3, <1>5, <1>7 DEF Exhausted
  <2>2. Contract!Requeue(j)
    BY <1>2, <1>5, <1>7, <2>1 DEF Settle, Phases, Contract!Requeue, Contract!Move
  <2>3. QED
    BY <2>2 DEF Refines, Contract!Next
<1>8. QED
  BY <1>6, <1>7

LEMMA EveryStepRefines ==
    ASSUME IInv, Budget["audit"] = 0, [Next]_vars
    PROVE  Refines
<1> USE DEF IInv
<1>1. ASSUME NEW j \in Job, Producer(j) PROVE Refines
  BY <1>1, PushRefines, RedisWorkersAssumption DEF Producer, RedisWorkersAssumption
<1>2. ASSUME NEW m \in delayed, DelayElapses(m) PROVE Refines
  BY <1>2 DEF DelayElapses, historyVars, Refines, Untouched
<1>3. ASSUME NEW w \in Worker, Boot(w) \/ Advance(w) \/ Disturb(w) PROVE Refines
  <2>1. ASSUME \/ Boot(w) \/ Leave(w) \/ StartSweep(w) \/ MakePending(w) \/ Pop(w)
               \/ PopNothing(w) \/ DropPayload(w) \/ LogCompleted(w) \/ LogDisposal(w)
               \/ \E m \in sweep[w] : MoveDue(w, m)
               \/ \E d \in BOOLEAN : DisposeRefused(w, d)
        PROVE  Untouched
    BY <2>1 DEF Boot, Leave, StartSweep, MakePending, Pop, PopNothing, DropPayload, LogCompleted,
                LogDisposal, MoveDue, DisposeRefused, Untouched, historyVars
  <2>2. ASSUME \/ Signal(w) \/ LimitReached(w) \/ Crash(w) \/ PopRaises(w)
               \/ LogStartedRaises(w) \/ LogCompletedRaises(w) \/ LogDisposalRaises(w)
               \/ \E a \in BOOLEAN : \/ MakePendingRaises(w, a)
                                     \/ \E m \in sweep[w] : MoveDueRaises(w, m, a)
        PROVE  Untouched
    BY <2>2 DEF Signal, LimitReached, Crash, PopRaises, LogStartedRaises, LogCompletedRaises,
                LogDisposalRaises, MakePendingRaises, MoveDueRaises, Untouched, historyVars
  <2>3. ASSUME Untouched PROVE Refines
    BY <2>3 DEF Refines
  <2>4. ASSUME LogStarted(w) \/ HandlerReturns(w) \/ HandlerThrows(w) \/ Ack(w)
        PROVE  Refines
    BY <2>4, TryRefines
  <2>5. ASSUME NEW d \in BOOLEAN, Dispose(w, d) PROVE Refines
    BY <2>5, SettleRefines DEF Dispose, Disposed, Step
  <2>6. ASSUME NEW d \in BOOLEAN, NEW a \in BOOLEAN, DisposeRaises(w, d, a) PROVE Refines
    <3>1. CASE a
      BY <2>6, <3>1, SettleRefines DEF DisposeRaises
    <3>2. CASE ~ a
      BY <2>6, <3>2 DEF DisposeRaises, Refines, Untouched
    <3>3. QED
      BY <3>1, <3>2
  <2>7. QED
    BY <1>3, <2>1, <2>2, <2>3, <2>4, <2>5, <2>6 DEF Advance, Disturb
<1>4. ASSUME UNCHANGED vars PROVE Refines
  BY <1>4 DEF vars, historyVars, Refines, Untouched
<1>5. QED
  BY <1>1, <1>2, <1>3, <1>4 DEF Next

(* As long as no activity entry fails, Worker::run over RedisQueue gives    *)
(* every job what JobContract promises, whatever is killed or raises: never *)
(* a delivery after the last attempt, after a success, or of a job that is  *)
(* given up, and none given up early.                                       *)
THEOREM KeepsContract ==
    ASSUME Budget["audit"] = 0
    PROVE  Spec => ImplementsContract
<1>1. Init => Contract!Init
  BY DEF Init, Contract!Init
<1>2. IInv /\ [Next]_vars => [Contract!Next]_(Contract!vars)
  BY EveryStepRefines DEF Refines, Untouched, Contract!vars
<1>3. QED
  BY <1>1, <1>2, Invariance, PTL DEF Spec, ImplementsContract, Contract!Spec
===============================================================================
