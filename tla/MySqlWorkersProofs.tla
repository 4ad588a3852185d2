-------------------------- MODULE MySqlWorkersProofs --------------------------
(***************************************************************************)
(* Theorems about MySqlWorkers, for every set of jobs and of workers, every *)
(* quota, every server and every budget of disturbances.                   *)
(***************************************************************************)
EXTENDS MySqlWorkers, SequenceTheorems, TLAPS

-------------------------------------------------------------------------------
(* Facts about the helpers. *)

(* Taking a row out of the line leaves a line of rows.                      *)
LEMMA RemoveAtType ==
    ASSUME NEW S, NEW s \in Seq(S), NEW i \in 1..Len(s)
    PROVE  RemoveAt(s, i) \in Seq(S)
<1>1. SubSeq(s, 1, i - 1) \in Seq(S)
  BY SubSeqProperties, ElementOfSeq
<1>2. SubSeq(s, i + 1, Len(s)) \in Seq(S)
  BY SubSeqProperties, ElementOfSeq
<1>3. QED
  BY <1>1, <1>2, ConcatProperties DEF RemoveAt

(* A row made available stays inside the typed line and the set of delayed  *)
(* rows.                                                                    *)
LEMMA MakeAvailableType ==
    ASSUME TableTypeOK, NEW j \in Job, NEW isDelayed \in BOOLEAN,
           MakeAvailable(j, isDelayed)
    PROVE  ready' \in Seq(Job) /\ delayed' \subseteq Job
<1>1. ready \in Seq(Job) /\ delayed \subseteq Job
  BY DEF TableTypeOK
<1>2. Append(ready, j) \in Seq(Job)
  BY <1>1, AppendProperties
<1>3. QED
  BY <1>1, <1>2 DEF MakeAvailable

(* A process that is in the middle of a job holds one.                      *)
HoldsJob == \A w \in Worker : pc[w] \notin {"down", "loop"} => JobOf(w) \in Job

TypeInv == TypeOK /\ HoldsJob

-------------------------------------------------------------------------------
(* Type correctness, one half of a step at a time. *)

(* The locations in which a process holds a job.                            *)
Busy == Location \ {"down", "loop"}

(* Every worker half of a step keeps the worker's variables typed.          *)
LEMMA WorkerHalf ==
    ASSUME NEW w \in Worker, WorkerTypeOK, HoldsJob,
           \/ BootRun(w) \/ ReceiveSignal(w) \/ LeaveLoop(w) \/ LeaveOnLimit(w)
           \/ Die(w) \/ ReservedNothing(w) \/ EnterTry(w)
           \/ HandleReturned(w) \/ MarkedDone(w) \/ Disposed(w)
           \/ \E from \in Busy : EnterCatch(w, from) \/ NextIteration(w, from)
           \/ \E r \in ReservedJob :
                r.job \in Job /\ (BeginReserve(w, r) \/ EndReserve(w, r))
           \/ UNCHANGED workerVars
    PROVE  WorkerTypeOK' /\ HoldsJob'
<1> USE DEF WorkerTypeOK, HoldsJob, JobOf, Location, ReservedJob, NoReservation,
            Step, LetGo
<1>1. CASE BootRun(w)
  BY <1>1 DEF BootRun
<1>2. CASE ReceiveSignal(w)
  BY <1>2 DEF ReceiveSignal
<1>3. CASE LeaveLoop(w)
  BY <1>3 DEF LeaveLoop
<1>4. CASE LeaveOnLimit(w)
  BY <1>4 DEF LeaveOnLimit
<1>5. CASE Die(w)
  BY <1>5 DEF Die
<1>6. CASE \E r \in ReservedJob : r.job \in Job /\ EndReserve(w, r)
  BY <1>6 DEF EndReserve
<1>7. CASE ReservedNothing(w)
  BY <1>7 DEF ReservedNothing
<1>8. CASE EnterTry(w)
  BY <1>8 DEF EnterTry
<1>9. CASE HandleReturned(w)
  BY <1>9 DEF HandleReturned
<1>10. CASE MarkedDone(w)
  BY <1>10 DEF MarkedDone
<1>11. CASE Disposed(w)
  BY <1>11 DEF Disposed
<1>12. CASE \E from \in Busy : EnterCatch(w, from)
  BY <1>12 DEF EnterCatch, CountFailure, Busy
<1>13. CASE \E from \in Busy : NextIteration(w, from)
  BY <1>13 DEF NextIteration, Busy
<1>14. CASE \E r \in ReservedJob : r.job \in Job /\ BeginReserve(w, r)
  BY <1>14 DEF BeginReserve
<1>15. CASE UNCHANGED workerVars
  BY <1>15 DEF workerVars
<1>16. QED
  BY <1>1, <1>2, <1>3, <1>4, <1>5, <1>6, <1>7, <1>8, <1>9, <1>10, <1>11, <1>12,
     <1>13, <1>14, <1>15

(* Every statement keeps the table typed.                                   *)
LEMMA TableHalf ==
    ASSUME NEW w \in Worker, NEW j \in Job, TableTypeOK, MySqlQueueAssumption,
           \/ \E d \in BOOLEAN, n \in Int : Insert(j, d, n)
           \/ BecomeVisible(j) \/ Construct(w) \/ SelectFails(w) \/ RollBack(j)
           \/ \E i \in DOMAIN ready : SelectForUpdate(w, i)
           \/ \E r \in ReservedJob : CommitReserved(r)
           \/ MarkDone(j) \/ MarkFailed(j)
           \/ \E d \in BOOLEAN : Release(j, d)
           \/ UNCHANGED tableVars
    PROVE  TableTypeOK'
<1>1. CASE \E d \in BOOLEAN, n \in Int : Insert(j, d, n)
  <2>1. PICK d \in BOOLEAN, n \in Int : Insert(j, d, n)
    BY <1>1
  <2>2. MakeAvailable(j, d)
    BY <2>1 DEF Insert
  <2>3. ready' \in Seq(Job) /\ delayed' \subseteq Job
    BY <2>2, MakeAvailableType
  <2>4. AtLeastOne(n) \in Nat
    BY DEF AtLeastOne
  <2>5. QED
    BY <2>1, <2>3, <2>4 DEF Insert, TableTypeOK, Status
<1>2. CASE BecomeVisible(j)
  <2>1. Append(ready, j) \in Seq(Job)
    BY AppendProperties DEF TableTypeOK
  <2>2. QED
    BY <1>2, <2>1 DEF BecomeVisible, TableTypeOK
<1>3. CASE Construct(w)
  BY <1>3 DEF Construct, TableTypeOK
<1>4. CASE SelectFails(w)
  BY <1>4 DEF SelectFails, TableTypeOK
<1>5. CASE RollBack(j)
  BY <1>5 DEF RollBack, TableTypeOK
<1>6. CASE \E i \in DOMAIN ready : SelectForUpdate(w, i)
  <2>1. PICK i \in DOMAIN ready : SelectForUpdate(w, i)
    BY <1>6
  <2>2. ready[i] \in Job
    BY ElementOfSeq, LenProperties DEF TableTypeOK
  <2>3. Skips(w) \in BOOLEAN
    BY DEF Skips, TableTypeOK, MySqlQueueAssumption
  <2>4. QED
    BY <2>1, <2>2, <2>3 DEF SelectForUpdate, TableTypeOK
<1>7. CASE \E r \in ReservedJob : CommitReserved(r)
  <2>1. PICK r \in ReservedJob : CommitReserved(r)
    BY <1>7
  <2>2. PICK i \in DOMAIN ready : ready' = RemoveAt(ready, i)
    BY <2>1 DEF CommitReserved
  <2>3. ready' \in Seq(Job)
    BY <2>2, RemoveAtType, LenProperties DEF TableTypeOK
  <2>4. r.attempt \in Nat
    BY DEF ReservedJob
  <2>5. QED
    BY <2>1, <2>3, <2>4 DEF CommitReserved, TableTypeOK, Status
<1>8. CASE MarkDone(j) \/ MarkFailed(j)
  BY <1>8 DEF MarkDone, MarkFailed, TableTypeOK, Status
<1>9. CASE \E d \in BOOLEAN : Release(j, d)
  <2>1. PICK d \in BOOLEAN : Release(j, d)
    BY <1>9
  <2>2. MakeAvailable(j, d)
    BY <2>1 DEF Release
  <2>3. ready' \in Seq(Job) /\ delayed' \subseteq Job
    BY <2>2, MakeAvailableType
  <2>4. QED
    BY <2>1, <2>3 DEF Release, TableTypeOK, Status
<1>10. CASE UNCHANGED tableVars
  BY <1>10 DEF tableVars, TableTypeOK
<1>11. QED
  BY <1>1, <1>2, <1>3, <1>4, <1>5, <1>6, <1>7, <1>8, <1>9, <1>10

-------------------------------------------------------------------------------
(* Type correctness of the whole step. *)

(* Every step is, for the worker's variables, one of the worker's halves.   *)
LEMMA WorkerVarsStep ==
    ASSUME TypeInv, Next, MySqlQueueAssumption
    PROVE  WorkerTypeOK' /\ HoldsJob'
<1> USE DEF TypeInv, TypeOK
<1>0. PICK anyone \in Worker : TRUE
  BY QueueTypesAssumption
<1>1. ASSUME NEW j \in Job, Producer(j) \/ ProducerRaises(j) \/ DelayElapses(j)
      PROVE  WorkerTypeOK' /\ HoldsJob'
  <2>1. UNCHANGED workerVars
    BY <1>1 DEF Producer, ProducerRaises, DelayElapses, Push, PushRaises,
                LogDispatched, LogDispatchedRaises
  <2>2. QED
    BY <1>0, <2>1, WorkerHalf
<1>2. ASSUME NEW w \in Worker, Boot(w) \/ Advance(w) \/ Disturb(w)
      PROVE  WorkerTypeOK' /\ HoldsJob'
  <2>1. ASSUME NEW i \in DOMAIN ready, Select(w, i)
        PROVE  \E r \in ReservedJob : r.job \in Job /\ BeginReserve(w, r)
    <3>1. ready[i] \in Job
      BY ElementOfSeq, LenProperties DEF TableTypeOK
    <3>2. attempts[ready[i]] + 1 \in Nat /\ AtLeastOne(limit[ready[i]]) \in Nat
      BY <3>1 DEF TableTypeOK, AtLeastOne
    <3>3. RowRead(ready[i]) \in ReservedJob /\ RowRead(ready[i]).job \in Job
      BY <3>1, <3>2 DEF RowRead, ReservedJob
    <3>4. QED
      BY <2>1, <3>3 DEF Select
  <2>2. ASSUME \/ Boot(w) \/ Signal(w) \/ Leave(w) \/ LimitReached(w) \/ Crash(w)
               \/ RejectPayload(w) \/ SelectRaises(w)
               \/ \E a \in BOOLEAN : ReserveRaises(w, a)
        PROVE  \/ BootRun(w) \/ ReceiveSignal(w) \/ LeaveLoop(w) \/ LeaveOnLimit(w)
               \/ Die(w) \/ ReservedNothing(w) \/ UNCHANGED workerVars
    BY <2>2 DEF Boot, Signal, Leave, LimitReached, Crash, RejectPayload,
                SelectRaises, ReserveRaises
  <2>3. ASSUME \/ LogStarted(w) \/ HandlerReturns(w) \/ HandlerThrows(w) \/ Ack(w)
               \/ LogCompleted(w) \/ LogDisposal(w)
               \/ \E d \in BOOLEAN : Dispose(w, d)
        PROVE  \/ EnterTry(w) \/ HandleReturned(w) \/ MarkedDone(w) \/ Disposed(w)
               \/ \E from \in Busy : EnterCatch(w, from) \/ NextIteration(w, from)
    BY <2>3 DEF LogStarted, HandlerReturns, HandlerThrows, Ack, LogCompleted,
                LogDisposal, Dispose, Busy, Location
  <2>4. ASSUME \E a \in BOOLEAN : \/ AckRaises(w, a) \/ LogStartedRaises(w, a)
                                  \/ LogCompletedRaises(w, a)
                                  \/ LogDisposalRaises(w, a)
                                  \/ \E d \in BOOLEAN : DisposeRaises(w, d, a)
        PROVE  Die(w) \/ \E from \in Busy : EnterCatch(w, from)
    BY <2>4 DEF AckRaises, LogStartedRaises, LogCompletedRaises,
                LogDisposalRaises, DisposeRaises, Busy, Location
  <2>5. ASSUME Reserve(w)
        PROVE  \E r \in ReservedJob : r.job \in Job /\ EndReserve(w, r)
    <3>1. EndReserve(w, held[w]) /\ pc[w] = "reserving"
      BY <2>5 DEF Reserve, EndReserve, Step
    <3>2. held[w] \in ReservedJob /\ held[w].job \in Job
      BY <3>1 DEF WorkerTypeOK, HoldsJob, JobOf
    <3>3. QED
      BY <3>1, <3>2
  <2>6. QED
    BY <1>2, <2>1, <2>2, <2>3, <2>4, <2>5, WorkerHalf DEF Advance, Disturb
<1>3. QED
  BY <1>1, <1>2 DEF Next

(* Every step is, for the table's variables, one statement or none.         *)
LEMMA TableVarsStep ==
    ASSUME TypeInv, Next, MySqlQueueAssumption, MySqlWorkersAssumption
    PROVE  TableTypeOK'
<1> USE DEF TypeInv, TypeOK
<1>0. PICK anyone \in Worker : TRUE
  BY QueueTypesAssumption
<1>1. ASSUME NEW j \in Job, Producer(j) \/ ProducerRaises(j) \/ DelayElapses(j)
      PROVE  TableTypeOK'
  <2>1. \/ \E d \in BOOLEAN, n \in Int : Insert(j, d, n)
        \/ BecomeVisible(j)
        \/ UNCHANGED tableVars
    BY <1>1, MySqlWorkersAssumption
    DEF Producer, ProducerRaises, DelayElapses, Push, PushRaises, LogDispatched,
        LogDispatchedRaises, MySqlWorkersAssumption
  <2>2. QED
    BY <1>0, <2>1, TableHalf
<1>2. ASSUME NEW w \in Worker, Boot(w) \/ Advance(w) \/ Disturb(w)
      PROVE  TableTypeOK'
  <2>1. PICK somejob \in Job : JobOf(w) \in Job => somejob = JobOf(w)
    BY QueueTypesAssumption DEF QueueTypesAssumption
  <2>2. ASSUME JobOf(w) \notin Job
        PROVE  pc[w] \in {"down", "loop"}
    BY <2>2 DEF HoldsJob
  <2>3. held[w] \in ReservedJob
    BY DEF WorkerTypeOK
  <2>4. ASSUME \/ Boot(w) \/ Signal(w) \/ Leave(w) \/ LimitReached(w) \/ Crash(w)
               \/ Reserve(w) \/ RejectPayload(w) \/ SelectRaises(w)
               \/ \E a \in BOOLEAN : ReserveRaises(w, a)
               \/ \E i \in DOMAIN ready : Select(w, i)
        PROVE  \/ Construct(w) \/ SelectFails(w) \/ RollBack(somejob)
               \/ \E i \in DOMAIN ready : SelectForUpdate(w, i)
               \/ \E r \in ReservedJob : CommitReserved(r)
               \/ UNCHANGED tableVars
    BY <2>1, <2>2, <2>3, <2>4
    DEF Boot, Signal, Leave, LimitReached, Crash, Reserve, RejectPayload, Select,
        SelectRaises, ReserveRaises, ReservedNothing, Step
  <2>5. ASSUME \/ LogStarted(w) \/ HandlerReturns(w) \/ HandlerThrows(w) \/ Ack(w)
               \/ LogCompleted(w) \/ LogDisposal(w)
               \/ \E d \in BOOLEAN : Dispose(w, d)
        PROVE  \/ MarkDone(somejob) \/ MarkFailed(somejob)
               \/ \E d \in BOOLEAN : Release(somejob, d)
               \/ UNCHANGED tableVars
    BY <2>1, <2>2, <2>5
    DEF LogStarted, HandlerReturns, HandlerThrows, Ack, LogCompleted, LogDisposal,
        Dispose, Disposed, MarkedDone, Settle, Step
  <2>6. ASSUME \E a \in BOOLEAN : \/ AckRaises(w, a) \/ LogStartedRaises(w, a)
                                  \/ LogCompletedRaises(w, a)
                                  \/ LogDisposalRaises(w, a)
                                  \/ \E d \in BOOLEAN : DisposeRaises(w, d, a)
        PROVE  \/ MarkDone(somejob) \/ MarkFailed(somejob)
               \/ \E d \in BOOLEAN : Release(somejob, d)
               \/ UNCHANGED tableVars
    BY <2>1, <2>2, <2>6
    DEF AckRaises, LogStartedRaises, LogCompletedRaises, LogDisposalRaises,
        DisposeRaises, EnterCatch, Settle, Step
  <2>7. QED
    BY <1>2, <2>4, <2>5, <2>6, TableHalf DEF Advance, Disturb
<1>3. QED
  BY <1>1, <1>2 DEF Next

(* The variables that belong to neither half.                               *)
BookTypeOK ==
    /\ dispatching \subseteq Job
    /\ trail \in [Job -> [AuditAction -> Nat]]
    /\ left \in [Disturbance -> Nat]
    /\ delivered \in [Job -> Nat]
    /\ successes \in [Job -> Nat]
    /\ outcome \in [Job -> Outcome]

(* Counting one more leaves a count.                                        *)
LEMMA CountType ==
    ASSUME NEW f \in [Job -> Nat], NEW j
    PROVE  [f EXCEPT ![j] = @ + 1] \in [Job -> Nat]
<1>1. CASE j \in Job
  <2>1. f[j] + 1 \in Nat
    BY <1>1
  <2>2. QED
    BY <2>1
<1>2. CASE j \notin Job
  <2>1. [f EXCEPT ![j] = @ + 1] = f
    BY <1>2
  <2>2. QED
    BY <2>1
<1>3. QED
  BY <1>1, <1>2

(* Recording an outcome leaves a record of outcomes.                        *)
LEMMA OutcomeType ==
    ASSUME outcome \in [Job -> Outcome], NEW j, NEW o \in Outcome, Outcomes(j, o)
    PROVE  outcome' \in [Job -> Outcome]
BY DEF Outcomes

(* Spending from the budget leaves a budget.                                *)
LEMMA SpendType ==
    ASSUME left \in [Disturbance -> Nat], NEW d \in Disturbance, Spend(d)
    PROVE  left' \in [Disturbance -> Nat]
<1>1. left[d] - 1 \in Nat
  BY DEF Spend
<1>2. QED
  BY <1>1 DEF Spend

(* An activity entry, written or not, leaves a trail.                       *)
LEMMA LogType ==
    ASSUME trail \in [Job -> [AuditAction -> Nat]], NEW j, NEW a \in AuditAction,
           Log(j, a) \/ \E written \in BOOLEAN : LogMaybe(j, a, written)
    PROVE  trail' \in [Job -> [AuditAction -> Nat]]
<1>1. CASE Log(j, a)
  <2>1. ASSUME NEW k \in Job
        PROVE  [trail[k] EXCEPT ![a] = @ + 1] \in [AuditAction -> Nat]
    OBVIOUS
  <2>2. QED
    BY <1>1, <2>1 DEF Log
<1>2. CASE trail' = trail
  BY <1>2
<1>3. QED
  BY <1>1, <1>2 DEF LogMaybe

(* Every step keeps the rest of the state typed.                            *)
LEMMA BookVarsStep ==
    ASSUME TypeInv, Next
    PROVE  BookTypeOK'
<1> USE DEF BookTypeOK
<1>0. BookTypeOK
  BY DEF TypeInv, TypeOK
<1>1. ASSUME NEW j \in Job, Producer(j) \/ ProducerRaises(j) \/ DelayElapses(j)
      PROVE  BookTypeOK'
  <2>1. /\ dispatching' \subseteq dispatching \cup {j}
        /\ UNCHANGED historyVars
        /\ \E a \in {"dispatched"} :
             Log(j, a) \/ (\E x \in BOOLEAN : LogMaybe(j, a, x)) \/ trail' = trail
        /\ \/ \E d \in {"storage", "audit"} : Spend(d)
           \/ left' = left
    BY <1>1 DEF Producer, ProducerRaises, DelayElapses, Push, PushRaises,
                LogDispatched, LogDispatchedRaises
  <2>2. trail' \in [Job -> [AuditAction -> Nat]]
    BY <1>0, <2>1, LogType DEF AuditAction
  <2>3. left' \in [Disturbance -> Nat]
    BY <1>0, <2>1, SpendType DEF Disturbance
  <2>4. QED
    BY <1>0, <2>1, <2>2, <2>3 DEF historyVars
<1>2. ASSUME NEW w \in Worker, Boot(w) \/ Advance(w) \/ Disturb(w)
      PROVE  BookTypeOK'
  <2>1. dispatching' = dispatching
    BY <1>2
    DEF Boot, Advance, Disturb, Signal, Leave, LimitReached, Crash, Select,
        SelectRaises, Reserve, RejectPayload, ReserveRaises, LogStarted,
        LogStartedRaises, HandlerReturns, HandlerThrows, Ack, AckRaises,
        LogCompleted, LogCompletedRaises, Dispose, DisposeRaises, LogDisposal,
        LogDisposalRaises
  <2>2. \/ \E a \in AuditAction :
             Log(JobOf(w), a) \/ \E x \in BOOLEAN : LogMaybe(JobOf(w), a, x)
        \/ trail' = trail
    BY <1>2
    DEF Boot, Advance, Disturb, Signal, Leave, LimitReached, Crash, Select,
        SelectRaises, Reserve, RejectPayload, ReserveRaises, LogStarted,
        LogStartedRaises, HandlerReturns, HandlerThrows, Ack, AckRaises,
        LogCompleted, LogCompletedRaises, Dispose, DisposeRaises, LogDisposal,
        LogDisposalRaises, AuditAction
  <2>3. (\E d \in Disturbance : Spend(d)) \/ left' = left
    BY <1>2
    DEF Boot, Advance, Disturb, Signal, Leave, LimitReached, Crash, Select,
        SelectRaises, Reserve, RejectPayload, ReserveRaises, LogStarted,
        LogStartedRaises, HandlerReturns, HandlerThrows, Ack, AckRaises,
        LogCompleted, LogCompletedRaises, Dispose, DisposeRaises, LogDisposal,
        LogDisposalRaises, Disturbance
  <2>4. /\ delivered' \in [Job -> Nat]
        /\ successes' \in [Job -> Nat]
        /\ outcome' \in [Job -> Outcome]
    <3>1. CASE UNCHANGED historyVars
      BY <1>0, <3>1 DEF historyVars
    <3>2. CASE LogStarted(w) \/ HandlerReturns(w) \/ HandlerThrows(w)
      <4>1. CASE LogStarted(w)
        <5>1. /\ delivered' = [delivered EXCEPT ![JobOf(w)] = @ + 1]
              /\ successes' = successes
              /\ Outcomes(JobOf(w), "running")
          BY <4>1 DEF LogStarted
        <5>2. QED
          BY <1>0, <5>1, CountType, OutcomeType DEF Outcome
      <4>2. CASE HandlerReturns(w)
        <5>1. /\ delivered' = delivered
              /\ successes' = [successes EXCEPT ![JobOf(w)] = @ + 1]
              /\ Outcomes(JobOf(w), "succeeded")
          BY <4>2 DEF HandlerReturns
        <5>2. QED
          BY <1>0, <5>1, CountType, OutcomeType DEF Outcome
      <4>3. CASE HandlerThrows(w)
        BY <1>0, <4>3 DEF HandlerThrows, Outcomes, Outcome
      <4>4. QED
        BY <3>2, <4>1, <4>2, <4>3
    <3>3. CASE \E d, a \in BOOLEAN : Dispose(w, d) \/ DisposeRaises(w, d, a)
      BY <1>0, <3>3 DEF Dispose, DisposeRaises, Settle, Outcomes, Outcome
    <3>4. ASSUME ~(LogStarted(w) \/ HandlerReturns(w) \/ HandlerThrows(w)),
                 ~\E d \in BOOLEAN : Dispose(w, d),
                 ~\E d, a \in BOOLEAN : DisposeRaises(w, d, a)
          PROVE  UNCHANGED historyVars
      BY <1>2, <3>4
      DEF Boot, Advance, Disturb, Signal, Leave, LimitReached, Crash, Select,
          SelectRaises, Reserve, RejectPayload, ReserveRaises, LogStartedRaises,
          Ack, AckRaises, LogCompleted, LogCompletedRaises, LogDisposal,
          LogDisposalRaises
    <3>5. QED
      BY <3>1, <3>2, <3>3, <3>4
  <2>5. trail' \in [Job -> [AuditAction -> Nat]]
    BY <1>0, <2>2, LogType
  <2>6. left' \in [Disturbance -> Nat]
    BY <1>0, <2>3, SpendType
  <2>7. QED
    BY <1>0, <2>1, <2>4, <2>5, <2>6
<1>3. QED
  BY <1>1, <1>2 DEF Next

LEMMA InitTypeInv == Init => TypeInv
<1>1. ASSUME Init
      PROVE  WorkerTypeOK /\ HoldsJob
  BY <1>1, QueueTypesAssumption
  DEF Init, WorkerInit, WorkerTypeOK, HoldsJob, Location, ReservedJob, NoReservation
<1>2. ASSUME Init
      PROVE  TableTypeOK
  BY <1>2, EmptySeq DEF Init, TableInit, TableTypeOK, Status
<1>3. ASSUME Init
      PROVE  BookTypeOK
  BY <1>3, MySqlWorkersAssumption
  DEF Init, BookTypeOK, AuditAction, Outcome, MySqlWorkersAssumption
<1>4. QED
  BY <1>1, <1>2, <1>3 DEF TypeInv, TypeOK, BookTypeOK

LEMMA NextTypeInv == TypeInv /\ [Next]_vars => TypeInv'
<1>1. ASSUME TypeInv, Next
      PROVE  TypeInv'
  BY <1>1, WorkerVarsStep, TableVarsStep, BookVarsStep, MySqlQueueAssumption,
     MySqlWorkersAssumption
  DEF TypeInv, TypeOK, BookTypeOK
<1>2. ASSUME TypeInv, UNCHANGED vars
      PROVE  TypeInv'
  BY <1>2 DEF TypeInv, TypeOK, HoldsJob, JobOf, WorkerTypeOK, TableTypeOK, vars,
              workerVars, tableVars, historyVars
<1>3. QED
  BY <1>1, <1>2

(* Every reachable state of producers, workers and table is well typed, in  *)
(* particular attempts and max_attempts stay natural numbers and the line   *)
(* of visible rows holds job ids only.                                      *)
THEOREM TypeCorrect == Spec => []TypeOK
<1>1. Spec => []TypeInv
  BY InitTypeInv, NextTypeInv, PTL DEF Spec
<1>2. TypeInv => TypeOK
  BY DEF TypeInv
<1>3. QED
  BY <1>1, <1>2, PTL

-------------------------------------------------------------------------------
(* The inductive invariant. *)

(* One row: its counters, and what its status says of them.                 *)
RowOK(j) ==
    /\ delivered[j] <= attempts[j]
    /\ attempts[j] <= limit[j]
    /\ status[j] = "absent" => delivered[j] = 0 /\ outcome[j] = "none"
    /\ status[j] # "absent" => 1 <= limit[j]
    /\ status[j] = "pending" => /\ attempts[j] < limit[j]
                                /\ delivered[j] = attempts[j]
                                /\ outcome[j] = "none"
    /\ status[j] = "failed" => delivered[j] = limit[j]

(* One process: its reservation agrees with the row it was read from, and   *)
(* the row is in the status the process put it in.                          *)
ClaimOK(w) ==
    LET j == JobOf(w) IN
    /\ Claims(w) => held[w].maxAttempts = limit[j]
    /\ pc[w] = "reserving" => /\ j \in locks
                              /\ status[j] = "pending"
                              /\ held[w].attempt = attempts[j] + 1
    /\ pc[w] \in {"starting", "handling", "acking", "completing", "failing"}
         => held[w].attempt = attempts[j]
    /\ pc[w] = "starting" => /\ status[j] = "reserved"
                             /\ outcome[j] = "none"
                             /\ delivered[j] + 1 = attempts[j]
    /\ pc[w] \in {"handling", "acking"} => status[j] = "reserved"
    /\ pc[w] = "completing" => status[j] = "done"
    /\ pc[w] = "failing" => status[j] \in {"reserved", "done"}
    /\ pc[w] \in {"handling", "acking", "completing", "failing"}
         => delivered[j] = attempts[j]

RowInv == \A j \in Job : RowOK(j)

ClaimInv == \A w \in Worker : ClaimOK(w)

IInv == TypeInv /\ RowInv /\ ClaimInv /\ ExclusiveDelivery

(* The columns and counters RowOK reads stay the same for job k.            *)
SameRow(k) ==
    /\ status'[k] = status[k]
    /\ attempts'[k] = attempts[k]
    /\ limit'[k] = limit[k]
    /\ delivered'[k] = delivered[k]
    /\ outcome'[k] = outcome[k]

(* Process v keeps its place and its reservation.                           *)
SameProcess(v) == pc'[v] = pc[v] /\ held'[v] = held[v]

(* An unchanged row is still in order.                                      *)
LEMMA SameRowOK ==
    ASSUME NEW k \in Job, RowOK(k), SameRow(k)
    PROVE  RowOK(k)'
BY DEF RowOK, SameRow

(* An unchanged process over an unchanged row is still in order, provided   *)
(* the row is still locked for it.                                          *)
LEMMA SameClaimOK ==
    ASSUME NEW v \in Worker, ClaimOK(v), SameProcess(v),
           Claims(v) => SameRow(JobOf(v)),
           pc[v] = "reserving" => JobOf(v) \in locks'
    PROVE  ClaimOK(v)'
BY DEF ClaimOK, SameProcess, SameRow, Claims, JobOf

(* A step of w that concerns at most the row w has claimed keeps the        *)
(* invariant if it leaves that row and w in order: by exclusiveness no      *)
(* other process looks at the row.                                          *)
LEMMA OwnRowStep ==
    ASSUME IInv, NEW w \in Worker, NEW j \in Job, j = JobOf(w), Claims(w),
           \A k \in Job \ {j} : SameRow(k),
           \A v \in Worker \ {w} : SameProcess(v),
           locks \ {j} \subseteq locks',
           Claims(w)' => JobOf(w)' = j,
           RowOK(j)', ClaimOK(w)'
    PROVE  RowInv' /\ ClaimInv' /\ ExclusiveDelivery'
<1>1. RowInv'
  <2>1. ASSUME NEW k \in Job \ {j}
        PROVE  RowOK(k)'
    BY SameRowOK DEF IInv, RowInv
  <2>2. QED
    BY <2>1 DEF RowInv
<1>2. ASSUME NEW v \in Worker \ {w}, Claims(v)
      PROVE  JobOf(v) \in Job \ {j}
  <2>1. JobOf(v) \in Job
    BY <1>2 DEF IInv, TypeInv, HoldsJob, Claims
  <2>2. JobOf(v) # j
    BY <1>2 DEF IInv, ExclusiveDelivery
  <2>3. QED
    BY <2>1, <2>2
<1>3. ASSUME NEW v \in Worker \ {w}
      PROVE  ClaimOK(v)'
  <2>1. ClaimOK(v)
    BY DEF IInv, ClaimInv
  <2>2. pc[v] = "reserving" => JobOf(v) \in locks /\ JobOf(v) # j
    BY <2>1, <1>2 DEF ClaimOK, Claims
  <2>3. QED
    BY <2>1, <2>2, <1>2, SameClaimOK
<1>4. ClaimInv'
  BY <1>3 DEF ClaimInv
<1>5. ExclusiveDelivery'
  BY <1>2 DEF IInv, ExclusiveDelivery, SameProcess, Claims, JobOf
<1>6. QED
  BY <1>1, <1>4, <1>5

(* A step that changes no row keeps the invariant if no process gains a     *)
(* claim by it and every open transaction keeps its lock.                   *)
LEMMA QuietStep ==
    ASSUME IInv,
           \A k \in Job : SameRow(k),
           \A v \in Worker : SameProcess(v) \/ ~Claims(v)',
           \A v \in Worker : pc'[v] = "reserving" => JobOf(v) \in locks'
    PROVE  RowInv' /\ ClaimInv' /\ ExclusiveDelivery'
<1>1. RowInv'
  BY SameRowOK DEF IInv, RowInv
<1>2. ASSUME NEW v \in Worker
      PROVE  ClaimOK(v)'
  <2>1. CASE ~Claims(v)'
    BY <2>1 DEF ClaimOK, Claims
  <2>2. CASE SameProcess(v) /\ Claims(v)'
    <3>1. Claims(v)
      BY <2>2 DEF SameProcess, Claims
    <3>2. JobOf(v) \in Job
      BY <3>1 DEF IInv, TypeInv, HoldsJob, Claims
    <3>3. pc[v] = "reserving" => JobOf(v) \in locks'
      BY <2>2 DEF SameProcess
    <3>4. QED
      BY <2>2, <3>2, <3>3, SameClaimOK DEF IInv, ClaimInv
  <2>3. QED
    BY <2>1, <2>2
<1>3. ExclusiveDelivery'
  BY DEF IInv, ExclusiveDelivery, SameProcess, Claims, JobOf
<1>4. QED
  BY <1>1, <1>2, <1>3 DEF ClaimInv

(* The rest of the invariant: what the step lemmas establish.               *)
Rest == RowInv /\ ClaimInv /\ ExclusiveDelivery

(* In the invariant, a row's counters are numbers, and a process in the     *)
(* middle of a job holds a well-formed reservation of one.                  *)
LEMMA Typed ==
    ASSUME TypeInv
    PROVE  /\ \A j \in Job : attempts[j] \in Nat /\ limit[j] \in Nat /\ delivered[j] \in Nat
           /\ \A w \in Worker : /\ held[w] \in ReservedJob
                                /\ held[w].attempt \in Nat
                                /\ held[w].maxAttempts \in Nat
                                /\ pc[w] \in Location
                                /\ pc[w] \notin {"down", "loop"} => JobOf(w) \in Job
           /\ DOMAIN pc = Worker /\ DOMAIN held = Worker
           /\ DOMAIN status = Job /\ DOMAIN attempts = Job /\ DOMAIN limit = Job
           /\ DOMAIN delivered = Job /\ DOMAIN outcome = Job
BY DEF TypeInv, TypeOK, WorkerTypeOK, TableTypeOK, HoldsJob, ReservedJob

(* Storing a row: nobody claims a row that does not exist yet.              *)
LEMMA InsertStep ==
    ASSUME IInv, NEW j \in Job, NEW d \in BOOLEAN, NEW n \in RequestedAttempts,
           Push(j, d, n) \/ PushRaises(j, d, n)
    PROVE  Rest'
<1> USE Typed DEF IInv
<1>1. /\ status[j] = "absent"
      /\ status' = [status EXCEPT ![j] = "pending"]
      /\ attempts' = [attempts EXCEPT ![j] = 0]
      /\ limit' = [limit EXCEPT ![j] = AtLeastOne(n)]
      /\ locks' = locks
      /\ UNCHANGED <<pc, held, delivered, outcome>>
  BY DEF Push, PushRaises, Insert, workerVars, historyVars
<1>2. \A k \in Job \ {j} : SameRow(k)
  BY <1>1 DEF SameRow
<1>3. RowOK(j)'
  <2>1. n \in Int
    BY MySqlWorkersAssumption DEF MySqlWorkersAssumption
  <2>2. AtLeastOne(n) \in Nat /\ 1 <= AtLeastOne(n)
    BY <2>1 DEF AtLeastOne
  <2>3. RowOK(j)
    BY DEF RowInv
  <2>4. QED
    BY <1>1, <2>2, <2>3 DEF RowOK
<1>4. RowInv'
  <2>1. ASSUME NEW k \in Job \ {j}
        PROVE  RowOK(k)'
    BY <1>2, SameRowOK DEF RowInv
  <2>2. QED
    BY <1>3, <2>1 DEF RowInv
<1>5. ASSUME NEW v \in Worker
      PROVE  ClaimOK(v)'
  <2>1. ClaimOK(v) /\ SameProcess(v)
    BY <1>1 DEF ClaimInv, SameProcess
  <2>2. Claims(v) => JobOf(v) \in Job \ {j}
    BY <1>1, <2>1 DEF ClaimOK, Claims
  <2>3. pc[v] = "reserving" => JobOf(v) \in locks'
    BY <1>1, <2>1 DEF ClaimOK
  <2>4. QED
    BY <1>2, <2>1, <2>2, <2>3, SameClaimOK
<1>6. ExclusiveDelivery'
  BY <1>1 DEF ExclusiveDelivery, Claims, JobOf
<1>7. QED
  BY <1>4, <1>5, <1>6 DEF Rest, ClaimInv

(* Selecting a row: it is pending and not locked, so nobody else claims it. *)
LEMMA SelectStep ==
    ASSUME IInv, NEW w \in Worker, NEW i \in DOMAIN ready, Select(w, i)
    PROVE  Rest'
<1> USE Typed DEF IInv
<1> DEFINE j == ready[i]
<1>1. j \in Job
  BY ElementOfSeq, LenProperties DEF TypeInv, TypeOK, TableTypeOK
<1>2. /\ status[j] = "pending"
      /\ j \notin locks
      /\ locks' = locks \cup {j}
      /\ pc[w] = "loop"
      /\ pc' = [pc EXCEPT ![w] = "reserving"]
      /\ held' = [held EXCEPT ![w] = RowRead(j)]
      /\ UNCHANGED <<status, attempts, limit, delivered, outcome>>
  BY DEF Select, SelectForUpdate, FirstVisible, BeginReserve, Step, historyVars
<1>3. RowInv'
  <2>1. ASSUME NEW k \in Job
        PROVE  RowOK(k)'
    BY <1>2, SameRowOK DEF RowInv, SameRow
  <2>2. QED
    BY <2>1 DEF RowInv
<1>4. ClaimOK(w)'
  <2>1. RowOK(j)
    BY <1>1 DEF RowInv
  <2>2. AtLeastOne(limit[j]) = limit[j]
    BY <1>1, <1>2, <2>1 DEF RowOK, AtLeastOne
  <2>3. held'[w] = [job |-> j, attempt |-> attempts[j] + 1, maxAttempts |-> limit[j]]
    BY <1>2, <2>2 DEF RowRead
  <2>4. pc'[w] = "reserving"
    BY <1>2
  <2>5. QED
    BY <1>2, <2>3, <2>4 DEF ClaimOK, Claims, JobOf
<1>5. ASSUME NEW v \in Worker \ {w}
      PROVE  ClaimOK(v)' /\ (Claims(v) => JobOf(v) # j) /\ SameProcess(v)
  <2>1. ClaimOK(v)
    BY DEF ClaimInv
  <2>2. SameProcess(v)
    BY <1>2 DEF SameProcess
  <2>3. Claims(v) => JobOf(v) # j
    BY <1>2, <2>1 DEF ClaimOK, Claims
  <2>4. pc[v] = "reserving" => JobOf(v) \in locks'
    BY <1>2, <2>1 DEF ClaimOK
  <2>5. Claims(v) => SameRow(JobOf(v))
    BY <1>2 DEF SameRow
  <2>6. QED
    BY <2>1, <2>2, <2>3, <2>4, <2>5, SameClaimOK
<1>6. JobOf(w)' = j
  BY <1>2 DEF JobOf, RowRead
<1>7. ExclusiveDelivery'
  BY <1>5, <1>6 DEF ExclusiveDelivery, SameProcess, Claims, JobOf
<1>8. QED
  BY <1>3, <1>4, <1>5, <1>7 DEF Rest, ClaimInv

(* The steps that touch neither row nor claim, except to give a claim up.   *)
LEMMA ProducerQuiet ==
    ASSUME IInv, NEW j \in Job,
           \/ LogDispatched(j) \/ DelayElapses(j)
           \/ \E x \in BOOLEAN : LogDispatchedRaises(j, x)
    PROVE  Rest'
<1>1. UNCHANGED <<pc, held, status, attempts, limit, locks, delivered, outcome>>
  BY DEF LogDispatched, DelayElapses, LogDispatchedRaises, BecomeVisible,
         workerVars, tableVars, historyVars
<1>2. \A k \in Job : SameRow(k)
  BY <1>1 DEF SameRow
<1>3. \A v \in Worker : SameProcess(v)
  BY <1>1 DEF SameProcess
<1>4. \A v \in Worker : pc'[v] = "reserving" => JobOf(v) \in locks'
  BY <1>1 DEF IInv, ClaimInv, ClaimOK
<1>5. QED
  BY <1>2, <1>3, <1>4, QuietStep DEF Rest

(* A process that enters no job: it starts, ends, or is told to end.        *)
LEMMA ProcessQuiet ==
    ASSUME IInv, NEW w \in Worker,
           \/ Boot(w) \/ Signal(w) \/ Leave(w) \/ LimitReached(w)
           \/ SelectRaises(w) \/ LogCompleted(w) \/ LogDisposal(w)
           \/ \E x \in BOOLEAN : LogStartedRaises(w, x) \/ LogDisposalRaises(w, x)
           \/ \E d \in BOOLEAN : DisposeRaises(w, d, FALSE)
    PROVE  Rest'
<1> USE Typed DEF IInv
<1>1. UNCHANGED <<status, attempts, limit, locks, delivered, outcome>>
  BY DEF Boot, Signal, Leave, LimitReached, SelectRaises, LogCompleted, LogDisposal,
         LogStartedRaises, LogDisposalRaises, DisposeRaises, Construct, SelectFails,
         tableVars, historyVars
<1>2. /\ \A v \in Worker \ {w} : SameProcess(v)
      /\ SameProcess(w) \/ pc'[w] \in {"down", "loop"}
  BY DEF Boot, Signal, Leave, LimitReached, SelectRaises, LogCompleted, LogDisposal,
         LogStartedRaises, LogDisposalRaises, DisposeRaises, BootRun, ReceiveSignal,
         LeaveLoop, LeaveOnLimit, NextIteration, Die, Step, LetGo, workerVars,
         SameProcess
<1>3. \A k \in Job : SameRow(k)
  BY <1>1 DEF SameRow
<1>4. \A v \in Worker : SameProcess(v) \/ ~Claims(v)'
  BY <1>2 DEF Claims
<1>5. \A v \in Worker : pc'[v] = "reserving" => JobOf(v) \in locks'
  BY <1>1, <1>2 DEF ClaimInv, ClaimOK, SameProcess
<1>6. QED
  BY <1>3, <1>4, <1>5, QuietStep DEF Rest

(* A reservation that comes to nothing: only its own lock is given back.    *)
LEMMA RollBackQuiet ==
    ASSUME IInv, NEW w \in Worker,
           Crash(w) \/ RejectPayload(w) \/ ReserveRaises(w, FALSE)
    PROVE  Rest'
<1> USE Typed DEF IInv
<1>1. /\ UNCHANGED <<status, attempts, limit, delivered, outcome>>
      /\ locks' = locks \/ (pc[w] = "reserving" /\ locks' = locks \ {JobOf(w)})
  BY DEF Crash, RejectPayload, ReserveRaises, RollBack, ReservedNothing, Step,
         tableVars, historyVars
<1>2. /\ \A v \in Worker \ {w} : SameProcess(v)
      /\ pc'[w] \in {"down", "loop"}
  BY DEF Crash, RejectPayload, ReserveRaises, ReservedNothing, Die, Step, LetGo,
         SameProcess
<1>3. \A k \in Job : SameRow(k)
  BY <1>1 DEF SameRow
<1>4. \A v \in Worker : SameProcess(v) \/ ~Claims(v)'
  BY <1>2 DEF Claims
<1>5. ASSUME NEW v \in Worker, pc'[v] = "reserving"
      PROVE  JobOf(v) \in locks'
  <2>1. v # w /\ pc[v] = "reserving"
    BY <1>2, <1>5 DEF SameProcess
  <2>2. JobOf(v) \in locks
    BY <2>1 DEF ClaimInv, ClaimOK
  <2>3. pc[w] = "reserving" => JobOf(w) # JobOf(v)
    BY <2>1 DEF ExclusiveDelivery, Claims
  <2>4. QED
    BY <1>1, <2>2, <2>3
<1>6. QED
  BY <1>3, <1>4, <1>5, QuietStep DEF Rest

(* What the invariant says of a process with a claim, its job by name.      *)
LEMMA OwnRow ==
    ASSUME IInv, NEW w \in Worker, Claims(w)
    PROVE  /\ JobOf(w) \in Job
           /\ RowOK(JobOf(w))
           /\ ClaimOK(w)
BY Typed DEF IInv, RowInv, ClaimInv, Claims

(* Committing a reservation: the row becomes reserved, its lock is freed.   *)
LEMMA ReserveStep ==
    ASSUME IInv, NEW w \in Worker, Reserve(w) \/ ReserveRaises(w, TRUE)
    PROVE  Rest'
<1> USE Typed DEF IInv
<1>1. pc[w] = "reserving" /\ Claims(w)
  BY DEF Reserve, ReserveRaises, EndReserve, ReservedNothing, Step, Claims
<1>2. PICK j \in Job : j = JobOf(w)
  BY <1>1, OwnRow
<1>3. /\ status' = [status EXCEPT ![j] = "reserved"]
      /\ attempts' = [attempts EXCEPT ![j] = held[w].attempt]
      /\ locks' = locks \ {j}
      /\ UNCHANGED <<limit, delivered, outcome>>
  BY <1>2 DEF Reserve, ReserveRaises, CommitReserved, historyVars, JobOf
<1>4. \/ pc' = [pc EXCEPT ![w] = "starting"] /\ held' = held
      \/ /\ pc' = [pc EXCEPT ![w] = "loop"]
         /\ held' = [held EXCEPT ![w] = NoReservation]
  <2>1. [held EXCEPT ![w] = held[w]] = held
    BY DEF TypeInv, TypeOK, WorkerTypeOK
  <2>2. QED
    BY <2>1 DEF Reserve, ReserveRaises, EndReserve, ReservedNothing, Step, LetGo
<1>5. RowOK(j) /\ ClaimOK(w)
  BY <1>1, <1>2, OwnRow
<1>6. /\ status[j] = "pending"
      /\ held[w].attempt = attempts[j] + 1
      /\ held[w].maxAttempts = limit[j]
      /\ attempts[j] < limit[j]
      /\ delivered[j] = attempts[j]
      /\ outcome[j] = "none"
  BY <1>1, <1>2, <1>5 DEF ClaimOK, RowOK
<1>7. RowOK(j)'
  BY <1>3, <1>6 DEF RowOK
<1>8. ClaimOK(w)'
  <2>1. CASE pc'[w] = "loop"
    BY <2>1 DEF ClaimOK, Claims
  <2>2. CASE pc'[w] = "starting" /\ held' = held
    BY <1>2, <1>3, <1>6, <2>2 DEF ClaimOK, Claims, JobOf
  <2>3. QED
    BY <1>4, <2>1, <2>2
<1>9. \A k \in Job \ {j} : SameRow(k)
  BY <1>3 DEF SameRow
<1>10. \A v \in Worker \ {w} : SameProcess(v)
  BY <1>4 DEF SameProcess
<1>11. Claims(w)' => JobOf(w)' = j
  BY <1>2, <1>4 DEF Claims, JobOf
<1>12. QED
  BY <1>1, <1>2, <1>3, <1>7, <1>8, <1>9, <1>10, <1>11, OwnRowStep DEF Rest

(* Entering and leaving the handler.                                        *)
LEMMA HandlerStep ==
    ASSUME IInv, NEW w \in Worker,
           LogStarted(w) \/ HandlerReturns(w) \/ HandlerThrows(w)
    PROVE  Rest'
<1> USE Typed DEF IInv
<1>1. Claims(w)
  BY DEF LogStarted, HandlerReturns, HandlerThrows, EnterTry, HandleReturned,
         EnterCatch, Step, Claims
<1>2. PICK j \in Job : j = JobOf(w)
  BY <1>1, OwnRow
<1>3. UNCHANGED <<status, attempts, limit, locks, held>>
  BY DEF LogStarted, HandlerReturns, HandlerThrows, EnterTry, HandleReturned,
         EnterCatch, tableVars
<1>4. RowOK(j) /\ ClaimOK(w)
  BY <1>1, <1>2, OwnRow
<1>5. \/ /\ pc[w] = "starting"
         /\ pc' = [pc EXCEPT ![w] = "handling"]
         /\ delivered' = [delivered EXCEPT ![j] = @ + 1]
         /\ outcome' = [outcome EXCEPT ![j] = "running"]
      \/ /\ pc[w] = "handling"
         /\ \E to \in {"acking", "failing"} : pc' = [pc EXCEPT ![w] = to]
         /\ \E o \in Outcome : outcome' = [outcome EXCEPT ![j] = o]
         /\ delivered' = delivered
  BY <1>2 DEF LogStarted, HandlerReturns, HandlerThrows, EnterTry, HandleReturned,
              EnterCatch, Step, Outcomes, Outcome
<1>6. RowOK(j)'
  BY <1>2, <1>3, <1>4, <1>5 DEF RowOK, ClaimOK
<1>7. ClaimOK(w)'
  BY <1>2, <1>3, <1>4, <1>5 DEF RowOK, ClaimOK, Claims, JobOf
<1>8. \A k \in Job \ {j} : SameRow(k)
  BY <1>3, <1>5 DEF SameRow
<1>9. \A v \in Worker \ {w} : SameProcess(v)
  BY <1>3, <1>5 DEF SameProcess
<1>10. JobOf(w)' = j /\ locks \ {j} \subseteq locks'
  BY <1>2, <1>3 DEF JobOf
<1>11. QED
  BY <1>1, <1>2, <1>6, <1>7, <1>8, <1>9, <1>10, OwnRowStep DEF Rest

(* markDone(), the JOB_COMPLETED entry, and their exceptions.               *)
LEMMA AckStep ==
    ASSUME IInv, NEW w \in Worker,
           \/ Ack(w)
           \/ \E x \in BOOLEAN : AckRaises(w, x) \/ LogCompletedRaises(w, x)
    PROVE  Rest'
<1> USE Typed DEF IInv
<1>1. pc[w] \in {"acking", "completing"} /\ Claims(w)
  BY DEF Ack, AckRaises, LogCompletedRaises, MarkedDone, EnterCatch, Step, Claims
<1>2. PICK j \in Job : j = JobOf(w)
  BY <1>1, OwnRow
<1>3. UNCHANGED <<attempts, limit, locks, held, delivered, outcome>>
  BY DEF Ack, AckRaises, LogCompletedRaises, MarkedDone, EnterCatch, MarkDone,
         tableVars, historyVars
<1>4. RowOK(j) /\ ClaimOK(w)
  BY <1>1, <1>2, OwnRow
<1>5. \/ /\ pc' = [pc EXCEPT ![w] = "completing"]
         /\ status' = [status EXCEPT ![j] = "done"]
      \/ /\ pc' = [pc EXCEPT ![w] = "failing"]
         /\ status' = status \/ status' = [status EXCEPT ![j] = "done"]
  BY <1>2 DEF Ack, AckRaises, LogCompletedRaises, MarkedDone, EnterCatch, MarkDone,
              Step, tableVars
<1>6. RowOK(j)'
  <2>1. status[j] \in {"reserved", "done"}
    BY <1>1, <1>2, <1>4 DEF ClaimOK
  <2>2. QED
    BY <1>3, <1>4, <1>5, <2>1 DEF RowOK
<1>7. ClaimOK(w)'
  BY <1>1, <1>2, <1>3, <1>4, <1>5 DEF RowOK, ClaimOK, Claims, JobOf
<1>8. \A k \in Job \ {j} : SameRow(k)
  BY <1>3, <1>5 DEF SameRow
<1>9. \A v \in Worker \ {w} : SameProcess(v)
  BY <1>3, <1>5 DEF SameProcess
<1>10. JobOf(w)' = j /\ locks \ {j} \subseteq locks'
  BY <1>2, <1>3 DEF JobOf
<1>11. QED
  BY <1>1, <1>2, <1>6, <1>7, <1>8, <1>9, <1>10, OwnRowStep DEF Rest

(* Writing the row back or giving it up ends the claim; a job is given up   *)
(* exactly when its counted attempts, all of them delivered, reach the      *)
(* limit.                                                                   *)
LEMMA DisposeStep ==
    ASSUME IInv, NEW w \in Worker, NEW d \in BOOLEAN,
           Dispose(w, d) \/ DisposeRaises(w, d, TRUE)
    PROVE  Rest'
<1> USE Typed DEF IInv
<1>1. pc[w] = "failing" /\ Claims(w)
  BY DEF Dispose, DisposeRaises, Disposed, Step, Claims
<1>2. PICK j \in Job : j = JobOf(w)
  BY <1>1, OwnRow
<1>3. UNCHANGED <<attempts, limit, locks, delivered>>
  BY DEF Dispose, DisposeRaises, Settle, MarkFailed, Release
<1>4. \/ pc' = [pc EXCEPT ![w] = "reporting"] /\ held' = held
      \/ /\ pc' = [pc EXCEPT ![w] = "down"]
         /\ held' = [held EXCEPT ![w] = NoReservation]
  BY DEF Dispose, DisposeRaises, Disposed, Die, Step, LetGo
<1>5. RowOK(j) /\ ClaimOK(w)
  BY <1>1, <1>2, OwnRow
<1>6. /\ held[w].attempt = attempts[j]
      /\ held[w].maxAttempts = limit[j]
      /\ delivered[j] = attempts[j]
      /\ attempts[j] <= limit[j]
      /\ status[j] \in {"reserved", "done"}
  BY <1>1, <1>2, <1>5 DEF ClaimOK, RowOK
<1>7. \/ /\ attempts[j] >= limit[j]
         /\ status' = [status EXCEPT ![j] = "failed"]
         /\ outcome' = outcome
      \/ /\ attempts[j] < limit[j]
         /\ status' = [status EXCEPT ![j] = "pending"]
         /\ outcome' = [outcome EXCEPT ![j] = "none"]
  BY <1>2, <1>6 DEF Dispose, DisposeRaises, Settle, MarkFailed, Release, Exhausted,
                    Outcomes
<1>8. RowOK(j)'
  BY <1>3, <1>5, <1>6, <1>7 DEF RowOK
<1>9. ~Claims(w)' /\ ClaimOK(w)'
  BY <1>4 DEF ClaimOK, Claims
<1>10. \A k \in Job \ {j} : SameRow(k)
  BY <1>3, <1>7 DEF SameRow
<1>11. \A v \in Worker \ {w} : SameProcess(v)
  BY <1>4 DEF SameProcess
<1>12. QED
  BY <1>1, <1>2, <1>3, <1>8, <1>9, <1>10, <1>11, OwnRowStep DEF Rest

-------------------------------------------------------------------------------
(* The theorems. *)

LEMMA InitIInv == Init => IInv
<1> SUFFICES ASSUME Init
             PROVE  IInv
  OBVIOUS
<1>1. TypeInv
  BY InitTypeInv
<1>2. RowInv
  <2>1. ASSUME NEW j \in Job
        PROVE  /\ status[j] = "absent" /\ outcome[j] = "none"
               /\ attempts[j] = 0 /\ limit[j] = 0 /\ delivered[j] = 0
    BY DEF Init, TableInit
  <2>2. ASSUME NEW j \in Job
        PROVE  RowOK(j)
    BY <2>1 DEF RowOK
  <2>3. QED
    BY <2>2 DEF RowInv
<1>3. \A w \in Worker : ~Claims(w)
  BY DEF Init, WorkerInit, Claims
<1>4. ClaimInv /\ ExclusiveDelivery
  BY <1>3 DEF ClaimInv, ClaimOK, Claims, ExclusiveDelivery
<1>5. QED
  BY <1>1, <1>2, <1>4 DEF IInv

LEMMA NextIInv == IInv /\ [Next]_vars => IInv'
<1>1. ASSUME IInv, NEW j \in Job, Producer(j) \/ ProducerRaises(j) \/ DelayElapses(j)
      PROVE  Rest'
  BY <1>1, InsertStep, ProducerQuiet DEF Producer, ProducerRaises
<1>2. ASSUME IInv, NEW w \in Worker, Boot(w) \/ Advance(w)
      PROVE  Rest'
  BY <1>2, ProcessQuiet, RollBackQuiet, SelectStep, ReserveStep, HandlerStep, AckStep,
     DisposeStep
  DEF Advance
<1>3. ASSUME IInv, NEW w \in Worker, Disturb(w)
      PROVE  Rest'
  <2>1. ASSUME NEW a \in BOOLEAN, ReserveRaises(w, a)
        PROVE  Rest'
    BY <1>3, <2>1, RollBackQuiet, ReserveStep
  <2>2. ASSUME NEW a \in BOOLEAN, NEW d \in BOOLEAN, DisposeRaises(w, d, a)
        PROVE  Rest'
    BY <1>3, <2>2, ProcessQuiet, DisposeStep
  <2>3. QED
    BY <1>3, <2>1, <2>2, ProcessQuiet, RollBackQuiet, AckStep DEF Disturb
<1>4. ASSUME IInv, UNCHANGED vars
      PROVE  Rest'
  BY <1>4 DEF IInv, Rest, RowInv, RowOK, ClaimInv, ClaimOK, ExclusiveDelivery, Claims,
              JobOf, vars, workerVars, tableVars, historyVars
<1>5. IInv /\ [Next]_vars => Rest'
  BY <1>1, <1>2, <1>3, <1>4 DEF Next
<1>6. IInv /\ [Next]_vars => TypeInv'
  BY NextTypeInv DEF IInv
<1>7. QED
  BY <1>5, <1>6 DEF IInv, Rest

LEMMA Invariance == Spec => []IInv
BY InitIInv, NextIInv, PTL DEF Spec

(* No two worker processes ever hold a claim on one job, whatever crashes,  *)
(* lost answers and failed statements happen, although no UPDATE of the     *)
(* queue checks the status or the owner of the row it writes.               *)
THEOREM DeliveryIsExclusive == Spec => []ExclusiveDelivery
<1>1. IInv => ExclusiveDelivery
  BY DEF IInv
<1>2. QED
  BY <1>1, Invariance, PTL

(* max_attempts bounds the deliveries of a job over all workers, restarts   *)
(* and faults, and the column attempts never runs past it.                  *)
THEOREM AttemptsAreBounded == Spec => []AttemptsWithinLimit
<1>1. IInv => AttemptsWithinLimit
  BY DEF IInv, RowInv, RowOK, AttemptsWithinLimit
<1>2. QED
  BY <1>1, Invariance, PTL

(* A job is marked failed only when all its permitted attempts have reached *)
(* the handler.                                                             *)
THEOREM GivenUpOnlyWhenExhausted == Spec => []FailedOnlyWhenExhausted
<1>1. IInv => FailedOnlyWhenExhausted
  BY DEF IInv, RowInv, RowOK, FailedOnlyWhenExhausted
<1>2. QED
  BY <1>1, Invariance, PTL

(* A row of a job that was given up is claimed by nobody, so no step of a   *)
(* process writes it or delivers it.                                        *)
LEMMA FailedRowIsLeftAlone ==
    ASSUME IInv, Next, NEW j \in Job, status[j] = "failed"
    PROVE  status'[j] = "failed" /\ delivered'[j] = delivered[j]
<1> USE Typed DEF IInv
<1>1. ASSUME NEW k \in Job, Producer(k) \/ ProducerRaises(k) \/ DelayElapses(k)
      PROVE  status'[j] = "failed" /\ delivered'[j] = delivered[j]
  BY <1>1 DEF Producer, ProducerRaises, DelayElapses, Push, PushRaises, Insert,
              LogDispatched, LogDispatchedRaises, BecomeVisible, tableVars, historyVars
<1>2. ASSUME NEW w \in Worker, Boot(w) \/ Advance(w) \/ Disturb(w)
      PROVE  status'[j] = "failed" /\ delivered'[j] = delivered[j]
  <2>1. Claims(w) => JobOf(w) # j
    BY OwnRow DEF ClaimOK, Claims
  <2>2. ASSUME ~Claims(w)
        PROVE  UNCHANGED <<status, delivered>>
    BY <1>2, <2>2
    DEF Boot, Advance, Disturb, Signal, Leave, LimitReached, Crash, Select,
        SelectRaises, Reserve, RejectPayload, ReserveRaises, LogStarted,
        LogStartedRaises, HandlerReturns, HandlerThrows, Ack, AckRaises,
        LogCompleted, LogCompletedRaises, Dispose, DisposeRaises, LogDisposal,
        LogDisposalRaises, Claims, Step, Construct, SelectForUpdate, SelectFails,
        EndReserve, ReservedNothing, EnterTry, HandleReturned, EnterCatch, MarkedDone,
        Disposed, NextIteration, tableVars, historyVars
  <2>3. ASSUME NEW k, k = JobOf(w)
        PROVE  /\ status' = status \/ \E s \in Status : status' = [status EXCEPT ![k] = s]
               /\ delivered' = delivered \/ delivered' = [delivered EXCEPT ![k] = @ + 1]
    BY <1>2, <2>3
    DEF Boot, Advance, Disturb, Signal, Leave, LimitReached, Crash, Select,
        SelectRaises, Reserve, RejectPayload, ReserveRaises, LogStarted,
        LogStartedRaises, HandlerReturns, HandlerThrows, Ack, AckRaises,
        LogCompleted, LogCompletedRaises, Dispose, DisposeRaises, LogDisposal,
        LogDisposalRaises, Construct, SelectForUpdate, SelectFails, RollBack,
        CommitReserved, MarkDone, MarkFailed, Release, Settle, Status, JobOf,
        tableVars, historyVars
  <2>4. QED
    BY <2>1, <2>2, <2>3
<1>3. QED
  BY <1>1, <1>2 DEF Next

(* A job given up stays given up and is never delivered again, although the *)
(* UPDATEs of the queue name a row by its id alone.                         *)
THEOREM GivenUpIsFinal == Spec => FailedIsFinal
<1>1. IInv /\ [Next]_vars =>
        [\A j \in Job : status[j] = "failed" =>
           status'[j] = "failed" /\ delivered'[j] = delivered[j]]_vars
  BY FailedRowIsLeftAlone
<1>2. QED
  BY <1>1, Invariance, PTL DEF Spec, FailedIsFinal

(* The row of an undecodable job stays pending and untried: it can only be  *)
(* locked, and the transaction that locked it is rolled back.               *)
LEMMA PoisonStep ==
    ASSUME IInv, PoisonIsInert, Next, NEW j \in Undecodable
    PROVE  status'[j] \in {"absent", "pending"} /\ attempts'[j] = 0 /\ delivered'[j] = 0
<1> USE Typed DEF IInv
<1>0. /\ j \in Job
      /\ status[j] \in {"absent", "pending"} /\ attempts[j] = 0 /\ delivered[j] = 0
  BY MySqlQueueAssumption DEF MySqlQueueAssumption, PoisonIsInert
<1> DEFINE Goal == status'[j] \in {"absent", "pending"} /\ attempts'[j] = 0
                    /\ delivered'[j] = 0
<1>1. ASSUME NEW k \in Job, Producer(k) \/ ProducerRaises(k) \/ DelayElapses(k)
      PROVE  Goal
  BY <1>0, <1>1 DEF Producer, ProducerRaises, DelayElapses, Push, PushRaises, Insert,
              LogDispatched, LogDispatchedRaises, BecomeVisible, tableVars, historyVars
<1>2. ASSUME NEW w \in Worker, Boot(w) \/ Advance(w) \/ Disturb(w)
      PROVE  Goal
  <2>1. Claims(w) /\ JobOf(w) = j => pc[w] = "reserving"
    BY <1>0, OwnRow DEF ClaimOK, Claims
  <2>2. CASE UNCHANGED <<status, attempts, delivered>>
    BY <1>0, <2>2
  <2>3. CASE Reserve(w) \/ ReserveRaises(w, TRUE)
    <3>1. JobOf(w) # j
      BY <2>3 DEF Reserve, ReserveRaises, Deserializes
    <3>2. QED
      BY <1>0, <2>3, <3>1 DEF Reserve, ReserveRaises, CommitReserved, historyVars, JobOf
  <2>4. CASE \/ LogStarted(w) \/ Ack(w) \/ \E d \in BOOLEAN : Dispose(w, d)
             \/ \E a \in BOOLEAN : \/ AckRaises(w, a)
                                   \/ \E d \in BOOLEAN : DisposeRaises(w, d, a)
    <3>1. Claims(w) /\ pc[w] # "reserving"
      BY <2>4 DEF LogStarted, Ack, Dispose, AckRaises, DisposeRaises, EnterTry,
                  MarkedDone, Disposed, EnterCatch, Step, Claims
    <3>2. JobOf(w) # j
      BY <2>1, <3>1
    <3>3. QED
      BY <1>0, <2>4, <3>2 DEF LogStarted, Ack, Dispose, AckRaises, DisposeRaises,
                  Settle, MarkDone, MarkFailed, Release, tableVars, historyVars
  <2>5. ASSUME ~Reserve(w), ~ReserveRaises(w, TRUE), ~LogStarted(w), ~Ack(w),
               ~\E d \in BOOLEAN : Dispose(w, d),
               ~\E a \in BOOLEAN : AckRaises(w, a),
               ~\E d, a \in BOOLEAN : DisposeRaises(w, d, a)
        PROVE  UNCHANGED <<status, attempts, delivered>>
    <3>1. \A a \in BOOLEAN : ReserveRaises(w, a) => a = FALSE
      BY <2>5
    <3>2. QED
      BY <1>2, <2>5, <3>1
      DEF Boot, Advance, Disturb, Signal, Leave, LimitReached, Crash, Select,
          SelectRaises, RejectPayload, ReserveRaises, LogStartedRaises,
          HandlerReturns, HandlerThrows, LogCompleted, LogCompletedRaises,
          LogDisposal, LogDisposalRaises, Construct, SelectForUpdate, SelectFails,
          RollBack, tableVars, historyVars
  <2>6. QED
    BY <2>2, <2>3, <2>4, <2>5
<1>3. QED
  BY <1>1, <1>2 DEF Next

(* A job whose payload does not decode is never delivered, never charged an *)
(* attempt and never leaves the queue, for any number of workers, crashes   *)
(* and failed statements, with or without SKIP LOCKED.                      *)
THEOREM PoisonStaysInert == Spec => []PoisonIsInert
<1>1. Init => PoisonIsInert
  BY MySqlQueueAssumption DEF Init, TableInit, PoisonIsInert, MySqlQueueAssumption
<1>2. IInv /\ PoisonIsInert /\ [Next]_vars => PoisonIsInert'
  <2>1. ASSUME IInv, PoisonIsInert, Next
        PROVE  PoisonIsInert'
    BY <2>1, PoisonStep DEF PoisonIsInert
  <2>2. ASSUME PoisonIsInert, UNCHANGED vars
        PROVE  PoisonIsInert'
    BY <2>2 DEF PoisonIsInert, vars, tableVars, historyVars
  <2>3. QED
    BY <2>1, <2>2
<1>3. QED
  BY <1>1, <1>2, Invariance, PTL DEF Spec
===============================================================================
