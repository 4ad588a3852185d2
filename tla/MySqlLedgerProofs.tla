-------------------------- MODULE MySqlLedgerProofs ---------------------------
(***************************************************************************)
(* What faults may cost: jobs left in status reserved, repeated successes, *)
(* gaps and surplus in the activity log, and, when the storage and the log *)
(* answer, the contract of a job.  The accounts kept here relate the       *)
(* counters of each row and its activity entries to the processes at work  *)
(* on it and to the faults spent so far, for every set of jobs and workers *)
(* and every budget.                                                       *)
(***************************************************************************)
EXTENDS MySqlWorkersProofs, FiniteSetTheorems

-------------------------------------------------------------------------------
(* The inductive invariant. *)

(* The faults after which a job may be handled again although its handler   *)
(* returned: run() takes them for a failure of the job.                     *)
Repairs == Spent("storage") + Spent("audit")

(* Nothing is spent that the budget does not hold.                          *)
BudgetOK == \A d \in Disturbance : left[d] <= Budget[d]

(* The locations between the reservation of a job and its last entry, and   *)
(* those of them behind the JOB_STARTED entry.                              *)
InTry == {"handling", "acking", "completing", "failing", "reporting"}

AtWork == {"starting"} \cup InTry

(* The processes that still owe the log an entry on job j.  After release() *)
(* a second one may be at work on j before the first has reported.          *)
WorksOn(j) == {w \in Worker : pc[w] \in AtWork /\ JobOf(w) = j}

Started(j) == {w \in Worker : pc[w] \in InTry /\ JobOf(w) = j}

(* The entries that end an attempt of job j.                                *)
Ends(j) == trail[j]["completed"] + trail[j]["retried"] + trail[j]["failed"]

(* The account of one job: its counters and entries balance up to the       *)
(* processes at work on it and the faults spent.                            *)
LedgerOK(j) ==
    /\ status[j] = "absent" => attempts[j] = 0
    /\ IsFiniteSet(WorksOn(j))
    /\ trail[j]["started"] <= attempts[j]
    /\ trail[j]["completed"] <= successes[j]
    /\ trail[j]["failed"] > 0 => status[j] = "failed"
    /\ Ends(j) + Cardinality(Started(j)) <= trail[j]["started"] + Spent("audit")
    /\ attempts[j] <= Ends(j) + Cardinality(WorksOn(j)) + Faults
    /\ successes[j] <= Repairs + (IF outcome[j] = "succeeded" THEN 1 ELSE 0)

(* One process: what its place in the iteration says of the account of the  *)
(* job it holds.                                                            *)
StageOK(w) ==
    LET j == JobOf(w) IN
    /\ pc[w] = "starting" => trail[j]["started"] < attempts[j]
    /\ pc[w] = "handling" => outcome[j] = "running"
    /\ pc[w] \in {"acking", "completing"} => /\ outcome[j] = "succeeded"
                                             /\ trail[j]["completed"] < successes[j]
    /\ pc[w] = "failing" => /\ successes[j] <= Repairs
                            /\ \/ outcome[j] = "threw" /\ status[j] = "reserved"
                               \/ Repairs > 0
    /\ pc[w] = "reporting" /\ Exhausted(w) => status[j] = "failed"

Accounts ==
    /\ \A j \in Job : LedgerOK(j)
    /\ \A w \in Worker : StageOK(w)

LInv == IInv /\ BudgetOK /\ Accounts

-------------------------------------------------------------------------------
(* Facts about the helpers. *)

(* One process more or less in a finite set of processes.                   *)
LEMMA Attendance ==
    ASSUME NEW S, NEW T, NEW w, IsFiniteSet(S), S \ {w} = T \ {w}
    PROVE  /\ IsFiniteSet(T)
           /\ Cardinality(S) \in Nat /\ Cardinality(T) \in Nat
           /\ (w \in S <=> w \in T) => Cardinality(T) = Cardinality(S)
           /\ w \in S /\ w \notin T => Cardinality(S) = Cardinality(T) + 1
           /\ w \notin S /\ w \in T => Cardinality(T) = Cardinality(S) + 1
<1>1. CASE w \in S <=> w \in T
  <2>1. S = T
    BY <1>1
  <2>2. QED
    BY <2>1, FS_CardinalityType
<1>2. CASE w \in S /\ w \notin T
  <2>1. T = S \ {w}
    BY <1>2
  <2>2. IsFiniteSet(T) /\ Cardinality(T) = Cardinality(S) - 1
    BY <1>2, <2>1, FS_RemoveElement
  <2>3. Cardinality(S) \in Nat /\ Cardinality(T) \in Nat
    BY <2>2, FS_CardinalityType
  <2>4. QED
    BY <1>2, <2>2, <2>3
<1>3. CASE w \notin S /\ w \in T
  <2>1. T = S \cup {w}
    BY <1>3
  <2>2. IsFiniteSet(T) /\ Cardinality(T) = Cardinality(S) + 1
    BY <1>3, <2>1, FS_AddElement
  <2>3. Cardinality(S) \in Nat /\ Cardinality(T) \in Nat
    BY <2>2, FS_CardinalityType
  <2>4. QED
    BY <1>3, <2>2, <2>3
<1>4. QED
  BY <1>1, <1>2, <1>3

(* The entries after one more was written.                                  *)
LEMMA Logged ==
    ASSUME TypeInv, NEW j \in Job, NEW a \in AuditAction, Log(j, a)
    PROVE  \A k \in Job, b \in AuditAction :
             trail'[k][b] = IF k = j /\ b = a THEN trail[k][b] + 1 ELSE trail[k][b]
BY DEF TypeInv, TypeOK, Log

(* What is spent, before and after a step.                                  *)
LEMMA SpentType ==
    ASSUME TypeInv, BudgetOK
    PROVE  /\ Spent("crash") \in Nat /\ Spent("storage") \in Nat /\ Spent("audit") \in Nat
           /\ Repairs \in Nat /\ Faults \in Nat
           /\ Spent("audit") <= Repairs
<1>1. \A d \in Disturbance : left[d] \in Nat /\ Budget[d] \in Nat /\ left[d] <= Budget[d]
  BY MySqlWorkersAssumption DEF TypeInv, TypeOK, BudgetOK, MySqlWorkersAssumption
<1>2. \A d \in Disturbance : Spent(d) \in Nat
  BY <1>1 DEF Spent
<1>3. Spent("crash") \in Nat /\ Spent("storage") \in Nat /\ Spent("audit") \in Nat
  BY <1>2 DEF Disturbance
<1>4. QED
  BY <1>3 DEF Repairs, Faults

LEMMA SpentGrows ==
    ASSUME TypeInv, BudgetOK, UNCHANGED left \/ \E d \in Disturbance : Spend(d)
    PROVE  /\ BudgetOK'
           /\ Spent("audit")' \in Nat /\ Repairs' \in Nat /\ Faults' \in Nat
           /\ Spent("audit") <= Spent("audit")'
           /\ Repairs <= Repairs' /\ Faults <= Faults'
           /\ Spend("crash") => Faults' = Faults + 1
           /\ Spend("storage") => Faults' = Faults + 1 /\ Repairs' = Repairs + 1
           /\ Spend("audit") => /\ Faults' = Faults + 1 /\ Repairs' = Repairs + 1
                                /\ Spent("audit")' = Spent("audit") + 1
<1>1. /\ \A d \in Disturbance : left[d] \in Nat /\ Budget[d] \in Nat /\ left[d] <= Budget[d]
      /\ left \in [Disturbance -> Nat]
  BY MySqlWorkersAssumption DEF TypeInv, TypeOK, BudgetOK, MySqlWorkersAssumption
<1>2. ASSUME NEW d \in Disturbance, Spend(d)
      PROVE  /\ left[d] > 0
             /\ \A e \in Disturbance : left'[e] = IF e = d THEN left[e] - 1 ELSE left[e]
  BY <1>1, <1>2 DEF Spend
<1>3. BudgetOK'
  <2>1. CASE UNCHANGED left
    BY <2>1 DEF BudgetOK
  <2>2. ASSUME NEW d \in Disturbance, Spend(d)
        PROVE  BudgetOK'
    BY <1>1, <1>2, <2>2 DEF BudgetOK
  <2>3. QED
    BY <2>1, <2>2
<1>4. ASSUME NEW d \in Disturbance, Spend(d)
      PROVE  \A e \in Disturbance :
               /\ Spent(e) \in Nat
               /\ Spent(e)' = IF e = d THEN Spent(e) + 1 ELSE Spent(e)
  BY <1>1, <1>2, <1>4 DEF Spent
<1>5. /\ "crash" \in Disturbance /\ "storage" \in Disturbance /\ "audit" \in Disturbance
      /\ "stop" \in Disturbance
  BY DEF Disturbance
<1>6. Spent("crash") \in Nat /\ Spent("storage") \in Nat /\ Spent("audit") \in Nat
  BY SpentType
<1>7. ASSUME NEW d \in Disturbance, Spend(d)
      PROVE  /\ Spent("crash")' = IF d = "crash" THEN Spent("crash") + 1 ELSE Spent("crash")
             /\ Spent("storage")' = IF d = "storage" THEN Spent("storage") + 1
                                    ELSE Spent("storage")
             /\ Spent("audit")' = IF d = "audit" THEN Spent("audit") + 1 ELSE Spent("audit")
  BY <1>4, <1>5, <1>7
<1>8. CASE UNCHANGED left
  <2>1. ~ Spend("crash") /\ ~ Spend("storage") /\ ~ Spend("audit")
    BY <1>1, <1>2, <1>5, <1>8
  <2>2. /\ Spent("crash")' = Spent("crash") /\ Spent("storage")' = Spent("storage")
        /\ Spent("audit")' = Spent("audit")
    BY <1>8 DEF Spent
  <2>3. QED
    BY <1>3, <1>6, <2>1, <2>2 DEF Repairs, Faults
<1>9. CASE \E d \in Disturbance : Spend(d)
  <2>1. PICK d \in Disturbance : Spend(d)
    BY <1>9
  <2>2. \A e \in Disturbance : Spend(e) => e = d
    <3>1. ASSUME NEW e \in Disturbance, Spend(e), e # d
          PROVE  FALSE
      <4>1. left'[e] = left[e] /\ left'[e] = left[e] - 1
        BY <1>2, <2>1, <3>1
      <4>2. QED
        BY <1>1, <4>1
    <3>2. QED
      BY <3>1
  <2>3. /\ Spend("crash") => d = "crash"
        /\ Spend("storage") => d = "storage"
        /\ Spend("audit") => d = "audit"
    BY <1>5, <2>2
  <2>4. QED
    BY <1>3, <1>6, <1>7, <2>1, <2>3 DEF Repairs, Faults
<1>10. QED
  BY <1>8, <1>9

-------------------------------------------------------------------------------
(* What a step of a process leaves alone. *)

(* What StageOK and LedgerOK read of job k.                                 *)
SameBooks(k) ==
    /\ SameRow(k)
    /\ successes'[k] = successes[k]
    /\ trail'[k]["started"] = trail[k]["started"]
    /\ trail'[k]["completed"] = trail[k]["completed"]

SameLedger(k) ==
    /\ SameBooks(k)
    /\ trail'[k]["retried"] = trail[k]["retried"]
    /\ trail'[k]["failed"] = trail[k]["failed"]

(* The books of the job, the place of the process, and the budget are all a *)
(* process changes.                                                         *)
LEMMA ProcessFrame ==
    ASSUME TypeInv, NEW w \in Worker, Boot(w) \/ Advance(w) \/ Disturb(w)
    PROVE  /\ \A v \in Worker \ {w} : SameProcess(v)
           /\ \A k \in Job : k # JobOf(w) => SameLedger(k)
           /\ ~ Claims(w) => \A k \in Job : SameBooks(k)
           /\ UNCHANGED left \/ \E d \in Disturbance : Spend(d)
<1> DEFINE j == JobOf(w)
<1>1. UNCHANGED left \/ \E d \in Disturbance : Spend(d)
  BY DEF Boot, Advance, Disturb, Signal, Leave, LimitReached, Crash, Select, SelectRaises,
         Reserve, RejectPayload, ReserveRaises, LogStarted, LogStartedRaises, HandlerReturns,
         HandlerThrows, Ack, AckRaises, LogCompleted, LogCompletedRaises, Dispose,
         DisposeRaises, LogDisposal, LogDisposalRaises, Disturbance
<1>2. \A v \in Worker \ {w} : SameProcess(v)
  <2>1. \A v \in Worker \ {w} : pc'[v] = pc[v]
    BY DEF TypeInv, TypeOK, WorkerTypeOK, Boot, Advance, Disturb, Signal, Leave, LimitReached,
           Crash, Select, SelectRaises, Reserve, RejectPayload, ReserveRaises, LogStarted,
           LogStartedRaises, HandlerReturns, HandlerThrows, Ack, AckRaises, LogCompleted,
           LogCompletedRaises, Dispose, DisposeRaises, LogDisposal, LogDisposalRaises, BootRun,
           ReceiveSignal, LeaveLoop, LeaveOnLimit, Die, BeginReserve, EndReserve,
           ReservedNothing, EnterTry, HandleReturned, EnterCatch, MarkedDone, Disposed,
           NextIteration, Step, workerVars
  <2>2. \A v \in Worker \ {w} : held'[v] = held[v]
    BY DEF TypeInv, TypeOK, WorkerTypeOK, Boot, Advance, Disturb, Signal, Leave, LimitReached,
           Crash, Select, SelectRaises, Reserve, RejectPayload, ReserveRaises, LogStarted,
           LogStartedRaises, HandlerReturns, HandlerThrows, Ack, AckRaises, LogCompleted,
           LogCompletedRaises, Dispose, DisposeRaises, LogDisposal, LogDisposalRaises, BootRun,
           ReceiveSignal, LeaveLoop, LeaveOnLimit, Die, BeginReserve, EndReserve,
           ReservedNothing, EnterTry, HandleReturned, EnterCatch, MarkedDone, Disposed,
           NextIteration, LetGo, workerVars
  <2>3. QED
    BY <2>1, <2>2 DEF SameProcess
<1>3. ASSUME NEW k \in Job, k # j
      PROVE  SameRow(k) /\ successes'[k] = successes[k]
  BY <1>3
  DEF TypeInv, TypeOK, TableTypeOK, Boot, Advance, Disturb, Signal, Leave, LimitReached, Crash, Select, SelectRaises,
      Reserve, RejectPayload, ReserveRaises, LogStarted, LogStartedRaises, HandlerReturns,
      HandlerThrows, Ack, AckRaises, LogCompleted, LogCompletedRaises, Dispose,
      DisposeRaises, LogDisposal, LogDisposalRaises, Construct, SelectForUpdate, SelectFails,
      RollBack, CommitReserved, MarkDone, MarkFailed, Release, Settle, Outcomes, JobOf,
      tableVars, historyVars, SameRow
<1>4. \/ trail' = trail
      \/ Claims(w) /\ \E a \in {"started", "completed"} : Log(j, a)
      \/ \E a \in {"retried", "failed"} : Log(j, a)
  BY DEF Boot, Advance, Disturb, Signal, Leave, LimitReached, Crash, Select, SelectRaises,
         Reserve, RejectPayload, ReserveRaises, LogStarted, LogStartedRaises, HandlerReturns,
         HandlerThrows, Ack, AckRaises, LogCompleted, LogCompletedRaises, Dispose,
         DisposeRaises, LogDisposal, LogDisposalRaises, LogMaybe, EnterTry, EnterCatch,
         NextIteration, Step, Claims
<1>5. ASSUME NEW k \in Job, k # j, NEW a \in AuditAction
      PROVE  trail'[k][a] = trail[k][a]
  BY <1>4, <1>5 DEF TypeInv, TypeOK, Log
<1>6. ASSUME NEW k \in Job, k # j
      PROVE  SameLedger(k)
  BY <1>3, <1>5, <1>6 DEF SameLedger, SameBooks, AuditAction
<1>7. ASSUME ~ Claims(w)
      PROVE  UNCHANGED <<status, attempts, limit, delivered, outcome, successes>>
  BY <1>7
  DEF Boot, Advance, Disturb, Signal, Leave, LimitReached, Crash, Select, SelectRaises,
      Reserve, RejectPayload, ReserveRaises, LogStarted, LogStartedRaises, HandlerReturns,
      HandlerThrows, Ack, AckRaises, LogCompleted, LogCompletedRaises, Dispose,
      DisposeRaises, LogDisposal, LogDisposalRaises, Claims, Step, Construct,
      SelectForUpdate, SelectFails, EndReserve, ReservedNothing, EnterTry, HandleReturned,
      EnterCatch, MarkedDone, Disposed, NextIteration, tableVars, historyVars
<1>8. ASSUME ~ Claims(w), NEW k \in Job
      PROVE  SameBooks(k)
  <2>1. /\ trail'[k]["started"] = trail[k]["started"]
        /\ trail'[k]["completed"] = trail[k]["completed"]
    <3>1. trail \in [Job -> [AuditAction -> Nat]]
      BY DEF TypeInv, TypeOK
    <3>2. trail' = trail \/ \E a \in {"retried", "failed"} : Log(j, a)
      BY <1>4, <1>8
    <3>3. QED
      BY <3>1, <3>2 DEF Log, AuditAction
  <2>2. QED
    BY <1>7, <1>8, <2>1 DEF SameBooks, SameRow
<1>9. QED
  BY <1>1, <1>2, <1>6, <1>8

(* A step spends one disturbance or none.                                   *)
LEMMA NextSpends ==
    ASSUME TypeInv, Next
    PROVE  UNCHANGED left \/ \E d \in Disturbance : Spend(d)
<1>1. ASSUME NEW j \in Job, Producer(j) \/ ProducerRaises(j) \/ DelayElapses(j)
      PROVE  UNCHANGED left \/ \E d \in Disturbance : Spend(d)
  BY <1>1 DEF Producer, ProducerRaises, DelayElapses, Push, PushRaises, LogDispatched,
              LogDispatchedRaises, Disturbance
<1>2. QED
  BY <1>1, ProcessFrame DEF Next

(* The account of a job nothing is done to still balances: faults only add  *)
(* to what may be missing.                                                  *)
LEMMA SameLedgerOK ==
    ASSUME TypeInv, BudgetOK, NEW k \in Job, LedgerOK(k), SameLedger(k),
           WorksOn(k)' = WorksOn(k), Started(k)' = Started(k),
           UNCHANGED left \/ \E d \in Disturbance : Spend(d)
    PROVE  LedgerOK(k)'
<1>1. /\ Spent("audit") \in Nat /\ Repairs \in Nat /\ Faults \in Nat
      /\ Spent("audit")' \in Nat /\ Repairs' \in Nat /\ Faults' \in Nat
      /\ Spent("audit") <= Spent("audit")'
      /\ Repairs <= Repairs' /\ Faults <= Faults'
  BY SpentType, SpentGrows
<1>2. /\ attempts[k] \in Nat /\ successes[k] \in Nat
      /\ \A a \in AuditAction : trail[k][a] \in Nat
  BY DEF TypeInv, TypeOK, TableTypeOK
<1>3. Started(k) \subseteq WorksOn(k)
  BY DEF Started, WorksOn, AtWork
<1>4. Cardinality(WorksOn(k)) \in Nat /\ Cardinality(Started(k)) \in Nat
  BY <1>3, FS_CardinalityType, FS_Subset DEF LedgerOK
<1>5. /\ Cardinality(WorksOn(k))' = Cardinality(WorksOn(k))
      /\ Cardinality(Started(k))' = Cardinality(Started(k))
      /\ IsFiniteSet(WorksOn(k))' <=> IsFiniteSet(WorksOn(k))
  OBVIOUS
<1>6. Ends(k) \in Nat /\ Ends(k)' = Ends(k)
  BY <1>2 DEF Ends, SameLedger, SameBooks, AuditAction
<1>7. trail[k]["started"] \in Nat /\ trail[k]["completed"] \in Nat
  BY <1>2 DEF AuditAction
<1>8. QED
  BY <1>1, <1>2, <1>4, <1>5, <1>6, <1>7 DEF LedgerOK, SameLedger, SameBooks, SameRow

(* A process that keeps its place keeps its account with the job.           *)
LEMMA SameStageOK ==
    ASSUME TypeInv, BudgetOK, NEW v \in Worker, StageOK(v), SameProcess(v),
           Claims(v) => SameBooks(JobOf(v)),
           pc[v] = "reporting" /\ status[JobOf(v)] = "failed"
             => status'[JobOf(v)] = "failed",
           UNCHANGED left \/ \E d \in Disturbance : Spend(d)
    PROVE  StageOK(v)'
<1>1. Repairs \in Nat /\ Repairs' \in Nat /\ Repairs <= Repairs'
  BY SpentType, SpentGrows
<1>2. JobOf(v)' = JobOf(v) /\ pc'[v] = pc[v] /\ Exhausted(v)' = Exhausted(v)
  BY DEF SameProcess, JobOf, Exhausted
<1>3. CASE Claims(v)
  <2>1. pc[v] # "reporting"
    BY <1>3 DEF Claims
  <2>2. SameBooks(JobOf(v))
    BY <1>3
  <2>3. pc[v] = "failing" => successes[JobOf(v)] \in Nat
    BY <1>3 DEF TypeInv, TypeOK, HoldsJob
  <2>4. QED
    BY <1>1, <1>2, <2>1, <2>2, <2>3 DEF StageOK, SameBooks, SameRow
<1>4. CASE ~ Claims(v)
  BY <1>2, <1>4 DEF StageOK, Claims
<1>5. QED
  BY <1>3, <1>4

(* A step of a process keeps all accounts if it keeps that of the job the   *)
(* process holds and leaves the process itself in order.                    *)
LEMMA OwnAccount ==
    ASSUME LInv, NEW w \in Worker, Boot(w) \/ Advance(w) \/ Disturb(w),
           NEW j, j = JobOf(w),
           pc'[w] \in AtWork => JobOf(w)' = j,
           j \in Job => LedgerOK(j)',
           StageOK(w)'
    PROVE  Accounts'
<1> USE DEF LInv
<1>1. /\ TypeInv
      /\ \A v \in Worker \ {w} : SameProcess(v)
      /\ \A k \in Job : k # JobOf(w) => SameLedger(k)
      /\ ~ Claims(w) => \A k \in Job : SameBooks(k)
      /\ UNCHANGED left \/ \E d \in Disturbance : Spend(d)
  BY ProcessFrame DEF IInv
<1>2. ASSUME NEW k \in Job
      PROVE  LedgerOK(k)'
  <2>1. CASE k = JobOf(w)
    <3>1. j = k
      BY <2>1
    <3>2. LedgerOK(j)'
      BY <3>1
    <3>3. QED
      BY <3>1, <3>2
  <2>2. CASE k # JobOf(w)
    <3>1. \A v \in Worker : /\ v \in WorksOn(k)' <=> v \in WorksOn(k)
                            /\ v \in Started(k)' <=> v \in Started(k)
      BY <1>1, <2>2 DEF WorksOn, Started, AtWork, SameProcess, JobOf
    <3>2. WorksOn(k)' = WorksOn(k) /\ Started(k)' = Started(k)
      BY <3>1 DEF WorksOn, Started
    <3>3. QED
      BY <1>1, <2>2, <3>2, SameLedgerOK DEF Accounts
  <2>3. QED
    BY <2>1, <2>2
<1>3. ASSUME NEW v \in Worker \ {w}
      PROVE  StageOK(v)'
  <2>1. Claims(v) => JobOf(v) \in Job
    BY <1>1 DEF TypeInv, HoldsJob, Claims
  <2>2. Claims(v) => SameBooks(JobOf(v))
    BY <1>1, <2>1 DEF IInv, ExclusiveDelivery, SameLedger
  <2>3. pc[v] = "reporting" => JobOf(v) \in Job
    BY <1>1 DEF TypeInv, HoldsJob
  <2>4. pc[v] = "reporting" /\ status[JobOf(v)] = "failed" => status'[JobOf(v)] = "failed"
    BY <2>3, FailedRowIsLeftAlone DEF Next
  <2>5. QED
    BY <1>1, <2>2, <2>4, SameStageOK DEF Accounts
<1>4. QED
  BY <1>2, <1>3 DEF Accounts

(* What the invariant says of a process at work: its job by name, with the  *)
(* account of that job in numbers.                                          *)
LEMMA OwnLedger ==
    ASSUME LInv, NEW w \in Worker, NEW j, j = JobOf(w), pc[w] \in AtWork \cup {"reserving"}
    PROVE  /\ TypeInv
           /\ j \in Job
           /\ LedgerOK(j) /\ StageOK(w) /\ RowOK(j) /\ ClaimOK(w)
           /\ attempts[j] \in Nat /\ successes[j] \in Nat
           /\ trail[j]["started"] \in Nat /\ trail[j]["completed"] \in Nat
           /\ trail[j]["retried"] \in Nat /\ trail[j]["failed"] \in Nat
           /\ IsFiniteSet(Started(j))
           /\ Cardinality(WorksOn(j)) \in Nat /\ Cardinality(Started(j)) \in Nat
           /\ Spent("audit") \in Nat /\ Repairs \in Nat /\ Faults \in Nat
<1>1. TypeInv /\ j \in Job
  BY DEF LInv, IInv, TypeInv, HoldsJob, AtWork, InTry
<1>2. LedgerOK(j) /\ StageOK(w) /\ RowOK(j) /\ ClaimOK(w)
  BY <1>1 DEF LInv, IInv, Accounts, RowInv, ClaimInv
<1>3. /\ attempts[j] \in Nat /\ successes[j] \in Nat
      /\ \A a \in AuditAction : trail[j][a] \in Nat
  BY <1>1 DEF TypeInv, TypeOK, TableTypeOK
<1>4. Started(j) \subseteq WorksOn(j)
  BY DEF Started, WorksOn, AtWork
<1>5. /\ IsFiniteSet(Started(j))
      /\ Cardinality(WorksOn(j)) \in Nat /\ Cardinality(Started(j)) \in Nat
  BY <1>2, <1>4, FS_CardinalityType, FS_Subset DEF LedgerOK
<1>6. Spent("audit") \in Nat /\ Repairs \in Nat /\ Faults \in Nat
  BY <1>1, SpentType DEF LInv
<1>7. QED
  BY <1>1, <1>2, <1>3, <1>5, <1>6 DEF AuditAction

(* The processes at work on a job before and after a step of w.             *)
LEMMA Crew ==
    ASSUME NEW w \in Worker, NEW j, IsFiniteSet(WorksOn(j)), IsFiniteSet(Started(j)),
           \A v \in Worker \ {w} : SameProcess(v)
    PROVE  /\ IsFiniteSet(WorksOn(j))'
           /\ Cardinality(WorksOn(j))' \in Nat /\ Cardinality(Started(j))' \in Nat
           /\ LET before == pc[w] \in AtWork /\ JobOf(w) = j
                  after  == pc'[w] \in AtWork /\ held'[w].job = j
              IN  /\ (before <=> after) => Cardinality(WorksOn(j))' = Cardinality(WorksOn(j))
                  /\ before /\ ~ after => Cardinality(WorksOn(j)) = Cardinality(WorksOn(j))' + 1
                  /\ ~ before /\ after => Cardinality(WorksOn(j))' = Cardinality(WorksOn(j)) + 1
           /\ LET before == pc[w] \in InTry /\ JobOf(w) = j
                  after  == pc'[w] \in InTry /\ held'[w].job = j
              IN  /\ (before <=> after) => Cardinality(Started(j))' = Cardinality(Started(j))
                  /\ before /\ ~ after => Cardinality(Started(j)) = Cardinality(Started(j))' + 1
                  /\ ~ before /\ after => Cardinality(Started(j))' = Cardinality(Started(j)) + 1
<1>1. /\ WorksOn(j) \ {w} = WorksOn(j)' \ {w}
      /\ w \in WorksOn(j) <=> pc[w] \in AtWork /\ JobOf(w) = j
      /\ w \in WorksOn(j)' <=> pc'[w] \in AtWork /\ held'[w].job = j
  BY DEF WorksOn, SameProcess, JobOf
<1>2. /\ Started(j) \ {w} = Started(j)' \ {w}
      /\ w \in Started(j) <=> pc[w] \in InTry /\ JobOf(w) = j
      /\ w \in Started(j)' <=> pc'[w] \in InTry /\ held'[w].job = j
  BY DEF Started, SameProcess, JobOf
<1>3. /\ IsFiniteSet(WorksOn(j)')
      /\ Cardinality(WorksOn(j)') \in Nat
      /\ (w \in WorksOn(j) <=> w \in WorksOn(j)') => Cardinality(WorksOn(j)') = Cardinality(WorksOn(j))
      /\ w \in WorksOn(j) /\ w \notin WorksOn(j)' => Cardinality(WorksOn(j)) = Cardinality(WorksOn(j)') + 1
      /\ w \notin WorksOn(j) /\ w \in WorksOn(j)' => Cardinality(WorksOn(j)') = Cardinality(WorksOn(j)) + 1
  BY <1>1, Attendance
<1>4. /\ Cardinality(Started(j)') \in Nat
      /\ (w \in Started(j) <=> w \in Started(j)') => Cardinality(Started(j)') = Cardinality(Started(j))
      /\ w \in Started(j) /\ w \notin Started(j)' => Cardinality(Started(j)) = Cardinality(Started(j)') + 1
      /\ w \notin Started(j) /\ w \in Started(j)' => Cardinality(Started(j)') = Cardinality(Started(j)) + 1
  BY <1>2, Attendance
<1>5. QED
  BY <1>1, <1>2, <1>3, <1>4

(* What every step lemma below starts from: the numbers in the account of   *)
(* job j before the step of w, and what the step does to the processes at   *)
(* work on j and to the faults spent.                                       *)
Numbers(j) ==
    /\ j \in Job
    /\ attempts[j] \in Nat /\ successes[j] \in Nat
    /\ trail[j]["started"] \in Nat /\ trail[j]["completed"] \in Nat
    /\ trail[j]["retried"] \in Nat /\ trail[j]["failed"] \in Nat
    /\ Cardinality(WorksOn(j)) \in Nat /\ Cardinality(Started(j)) \in Nat
    /\ Spent("audit") \in Nat /\ Repairs \in Nat /\ Faults \in Nat

CrewMoves(w, j) ==
    /\ IsFiniteSet(WorksOn(j))'
    /\ Cardinality(WorksOn(j))' \in Nat /\ Cardinality(Started(j))' \in Nat
    /\ LET before == pc[w] \in AtWork /\ JobOf(w) = j
           after  == pc'[w] \in AtWork /\ held'[w].job = j
       IN  /\ (before <=> after) => Cardinality(WorksOn(j))' = Cardinality(WorksOn(j))
           /\ before /\ ~ after => Cardinality(WorksOn(j)) = Cardinality(WorksOn(j))' + 1
           /\ ~ before /\ after => Cardinality(WorksOn(j))' = Cardinality(WorksOn(j)) + 1
    /\ LET before == pc[w] \in InTry /\ JobOf(w) = j
           after  == pc'[w] \in InTry /\ held'[w].job = j
       IN  /\ (before <=> after) => Cardinality(Started(j))' = Cardinality(Started(j))
           /\ before /\ ~ after => Cardinality(Started(j)) = Cardinality(Started(j))' + 1
           /\ ~ before /\ after => Cardinality(Started(j))' = Cardinality(Started(j)) + 1

SpentMoves ==
    /\ Spent("audit")' \in Nat /\ Repairs' \in Nat /\ Faults' \in Nat
    /\ Spent("audit") <= Spent("audit")'
    /\ Repairs <= Repairs' /\ Faults <= Faults'
    /\ Spend("crash") => Faults' = Faults + 1
    /\ Spend("storage") => Faults' = Faults + 1 /\ Repairs' = Repairs + 1
    /\ Spend("audit") => /\ Faults' = Faults + 1 /\ Repairs' = Repairs + 1
                         /\ Spent("audit")' = Spent("audit") + 1

LEMMA OwnStep ==
    ASSUME LInv, NEW w \in Worker, Boot(w) \/ Advance(w) \/ Disturb(w),
           NEW j, j = JobOf(w), pc[w] \in AtWork \cup {"reserving"}
    PROVE  /\ TypeInv
           /\ Numbers(j)
           /\ LedgerOK(j) /\ StageOK(w) /\ RowOK(j) /\ ClaimOK(w)
           /\ CrewMoves(w, j)
           /\ SpentMoves
<1>1. /\ TypeInv
      /\ Numbers(j)
      /\ LedgerOK(j) /\ StageOK(w) /\ RowOK(j) /\ ClaimOK(w)
      /\ IsFiniteSet(Started(j))
  BY OwnLedger DEF Numbers
<1>2. /\ \A v \in Worker \ {w} : SameProcess(v)
      /\ UNCHANGED left \/ \E d \in Disturbance : Spend(d)
  BY <1>1, ProcessFrame
<1>3. CrewMoves(w, j)
  BY <1>1, <1>2, Crew DEF CrewMoves, LedgerOK
<1>4. SpentMoves
  BY <1>1, <1>2, SpentGrows DEF SpentMoves, LInv
<1>5. QED
  BY <1>1, <1>3, <1>4

-------------------------------------------------------------------------------
(* The steps of a process, along one iteration. *)

(* A reservation is committed: one attempt more, and one process more at    *)
(* work, or a fault that leaves the row to nobody.                          *)
LEMMA ReserveAccount ==
    ASSUME LInv, NEW w \in Worker, Reserve(w) \/ ReserveRaises(w, TRUE)
    PROVE  Accounts'
<1>1. Boot(w) \/ Advance(w) \/ Disturb(w)
  BY DEF Advance, Disturb
<1>2. PICK j : j = JobOf(w)
  OBVIOUS
<1>3. pc[w] = "reserving"
  BY DEF Reserve, ReserveRaises, EndReserve, ReservedNothing, Step
<1>4. /\ TypeInv
      /\ Numbers(j)
      /\ LedgerOK(j) /\ StageOK(w) /\ RowOK(j) /\ ClaimOK(w)
      /\ CrewMoves(w, j)
      /\ SpentMoves
  BY <1>1, <1>2, <1>3, OwnStep
<1>5. /\ attempts'[j] = attempts[j] + 1
      /\ status[j] = "pending" /\ status'[j] = "reserved"
      /\ UNCHANGED <<trail, successes, outcome>>
  <2>1. held[w].attempt = attempts[j] + 1
    BY <1>2, <1>3, <1>4 DEF ClaimOK
  <2>2. QED
    BY <1>2, <1>4, <2>1
    DEF Reserve, ReserveRaises, CommitReserved, historyVars, JobOf, Numbers, TypeInv, TypeOK,
        TableTypeOK
<1>6. \/ pc'[w] = "starting" /\ held'[w] = held[w]
      \/ pc'[w] = "loop" /\ Spend("storage")
  BY <1>4 DEF Reserve, ReserveRaises, EndReserve, ReservedNothing, Step, TypeInv, TypeOK,
              WorkerTypeOK
<1>7. LedgerOK(j)'
  <2>1. /\ Cardinality(Started(j))' = Cardinality(Started(j))
        /\ \/ Cardinality(WorksOn(j))' = Cardinality(WorksOn(j)) + 1
           \/ /\ Cardinality(WorksOn(j))' = Cardinality(WorksOn(j))
              /\ Faults' = Faults + 1
    BY <1>2, <1>3, <1>4, <1>6 DEF CrewMoves, SpentMoves, AtWork, InTry, JobOf
  <2>2. trail[j]["failed"] = 0
    BY <1>4, <1>5 DEF LedgerOK, Numbers
  <2>3. QED
    BY <1>4, <1>5, <2>1, <2>2 DEF LedgerOK, Ends, Numbers, CrewMoves, SpentMoves
<1>8. StageOK(w)'
  <2>1. CASE pc'[w] = "loop"
    BY <2>1 DEF StageOK
  <2>2. CASE pc'[w] = "starting" /\ held'[w] = held[w]
    <3>1. JobOf(w)' = j
      BY <1>2, <2>2 DEF JobOf
    <3>2. trail'[j]["started"] < attempts'[j]
      BY <1>4, <1>5 DEF LedgerOK, Numbers
    <3>3. QED
      BY <2>2, <3>1, <3>2 DEF StageOK
  <2>3. QED
    BY <1>6, <2>1, <2>2
<1>9. pc'[w] \in AtWork => JobOf(w)' = j
  BY <1>2, <1>6 DEF JobOf, AtWork, InTry
<1>10. QED
  BY <1>1, <1>2, <1>7, <1>8, <1>9, OwnAccount

(* The JOB_STARTED entry: it can only be missing or alone after a fault.    *)
LEMMA StartAccount ==
    ASSUME LInv, NEW w \in Worker,
           LogStarted(w) \/ \E x \in BOOLEAN : LogStartedRaises(w, x)
    PROVE  Accounts'
<1>1. Boot(w) \/ Advance(w) \/ Disturb(w)
  BY DEF Advance, Disturb
<1>2. PICK j : j = JobOf(w)
  OBVIOUS
<1>3. pc[w] = "starting"
  BY DEF LogStarted, LogStartedRaises, EnterTry, Step
<1>4. /\ TypeInv
      /\ Numbers(j)
      /\ LedgerOK(j) /\ StageOK(w) /\ RowOK(j) /\ ClaimOK(w)
      /\ CrewMoves(w, j)
      /\ SpentMoves
  BY <1>1, <1>2, <1>3, OwnStep DEF AtWork
<1>5. /\ trail[j]["started"] < attempts[j]
      /\ outcome[j] = "none"
      /\ status[j] = "reserved"
  BY <1>2, <1>3, <1>4 DEF StageOK, ClaimOK
<1>6. UNCHANGED <<status, attempts, successes>>
  BY DEF LogStarted, LogStartedRaises, tableVars, historyVars
<1>7. \/ /\ pc'[w] = "handling" /\ held'[w] = held[w]
         /\ Log(j, "started")
         /\ outcome'[j] = "running"
      \/ /\ pc'[w] = "down"
         /\ Log(j, "started") \/ trail' = trail
         /\ outcome' = outcome
         /\ Spend("audit")
  BY <1>2, <1>4 DEF LogStarted, LogStartedRaises, EnterTry, Die, Step, LogMaybe, Outcomes,
                    historyVars, Numbers, TypeInv, TypeOK, WorkerTypeOK
<1>8. /\ \A a \in {"completed", "retried", "failed"} : trail'[j][a] = trail[j][a]
      /\ Log(j, "started") => trail'[j]["started"] = trail[j]["started"] + 1
      /\ trail' = trail \/ Log(j, "started")
  BY <1>4, <1>7, Logged DEF AuditAction, Numbers
<1>9. LedgerOK(j)'
  <2>1. CASE pc'[w] = "handling"
    <3>1. /\ Cardinality(Started(j))' = Cardinality(Started(j)) + 1
          /\ Cardinality(WorksOn(j))' = Cardinality(WorksOn(j))
      BY <1>2, <1>3, <1>4, <1>7, <2>1 DEF CrewMoves, AtWork, InTry, JobOf
    <3>2. Log(j, "started") /\ outcome'[j] = "running"
      BY <1>7, <2>1
    <3>3. QED
      BY <1>4, <1>5, <1>6, <1>8, <3>1, <3>2
      DEF LedgerOK, Ends, Numbers, CrewMoves, SpentMoves
  <2>2. CASE pc'[w] = "down"
    <3>1. /\ Cardinality(Started(j))' = Cardinality(Started(j))
          /\ Cardinality(WorksOn(j)) = Cardinality(WorksOn(j))' + 1
      BY <1>2, <1>3, <1>4, <2>2 DEF CrewMoves, AtWork, InTry
    <3>2. Spend("audit") /\ outcome' = outcome
      BY <1>7, <2>2
    <3>3. /\ trail[j]["started"] <= trail'[j]["started"]
          /\ trail'[j]["started"] <= trail[j]["started"] + 1
          /\ trail'[j]["started"] \in Nat
      BY <1>4, <1>8 DEF Numbers
    <3>4. QED
      BY <1>4, <1>5, <1>6, <1>8, <3>1, <3>2, <3>3
      DEF LedgerOK, Ends, Numbers, CrewMoves, SpentMoves
  <2>3. QED
    BY <1>7, <2>1, <2>2
<1>10. StageOK(w)'
  <2>1. CASE pc'[w] = "down"
    BY <2>1 DEF StageOK
  <2>2. CASE pc'[w] = "handling"
    <3>1. JobOf(w)' = j /\ outcome'[j] = "running"
      BY <1>2, <1>7, <2>2 DEF JobOf
    <3>2. QED
      BY <2>2, <3>1 DEF StageOK
  <2>3. QED
    BY <1>7, <2>1, <2>2
<1>11. pc'[w] \in AtWork => JobOf(w)' = j
  BY <1>2, <1>7 DEF JobOf, AtWork, InTry
<1>12. QED
  BY <1>1, <1>2, <1>9, <1>10, <1>11, OwnAccount

(* The handler returns or throws.                                           *)
LEMMA HandlerAccount ==
    ASSUME LInv, NEW w \in Worker, HandlerReturns(w) \/ HandlerThrows(w)
    PROVE  Accounts'
<1>1. Boot(w) \/ Advance(w) \/ Disturb(w)
  BY DEF Advance
<1>2. PICK j : j = JobOf(w)
  OBVIOUS
<1>3. pc[w] = "handling"
  BY DEF HandlerReturns, HandlerThrows, HandleReturned, EnterCatch, Step
<1>4. /\ TypeInv
      /\ Numbers(j)
      /\ LedgerOK(j) /\ StageOK(w) /\ RowOK(j) /\ ClaimOK(w)
      /\ CrewMoves(w, j)
      /\ SpentMoves
  BY <1>1, <1>2, <1>3, OwnStep DEF AtWork, InTry
<1>5. /\ outcome[j] = "running"
      /\ status[j] = "reserved"
      /\ successes[j] <= Repairs
      /\ trail[j]["completed"] <= successes[j]
  <2>1. outcome[j] = "running" /\ status[j] = "reserved"
    BY <1>2, <1>3, <1>4 DEF StageOK, ClaimOK
  <2>2. QED
    BY <1>4, <2>1 DEF LedgerOK, Numbers
<1>6. UNCHANGED <<status, attempts, trail, left>>
  BY DEF HandlerReturns, HandlerThrows, tableVars
<1>7. \/ /\ pc'[w] = "acking"
         /\ outcome'[j] = "succeeded"
         /\ successes'[j] = successes[j] + 1
      \/ /\ pc'[w] = "failing"
         /\ outcome'[j] = "threw"
         /\ successes' = successes
  BY <1>2, <1>4 DEF HandlerReturns, HandlerThrows, HandleReturned, EnterCatch, Step, Outcomes,
                    Numbers, TypeInv, TypeOK, WorkerTypeOK
<1>8. held' = held
  BY DEF HandlerReturns, HandlerThrows, HandleReturned, EnterCatch
<1>9. LedgerOK(j)'
  <2>1. /\ Cardinality(Started(j))' = Cardinality(Started(j))
        /\ Cardinality(WorksOn(j))' = Cardinality(WorksOn(j))
    BY <1>2, <1>3, <1>4, <1>7, <1>8 DEF CrewMoves, AtWork, InTry, JobOf
  <2>2. QED
    BY <1>4, <1>5, <1>6, <1>7, <2>1 DEF LedgerOK, Ends, Numbers, CrewMoves, SpentMoves
<1>10. StageOK(w)'
  <2>1. JobOf(w)' = j
    BY <1>2, <1>8 DEF JobOf
  <2>2. QED
    BY <1>4, <1>5, <1>6, <1>7, <2>1 DEF StageOK, Numbers, SpentMoves
<1>11. JobOf(w)' = j
  BY <1>2, <1>8 DEF JobOf
<1>12. QED
  BY <1>1, <1>2, <1>9, <1>10, <1>11, OwnAccount

(* markDone().  Its exception, answer lost or statement failed, is a fault  *)
(* that licenses the repetition the catch block may bring about.            *)
LEMMA AckAccount ==
    ASSUME LInv, NEW w \in Worker, Ack(w) \/ \E x \in BOOLEAN : AckRaises(w, x)
    PROVE  Accounts'
<1>1. Boot(w) \/ Advance(w) \/ Disturb(w)
  BY DEF Advance, Disturb
<1>2. PICK j : j = JobOf(w)
  OBVIOUS
<1>3. pc[w] = "acking"
  BY DEF Ack, AckRaises, MarkedDone, EnterCatch, Step
<1>4. /\ TypeInv
      /\ Numbers(j)
      /\ LedgerOK(j) /\ StageOK(w) /\ RowOK(j) /\ ClaimOK(w)
      /\ CrewMoves(w, j)
      /\ SpentMoves
  BY <1>1, <1>2, <1>3, OwnStep DEF AtWork, InTry
<1>5. /\ outcome[j] = "succeeded"
      /\ trail[j]["completed"] < successes[j]
      /\ successes[j] <= Repairs + 1
      /\ status[j] = "reserved"
  <2>1. /\ outcome[j] = "succeeded" /\ status[j] = "reserved"
        /\ trail[j]["completed"] < successes[j]
    BY <1>2, <1>3, <1>4 DEF StageOK, ClaimOK
  <2>2. QED
    BY <1>4, <2>1 DEF LedgerOK, Numbers
<1>6. /\ UNCHANGED <<attempts, trail, successes, outcome, held>>
      /\ status'[j] \in {"reserved", "done"}
  BY <1>2, <1>4, <1>5
  DEF Ack, AckRaises, MarkedDone, EnterCatch, MarkDone, tableVars, historyVars, Numbers,
      TypeInv, TypeOK, TableTypeOK
<1>7. \/ pc'[w] = "completing"
      \/ pc'[w] = "failing" /\ Spend("storage")
  BY <1>4 DEF Ack, AckRaises, MarkedDone, EnterCatch, Step, TypeInv, TypeOK, WorkerTypeOK
<1>8. JobOf(w)' = j
  BY <1>2, <1>6 DEF JobOf
<1>9. LedgerOK(j)'
  <2>1. /\ Cardinality(Started(j))' = Cardinality(Started(j))
        /\ Cardinality(WorksOn(j))' = Cardinality(WorksOn(j))
    BY <1>2, <1>3, <1>4, <1>6, <1>7 DEF CrewMoves, AtWork, InTry, JobOf
  <2>2. trail[j]["failed"] = 0
    BY <1>4, <1>5 DEF LedgerOK, Numbers
  <2>3. QED
    BY <1>4, <1>5, <1>6, <2>1, <2>2 DEF LedgerOK, Ends, Numbers, CrewMoves, SpentMoves
<1>10. StageOK(w)'
  BY <1>4, <1>5, <1>6, <1>7, <1>8 DEF StageOK, Numbers, SpentMoves
<1>11. QED
  BY <1>1, <1>2, <1>8, <1>9, <1>10, OwnAccount

(* The JOB_COMPLETED entry.  Its exception makes a done job a failed try,   *)
(* possibly with the entry written: the surplus the audit faults allow.     *)
LEMMA CompleteAccount ==
    ASSUME LInv, NEW w \in Worker,
           LogCompleted(w) \/ \E x \in BOOLEAN : LogCompletedRaises(w, x)
    PROVE  Accounts'
<1>1. Boot(w) \/ Advance(w) \/ Disturb(w)
  BY DEF Advance, Disturb
<1>2. PICK j : j = JobOf(w)
  OBVIOUS
<1>3. pc[w] = "completing"
  BY DEF LogCompleted, LogCompletedRaises, NextIteration, EnterCatch, Step
<1>4. /\ TypeInv
      /\ Numbers(j)
      /\ LedgerOK(j) /\ StageOK(w) /\ RowOK(j) /\ ClaimOK(w)
      /\ CrewMoves(w, j)
      /\ SpentMoves
  BY <1>1, <1>2, <1>3, OwnStep DEF AtWork, InTry
<1>5. /\ outcome[j] = "succeeded"
      /\ trail[j]["completed"] < successes[j]
      /\ successes[j] <= Repairs + 1
  <2>1. outcome[j] = "succeeded" /\ trail[j]["completed"] < successes[j]
    BY <1>2, <1>3, <1>4 DEF StageOK
  <2>2. QED
    BY <1>4, <2>1 DEF LedgerOK, Numbers
<1>6. UNCHANGED <<status, attempts, successes, outcome>>
  BY DEF LogCompleted, LogCompletedRaises, tableVars, historyVars
<1>7. \/ pc'[w] = "loop" /\ Log(j, "completed")
      \/ /\ pc'[w] = "failing" /\ held'[w] = held[w]
         /\ Log(j, "completed") \/ trail' = trail
         /\ Spend("audit")
  BY <1>2, <1>4 DEF LogCompleted, LogCompletedRaises, NextIteration, EnterCatch, Step, LogMaybe,
                    TypeInv, TypeOK, WorkerTypeOK
<1>8. /\ \A a \in {"started", "retried", "failed"} : trail'[j][a] = trail[j][a]
      /\ Log(j, "completed") => trail'[j]["completed"] = trail[j]["completed"] + 1
      /\ trail' = trail \/ Log(j, "completed")
  BY <1>4, <1>7, Logged DEF AuditAction, Numbers
<1>9. LedgerOK(j)'
  <2>1. CASE pc'[w] = "loop"
    <3>1. /\ Cardinality(Started(j)) = Cardinality(Started(j))' + 1
          /\ Cardinality(WorksOn(j)) = Cardinality(WorksOn(j))' + 1
      BY <1>2, <1>3, <1>4, <2>1 DEF CrewMoves, AtWork, InTry
    <3>2. Log(j, "completed")
      BY <1>7, <2>1
    <3>3. QED
      BY <1>4, <1>5, <1>6, <1>8, <3>1, <3>2
      DEF LedgerOK, Ends, Numbers, CrewMoves, SpentMoves
  <2>2. CASE pc'[w] = "failing"
    <3>1. /\ Cardinality(Started(j))' = Cardinality(Started(j))
          /\ Cardinality(WorksOn(j))' = Cardinality(WorksOn(j))
      BY <1>2, <1>3, <1>4, <1>7, <2>2 DEF CrewMoves, AtWork, InTry, JobOf
    <3>2. Spend("audit")
      BY <1>7, <2>2
    <3>3. /\ trail[j]["completed"] <= trail'[j]["completed"]
          /\ trail'[j]["completed"] <= trail[j]["completed"] + 1
          /\ trail'[j]["completed"] \in Nat
      BY <1>4, <1>8 DEF Numbers
    <3>4. QED
      BY <1>4, <1>5, <1>6, <1>8, <3>1, <3>2, <3>3
      DEF LedgerOK, Ends, Numbers, CrewMoves, SpentMoves
  <2>3. QED
    BY <1>7, <2>1, <2>2
<1>10. StageOK(w)'
  <2>1. CASE pc'[w] = "loop"
    BY <2>1 DEF StageOK
  <2>2. CASE pc'[w] = "failing"
    <3>1. JobOf(w)' = j /\ Spend("audit")
      BY <1>2, <1>7, <2>2 DEF JobOf
    <3>2. QED
      BY <1>4, <1>5, <1>6, <2>2, <3>1 DEF StageOK, Numbers, SpentMoves
  <2>3. QED
    BY <1>7, <2>1, <2>2
<1>11. pc'[w] \in AtWork => JobOf(w)' = j
  BY <1>2, <1>7 DEF JobOf, AtWork, InTry
<1>12. QED
  BY <1>1, <1>2, <1>9, <1>10, <1>11, OwnAccount

(* markFailed() or release(): the row is written, or the process dies and   *)
(* the fault stands for the entry that is never written.                    *)
LEMMA DisposeAccount ==
    ASSUME LInv, NEW w \in Worker, NEW d \in BOOLEAN, NEW x \in BOOLEAN,
           Dispose(w, d) \/ DisposeRaises(w, d, x)
    PROVE  Accounts'
<1>1. Boot(w) \/ Advance(w) \/ Disturb(w)
  BY DEF Advance, Disturb
<1>2. PICK j : j = JobOf(w)
  OBVIOUS
<1>3. pc[w] = "failing"
  BY DEF Dispose, DisposeRaises, Disposed, Step
<1>4. /\ TypeInv
      /\ Numbers(j)
      /\ LedgerOK(j) /\ StageOK(w) /\ RowOK(j) /\ ClaimOK(w)
      /\ CrewMoves(w, j)
      /\ SpentMoves
  BY <1>1, <1>2, <1>3, OwnStep DEF AtWork, InTry
<1>5. /\ successes[j] <= Repairs
      /\ status[j] \in {"reserved", "done"}
  BY <1>2, <1>3, <1>4 DEF StageOK, ClaimOK
<1>6. UNCHANGED <<attempts, trail, successes>>
  BY DEF Dispose, DisposeRaises, Settle, MarkFailed, Release, tableVars
<1>7. /\ status'[j] # "absent"
      /\ \/ /\ pc'[w] = "reporting" /\ held'[w] = held[w]
            /\ Exhausted(w) => status'[j] = "failed"
         \/ pc'[w] = "down" /\ Spend("storage")
  <2>1. /\ status'[j] # "absent"
        /\ Dispose(w, d) /\ Exhausted(w) => status'[j] = "failed"
    BY <1>2, <1>4, <1>5
    DEF Dispose, DisposeRaises, Settle, MarkFailed, Release, tableVars, Numbers, TypeInv,
        TypeOK, TableTypeOK
  <2>2. \/ Dispose(w, d) /\ pc'[w] = "reporting" /\ held'[w] = held[w]
        \/ pc'[w] = "down" /\ Spend("storage")
    BY <1>4 DEF Dispose, DisposeRaises, Disposed, Die, Step, TypeInv, TypeOK, WorkerTypeOK
  <2>3. QED
    BY <2>1, <2>2
<1>8. LedgerOK(j)'
  <2>1. /\ trail[j]["failed"] = 0
        /\ Ends(j)' = Ends(j) /\ Ends(j) \in Nat
    BY <1>4, <1>5, <1>6 DEF LedgerOK, Numbers, Ends
  <2>2. successes[j] <= Repairs'
    BY <1>4, <1>5 DEF Numbers, SpentMoves
  <2>3. successes[j] <= Repairs' + (IF outcome'[j] = "succeeded" THEN 1 ELSE 0)
    BY <1>4, <2>2 DEF Numbers, SpentMoves
  <2>4. CASE pc'[w] = "reporting"
    <3>1. /\ Cardinality(Started(j))' = Cardinality(Started(j))
          /\ Cardinality(WorksOn(j))' = Cardinality(WorksOn(j))
      BY <1>2, <1>3, <1>4, <1>7, <2>4 DEF CrewMoves, AtWork, InTry, JobOf
    <3>2. QED
      BY <1>4, <1>6, <1>7, <2>1, <2>3, <3>1 DEF LedgerOK, Numbers, CrewMoves, SpentMoves
  <2>5. CASE pc'[w] = "down" /\ Spend("storage")
    <3>1. /\ Cardinality(Started(j)) = Cardinality(Started(j))' + 1
          /\ Cardinality(WorksOn(j)) = Cardinality(WorksOn(j))' + 1
      BY <1>2, <1>3, <1>4, <2>5 DEF CrewMoves, AtWork, InTry
    <3>2. QED
      BY <1>4, <1>6, <1>7, <2>1, <2>3, <2>5, <3>1 DEF LedgerOK, Numbers, CrewMoves, SpentMoves
  <2>6. QED
    BY <1>7, <2>4, <2>5
<1>9. StageOK(w)'
  <2>1. CASE pc'[w] = "down"
    BY <2>1 DEF StageOK
  <2>2. CASE pc'[w] = "reporting"
    <3>1. /\ JobOf(w)' = j /\ Exhausted(w)' = Exhausted(w)
          /\ Exhausted(w) => status'[j] = "failed"
      BY <1>2, <1>7, <2>2 DEF JobOf, Exhausted
    <3>2. QED
      BY <2>2, <3>1 DEF StageOK
  <2>3. QED
    BY <1>7, <2>1, <2>2
<1>10. pc'[w] \in AtWork => JobOf(w)' = j
  BY <1>2, <1>7 DEF JobOf, AtWork, InTry
<1>11. QED
  BY <1>1, <1>2, <1>8, <1>9, <1>10, OwnAccount

(* The JOB_FAILED or JOB_RETRIED entry, written after the row: by then      *)
(* another process may be at work on a released job, never on a failed one. *)
LEMMA ReportAccount ==
    ASSUME LInv, NEW w \in Worker,
           LogDisposal(w) \/ \E x \in BOOLEAN : LogDisposalRaises(w, x)
    PROVE  Accounts'
<1>1. Boot(w) \/ Advance(w) \/ Disturb(w)
  BY DEF Advance, Disturb
<1>2. PICK j : j = JobOf(w)
  OBVIOUS
<1>3. pc[w] = "reporting"
  BY DEF LogDisposal, LogDisposalRaises, NextIteration, Step
<1>4. /\ TypeInv
      /\ Numbers(j)
      /\ LedgerOK(j) /\ StageOK(w) /\ RowOK(j) /\ ClaimOK(w)
      /\ CrewMoves(w, j)
      /\ SpentMoves
  BY <1>1, <1>2, <1>3, OwnStep DEF AtWork, InTry
<1>5. PICK a \in {"retried", "failed"} : a = IF Exhausted(w) THEN "failed" ELSE "retried"
  OBVIOUS
<1>6. a = "failed" => status[j] = "failed"
  BY <1>2, <1>3, <1>4, <1>5 DEF StageOK
<1>7. UNCHANGED <<status, attempts, successes, outcome>>
  BY DEF LogDisposal, LogDisposalRaises, tableVars, historyVars
<1>8. /\ pc'[w] \in {"loop", "down"}
      /\ \/ Log(j, a)
         \/ trail' = trail /\ Spend("audit")
      /\ Log(j, a) \/ Spend("audit")
  BY <1>2, <1>4, <1>5 DEF LogDisposal, LogDisposalRaises, NextIteration, Die, Step, LogMaybe,
                          TypeInv, TypeOK, WorkerTypeOK
<1>9. /\ \A b \in {"started", "completed"} : trail'[j][b] = trail[j][b]
      /\ \/ /\ a = "failed"
            /\ trail'[j]["failed"] = trail[j]["failed"] + 1
            /\ trail'[j]["retried"] = trail[j]["retried"]
         \/ /\ a = "retried"
            /\ trail'[j]["retried"] = trail[j]["retried"] + 1
            /\ trail'[j]["failed"] = trail[j]["failed"]
         \/ /\ Spend("audit")
            /\ trail' = trail
  BY <1>4, <1>8, Logged DEF AuditAction, Numbers
<1>10. /\ Cardinality(Started(j)) = Cardinality(Started(j))' + 1
       /\ Cardinality(WorksOn(j)) = Cardinality(WorksOn(j))' + 1
  BY <1>2, <1>3, <1>4, <1>8 DEF CrewMoves, AtWork, InTry
<1>11. LedgerOK(j)'
  <2>1. CASE /\ a = "failed"
             /\ trail'[j]["failed"] = trail[j]["failed"] + 1
             /\ trail'[j]["retried"] = trail[j]["retried"]
    BY <1>4, <1>6, <1>7, <1>9, <1>10, <2>1
    DEF LedgerOK, Ends, Numbers, CrewMoves, SpentMoves
  <2>2. CASE /\ a = "retried"
             /\ trail'[j]["retried"] = trail[j]["retried"] + 1
             /\ trail'[j]["failed"] = trail[j]["failed"]
    BY <1>4, <1>7, <1>9, <1>10, <2>2 DEF LedgerOK, Ends, Numbers, CrewMoves, SpentMoves
  <2>3. CASE Spend("audit") /\ trail' = trail
    BY <1>4, <1>7, <1>10, <2>3 DEF LedgerOK, Ends, Numbers, CrewMoves, SpentMoves
  <2>4. QED
    BY <1>9, <2>1, <2>2, <2>3
<1>12. StageOK(w)'
  BY <1>8 DEF StageOK
<1>13. pc'[w] \notin AtWork
  BY <1>8 DEF AtWork, InTry
<1>14. QED
  BY <1>1, <1>2, <1>11, <1>12, <1>13, OwnAccount

(* A kill between reservation and last entry: one fault for one missing     *)
(* entry.                                                                   *)
LEMMA CrashAccount ==
    ASSUME LInv, NEW w \in Worker, Crash(w), pc[w] \in AtWork
    PROVE  Accounts'
<1>1. Boot(w) \/ Advance(w) \/ Disturb(w)
  BY DEF Disturb
<1>2. PICK j : j = JobOf(w)
  OBVIOUS
<1>3. /\ TypeInv
      /\ Numbers(j)
      /\ LedgerOK(j)
      /\ CrewMoves(w, j)
      /\ SpentMoves
  BY <1>1, <1>2, OwnStep
<1>4. /\ UNCHANGED <<status, attempts, successes, outcome, trail>>
      /\ Spend("crash")
  BY DEF Crash, RollBack, tableVars, historyVars
<1>5. pc'[w] = "down"
  BY <1>3 DEF Crash, Die, TypeInv, TypeOK, WorkerTypeOK
<1>6. /\ Cardinality(WorksOn(j)) = Cardinality(WorksOn(j))' + 1
      /\ Cardinality(Started(j))' <= Cardinality(Started(j))
  BY <1>2, <1>3, <1>5 DEF CrewMoves, AtWork, InTry, Numbers
<1>7. LedgerOK(j)'
  BY <1>3, <1>4, <1>6 DEF LedgerOK, Ends, Numbers, CrewMoves, SpentMoves
<1>8. StageOK(w)' /\ pc'[w] \notin AtWork
  BY <1>5 DEF StageOK, AtWork, InTry
<1>9. QED
  BY <1>1, <1>2, <1>7, <1>8, OwnAccount

(* The steps of a process with no job behind it, and a signal.              *)
LEMMA QuietAccount ==
    ASSUME LInv, NEW w \in Worker,
           \/ Boot(w) \/ Signal(w) \/ Leave(w) \/ LimitReached(w) \/ SelectRaises(w)
           \/ \E i \in DOMAIN ready : Select(w, i)
           \/ RejectPayload(w) \/ ReserveRaises(w, FALSE)
           \/ Crash(w) /\ pc[w] \notin AtWork
    PROVE  Accounts'
<1>1. Boot(w) \/ Advance(w) \/ Disturb(w)
  BY DEF Advance, Disturb
<1>2. PICK j : j = JobOf(w)
  OBVIOUS
<1>3. /\ TypeInv /\ BudgetOK
      /\ \A v \in Worker \ {w} : SameProcess(v)
      /\ UNCHANGED left \/ \E d \in Disturbance : Spend(d)
  BY <1>1, ProcessFrame DEF LInv, IInv
<1>4. \A k \in Job : SameLedger(k)
  <2>1. UNCHANGED <<status, attempts, limit, delivered, outcome, successes, trail>>
    BY DEF Boot, Signal, Leave, LimitReached, SelectRaises, Select, RejectPayload,
           ReserveRaises, Crash, Construct, SelectFails, SelectForUpdate, RollBack, tableVars,
           historyVars
  <2>2. QED
    BY <2>1 DEF SameLedger, SameBooks, SameRow
<1>5. \/ SameProcess(w)
      \/ pc[w] \notin AtWork /\ pc'[w] \in {"loop", "down", "reserving"}
  BY <1>3 DEF Boot, Signal, Leave, LimitReached, SelectRaises, Select, RejectPayload,
         ReserveRaises, Crash, BootRun, ReceiveSignal, LeaveLoop, LeaveOnLimit, BeginReserve,
         ReservedNothing, Die, Step, workerVars, SameProcess, AtWork, InTry, TypeInv, TypeOK,
         WorkerTypeOK
<1>6. ASSUME j \in Job
      PROVE  LedgerOK(j)'
  <2>1. \A v \in Worker : /\ v \in WorksOn(j)' <=> v \in WorksOn(j)
                          /\ v \in Started(j)' <=> v \in Started(j)
    <3>1. ASSUME NEW v \in Worker, SameProcess(v)
          PROVE  /\ v \in WorksOn(j)' <=> v \in WorksOn(j)
                 /\ v \in Started(j)' <=> v \in Started(j)
      BY <3>1 DEF WorksOn, Started, SameProcess, JobOf
    <3>2. CASE pc[w] \notin AtWork /\ pc'[w] \in {"loop", "down", "reserving"}
      <4>1. /\ w \notin WorksOn(j)' /\ w \notin WorksOn(j)
            /\ w \notin Started(j)' /\ w \notin Started(j)
        BY <3>2 DEF WorksOn, Started, AtWork, InTry
      <4>2. QED
        BY <1>3, <3>1, <4>1
    <3>3. QED
      BY <1>3, <1>5, <3>1, <3>2
  <2>2. WorksOn(j)' = WorksOn(j) /\ Started(j)' = Started(j)
    BY <2>1 DEF WorksOn, Started
  <2>3. QED
    BY <1>3, <1>4, <1>6, <2>2, SameLedgerOK DEF LInv, Accounts
<1>7. StageOK(w)'
  <2>1. CASE SameProcess(w)
    <3>1. pc[w] \notin {"down", "loop"} => JobOf(w) \in Job
      BY <1>3 DEF TypeInv, HoldsJob
    <3>2. /\ Claims(w) => SameBooks(JobOf(w))
          /\ pc[w] = "reporting" => SameBooks(JobOf(w))
      BY <1>4, <3>1 DEF SameLedger, Claims
    <3>3. QED
      BY <1>3, <2>1, <3>2, SameStageOK DEF LInv, Accounts, SameBooks, SameRow
  <2>2. CASE pc'[w] \in {"loop", "down", "reserving"}
    BY <2>2 DEF StageOK
  <2>3. QED
    BY <1>5, <2>1, <2>2
<1>8. pc'[w] \in AtWork => JobOf(w)' = j
  BY <1>2, <1>5 DEF SameProcess, JobOf, AtWork, InTry
<1>9. QED
  BY <1>1, <1>2, <1>6, <1>7, <1>8, OwnAccount

-------------------------------------------------------------------------------
(* Producers and the passing of time. *)

(* A new row opens an empty account; no process is concerned.               *)
LEMMA ProducerAccount ==
    ASSUME LInv, NEW j \in Job, Producer(j) \/ ProducerRaises(j) \/ DelayElapses(j)
    PROVE  Accounts'
<1>1. TypeInv /\ BudgetOK /\ IInv /\ Next
  BY DEF LInv, IInv, Next
<1>2. /\ UNCHANGED <<workerVars, historyVars>>
      /\ UNCHANGED left \/ \E d \in Disturbance : Spend(d)
      /\ trail' = trail \/ Log(j, "dispatched")
  BY DEF Producer, ProducerRaises, DelayElapses, Push, PushRaises, LogDispatched,
         LogDispatchedRaises, LogMaybe, Disturbance
<1>3. \/ UNCHANGED <<status, attempts, limit>>
      \/ /\ status[j] = "absent"
         /\ status' = [status EXCEPT ![j] = "pending"]
         /\ attempts' = [attempts EXCEPT ![j] = 0]
         /\ \E n \in Int : limit' = [limit EXCEPT ![j] = AtLeastOne(n)]
  BY MySqlWorkersAssumption
  DEF Producer, ProducerRaises, DelayElapses, Push, PushRaises, LogDispatched,
      LogDispatchedRaises, Insert, BecomeVisible, tableVars, MySqlWorkersAssumption
<1>4. \A k \in Job : \A a \in AuditAction \ {"dispatched"} : trail'[k][a] = trail[k][a]
  BY <1>1, <1>2, Logged DEF AuditAction
<1>5. \A k \in Job : /\ trail'[k]["started"] = trail[k]["started"]
                     /\ trail'[k]["completed"] = trail[k]["completed"]
                     /\ trail'[k]["retried"] = trail[k]["retried"]
                     /\ trail'[k]["failed"] = trail[k]["failed"]
  BY <1>4 DEF AuditAction
<1>6. \A k \in Job : k # j \/ UNCHANGED <<status, attempts, limit>> => SameLedger(k)
  BY <1>1, <1>2, <1>3, <1>5
  DEF SameLedger, SameBooks, SameRow, historyVars, TypeInv, TypeOK, TableTypeOK
<1>7. \A v \in Worker : SameProcess(v)
  BY <1>2 DEF SameProcess, workerVars
<1>8. ASSUME NEW k \in Job
      PROVE  /\ WorksOn(k)' = WorksOn(k) /\ Started(k)' = Started(k)
             /\ LedgerOK(k)
  BY <1>7 DEF WorksOn, Started, SameProcess, JobOf, LInv, Accounts
<1>9. ASSUME NEW k \in Job
      PROVE  LedgerOK(k)'
  <2>1. CASE SameLedger(k)
    BY <1>1, <1>2, <1>8, <2>1, SameLedgerOK
  <2>2. CASE ~ SameLedger(k)
    <3>1. /\ k = j
          /\ status[k] = "absent" /\ status'[k] = "pending" /\ attempts'[k] = 0
      BY <1>1, <1>3, <1>6, <2>2 DEF TypeInv, TypeOK, TableTypeOK
    <3>2. /\ Spent("audit") \in Nat /\ Repairs \in Nat /\ Faults \in Nat
          /\ Spent("audit")' \in Nat /\ Repairs' \in Nat /\ Faults' \in Nat
          /\ Spent("audit") <= Spent("audit")'
          /\ Repairs <= Repairs' /\ Faults <= Faults'
      BY <1>1, <1>2, SpentType, SpentGrows
    <3>3. /\ attempts[k] \in Nat /\ successes[k] \in Nat
          /\ \A a \in AuditAction : trail[k][a] \in Nat
      BY <1>1 DEF TypeInv, TypeOK, TableTypeOK
    <3>4. Started(k) \subseteq WorksOn(k)
      BY DEF Started, WorksOn, AtWork
    <3>5. Cardinality(WorksOn(k)) \in Nat /\ Cardinality(Started(k)) \in Nat
      BY <1>8, <3>4, FS_CardinalityType, FS_Subset DEF LedgerOK
    <3>6. /\ Cardinality(WorksOn(k))' = Cardinality(WorksOn(k))
          /\ Cardinality(Started(k))' = Cardinality(Started(k))
          /\ IsFiniteSet(WorksOn(k))' <=> IsFiniteSet(WorksOn(k))
      BY <1>8
    <3>7. Ends(k) \in Nat /\ Ends(k)' = Ends(k)
      BY <1>5, <3>3 DEF Ends, AuditAction
    <3>8. trail[k]["started"] = 0 /\ trail[k]["failed"] = 0
      BY <1>8, <3>1, <3>3 DEF LedgerOK, AuditAction
    <3>9. trail[k]["completed"] \in Nat
      BY <3>3 DEF AuditAction
    <3>10. successes'[k] = successes[k] /\ outcome'[k] = outcome[k]
      BY <1>2 DEF historyVars
    <3>11. QED
      BY <1>5, <1>8, <3>1, <3>2, <3>3, <3>5, <3>6, <3>7, <3>8, <3>9, <3>10 DEF LedgerOK
  <2>3. QED
    BY <2>1, <2>2
<1>10. ASSUME NEW v \in Worker
       PROVE  StageOK(v)'
  <2>1. pc[v] \notin {"down", "loop"} => JobOf(v) \in Job
    BY <1>1 DEF TypeInv, HoldsJob
  <2>2. Claims(v) => status[JobOf(v)] # "absent"
    BY <1>1 DEF IInv, ClaimInv, ClaimOK, Claims
  <2>3. Claims(v) => SameBooks(JobOf(v))
    BY <1>3, <1>6, <2>1, <2>2 DEF SameLedger, Claims
  <2>4. pc[v] = "reporting" /\ status[JobOf(v)] = "failed" => status'[JobOf(v)] = "failed"
    BY <1>1, <2>1, FailedRowIsLeftAlone
  <2>5. QED
    BY <1>1, <1>2, <1>7, <2>3, <2>4, SameStageOK DEF LInv, Accounts
<1>11. QED
  BY <1>9, <1>10 DEF Accounts

-------------------------------------------------------------------------------
(* The theorems about the accounts. *)

LEMMA InitLInv == Init => LInv
<1> SUFFICES ASSUME Init
             PROVE  LInv
  OBVIOUS
<1>1. IInv
  BY InitIInv
<1>2. \A d \in Disturbance : Budget[d] \in Nat /\ left[d] = Budget[d]
  BY MySqlWorkersAssumption DEF Init, MySqlWorkersAssumption
<1>3. BudgetOK
  BY <1>2 DEF BudgetOK
<1>4. Spent("audit") \in Nat /\ Repairs \in Nat /\ Faults \in Nat
  BY <1>1, <1>3, SpentType DEF IInv
<1>5. ASSUME NEW j \in Job
      PROVE  LedgerOK(j)
  <2>1. /\ status[j] = "absent" /\ attempts[j] = 0 /\ successes[j] = 0
        /\ outcome[j] = "none"
        /\ \A a \in AuditAction : trail[j][a] = 0
    BY DEF Init, TableInit
  <2>2. /\ trail[j]["started"] = 0 /\ trail[j]["completed"] = 0
        /\ trail[j]["retried"] = 0 /\ trail[j]["failed"] = 0
    BY <2>1 DEF AuditAction
  <2>3. WorksOn(j) = {} /\ Started(j) = {}
    BY DEF Init, WorkerInit, WorksOn, Started, AtWork, InTry
  <2>4. /\ IsFiniteSet(WorksOn(j)) /\ Cardinality(WorksOn(j)) = 0
        /\ Cardinality(Started(j)) = 0
    BY <2>3, FS_EmptySet
  <2>5. QED
    BY <1>4, <2>1, <2>2, <2>4 DEF LedgerOK, Ends
<1>6. \A w \in Worker : StageOK(w)
  BY DEF Init, WorkerInit, StageOK
<1>7. QED
  BY <1>1, <1>3, <1>5, <1>6 DEF LInv, Accounts

LEMMA NextLInv == LInv /\ [Next]_vars => LInv'
<1>1. ASSUME LInv, NEW w \in Worker, Boot(w) \/ Advance(w)
      PROVE  Accounts'
  BY <1>1, QuietAccount, ReserveAccount, StartAccount, HandlerAccount, AckAccount,
     CompleteAccount, DisposeAccount, ReportAccount
  DEF Advance
<1>2. ASSUME LInv, NEW w \in Worker, Disturb(w)
      PROVE  Accounts'
  <2>1. ASSUME NEW a \in BOOLEAN, ReserveRaises(w, a)
        PROVE  Accounts'
    BY <1>2, <2>1, QuietAccount, ReserveAccount
  <2>2. ASSUME NEW a \in BOOLEAN, NEW d \in BOOLEAN, DisposeRaises(w, d, a)
        PROVE  Accounts'
    BY <1>2, <2>2, DisposeAccount
  <2>3. ASSUME Crash(w)
        PROVE  Accounts'
    BY <1>2, <2>3, CrashAccount, QuietAccount
  <2>4. QED
    BY <1>2, <2>1, <2>2, <2>3, QuietAccount, StartAccount, AckAccount, CompleteAccount,
       ReportAccount
    DEF Disturb
<1>3. ASSUME LInv, UNCHANGED vars
      PROVE  Accounts'
  <2>1. UNCHANGED <<pc, held, status, attempts, outcome, successes, trail, left>>
    BY <1>3 DEF vars, workerVars, tableVars, historyVars
  <2>2. \A j \in Job : WorksOn(j)' = WorksOn(j) /\ Started(j)' = Started(j)
    BY <2>1 DEF WorksOn, Started, JobOf
  <2>3. Repairs' = Repairs /\ Faults' = Faults /\ Spent("audit")' = Spent("audit")
    BY <2>1 DEF Repairs, Faults, Spent
  <2>4. \A j \in Job : LedgerOK(j)'
    BY <1>3, <2>1, <2>2, <2>3 DEF LInv, Accounts, LedgerOK, Ends
  <2>5. \A w \in Worker : StageOK(w)'
    BY <1>3, <2>1, <2>3 DEF LInv, Accounts, StageOK, JobOf, Exhausted
  <2>6. QED
    BY <2>4, <2>5 DEF Accounts
<1>4. LInv /\ [Next]_vars => Accounts'
  BY <1>1, <1>2, <1>3, ProducerAccount DEF Next
<1>5. LInv /\ [Next]_vars => BudgetOK'
  <2>1. ASSUME LInv, Next
        PROVE  UNCHANGED left \/ \E d \in Disturbance : Spend(d)
    <3>1. ASSUME NEW j \in Job, Producer(j) \/ ProducerRaises(j) \/ DelayElapses(j)
          PROVE  UNCHANGED left \/ \E d \in Disturbance : Spend(d)
      BY <3>1 DEF Producer, ProducerRaises, DelayElapses, Push, PushRaises, LogDispatched,
                  LogDispatchedRaises, Disturbance
    <3>2. QED
      BY <2>1, <3>1, ProcessFrame DEF Next, LInv, IInv
  <2>2. ASSUME LInv, UNCHANGED vars
        PROVE  UNCHANGED left
    BY <2>2 DEF vars
  <2>3. QED
    BY <2>1, <2>2, SpentGrows DEF LInv, IInv
<1>6. LInv /\ [Next]_vars => IInv'
  BY NextIInv DEF LInv
<1>7. QED
  BY <1>4, <1>5, <1>6 DEF LInv

LEMMA AccountsBalance == Spec => []LInv
BY InitLInv, NextLInv, PTL DEF Spec

(* A handler that returned is run again only on account of a queue          *)
(* statement or an activity entry that failed: one re-run at most for each, *)
(* and none for a kill.                                                     *)
THEOREM RepeatsAreCounted == Spec => []RepeatsCostFaults
<1>1. ASSUME LInv
      PROVE  RepeatsCostFaults
  <2>1. TypeInv /\ BudgetOK
    BY <1>1 DEF LInv, IInv
  <2>2. Spent("storage") \in Nat /\ Spent("audit") \in Nat
    BY <2>1, SpentType
  <2>3. ASSUME NEW j \in Job
        PROVE  successes[j] <= 1 + Spent("storage") + Spent("audit")
    <3>1. successes[j] \in Nat
      BY <2>1 DEF TypeInv, TypeOK
    <3>2. successes[j] <= Repairs + (IF outcome[j] = "succeeded" THEN 1 ELSE 0)
      BY <1>1 DEF LInv, Accounts, LedgerOK
    <3>3. QED
      BY <2>2, <3>1, <3>2 DEF Repairs
  <2>4. QED
    BY <2>3 DEF RepeatsCostFaults
<1>2. QED
  BY <1>1, AccountsBalance, PTL

(* The activity log claims nothing that did not happen: no start without a  *)
(* counted attempt, no completion without a success, no failure entry of a  *)
(* job that is not failed, and more ends than starts only by as many as     *)
(* entries failed.                                                          *)
THEOREM TrailClaimsNothingFalse == Spec => []TrailIsSound
<1>1. ASSUME LInv
      PROVE  TrailIsSound
  <2>1. TypeInv /\ BudgetOK
    BY <1>1 DEF LInv, IInv
  <2>2. Spent("audit") \in Nat
    BY <2>1, SpentType
  <2>3. ASSUME NEW j \in Job
        PROVE  /\ LedgerOK(j)
               /\ Ends(j) <= trail[j]["started"] + Spent("audit")
    <3>1. LedgerOK(j)
      BY <1>1 DEF LInv, Accounts
    <3>2. Started(j) \subseteq WorksOn(j)
      BY DEF Started, WorksOn, AtWork
    <3>3. Cardinality(Started(j)) \in Nat
      BY <3>1, <3>2, FS_CardinalityType, FS_Subset DEF LedgerOK
    <3>4. \A a \in AuditAction : trail[j][a] \in Nat
      BY <2>1 DEF TypeInv, TypeOK
    <3>5. Ends(j) \in Nat /\ trail[j]["started"] \in Nat
      BY <3>4 DEF Ends, AuditAction
    <3>6. QED
      BY <2>2, <3>1, <3>3, <3>5 DEF LedgerOK
  <2>4. QED
    BY <2>3 DEF TrailIsSound, LedgerOK, Ends
<1>2. QED
  BY <1>1, AccountsBalance, PTL

-------------------------------------------------------------------------------
(* Jobs the log never saw dispatched. *)

(* A set that gains at most one element where its bound gains one.          *)
LEMMA CountGrows ==
    ASSUME NEW S, NEW T, NEW n \in Nat, NEW m \in Nat,
           IsFiniteSet(S), Cardinality(S) <= n,
           \/ T \subseteq S /\ n <= m
           \/ m = n + 1 /\ \E x : T \subseteq S \cup {x}
    PROVE  IsFiniteSet(T) /\ Cardinality(T) <= m
<1>1. Cardinality(S) \in Nat
  BY FS_CardinalityType
<1>2. CASE T \subseteq S /\ n <= m
  <2>1. IsFiniteSet(T) /\ Cardinality(T) <= Cardinality(S) /\ Cardinality(T) \in Nat
    BY <1>2, FS_Subset, FS_CardinalityType
  <2>2. QED
    BY <1>1, <1>2, <2>1
<1>3. CASE m = n + 1 /\ \E x : T \subseteq S \cup {x}
  <2>1. PICK x : T \subseteq S \cup {x}
    BY <1>3
  <2>2. /\ IsFiniteSet(S \cup {x})
        /\ Cardinality(S \cup {x}) <= Cardinality(S) + 1
    BY <1>1, FS_AddElement
  <2>3. /\ IsFiniteSet(T) /\ Cardinality(T) <= Cardinality(S \cup {x})
        /\ Cardinality(T) \in Nat /\ Cardinality(S \cup {x}) \in Nat
    BY <2>1, <2>2, FS_Subset, FS_CardinalityType
  <2>4. QED
    BY <1>1, <1>3, <2>2, <2>3
<1>4. QED
  BY <1>2, <1>3

(* A push is over without its entry only when its INSERT or its entry has   *)
(* failed; processes neither store jobs nor write dispatched entries.       *)
LEMMA UndispatchedStep ==
    ASSUME IInv, Next
    PROVE  \/ Undispatched' \subseteq Undispatched
           \/ /\ Spend("storage") \/ Spend("audit")
              /\ \E x : Undispatched' \subseteq Undispatched \cup {x}
<1>1. /\ TypeInv
      /\ status \in [Job -> Status] /\ dispatching \subseteq Job
      /\ trail \in [Job -> [AuditAction -> Nat]]
  BY DEF IInv, TypeInv, TypeOK, TableTypeOK
<1>2. ASSUME NEW j \in Job, Producer(j) \/ ProducerRaises(j) \/ DelayElapses(j)
      PROVE  \/ Undispatched' \subseteq Undispatched
             \/ /\ Spend("storage") \/ Spend("audit")
                /\ \E x : Undispatched' \subseteq Undispatched \cup {x}
  <2>1. CASE \E d \in BOOLEAN, n \in RequestedAttempts : Push(j, d, n)
    <3>1. /\ status' = [status EXCEPT ![j] = "pending"]
          /\ dispatching' = dispatching \cup {j} /\ trail' = trail
      BY <2>1 DEF Push, Insert
    <3>2. QED
      BY <1>1, <3>1 DEF Undispatched
  <2>2. CASE \E d \in BOOLEAN, n \in RequestedAttempts : PushRaises(j, d, n)
    <3>1. /\ status' = [status EXCEPT ![j] = "pending"]
          /\ UNCHANGED <<dispatching, trail>> /\ Spend("storage")
      BY <2>2 DEF PushRaises, Insert
    <3>2. Undispatched' \subseteq Undispatched \cup {j}
      BY <1>1, <3>1 DEF Undispatched
    <3>3. QED
      BY <3>1, <3>2
  <2>3. CASE LogDispatched(j)
    <3>1. /\ UNCHANGED status /\ dispatching' = dispatching \ {j}
          /\ \A k \in Job : trail'[k]["dispatched"] =
               IF k = j THEN trail[k]["dispatched"] + 1 ELSE trail[k]["dispatched"]
          /\ trail[j]["dispatched"] \in Nat
      BY <1>1, <2>3, Logged DEF LogDispatched, tableVars, AuditAction
    <3>2. QED
      BY <3>1 DEF Undispatched
  <2>4. CASE \E written \in BOOLEAN : LogDispatchedRaises(j, written)
    <3>1. /\ UNCHANGED status /\ dispatching' = dispatching \ {j}
          /\ Spend("audit")
          /\ \A k \in Job : k # j => trail'[k] = trail[k]
      BY <1>1, <2>4 DEF LogDispatchedRaises, LogMaybe, Log, tableVars
    <3>2. Undispatched' \subseteq Undispatched \cup {j}
      BY <1>1, <3>1 DEF Undispatched
    <3>3. QED
      BY <3>1, <3>2
  <2>5. CASE DelayElapses(j)
    BY <2>5 DEF DelayElapses, BecomeVisible, Undispatched
  <2>6. QED
    BY <1>2, <2>1, <2>2, <2>3, <2>4, <2>5 DEF Producer, ProducerRaises
<1>3. ASSUME NEW w \in Worker, Boot(w) \/ Advance(w) \/ Disturb(w)
      PROVE  Undispatched' \subseteq Undispatched
  <2>1. /\ \A k \in Job : k # JobOf(w) => status'[k] = status[k]
        /\ ~ Claims(w) => \A k \in Job : status'[k] = status[k]
    BY <1>1, <1>3, ProcessFrame DEF SameLedger, SameBooks, SameRow
  <2>2. Claims(w) => status[JobOf(w)] # "absent"
    BY DEF IInv, ClaimInv, ClaimOK, Claims
  <2>3. \A k \in Job : status'[k] # "absent" => status[k] # "absent"
    BY <2>1, <2>2
  <2>4. /\ dispatching' = dispatching
        /\ \/ trail' = trail
           \/ \E a \in AuditAction \ {"dispatched"} : Log(JobOf(w), a)
    BY <1>3
    DEF Boot, Advance, Disturb, Signal, Leave, LimitReached, Crash, Select, SelectRaises,
        Reserve, RejectPayload, ReserveRaises, LogStarted, LogStartedRaises, HandlerReturns,
        HandlerThrows, Ack, AckRaises, LogCompleted, LogCompletedRaises, Dispose,
        DisposeRaises, LogDisposal, LogDisposalRaises, LogMaybe, AuditAction
  <2>5. \A k \in Job : trail'[k]["dispatched"] = trail[k]["dispatched"]
    BY <1>1, <2>4 DEF Log, AuditAction
  <2>6. QED
    BY <2>3, <2>4, <2>5 DEF Undispatched
<1>4. QED
  BY <1>2, <1>3 DEF Next

UndispatchedInv ==
    /\ IsFiniteSet(Undispatched)
    /\ Cardinality(Undispatched) <= Repairs

LEMMA UndispatchedInvStep ==
    ASSUME LInv, UndispatchedInv, [Next]_vars
    PROVE  UndispatchedInv'
<1>1. TypeInv /\ BudgetOK /\ IInv
  BY DEF LInv, IInv
<1>2. CASE Next
  <2>1. /\ Repairs \in Nat /\ Repairs' \in Nat /\ Repairs <= Repairs'
        /\ Spend("storage") \/ Spend("audit") => Repairs' = Repairs + 1
    BY <1>1, <1>2, NextSpends, SpentType, SpentGrows
  <2>2. QED
    BY <1>1, <1>2, <2>1, UndispatchedStep, CountGrows DEF UndispatchedInv
<1>3. CASE UNCHANGED vars
  BY <1>3 DEF vars, tableVars, UndispatchedInv, Undispatched, Repairs, Spent
<1>4. QED
  BY <1>2, <1>3

(* Once no process is at work on a job, every attempt the table counts has  *)
(* its last entry in the log, up to one gap for each kill, failed statement *)
(* or failed entry of the whole system; and there are at most as many jobs  *)
(* the log never saw dispatched as statements and entries have failed.      *)
THEOREM TrailLosesOnlyToFaults == Spec => []TrailIsComplete
<1>1. ASSUME LInv, NEW j \in Job, ~\E w \in Worker : pc[w] # "down" /\ JobOf(w) = j
      PROVE  attempts[j] <= Ends(j) + Faults
  <2>1. WorksOn(j) = {}
    BY <1>1 DEF WorksOn, AtWork, InTry
  <2>2. Cardinality(WorksOn(j)) = 0
    BY <2>1, FS_EmptySet
  <2>3. \A a \in AuditAction : trail[j][a] \in Nat
    BY <1>1 DEF LInv, IInv, TypeInv, TypeOK
  <2>4. Ends(j) \in Nat
    BY <2>3 DEF Ends, AuditAction
  <2>5. Faults \in Nat
    BY <1>1, SpentType DEF LInv, IInv
  <2>6. attempts[j] <= Ends(j) + Cardinality(WorksOn(j)) + Faults
    BY <1>1 DEF LInv, Accounts, LedgerOK
  <2>7. QED
    BY <2>2, <2>4, <2>5, <2>6
<1>2. LInv /\ UndispatchedInv => TrailIsComplete
  BY <1>1 DEF TrailIsComplete, Ends, UndispatchedInv, Repairs
<1>3. Init => UndispatchedInv
  <2>1. ASSUME Init
        PROVE  Undispatched = {} /\ Repairs \in Nat
    <3>1. \A j \in Job : status[j] = "absent"
      BY <2>1 DEF Init, TableInit
    <3>2. Repairs \in Nat
      BY <2>1, InitLInv, SpentType DEF LInv, IInv
    <3>3. QED
      BY <3>1, <3>2 DEF Undispatched
  <2>2. QED
    BY <2>1, FS_EmptySet DEF UndispatchedInv
<1>4. LInv /\ UndispatchedInv /\ [Next]_vars => UndispatchedInv'
  BY UndispatchedInvStep
<1>5. QED
  BY <1>2, <1>3, <1>4, AccountsBalance, PTL DEF Spec

-------------------------------------------------------------------------------
(* Stranded rows. *)

IsFault == \E d \in {"crash", "storage", "audit"} : Spend(d)

(* A process that meets no fault keeps the job it claims, or takes its row  *)
(* out of status reserved.                                                  *)
LEMMA KeepsOrSettles ==
    ASSUME IInv, NEW w \in Worker, Boot(w) \/ Advance(w) \/ Disturb(w), ~ IsFault,
           Claims(w), NEW j, j = JobOf(w)
    PROVE  (Claims(w)' /\ JobOf(w)' = j) \/ status'[j] # "reserved"
<1>1. /\ WorkerTypeOK /\ status \in [Job -> Status]
      /\ j \in Job /\ ClaimOK(w)
  BY OwnRow DEF IInv, TypeInv, TypeOK, TableTypeOK
<1>2. \/ Signal(w) \/ Reserve(w) \/ RejectPayload(w) \/ LogStarted(w) \/ HandlerReturns(w)
      \/ HandlerThrows(w) \/ Ack(w) \/ LogCompleted(w)
      \/ \E d \in BOOLEAN : Dispose(w, d)
  BY DEF Boot, Advance, Disturb, IsFault, Leave, LimitReached, Crash, Select, SelectRaises,
         ReserveRaises, LogStartedRaises, AckRaises, LogCompletedRaises, DisposeRaises,
         LogDisposal, LogDisposalRaises, BootRun, LeaveLoop, LeaveOnLimit, BeginReserve,
         NextIteration, Polls, Step, Claims
<1>3. CASE Signal(w)
  BY <1>3 DEF Signal, ReceiveSignal, Claims, JobOf
<1>4. CASE Reserve(w)
  BY <1>1, <1>4 DEF Reserve, EndReserve, Step, Claims, JobOf, WorkerTypeOK
<1>5. CASE LogStarted(w) \/ HandlerReturns(w) \/ HandlerThrows(w) \/ Ack(w)
  BY <1>1, <1>5 DEF LogStarted, HandlerReturns, HandlerThrows, Ack, EnterTry, HandleReturned,
                    EnterCatch, MarkedDone, Step, Claims, JobOf, WorkerTypeOK
<1>6. CASE RejectPayload(w) \/ LogCompleted(w)
  <2>1. status[j] \in {"pending", "done"} /\ status' = status
    BY <1>1, <1>6 DEF RejectPayload, LogCompleted, ReservedNothing, NextIteration, RollBack,
                      Step, ClaimOK, tableVars
  <2>2. QED
    BY <2>1
<1>7. CASE \E d \in BOOLEAN : Dispose(w, d)
  <2>1. status'[j] \in {"pending", "failed"}
    BY <1>1, <1>7 DEF Dispose, Settle, MarkFailed, Release
  <2>2. QED
    BY <2>1
<1>8. QED
  BY <1>2, <1>3, <1>4, <1>5, <1>6, <1>7

(* A step strands no row, or is a fault and strands one.                    *)
LEMMA StrandedStep ==
    ASSUME IInv, Next
    PROVE  \/ Stranded' \subseteq Stranded
           \/ IsFault /\ \E x : Stranded' \subseteq Stranded \cup {x}
<1>1. ASSUME NEW j \in Job, Producer(j) \/ ProducerRaises(j) \/ DelayElapses(j)
      PROVE  Stranded' \subseteq Stranded
  <2>1. /\ UNCHANGED workerVars
        /\ status' = status \/ status' = [status EXCEPT ![j] = "pending"]
    BY <1>1 DEF Producer, ProducerRaises, DelayElapses, Push, PushRaises, LogDispatched,
                LogDispatchedRaises, Insert, BecomeVisible, tableVars
  <2>2. status \in [Job -> Status]
    BY DEF IInv, TypeInv, TypeOK, TableTypeOK
  <2>3. QED
    BY <2>1, <2>2 DEF Stranded, workerVars, Claims, JobOf
<1>2. ASSUME NEW w \in Worker, Boot(w) \/ Advance(w) \/ Disturb(w)
      PROVE  \/ Stranded' \subseteq Stranded
             \/ IsFault /\ \E x : Stranded' \subseteq Stranded \cup {x}
  <2>1. PICK j : j = JobOf(w)
    OBVIOUS
  <2>2. /\ \A v \in Worker \ {w} : SameProcess(v)
        /\ \A k \in Job : k # j => SameLedger(k)
        /\ ~ Claims(w) => \A k \in Job : SameBooks(k)
    BY <1>2, <2>1, ProcessFrame DEF IInv
  <2>3. \A v \in Worker \ {w} : Claims(v) => Claims(v)' /\ JobOf(v)' = JobOf(v)
    BY <2>2 DEF SameProcess, Claims, JobOf
  <2>4. Stranded' \subseteq Stranded \cup {j}
    <3>1. ASSUME NEW k \in Stranded', k # j
          PROVE  k \in Stranded
      <4>1. /\ k \in Job /\ status'[k] = "reserved"
            /\ ~\E v \in Worker : Claims(v)' /\ JobOf(v)' = k
        BY DEF Stranded
      <4>2. status[k] = "reserved"
        BY <2>2, <3>1, <4>1 DEF SameLedger, SameBooks, SameRow
      <4>3. ~\E v \in Worker : Claims(v) /\ JobOf(v) = k
        BY <2>1, <2>3, <3>1, <4>1
      <4>4. QED
        BY <4>1, <4>2, <4>3 DEF Stranded
    <3>2. QED
      BY <3>1
  <2>5. ASSUME ~ IsFault, j \in Stranded'
        PROVE  j \in Stranded
    <3>1. /\ j \in Job /\ status'[j] = "reserved"
          /\ ~\E v \in Worker : Claims(v)' /\ JobOf(v)' = j
      BY <2>5 DEF Stranded
    <3>2. ~ Claims(w)
      BY <1>2, <2>1, <2>5, <3>1, KeepsOrSettles
    <3>3. status[j] = "reserved"
      BY <2>2, <3>1, <3>2 DEF SameBooks, SameRow
    <3>4. QED
      BY <2>3, <3>1, <3>2, <3>3 DEF Stranded
  <2>6. QED
    BY <2>4, <2>5
<1>3. QED
  BY <1>1, <1>2 DEF Next

StrandedInv ==
    /\ IsFiniteSet(Stranded)
    /\ Cardinality(Stranded) <= Faults

LEMMA StrandedInvStep ==
    ASSUME LInv, StrandedInv, [Next]_vars
    PROVE  StrandedInv'
<1>1. TypeInv /\ BudgetOK /\ IInv
  BY DEF LInv, IInv
<1>2. CASE Next
  <2>1. /\ Faults \in Nat /\ Faults' \in Nat /\ Faults <= Faults'
        /\ IsFault => Faults' = Faults + 1
    BY <1>1, <1>2, NextSpends, SpentType, SpentGrows DEF IsFault
  <2>2. QED
    BY <1>1, <1>2, <2>1, StrandedStep, CountGrows DEF StrandedInv
<1>3. CASE UNCHANGED vars
  BY <1>3 DEF vars, workerVars, tableVars, StrandedInv, Stranded, Claims, JobOf, Faults, Spent
<1>4. QED
  BY <1>2, <1>3

(* Every row left in status reserved with no process working on it costs a  *)
(* kill, a failed statement or a failed entry of its own: no order of the   *)
(* processes, no signal, no quota and no restart strands a job.             *)
THEOREM StrandedRowsAreCounted == Spec => []StrandedOnlyByFaults
<1>1. Init => StrandedInv
  <2>1. ASSUME Init
        PROVE  Stranded = {} /\ Faults \in Nat
    <3>1. \A j \in Job : status[j] = "absent"
      BY <2>1 DEF Init, TableInit
    <3>2. Faults \in Nat
      BY <2>1, InitLInv, SpentType DEF LInv, IInv
    <3>3. QED
      BY <3>1, <3>2 DEF Stranded
  <2>2. QED
    BY <2>1, FS_EmptySet DEF StrandedInv
<1>2. LInv /\ StrandedInv /\ [Next]_vars => StrandedInv'
  BY StrandedInvStep
<1>3. StrandedInv => StrandedOnlyByFaults
  BY DEF StrandedInv, StrandedOnlyByFaults
<1>4. QED
  BY <1>1, <1>2, <1>3, AccountsBalance, PTL DEF Spec
===============================================================================
