----------------------------- MODULE MySqlWorkers -----------------------------
(***************************************************************************)
(* Producers, queue:work processes and the queue_jobs table together: one  *)
(* action per statement of Worker::run and MySqlQueue::pushInternal that   *)
(* reads or writes shared state, with every exception it can raise.        *)
(*                                                                         *)
(* Exceptions, kills, signals and limits are bounded by `left'.  A failing *)
(* statement may or may not have taken effect at the server (the           *)
(* connection can drop before or after the commit): the parameter          *)
(* `applied' of the Raises actions says which.                             *)
(***************************************************************************)
EXTENDS Worker, MySqlQueue, FiniteSets

CONSTANTS
    RequestedAttempts,   (* values callers pass as $maxAttempts              *)
    Budget               (* how often each kind of disturbance may happen    *)

(* The supervisor's configuration lists finitely many processes.            *)
(* crash: a process is killed; storage: a queue statement fails; audit: an *)
(* activity entry cannot be written; stop: a signal, or a limit reached.    *)
Disturbance == {"crash", "storage", "audit", "stop"}

ASSUME MySqlWorkersAssumption ==
    /\ RequestedAttempts \subseteq Int
    /\ Budget \in [Disturbance -> Nat]
    /\ IsFiniteSet(Worker)

VARIABLES
    dispatching, (* jobs stored by a push that has not logged them yet       *)
    trail,       (* activity_log entries of each job, by action              *)
    left,        (* what is left of Budget                                   *)
    delivered,   (* history: how often each job entered the try block        *)
    successes,   (* history: how often its handler returned                  *)
    outcome      (* history: how its current delivery went                   *)

historyVars == <<delivered, successes, outcome>>
vars == <<workerVars, tableVars, historyVars, dispatching, trail, left>>

(* The action constants of QueueAuditAction.                                *)
AuditAction == {"dispatched", "started", "completed", "retried", "failed"}

Outcome == {"none", "running", "succeeded", "threw"}

TypeOK ==
    /\ WorkerTypeOK
    /\ TableTypeOK
    /\ dispatching \subseteq Job
    /\ trail \in [Job -> [AuditAction -> Nat]]
    /\ left \in [Disturbance -> Nat]
    /\ delivered \in [Job -> Nat]
    /\ successes \in [Job -> Nat]
    /\ outcome \in [Job -> Outcome]

Init ==
    /\ WorkerInit
    /\ TableInit
    /\ dispatching = {}
    /\ trail = [j \in Job |-> [a \in AuditAction |-> 0]]
    /\ left = Budget
    /\ delivered = [j \in Job |-> 0]
    /\ successes = [j \in Job |-> 0]
    /\ outcome = [j \in Job |-> "none"]

Spend(d) ==
    /\ left[d] > 0
    /\ left' = [left EXCEPT ![d] = @ - 1]

Spent(d) == Budget[d] - left[d]

(* MySqlActivityLogger::log: one INSERT into activity_log.                  *)
Log(j, action) == trail' = [trail EXCEPT ![j][action] = @ + 1]

LogMaybe(j, action, written) ==
    IF written THEN Log(j, action) ELSE trail' = trail

Outcomes(j, o) == outcome' = [outcome EXCEPT ![j] = o]

(* The job a process works on.                                              *)
JobOf(w) == held[w].job

-------------------------------------------------------------------------------
(* MySqlQueue::push and pushDelayed, in a producer process.  The INSERT is  *)
(* committed before the JOB_DISPATCHED entry is written, and workers see    *)
(* the row in between.                                                      *)

Push(j, isDelayed, maxAttempts) ==
    /\ Insert(j, isDelayed, maxAttempts)
    /\ dispatching' = dispatching \cup {j}
    /\ UNCHANGED <<workerVars, historyVars, trail, left>>

(* The INSERT was committed but its answer lost: push throws, row stored.   *)
PushRaises(j, isDelayed, maxAttempts) ==
    /\ Spend("storage")
    /\ Insert(j, isDelayed, maxAttempts)
    /\ UNCHANGED <<workerVars, historyVars, trail, dispatching>>

LogDispatched(j) ==
    /\ j \in dispatching
    /\ dispatching' = dispatching \ {j}
    /\ Log(j, "dispatched")
    /\ UNCHANGED <<workerVars, tableVars, historyVars, left>>

(* The activity logger throws out of push: again the row is stored.         *)
LogDispatchedRaises(j, written) ==
    /\ Spend("audit")
    /\ j \in dispatching
    /\ dispatching' = dispatching \ {j}
    /\ LogMaybe(j, "dispatched", written)
    /\ UNCHANGED <<workerVars, tableVars, historyVars>>

DelayElapses(j) ==
    /\ BecomeVisible(j)
    /\ UNCHANGED <<workerVars, historyVars, trail, dispatching, left>>

-------------------------------------------------------------------------------
(* The process of slot w. *)

Boot(w) ==
    /\ BootRun(w)
    /\ Construct(w)
    /\ UNCHANGED <<historyVars, trail, dispatching, left>>

Signal(w) ==
    /\ Spend("stop")
    /\ ReceiveSignal(w)
    /\ UNCHANGED <<tableVars, historyVars, trail, dispatching>>

Leave(w) ==
    /\ LeaveLoop(w)
    /\ UNCHANGED <<tableVars, historyVars, trail, dispatching, left>>

LimitReached(w) ==
    /\ Spend("stop")
    /\ LeaveOnLimit(w)
    /\ UNCHANGED <<tableVars, historyVars, trail, dispatching>>

(* kill -9, out of memory, power: the server rolls an open transaction back. *)
Crash(w) ==
    /\ Spend("crash")
    /\ Die(w)
    /\ IF pc[w] = "reserving" THEN RollBack(JobOf(w)) ELSE UNCHANGED tableVars
    /\ UNCHANGED <<historyVars, trail, dispatching>>

-------------------------------------------------------------------------------
(* One iteration: reserveNext. *)

Select(w, i) ==
    /\ SelectForUpdate(w, i)
    /\ BeginReserve(w, RowRead(ready[i]))
    /\ UNCHANGED <<historyVars, trail, dispatching, left>>

SelectRaises(w) ==
    /\ Spend("storage")
    /\ Polls(w)
    /\ SelectFails(w)
    /\ UNCHANGED <<workerVars, historyVars, trail, dispatching>>

Reserve(w) ==
    /\ EndReserve(w, held[w])
    /\ Deserializes(JobOf(w))
    /\ CommitReserved(held[w])
    /\ UNCHANGED <<historyVars, trail, dispatching, left>>

(* Mutant: the payload is decoded after the COMMIT.                         *)
RejectPayloadLate(w) ==
    /\ ~ Deserializes(JobOf(w))
    /\ ReservedNothing(w)
    /\ CommitReserved(held[w])
    /\ UNCHANGED <<historyVars, trail, dispatching, left>>

(* The payload does not decode: the exception undoes the UPDATE.            *)
RejectPayload(w) ==
    /\ ~ Deserializes(JobOf(w))
    /\ ReservedNothing(w)
    /\ RollBack(JobOf(w))
    /\ UNCHANGED <<historyVars, trail, dispatching, left>>

(* The UPDATE or the COMMIT fails; a lost COMMIT answer leaves the row      *)
(* reserved while the worker goes on as if it had no job.                   *)
ReserveRaises(w, applied) ==
    /\ Spend("storage")
    /\ ReservedNothing(w)
    /\ IF applied
       THEN Deserializes(JobOf(w)) /\ CommitReserved(held[w])
       ELSE RollBack(JobOf(w))
    /\ UNCHANGED <<historyVars, trail, dispatching>>

-------------------------------------------------------------------------------
(* One iteration: the job. *)

(* The JOB_STARTED entry, then into the try block.                          *)
LogStarted(w) ==
    /\ EnterTry(w)
    /\ Log(JobOf(w), "started")
    /\ delivered' = [delivered EXCEPT ![JobOf(w)] = @ + 1]
    /\ Outcomes(JobOf(w), "running")
    /\ UNCHANGED <<tableVars, successes, dispatching, left>>

(* The entry is written before the try block: its exception leaves run().   *)
LogStartedRaises(w, written) ==
    /\ Spend("audit")
    /\ pc[w] = "starting"
    /\ Die(w)
    /\ LogMaybe(JobOf(w), "started", written)
    /\ UNCHANGED <<tableVars, historyVars, dispatching>>

HandlerReturns(w) ==
    /\ HandleReturned(w)
    /\ successes' = [successes EXCEPT ![JobOf(w)] = @ + 1]
    /\ Outcomes(JobOf(w), "succeeded")
    /\ UNCHANGED <<tableVars, delivered, trail, dispatching, left>>

(* resolveHandler() or handle() throws.                                     *)
HandlerThrows(w) ==
    /\ EnterCatch(w, "handling")
    /\ Outcomes(JobOf(w), "threw")
    /\ UNCHANGED <<tableVars, delivered, successes, trail, dispatching, left>>

Ack(w) ==
    /\ MarkedDone(w)
    /\ MarkDone(JobOf(w))
    /\ UNCHANGED <<historyVars, trail, dispatching, left>>

(* markDone() throws inside the try block: handled as a failed attempt.     *)
AckRaises(w, applied) ==
    /\ Spend("storage")
    /\ EnterCatch(w, "acking")
    /\ IF applied THEN MarkDone(JobOf(w)) ELSE UNCHANGED tableVars
    /\ UNCHANGED <<historyVars, trail, dispatching>>

(* Mutant: release() runs after a success too, as it would in a finally.    *)
LogCompletedReleases(w) ==
    /\ NextIteration(w, "completing")
    /\ Log(JobOf(w), "completed")
    /\ Release(JobOf(w), FALSE)
    /\ UNCHANGED <<historyVars, dispatching, left>>

LogCompleted(w) ==
    /\ NextIteration(w, "completing")
    /\ Log(JobOf(w), "completed")
    /\ UNCHANGED <<tableVars, historyVars, dispatching, left>>

(* Still inside the try block: a job already done enters the catch block.   *)
LogCompletedRaises(w, written) ==
    /\ Spend("audit")
    /\ EnterCatch(w, "completing")
    /\ LogMaybe(JobOf(w), "completed", written)
    /\ UNCHANGED <<tableVars, historyVars, dispatching>>

-------------------------------------------------------------------------------
(* One iteration: the catch block. *)

(* Mutant: a job without attempts left is dropped without markFailed().     *)
SettleOnlyReleases(w, isDelayed) ==
    IF Exhausted(w)
    THEN UNCHANGED <<tableVars, outcome>>
    ELSE Release(JobOf(w), isDelayed) /\ Outcomes(JobOf(w), "none")

(* markFailed() when no attempt is left, otherwise release() with the       *)
(* --sleep delay, which may be zero.                                        *)
Settle(w, isDelayed) ==
    IF Exhausted(w)
    THEN MarkFailed(JobOf(w)) /\ UNCHANGED outcome
    ELSE Release(JobOf(w), isDelayed) /\ Outcomes(JobOf(w), "none")

Dispose(w, isDelayed) ==
    /\ Disposed(w)
    /\ Settle(w, isDelayed)
    /\ UNCHANGED <<delivered, successes, trail, dispatching, left>>

(* markFailed() or release() throws out of the catch block and of run().    *)
DisposeRaises(w, isDelayed, applied) ==
    /\ Spend("storage")
    /\ pc[w] = "failing"
    /\ Die(w)
    /\ IF applied THEN Settle(w, isDelayed) ELSE UNCHANGED <<tableVars, outcome>>
    /\ UNCHANGED <<delivered, successes, trail, dispatching>>

(* Mutants: the entry always says failed; a retry leaves no entry; release()*)
(* follows the entry whatever it says.                                      *)
LogDisposalAlwaysFailed(w) ==
    /\ NextIteration(w, "reporting")
    /\ Log(JobOf(w), "failed")
    /\ UNCHANGED <<tableVars, historyVars, dispatching, left>>

LogDisposalSilent(w) ==
    /\ NextIteration(w, "reporting")
    /\ LogMaybe(JobOf(w), "failed", Exhausted(w))
    /\ UNCHANGED <<tableVars, historyVars, dispatching, left>>

LogDisposalReleases(w) ==
    /\ NextIteration(w, "reporting")
    /\ Log(JobOf(w), IF Exhausted(w) THEN "failed" ELSE "retried")
    /\ Release(JobOf(w), FALSE)
    /\ UNCHANGED <<historyVars, dispatching, left>>

LogDisposal(w) ==
    /\ NextIteration(w, "reporting")
    /\ Log(JobOf(w), IF Exhausted(w) THEN "failed" ELSE "retried")
    /\ UNCHANGED <<tableVars, historyVars, dispatching, left>>

LogDisposalRaises(w, written) ==
    /\ Spend("audit")
    /\ pc[w] = "reporting"
    /\ Die(w)
    /\ LogMaybe(JobOf(w), IF Exhausted(w) THEN "failed" ELSE "retried", written)
    /\ UNCHANGED <<tableVars, historyVars, dispatching>>

-------------------------------------------------------------------------------
(* Specification. *)

Producer(j) ==
    \/ \E isDelayed \in BOOLEAN, n \in RequestedAttempts : Push(j, isDelayed, n)
    \/ LogDispatched(j)

ProducerRaises(j) ==
    \/ \E isDelayed \in BOOLEAN, n \in RequestedAttempts : PushRaises(j, isDelayed, n)
    \/ \E written \in BOOLEAN : LogDispatchedRaises(j, written)

(* What a process does by itself when nothing goes wrong.                   *)
Advance(w) ==
    \/ Leave(w)
    \/ \E i \in DOMAIN ready : Select(w, i)
    \/ Reserve(w)
    \/ RejectPayload(w)
    \/ LogStarted(w)
    \/ HandlerReturns(w)
    \/ HandlerThrows(w)
    \/ Ack(w)
    \/ LogCompleted(w)
    \/ \E isDelayed \in BOOLEAN : Dispose(w, isDelayed)
    \/ LogDisposal(w)

(* What is done to it, or goes wrong.                                       *)
Disturb(w) ==
    \/ Signal(w)
    \/ LimitReached(w)
    \/ Crash(w)
    \/ SelectRaises(w)
    \/ \E applied \in BOOLEAN :
         \/ ReserveRaises(w, applied)
         \/ AckRaises(w, applied)
         \/ \E isDelayed \in BOOLEAN : DisposeRaises(w, isDelayed, applied)
    \/ \E written \in BOOLEAN :
         \/ LogStartedRaises(w, written)
         \/ LogCompletedRaises(w, written)
         \/ LogDisposalRaises(w, written)

Next ==
    \/ \E j \in Job : Producer(j) \/ ProducerRaises(j) \/ DelayElapses(j)
    \/ \E w \in Worker : Boot(w) \/ Advance(w) \/ Disturb(w)

Spec == Init /\ [][Next]_vars

(* The supervisor restarts an ended process (autorestart=true), handlers    *)
(* return or throw, statements answer, and delays elapse.  Nothing is       *)
(* assumed of producers, nor that any disturbance ever happens.             *)
Fairness ==
    /\ \A w \in Worker : WF_vars(Boot(w)) /\ WF_vars(Advance(w))
    /\ \A j \in Job : WF_vars(DelayElapses(j))

FairSpec == Spec /\ Fairness

-------------------------------------------------------------------------------
(* Properties. *)

(* The processes that have a claim on the job they hold: its row is theirs  *)
(* until they have marked it or written it back.                            *)
Claims(w) == pc[w] \in {"reserving", "starting", "handling", "acking",
                        "completing", "failing"}

Faults == Spent("crash") + Spent("storage") + Spent("audit")

(* No two processes ever work on one job: the transaction of reserveInternal *)
(* hands a row to one worker although markDone, release and markFailed      *)
(* check neither its status nor its owner.                                  *)
ExclusiveDelivery ==
    \A v, w \in Worker :
        Claims(v) /\ Claims(w) /\ JobOf(v) = JobOf(w) => v = w

(* $maxAttempts bounds the handling attempts of a job across workers,       *)
(* restarts and faults; the column never runs ahead of it, and every        *)
(* delivery to a handler was counted before it began.                       *)
AttemptsWithinLimit ==
    \A j \in Job : delivered[j] <= attempts[j] /\ attempts[j] <= limit[j]

(* A job is marked failed only after its last permitted attempt has been    *)
(* delivered, never earlier and never without having been tried.            *)
FailedOnlyWhenExhausted ==
    \A j \in Job : status[j] = "failed" => delivered[j] = limit[j]

(* The rows in status reserved that no live process works on: no lease      *)
(* expires and nothing returns them to pending.                             *)
Stranded == {j \in Job : status[j] = "reserved"
                           /\ ~\E w \in Worker : Claims(w) /\ JobOf(w) = j}

(* Only a crash or a failed statement strands a job, and each at most one:  *)
(* signals, limits, quotas and restarts lose nothing.                       *)
StrandedOnlyByFaults == Cardinality(Stranded) <= Faults

(* A handler that returned is run again only because of a failed queue      *)
(* statement or activity entry, and each accounts for at most one re-run;   *)
(* without those it runs to success at most once, crashes included.         *)
RepeatsCostFaults ==
    \A j \in Job : successes[j] <= 1 + Spent("storage") + Spent("audit")

(* The activity log never claims more than happened: every entry is written *)
(* after the change it reports, and an attempt ends in one entry at most.   *)
TrailIsSound ==
    \A j \in Job :
        /\ trail[j]["started"] <= attempts[j]
        /\ trail[j]["completed"] <= successes[j]
        /\ trail[j]["failed"] > 0 => status[j] = "failed"
        /\ trail[j]["completed"] + trail[j]["retried"] + trail[j]["failed"]
             <= trail[j]["started"] + Spent("audit")

(* The stored jobs whose push is over without a dispatched entry: it threw  *)
(* after the INSERT was committed.                                          *)
Undispatched == {j \in Job : /\ status[j] # "absent"
                             /\ j \notin dispatching
                             /\ trail[j]["dispatched"] = 0}

(* The activity log misses nothing without a fault.  With no process        *)
(* between two entries, every attempt the table counts is in the log from   *)
(* start to end, up to one gap per fault; and a row the log never saw       *)
(* dispatched is the work of a failed INSERT or of a failed entry, one each.*)
TrailIsComplete ==
    /\ \A j \in Job :
         (~\E w \in Worker : pc[w] # "down" /\ JobOf(w) = j)
           => attempts[j] <= trail[j]["completed"] + trail[j]["retried"]
                               + trail[j]["failed"] + Faults
    /\ Cardinality(Undispatched) <= Spent("storage") + Spent("audit")

(* A job whose payload does not decode is never delivered, never charged an *)
(* attempt and never leaves the queue, whatever the workers do.             *)
PoisonIsInert ==
    \A j \in Undecodable :
        status[j] \in {"absent", "pending"} /\ attempts[j] = 0 /\ delivered[j] = 0

(* Jobs are started in the order in which they became available, but for    *)
(* those other processes have locked: a row is reserved with at most one    *)
(* older visible row before it per other process, and with none by a        *)
(* process that works without SKIP LOCKED, because the server does not know *)
(* it or because an earlier SELECT failed and reserveNext dropped it, even  *)
(* beside processes that still skip.                                        *)
LineIsKept ==
    [][\A j \in Job, i \in DOMAIN ready :
         status[j] = "pending" /\ status'[j] = "reserved" /\ ready[i] = j =>
           \E w \in Worker :
             /\ pc[w] = "reserving" /\ JobOf(w) = j
             /\ i <= IF skipLocked[w] THEN Cardinality(Worker) ELSE 1]_vars

(* A job given up is never delivered, released or marked again.             *)
FailedIsFinal ==
    [][\A j \in Job : status[j] = "failed" =>
           status'[j] = "failed" /\ delivered'[j] = delivered[j]]_vars

(* A row leaves status done only in a run where a queue statement or an     *)
(* activity entry failed.                                                   *)
DoneIsFinal ==
    [][\A j \in Job : status[j] = "done" /\ status'[j] # "done" =>
           Spent("storage") + Spent("audit") > 0]_vars

(* Every pushed job ends done or failed, unless a fault strands it.         *)
EveryJobSettles ==
    \A j \in Job :
        status[j] = "pending" ~>
            (status[j] \in {"done", "failed"} \/ (j \in Stranded /\ Faults > 0))

(* A process told to stop ends: by itself, after the job at hand, wherever  *)
(* the signal met it.                                                       *)
StopIsHonoured == \A w \in Worker : stopping[w] ~> pc[w] = "down"

(* What WorkerTracingTest expects of --max-jobs: a process that has been    *)
(* through that many jobs ends, whether their handlers returned or threw.   *)
QuotaEndsProcess ==
    \A w \in Worker :
        (MaxJobs > 0 /\ processed[w] + failures[w] >= MaxJobs) ~> pc[w] = "down"

(* What docs/queue.md calls durable: a stored job outlives the process that *)
(* reserved it, and is still brought to an end after that process crashed.  *)
StoredJobsSurviveCrash ==
    \A j \in Job : status[j] = "reserved" ~> status[j] # "reserved"

-------------------------------------------------------------------------------
(* The queue implements the contract of one job.  A reserved row counts as  *)
(* queued until its handler is entered.                                     *)
PhaseOf(j) ==
    CASE status[j] = "pending" -> "queued"
      [] status[j] = "reserved" -> IF outcome[j] = "none" THEN "queued" ELSE outcome[j]
      [] OTHER -> status[j]

Contract == INSTANCE JobContract WITH phase <- [j \in Job |-> PhaseOf(j)]

ImplementsContract == Contract!Spec
===============================================================================
