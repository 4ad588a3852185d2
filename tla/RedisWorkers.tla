----------------------------- MODULE RedisWorkers -----------------------------
(***************************************************************************)
(* queue:work --queue=redis: the same Worker::run over RedisQueue.  A job  *)
(* is popped, not reserved, so until it is pushed back or listed as failed *)
(* the process holds its only copy.                                        *)
(*                                                                         *)
(* The entries of the activity log are left to MySqlWorkers; here they     *)
(* only fail.  All variables of this module but `left' are history.         *)
(***************************************************************************)
EXTENDS Worker, RedisQueue, FiniteSets

CONSTANTS
    RequestedAttempts,   (* values callers pass as $maxAttempts              *)
    Budget               (* how often each kind of disturbance may happen    *)

Disturbance == {"crash", "storage", "audit", "stop"}

ASSUME RedisWorkersAssumption ==
    /\ RequestedAttempts \subseteq Int
    /\ Budget \in [Disturbance -> Nat]

VARIABLES
    left,        (* what is left of Budget                                   *)
    phase,       (* where each job stands in the contract                    *)
    limit,       (* the max_attempts it was pushed with                      *)
    delivered,   (* how often it entered the try block                       *)
    successes,   (* how often its handler returned                           *)
    losses       (* how many jobs the queue dropped by itself, and why       *)

historyVars == <<phase, limit, delivered, successes, losses>>
vars == <<workerVars, redisVars, historyVars, left>>

(* A ZADD the server refuses, a payload that does not decode.               *)
Cause == {"refused", "undecodable"}

Phase == {"absent", "queued", "running", "succeeded", "threw", "done", "failed"}

TypeOK ==
    /\ WorkerTypeOK
    /\ RedisTypeOK
    /\ left \in [Disturbance -> Nat]
    /\ phase \in [Job -> Phase]
    /\ limit \in [Job -> Nat]
    /\ delivered \in [Job -> Nat]
    /\ successes \in [Job -> Nat]
    /\ losses \in [Cause -> Nat]

Init ==
    /\ WorkerInit
    /\ RedisInit
    /\ left = Budget
    /\ phase = [j \in Job |-> "absent"]
    /\ limit = [j \in Job |-> 0]
    /\ delivered = [j \in Job |-> 0]
    /\ successes = [j \in Job |-> 0]
    /\ losses = [c \in Cause |-> 0]

Spend(d) ==
    /\ left[d] > 0
    /\ left' = [left EXCEPT ![d] = @ - 1]

Spent(d) == Budget[d] - left[d]

JobOf(w) == held[w].job

Phases(j, p) == phase' = [phase EXCEPT ![j] = p]

CountLoss(c) == losses' = [losses EXCEPT ![c] = @ + 1]

-------------------------------------------------------------------------------
(* RedisQueue::push and pushDelayed.  A push whose command fails stores     *)
(* nothing; one whose answer is lost is a push nobody knows of.             *)

Push(j, isDelayed, maxAttempts) ==
    /\ phase[j] = "absent"
    /\ Store(Fresh(j, maxAttempts), isDelayed)
    /\ Phases(j, "queued")
    /\ limit' = [limit EXCEPT ![j] = AtLeastOne(maxAttempts)]
    /\ UNCHANGED <<workerVars, delivered, successes, losses, left>>

DelayElapses(m) ==
    /\ BecomeDue(m)
    /\ UNCHANGED <<workerVars, historyVars, left>>

-------------------------------------------------------------------------------
(* The process of slot w. *)

Boot(w) ==
    /\ BootRun(w)
    /\ UNCHANGED <<redisVars, historyVars, left>>

Signal(w) ==
    /\ Spend("stop")
    /\ ReceiveSignal(w)
    /\ UNCHANGED <<redisVars, historyVars>>

Leave(w) ==
    /\ LeaveLoop(w)
    /\ UNCHANGED <<redisVars, historyVars, left>>

LimitReached(w) ==
    /\ Spend("stop")
    /\ LeaveOnLimit(w)
    /\ UNCHANGED <<redisVars, historyVars>>

Crash(w) ==
    /\ Spend("crash")
    /\ Die(w)
    /\ Forget(w)
    /\ UNCHANGED <<pending, delayed, due, failedList, historyVars>>

-------------------------------------------------------------------------------
(* One iteration: reserveNext.  A failing ZRANGEBYSCORE changes nothing.    *)

StartSweep(w) ==
    /\ BeginReserve(w, NoReservation)
    /\ ReadDue(w)
    /\ UNCHANGED <<historyVars, left>>

MoveDue(w, m) ==
    /\ pc[w] = "reserving"
    /\ RemoveDue(w, m)
    /\ UNCHANGED <<workerVars, historyVars, left>>

(* ZREM raises out of reserveNext(): the item is lost if it was removed.    *)
MoveDueRaises(w, m, applied) ==
    /\ Spend("storage")
    /\ ReservedNothing(w)
    /\ m \in sweep[w]
    /\ moving[w] = {}
    /\ Forget(w)
    /\ delayed' = IF applied THEN delayed \ {m} ELSE delayed
    /\ due' = IF applied THEN due \ {m} ELSE due
    /\ UNCHANGED <<pending, failedList, historyVars>>

MakePending(w) ==
    /\ pc[w] = "reserving"
    /\ PushMoved(w)
    /\ UNCHANGED <<workerVars, historyVars, left>>

(* RPUSH raises: the item was already removed from the sorted set.          *)
MakePendingRaises(w, applied) ==
    /\ Spend("storage")
    /\ ReservedNothing(w)
    /\ Forget(w)
    /\ \E m \in moving[w] :
         pending' = IF applied THEN Append(pending, m) ELSE pending
    /\ UNCHANGED <<delayed, due, failedList, historyVars>>

Pop(w) ==
    /\ PopHead(w)
    /\ Deserializes(Head(pending).job)
    /\ EndReserve(w, Reservation(Head(pending)))
    /\ UNCHANGED <<historyVars, left>>

PopNothing(w) ==
    /\ Swept(w)
    /\ pending = <<>>
    /\ ReservedNothing(w)
    /\ UNCHANGED <<redisVars, historyVars, left>>

(* The payload does not decode: the exception cannot put the job back.      *)
DropPayload(w) ==
    /\ ReservedNothing(w)
    /\ PopHead(w)
    /\ ~ Deserializes(Head(pending).job)
    /\ CountLoss("undecodable")
    /\ UNCHANGED <<phase, limit, delivered, successes, left>>

(* The answer of LPOP is lost, and with it the job.                         *)
PopRaises(w) ==
    /\ Spend("storage")
    /\ ReservedNothing(w)
    /\ PopHead(w)
    /\ UNCHANGED historyVars

-------------------------------------------------------------------------------
(* One iteration: the job. *)

LogStarted(w) ==
    /\ EnterTry(w)
    /\ delivered' = [delivered EXCEPT ![JobOf(w)] = @ + 1]
    /\ Phases(JobOf(w), "running")
    /\ UNCHANGED <<redisVars, limit, successes, losses, left>>

(* The activity logger throws before the try block and out of run().        *)
LogStartedRaises(w) ==
    /\ Spend("audit")
    /\ pc[w] = "starting"
    /\ Die(w)
    /\ UNCHANGED <<redisVars, historyVars>>

HandlerReturns(w) ==
    /\ HandleReturned(w)
    /\ successes' = [successes EXCEPT ![JobOf(w)] = @ + 1]
    /\ Phases(JobOf(w), "succeeded")
    /\ UNCHANGED <<redisVars, limit, delivered, losses, left>>

HandlerThrows(w) ==
    /\ EnterCatch(w, "handling")
    /\ Phases(JobOf(w), "threw")
    /\ UNCHANGED <<redisVars, limit, delivered, successes, losses, left>>

Ack(w) ==
    /\ MarkedDone(w)
    /\ Phases(JobOf(w), "done")
    /\ UNCHANGED <<redisVars, limit, delivered, successes, losses, left>>

LogCompleted(w) ==
    /\ NextIteration(w, "completing")
    /\ UNCHANGED <<redisVars, historyVars, left>>

(* Inside the try block: the finished job enters the catch block.           *)
LogCompletedRaises(w) ==
    /\ Spend("audit")
    /\ EnterCatch(w, "completing")
    /\ UNCHANGED <<redisVars, historyVars>>

-------------------------------------------------------------------------------
(* One iteration: the catch block. *)

Settle(w, isDelayed) ==
    IF Exhausted(w)
    THEN MarkFailed(held[w]) /\ Phases(JobOf(w), "failed")
    ELSE Release(held[w], isDelayed) /\ Phases(JobOf(w), "queued")

Dispose(w, isDelayed) ==
    /\ Disposed(w)
    /\ Settle(w, isDelayed)
    /\ UNCHANGED <<limit, delivered, successes, losses, left>>

(* Every release() with --sleep > 0 when ZADD is refused: the exception     *)
(* leaves the catch block and run(), and the job is gone.                   *)
DisposeRefused(w, isDelayed) ==
    /\ pc[w] = "failing"
    /\ ~Exhausted(w)
    /\ Refused(isDelayed)
    /\ Die(w)
    /\ CountLoss("refused")
    /\ UNCHANGED <<redisVars, phase, limit, delivered, successes, left>>

DisposeRaises(w, isDelayed, applied) ==
    /\ Spend("storage")
    /\ pc[w] = "failing"
    /\ Die(w)
    /\ IF applied THEN Settle(w, isDelayed) ELSE UNCHANGED <<redisVars, phase>>
    /\ UNCHANGED <<limit, delivered, successes, losses>>

LogDisposal(w) ==
    /\ NextIteration(w, "reporting")
    /\ UNCHANGED <<redisVars, historyVars, left>>

LogDisposalRaises(w) ==
    /\ Spend("audit")
    /\ pc[w] = "reporting"
    /\ Die(w)
    /\ UNCHANGED <<redisVars, historyVars>>

-------------------------------------------------------------------------------
(* Specification. *)

Producer(j) ==
    \E isDelayed \in BOOLEAN, n \in RequestedAttempts : Push(j, isDelayed, n)

Advance(w) ==
    \/ Leave(w)
    \/ StartSweep(w)
    \/ \E m \in sweep[w] : MoveDue(w, m)
    \/ MakePending(w)
    \/ Pop(w)
    \/ PopNothing(w)
    \/ DropPayload(w)
    \/ LogStarted(w)
    \/ HandlerReturns(w)
    \/ HandlerThrows(w)
    \/ Ack(w)
    \/ LogCompleted(w)
    \/ \E isDelayed \in BOOLEAN : Dispose(w, isDelayed) \/ DisposeRefused(w, isDelayed)
    \/ LogDisposal(w)

Disturb(w) ==
    \/ Signal(w)
    \/ LimitReached(w)
    \/ Crash(w)
    \/ PopRaises(w)
    \/ \E applied \in BOOLEAN :
         \/ \E m \in sweep[w] : MoveDueRaises(w, m, applied)
         \/ MakePendingRaises(w, applied)
         \/ \E isDelayed \in BOOLEAN : DisposeRaises(w, isDelayed, applied)
    \/ LogStartedRaises(w)
    \/ LogCompletedRaises(w)
    \/ LogDisposalRaises(w)

Next ==
    \/ \E j \in Job : Producer(j)
    \/ \E m \in delayed : DelayElapses(m)
    \/ \E w \in Worker : Boot(w) \/ Advance(w) \/ Disturb(w)

Spec == Init /\ [][Next]_vars

(* As for MySqlWorkers: restarts, statements, handlers and time go on.      *)
Fairness ==
    /\ \A w \in Worker : WF_vars(Boot(w)) /\ WF_vars(Advance(w))
    /\ WF_vars(\E m \in delayed : DelayElapses(m))

FairSpec == Spec /\ Fairness

-------------------------------------------------------------------------------
(* Properties. *)

(* The processes that hold the job they popped.                             *)
Claims(w) == pc[w] \in {"starting", "handling", "acking", "completing", "failing"}

Faults == Spent("crash") + Spent("storage") + Spent("audit")

LossCauses == Faults + losses["refused"] + losses["undecodable"]

(* The places a live copy of job j can be in, one element for each.         *)
Copies(j) ==
    {<<"pending", i>> : i \in {k \in DOMAIN pending : pending[k].job = j}}
    \cup {<<"delayed", m>> : m \in {n \in delayed : n.job = j}}
    \cup {<<"moving", w>> : w \in {v \in Worker : \E m \in moving[v] : m.job = j}}
    \cup {<<"held", w>> : w \in {v \in Worker : Claims(v) /\ JobOf(v) = j}}

Failed(j) == \E i \in DOMAIN failedList : failedList[i].job = j

(* A job is never in two places: the pop is atomic, and of the processes    *)
(* that sweep the same due job only the one whose ZREM answers 1 pushes it. *)
(* A job in the failed list has no other copy.                              *)
AtMostOneCopy ==
    \A j \in Job :
        /\ Cardinality(Copies(j)) <= 1
        /\ Failed(j) => Copies(j) = {}

(* The jobs pushed and neither finished nor failed of which no copy is left. *)
Lost == {j \in Job : /\ phase[j] \notin {"absent", "done", "failed"}
                     /\ Copies(j) = {}}

(* Every lost job has a cause of its own: a crash, a failing command or     *)
(* entry, a delayed retry the server refuses, or a payload that does not    *)
(* decode.  Signals, limits, quotas, restarts and handlers lose none, and   *)
(* neither do two processes that sweep or pop at the same time.             *)
LossesAreCounted == Cardinality(Lost) <= LossCauses

(* What the class comment of RedisQueue concedes: jobs are lost by a crash  *)
(* or a failing command, one by each, and undecodable ones.  The retries    *)
(* refused by the server are not among them.                                *)
LostOnlyByFaults == Cardinality(Lost \ Undecodable) <= Faults

(* A finished job runs again only because an activity entry failed.         *)
RepeatsCostAudit == \A j \in Job : successes[j] <= 1 + Spent("audit")

(* Every pushed job ends done, failed or lost to one of those causes:       *)
(* whatever fails on the way, no job waits for ever where some process      *)
(* could still take it.                                                     *)
EveryJobSettles ==
    \A j \in Job :
        phase[j] = "queued" ~>
            (phase[j] \in {"done", "failed"} \/ (j \in Lost /\ LossCauses > 0))

(* The same contract of one job as for the table.                           *)
Contract == INSTANCE JobContract

ImplementsContract == Contract!Spec
===============================================================================
