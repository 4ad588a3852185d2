-------------------------------- MODULE Worker --------------------------------
(***************************************************************************)
(* The control of Worker::run, apart from any storage.  One slot w of      *)
(* Worker is one queue:work process under the supervisor; pc[w] names the  *)
(* statement it is about to execute:                                       *)
(*                                                                         *)
(*   down        no process runs in the slot                               *)
(*   loop        top of the while loop, or sleeping in pause()             *)
(*   reserving   inside reserveNext()                                      *)
(*   starting    about to write the JOB_STARTED activity entry             *)
(*   handling    inside resolveHandler()/handle()                          *)
(*   acking      handle() returned, about to call markDone()               *)
(*   completing  about to write the JOB_COMPLETED activity entry           *)
(*   failing     in the catch block, about to call markFailed()/release()  *)
(*   reporting   about to write the JOB_FAILED/JOB_RETRIED activity entry  *)
(*                                                                         *)
(* Every operator below is the worker's half of a step; a module that      *)
(* composes the worker with a storage conjoins the storage's half.         *)
(***************************************************************************)
EXTENDS QueueTypes

CONSTANT MaxJobs     (* --max-jobs, 0 means unlimited *)

ASSUME WorkerAssumption == MaxJobs \in Nat

VARIABLES
    pc,          (* the next statement of each process                       *)
    held,        (* $reservedJob, the reservation each process works on      *)
    processed,   (* $processed, reported as WorkerResult::processedJobs      *)
    failures,    (* $failed, reported as WorkerResult::failedJobs            *)
    stopping     (* $this->shouldStop, set by SIGTERM and SIGINT             *)

workerVars == <<pc, held, processed, failures, stopping>>

Location == {"down", "loop", "reserving", "starting", "handling", "acking",
             "completing", "failing", "reporting"}

WorkerTypeOK ==
    /\ pc \in [Worker -> Location]
    /\ held \in [Worker -> ReservedJob]
    /\ processed \in [Worker -> Nat]
    /\ failures \in [Worker -> Nat]
    /\ stopping \in [Worker -> BOOLEAN]

WorkerInit ==
    /\ pc = [w \in Worker |-> "down"]
    /\ held = [w \in Worker |-> NoReservation]
    /\ processed = [w \in Worker |-> 0]
    /\ failures = [w \in Worker |-> 0]
    /\ stopping = [w \in Worker |-> FALSE]

-------------------------------------------------------------------------------
(* Helpers. *)

Step(w, from, to) ==
    /\ pc[w] = from
    /\ pc' = [pc EXCEPT ![w] = to]

LetGo(w) == held' = [held EXCEPT ![w] = NoReservation]

CountFailure(w) == failures' = [failures EXCEPT ![w] = @ + 1]

QuotaReached(w) == MaxJobs > 0 /\ processed[w] >= MaxJobs

(* The three checks at the top of the loop have passed.                     *)
Polls(w) == pc[w] = "loop" /\ ~stopping[w] /\ ~QuotaReached(w)

(* Mutants: one attempt too many, one too few.                              *)
ExhaustedLate(w) == held[w].attempt > held[w].maxAttempts

ExhaustedEarly(w) == held[w].attempt + 1 >= held[w].maxAttempts

(* The decision of the catch block: no attempt is left for the job.         *)
Exhausted(w) == held[w].attempt >= held[w].maxAttempts

-------------------------------------------------------------------------------
(* The process. *)

(* run() starts in a fresh process: shouldStop, $processed, $failed reset.  *)
BootRun(w) ==
    /\ Step(w, "down", "loop")
    /\ LetGo(w)
    /\ processed' = [processed EXCEPT ![w] = 0]
    /\ failures' = [failures EXCEPT ![w] = 0]
    /\ stopping' = [stopping EXCEPT ![w] = FALSE]

(* SIGTERM or SIGINT: with asynchronous signals it may arrive anywhere.     *)
ReceiveSignal(w) ==
    /\ pc[w] # "down"
    /\ ~stopping[w]
    /\ stopping' = [stopping EXCEPT ![w] = TRUE]
    /\ UNCHANGED <<pc, held, processed, failures>>

(* Mutant: the stop flag is also honoured between reserveNext() and try.    *)
LeaveLoopHolding(w) ==
    /\ stopping[w] \/ QuotaReached(w)
    /\ pc[w] \in {"loop", "starting"}
    /\ pc' = [pc EXCEPT ![w] = "down"]
    /\ UNCHANGED <<held, processed, failures, stopping>>

(* Mutant: the stop flag ends the polling but not the process.              *)
LeaveLoopOnQuota(w) ==
    /\ QuotaReached(w)
    /\ Step(w, "loop", "down")
    /\ UNCHANGED <<held, processed, failures, stopping>>

(* break with stop reason 'signal' or 'max-jobs'.                           *)
LeaveLoop(w) ==
    /\ stopping[w] \/ QuotaReached(w)
    /\ Step(w, "loop", "down")
    /\ UNCHANGED <<held, processed, failures, stopping>>

(* break with stop reason 'max-time' or 'memory-limit'.                     *)
LeaveOnLimit(w) ==
    /\ Polls(w)
    /\ Step(w, "loop", "down")
    /\ UNCHANGED <<held, processed, failures, stopping>>

(* The process ends without running() returning: a kill, or an exception    *)
(* that leaves run() and is turned into exit code SOFTWARE by the command.  *)
Die(w) ==
    /\ pc[w] # "down"
    /\ pc' = [pc EXCEPT ![w] = "down"]
    /\ LetGo(w)
    /\ UNCHANGED <<processed, failures, stopping>>

-------------------------------------------------------------------------------
(* The job. *)

BeginReserve(w, reservation) ==
    /\ Polls(w)
    /\ Step(w, "loop", "reserving")
    /\ held' = [held EXCEPT ![w] = reservation]
    /\ UNCHANGED <<processed, failures, stopping>>

(* reserveNext() returned a job.                                            *)
EndReserve(w, reservation) ==
    /\ Step(w, "reserving", "starting")
    /\ held' = [held EXCEPT ![w] = reservation]
    /\ UNCHANGED <<processed, failures, stopping>>

(* reserveNext() threw, or returned null: pause, continue.                  *)
ReservedNothing(w) ==
    /\ Step(w, "reserving", "loop")
    /\ LetGo(w)
    /\ UNCHANGED <<processed, failures, stopping>>

EnterTry(w) ==
    /\ Step(w, "starting", "handling")
    /\ UNCHANGED <<held, processed, failures, stopping>>

HandleReturned(w) ==
    /\ Step(w, "handling", "acking")
    /\ UNCHANGED <<held, processed, failures, stopping>>

(* The try block threw at one of its statements: $failed++ in the catch.    *)
EnterCatch(w, from) ==
    /\ Step(w, from, "failing")
    /\ CountFailure(w)
    /\ UNCHANGED <<held, processed, stopping>>

MarkedDone(w) ==
    /\ Step(w, "acking", "completing")
    /\ processed' = [processed EXCEPT ![w] = @ + 1]
    /\ UNCHANGED <<held, failures, stopping>>

Disposed(w) ==
    /\ Step(w, "failing", "reporting")
    /\ UNCHANGED <<held, processed, failures, stopping>>

(* The body of the loop is done with the job.                               *)
NextIteration(w, from) ==
    /\ Step(w, from, "loop")
    /\ LetGo(w)
    /\ UNCHANGED <<processed, failures, stopping>>
===============================================================================
