------------------------------ MODULE QueueTypes ------------------------------
(***************************************************************************)
(* The vocabulary shared by the queue storages and the worker: job ids,    *)
(* worker processes and the reservation a storage hands to a worker.       *)
(***************************************************************************)
EXTENDS Integers

CONSTANTS
    Job,       (* the jobs the application may push, one per QueueJobId       *)
    Worker,    (* the queue:work process slots kept alive by the supervisor   *)
    NoJob      (* the null job id                                             *)

ASSUME QueueTypesAssumption ==
    /\ Job # {}
    /\ Worker # {}
    /\ NoJob \notin Job

(* Mutant: $maxAttempts taken as it comes.                                  *)
AsRequested(n) == n

(* max(1, $maxAttempts): pushes and reservations never use less than one attempt. *)
AtLeastOne(n) == IF n < 1 THEN 1 ELSE n

(* What reserveNext returns: the job and the attempt it is delivered under.  *)
ReservedJob == [job: Job \cup {NoJob}, attempt: Nat, maxAttempts: Nat]

NoReservation == [job |-> NoJob, attempt |-> 0, maxAttempts |-> 0]
===============================================================================
