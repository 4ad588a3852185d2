----------------------------- MODULE JobContract ------------------------------
(***************************************************************************)
(* What a queue promises about one job, with no workers, no table and no   *)
(* audit log: a pushed job is delivered to its handler at most $maxAttempts*)
(* times, one delivery at a time; a delivery that succeeded is the last    *)
(* one; a delivery that threw is followed by another one as long as        *)
(* attempts are left, and the job is given up only when none is.           *)
(***************************************************************************)
EXTENDS Integers

CONSTANT Job

VARIABLES
    phase,       (* where each job stands                                   *)
    delivered,   (* how often it was delivered to its handler               *)
    limit        (* $maxAttempts of its push                                *)

vars == <<phase, delivered, limit>>

Phase == {"absent", "queued", "running", "succeeded", "threw", "done", "failed"}

TypeOK ==
    /\ phase \in [Job -> Phase]
    /\ delivered \in [Job -> Nat]
    /\ limit \in [Job -> Nat]

Init ==
    /\ phase = [j \in Job |-> "absent"]
    /\ delivered = [j \in Job |-> 0]
    /\ limit = [j \in Job |-> 0]

Move(j, from, to) ==
    /\ phase[j] = from
    /\ phase' = [phase EXCEPT ![j] = to]

Submit(j) ==
    /\ Move(j, "absent", "queued")
    /\ limit'[j] \in Nat \ {0}
    /\ limit' = [limit EXCEPT ![j] = limit'[j]]
    /\ UNCHANGED delivered

Deliver(j) ==
    /\ Move(j, "queued", "running")
    /\ delivered[j] < limit[j]
    /\ delivered' = [delivered EXCEPT ![j] = @ + 1]
    /\ UNCHANGED limit

Succeed(j) == Move(j, "running", "succeeded") /\ UNCHANGED <<delivered, limit>>

Throw(j) == Move(j, "running", "threw") /\ UNCHANGED <<delivered, limit>>

Settle(j) == Move(j, "succeeded", "done") /\ UNCHANGED <<delivered, limit>>

Requeue(j) ==
    /\ Move(j, "threw", "queued")
    /\ delivered[j] < limit[j]
    /\ UNCHANGED <<delivered, limit>>

GiveUp(j) ==
    /\ Move(j, "threw", "failed")
    /\ delivered[j] = limit[j]
    /\ UNCHANGED <<delivered, limit>>

Next ==
    \E j \in Job :
        \/ Submit(j)
        \/ Deliver(j)
        \/ Succeed(j)
        \/ Throw(j)
        \/ Settle(j)
        \/ Requeue(j)
        \/ GiveUp(j)

Spec == Init /\ [][Next]_vars
===============================================================================
