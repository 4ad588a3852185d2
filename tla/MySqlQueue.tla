------------------------------ MODULE MySqlQueue ------------------------------
(***************************************************************************)
(* The queue_jobs table and the statements MySqlQueue runs against it.     *)
(*                                                                         *)
(* available_at is abstracted to what the SELECT of reserveInternal tells  *)
(* apart: `ready' lists the pending rows whose available_at has passed, in *)
(* the order of (available_at, created_at), and `delayed' is the set of    *)
(* pending rows still in the future.  A row that becomes visible now, by a *)
(* push or release without delay or because its delay elapses, has the     *)
(* latest available_at of all visible rows, hence goes to the end.         *)
(* reserved_at, reserved_by and last_error are written and never read.     *)
(***************************************************************************)
EXTENDS QueueTypes, Sequences, SequencesExt

CONSTANTS
    Undecodable,        (* jobs whose payload the consumer cannot deserialize *)
    EngineSkipsLocked   (* the server understands FOR UPDATE SKIP LOCKED      *)

ASSUME MySqlQueueAssumption ==
    /\ Undecodable \subseteq Job
    /\ EngineSkipsLocked \in BOOLEAN

VARIABLES
    status,      (* column status; "absent" before the INSERT                *)
    attempts,    (* column attempts                                          *)
    limit,       (* column max_attempts                                      *)
    ready,       (* visible pending rows, oldest available_at first          *)
    delayed,     (* pending rows whose available_at is in the future         *)
    locks,       (* rows locked by an open reserve transaction               *)
    skipLocked   (* $skipLockedSupported of each worker process              *)

tableVars == <<status, attempts, limit, ready, delayed, locks, skipLocked>>

Status == {"absent", "pending", "reserved", "done", "failed"}

TableTypeOK ==
    /\ status \in [Job -> Status]
    /\ attempts \in [Job -> Nat]
    /\ limit \in [Job -> Nat]
    /\ ready \in Seq(Job)
    /\ delayed \subseteq Job
    /\ locks \subseteq Job
    /\ skipLocked \in [Worker -> BOOLEAN]

TableInit ==
    /\ status = [j \in Job |-> "absent"]
    /\ attempts = [j \in Job |-> 0]
    /\ limit = [j \in Job |-> 0]
    /\ ready = <<>>
    /\ delayed = {}
    /\ locks = {}
    /\ skipLocked = [w \in Worker |-> TRUE]

(* JobSerializer::deserialize returns a job instead of throwing.            *)
Deserializes(j) == j \notin Undecodable

(* Where a row goes whose status becomes pending with the given delay.      *)
MakeAvailable(j, isDelayed) ==
    IF isDelayed
    THEN delayed' = delayed \cup {j} /\ ready' = ready
    ELSE ready' = Append(ready, j) /\ delayed' = delayed

-------------------------------------------------------------------------------
(* Producers and time. *)

(* The INSERT of pushInternal.                                              *)
Insert(j, isDelayed, maxAttempts) ==
    /\ status[j] = "absent"
    /\ status' = [status EXCEPT ![j] = "pending"]
    /\ attempts' = [attempts EXCEPT ![j] = 0]
    /\ limit' = [limit EXCEPT ![j] = AtLeastOne(maxAttempts)]
    /\ MakeAvailable(j, isDelayed)
    /\ UNCHANGED <<locks, skipLocked>>

(* available_at of a delayed row passes.                                    *)
BecomeVisible(j) ==
    /\ j \in delayed
    /\ delayed' = delayed \ {j}
    /\ ready' = Append(ready, j)
    /\ UNCHANGED <<status, attempts, limit, locks, skipLocked>>

-------------------------------------------------------------------------------
(* reserveNext. *)

(* The statement ends in SKIP LOCKED and the server accepts it.             *)
Skips(w) == skipLocked[w] /\ EngineSkipsLocked

(* Mutant: a SELECT without FOR UPDATE sees the locked rows too.            *)
FirstVisibleUnlocked(w, i) ==
    /\ i \in DOMAIN ready
    /\ status[ready[i]] = "pending"
    /\ \A k \in 1..(i - 1) : Skips(w) /\ ready[k] \in locks

(* Mutant: a SELECT without ORDER BY returns any row that is not locked.    *)
FirstVisibleUnordered(w, i) ==
    /\ i \in DOMAIN ready
    /\ status[ready[i]] = "pending"
    /\ ready[i] \notin locks

(* Position i of ready is the row the SELECT of worker w returns.  With     *)
(* SKIP LOCKED the rows locked by others are passed over; without it the    *)
(* SELECT waits for the first row, and is not enabled until it is free.     *)
FirstVisible(w, i) ==
    /\ i \in DOMAIN ready
    /\ status[ready[i]] = "pending"
    /\ ready[i] \notin locks
    /\ \A k \in 1..(i - 1) : Skips(w) /\ ready[k] \in locks

(* Mutant: the attempt about to start is not counted.                       *)
RowReadStale(j) ==
    [job |-> j, attempt |-> attempts[j], maxAttempts |-> AtLeastOne(limit[j])]

(* The row as read by the SELECT, with $attempt and $maxAttempts computed.  *)
RowRead(j) ==
    [job |-> j, attempt |-> attempts[j] + 1, maxAttempts |-> AtLeastOne(limit[j])]

(* SELECT ... FOR UPDATE [SKIP LOCKED].  A server without SKIP LOCKED       *)
(* rejects the statement; reserveNext then forgets the clause and retries.  *)
SelectForUpdate(w, i) ==
    /\ FirstVisible(w, i)
    /\ locks' = locks \cup {ready[i]}
    /\ skipLocked' = [skipLocked EXCEPT ![w] = Skips(w)]
    /\ UNCHANGED <<status, attempts, limit, ready, delayed>>

(* The SELECT fails.  The message of the database layer quotes the SQL, so  *)
(* it contains SKIP LOCKED whatever the cause, and the clause is dropped.   *)
SelectFails(w) ==
    /\ skipLocked' = [skipLocked EXCEPT ![w] = FALSE]
    /\ UNCHANGED <<status, attempts, limit, ready, delayed, locks>>

(* The UPDATE to reserved, WHERE status is still pending, the payload       *)
(* decoded, COMMIT.  The return of null for no affected row is left out:    *)
(* the row lock keeps the row pending until here.                           *)
CommitReserved(r) ==
    /\ status[r.job] = "pending"
    /\ \E i \in DOMAIN ready :
         /\ ready[i] = r.job
         /\ ready' = RemoveAt(ready, i)
    /\ status' = [status EXCEPT ![r.job] = "reserved"]
    /\ attempts' = [attempts EXCEPT ![r.job] = r.attempt]
    /\ locks' = locks \ {r.job}
    /\ UNCHANGED <<limit, delayed, skipLocked>>

(* An exception in the transaction closure, or a lost connection: ROLLBACK. *)
RollBack(j) ==
    /\ locks' = locks \ {j}
    /\ UNCHANGED <<status, attempts, limit, ready, delayed, skipLocked>>

(* A new process constructs MySqlQueue with skipLockedSupported = true.     *)
Construct(w) ==
    /\ skipLocked' = [skipLocked EXCEPT ![w] = TRUE]
    /\ UNCHANGED <<status, attempts, limit, ready, delayed, locks>>

-------------------------------------------------------------------------------
(* markDone, markFailed, release: one UPDATE each, WHERE id = the job's id  *)
(* and nothing else, so the row's current status plays no part.             *)

MarkDone(j) ==
    /\ status' = [status EXCEPT ![j] = "done"]
    /\ UNCHANGED <<attempts, limit, ready, delayed, locks, skipLocked>>

MarkFailed(j) ==
    /\ status' = [status EXCEPT ![j] = "failed"]
    /\ UNCHANGED <<attempts, limit, ready, delayed, locks, skipLocked>>

Release(j, isDelayed) ==
    /\ status' = [status EXCEPT ![j] = "pending"]
    /\ MakeAvailable(j, isDelayed)
    /\ UNCHANGED <<attempts, limit, locks, skipLocked>>
===============================================================================
