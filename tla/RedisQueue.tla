------------------------------ MODULE RedisQueue ------------------------------
(***************************************************************************)
(* The three Redis keys of RedisQueue and the commands it sends.  Every    *)
(* command is atomic at the server; nothing joins two of them.             *)
(*                                                                         *)
(* A stored job is the JSON of its id, attempt and max_attempts, of which  *)
(* the id occurs in one push only.  Scores of the sorted set are           *)
(* abstracted to `due', the members whose time has come; the order in      *)
(* which one sweep moves them is left open.                                *)
(***************************************************************************)
EXTENDS QueueTypes, Sequences, SequencesExt

CONSTANTS
    Undecodable,         (* jobs whose payload the consumer cannot deserialize *)
    ZaddReadsScoreFirst  (* the client reads zadd's dictionary as score =>     *)
                         (* member, as pushMeta writes it; Predis 2 reads it   *)
                         (* as member => score                                 *)

ASSUME RedisQueueAssumption ==
    /\ Undecodable \subseteq Job
    /\ ZaddReadsScoreFirst \in BOOLEAN

VARIABLES
    pending,     (* queue:pending, a list                                    *)
    delayed,     (* queue:delayed, the members of a sorted set               *)
    due,         (* the members of delayed whose score is not in the future  *)
    failedList,  (* queue:failed, a list nobody reads                        *)
    sweep,       (* $items, what each process still has to move              *)
    moving       (* the $item each process removed and has not pushed yet    *)

redisVars == <<pending, delayed, due, failedList, sweep, moving>>

Message == [job: Job, attempt: Nat, maxAttempts: Nat]

RedisTypeOK ==
    /\ pending \in Seq(Message)
    /\ delayed \subseteq Message
    /\ due \subseteq delayed
    /\ failedList \in Seq(Message)
    /\ sweep \in [Worker -> SUBSET Message]
    /\ moving \in [Worker -> SUBSET Message]

RedisInit ==
    /\ pending = <<>>
    /\ delayed = {}
    /\ due = {}
    /\ failedList = <<>>
    /\ sweep = [w \in Worker |-> {}]
    /\ moving = [w \in Worker |-> {}]

-------------------------------------------------------------------------------
(* pushMeta. *)

(* What push stores for a new job.                                          *)
Fresh(j, maxAttempts) ==
    [job |-> j, attempt |-> 0, maxAttempts |-> AtLeastOne(maxAttempts)]

(* JobSerializer::deserialize returns a job instead of throwing.            *)
Deserializes(j) == j \notin Undecodable

(* ZADD is refused when the JSON arrives where the score belongs.           *)
Refused(isDelayed) == isDelayed /\ ~ZaddReadsScoreFirst

Store(m, isDelayed) ==
    /\ ~Refused(isDelayed)
    /\ IF isDelayed
       THEN delayed' = delayed \cup {m} /\ pending' = pending
       ELSE pending' = Append(pending, m) /\ delayed' = delayed
    /\ UNCHANGED <<due, failedList, sweep, moving>>

(* The score of a delayed member passes.                                    *)
BecomeDue(m) ==
    /\ m \in delayed \ due
    /\ due' = due \cup {m}
    /\ UNCHANGED <<pending, delayed, failedList, sweep, moving>>

-------------------------------------------------------------------------------
(* reserveNext. *)

(* Mutant: the range begins where it should end.                            *)
ReadNotDue(w) ==
    /\ sweep' = [sweep EXCEPT ![w] = delayed \ due]
    /\ UNCHANGED <<pending, delayed, due, failedList, moving>>

(* ZRANGEBYSCORE.                                                           *)
ReadDue(w) ==
    /\ sweep' = [sweep EXCEPT ![w] = due]
    /\ UNCHANGED <<pending, delayed, due, failedList, moving>>

(* Mutant: the answer of ZREM is ignored.                                   *)
RemoveDueUnchecked(w, m) ==
    /\ m \in sweep[w]
    /\ moving[w] = {}
    /\ sweep' = [sweep EXCEPT ![w] = @ \ {m}]
    /\ delayed' = delayed \ {m}
    /\ due' = due \ {m}
    /\ moving' = [moving EXCEPT ![w] = {m}]
    /\ UNCHANGED <<pending, failedList>>

(* ZREM of one item: it answers 1 to the one process that removed it.       *)
RemoveDue(w, m) ==
    /\ m \in sweep[w]
    /\ moving[w] = {}
    /\ sweep' = [sweep EXCEPT ![w] = @ \ {m}]
    /\ delayed' = delayed \ {m}
    /\ due' = due \ {m}
    /\ moving' = [moving EXCEPT ![w] = {m} \cap delayed]
    /\ UNCHANGED <<pending, failedList>>

(* RPUSH of the item just removed.                                          *)
PushMoved(w) ==
    /\ \E m \in moving[w] : pending' = Append(pending, m)
    /\ moving' = [moving EXCEPT ![w] = {}]
    /\ UNCHANGED <<delayed, due, failedList, sweep>>

Swept(w) == sweep[w] = {} /\ moving[w] = {}

(* Mutant: LINDEX in place of LPOP.                                         *)
PeekHead(w) ==
    /\ Swept(w)
    /\ pending # <<>>
    /\ UNCHANGED redisVars

(* LPOP: the job leaves the server before anybody has worked on it.         *)
PopHead(w) ==
    /\ Swept(w)
    /\ pending # <<>>
    /\ pending' = Tail(pending)
    /\ UNCHANGED <<delayed, due, failedList, sweep, moving>>

(* The reservation made of a popped job.                                    *)
Reservation(m) ==
    [job |-> m.job, attempt |-> m.attempt + 1, maxAttempts |-> AtLeastOne(m.maxAttempts)]

(* The local variables of reserveNext() are gone; what an interrupted sweep *)
(* had removed is in its hands only.                                        *)
Forget(w) ==
    /\ sweep' = [sweep EXCEPT ![w] = {}]
    /\ moving' = [moving EXCEPT ![w] = {}]

-------------------------------------------------------------------------------
(* release and markFailed; markDone sends nothing. *)

(* Mutant: the attempt counter is not carried over.                         *)
StoredFresh(r) == [job |-> r.job, attempt |-> 0, maxAttempts |-> r.maxAttempts]

Stored(r) == [job |-> r.job, attempt |-> r.attempt, maxAttempts |-> r.maxAttempts]

Release(r, isDelayed) == Store(Stored(r), isDelayed)

MarkFailed(r) ==
    /\ failedList' = Append(failedList, Stored(r))
    /\ UNCHANGED <<pending, delayed, due, sweep, moving>>
===============================================================================
