------------------------- MODULE MySqlContractProofs --------------------------
(***************************************************************************)
(* What the MySQL queue promises when nothing but processes fails, and how *)
(* it departs from that when the storage or the activity log fails: the    *)
(* order of reservations, the finality of done rows and the refinement of  *)
(* JobContract.                                                            *)
(***************************************************************************)
EXTENDS MySqlLedgerProofs

-------------------------------------------------------------------------------
(* Done rows. *)

(* A row leaves status done only in the catch block, which a done job       *)
(* enters only by a fault.                                                  *)
LEMMA DoneLeftByFault ==
    ASSUME LInv, Next, NEW j \in Job, status[j] = "done", status'[j] # "done"
    PROVE  Repairs > 0
<1>1. IInv /\ TypeInv
  BY DEF LInv, IInv
<1>2. ASSUME NEW k \in Job, Producer(k) \/ ProducerRaises(k) \/ DelayElapses(k)
      PROVE  FALSE
  BY <1>1, <1>2 DEF Producer, ProducerRaises, DelayElapses, Push, PushRaises, LogDispatched,
              LogDispatchedRaises, Insert, BecomeVisible, tableVars, TypeInv, TypeOK,
              TableTypeOK
<1>3. ASSUME NEW w \in Worker, Boot(w) \/ Advance(w) \/ Disturb(w)
      PROVE  Repairs > 0
  <2>1. j = JobOf(w) /\ Claims(w)
    BY <1>1, <1>3, ProcessFrame DEF SameLedger, SameBooks, SameRow
  <2>2. pc[w] \in {"completing", "failing"}
    BY <1>1, <2>1, OwnRow DEF ClaimOK, Claims
  <2>3. pc[w] = "failing" => Repairs > 0
    <3>1. StageOK(w)
      BY DEF LInv, Accounts
    <3>2. QED
      BY <2>1, <3>1 DEF StageOK
  <2>4. pc[w] = "completing" => status' = status
    BY <1>3 DEF Boot, Advance, Disturb, Signal, Leave, LimitReached, Crash, Select,
           SelectRaises, Reserve, RejectPayload, ReserveRaises, LogStarted,
           LogStartedRaises, HandlerReturns, HandlerThrows, Ack, AckRaises,
           LogCompleted, LogCompletedRaises, Dispose, DisposeRaises, LogDisposal,
           LogDisposalRaises, Step, Construct, SelectForUpdate, SelectFails,
           EndReserve, ReservedNothing, EnterTry, HandleReturned, EnterCatch, MarkedDone,
           Disposed, NextIteration, tableVars, historyVars
  <2>5. QED
    BY <2>2, <2>3, <2>4
<1>4. QED
  BY <1>2, <1>3 DEF Next

(* A done job is released or failed again only in a run where a queue       *)
(* statement or an activity entry failed; crashes, stops and the order of   *)
(* the processes cannot bring it back.                                      *)
THEOREM DoneStays == Spec => DoneIsFinal
<1>1. LInv /\ [Next]_vars =>
        [\A j \in Job : status[j] = "done" /\ status'[j] # "done" =>
           Spent("storage") + Spent("audit") > 0]_vars
  BY DoneLeftByFault DEF Repairs
<1>2. QED
  BY <1>1, AccountsBalance, PTL DEF Spec, DoneIsFinal

-------------------------------------------------------------------------------
(* The line. *)

(* The furthest place in the line from which a process may take a row: it   *)
(* passes over locked rows only, and each other process locks one at most.  *)
Reach(w) == IF skipLocked[w] THEN Cardinality(Worker) ELSE 1

(* The line holds visible pending rows, each once.                          *)
ReadyInv ==
    /\ \A a, b \in DOMAIN ready : ready[a] = ready[b] => a = b
    /\ \A a \in DOMAIN ready : status[ready[a]] = "pending" /\ ready[a] \notin delayed
    /\ \A j \in delayed : status[j] = "pending"

(* A lock belongs to a process, and the row of a process is within reach.   *)
TurnInv ==
    /\ \A j \in locks : \E w \in Worker : pc[w] = "reserving" /\ JobOf(w) = j
    /\ \A w \in Worker : pc[w] = "reserving" =>
         /\ JobOf(w) \notin delayed
         /\ \A i \in DOMAIN ready : ready[i] = JobOf(w) => i <= Reach(w)

LineInv == ReadyInv /\ TurnInv

(* Every open transaction was open before the step, on the same row, and    *)
(* every lock that is left belongs to a transaction that is left.           *)
OpenAsBefore ==
    /\ locks' \subseteq locks
    /\ \A v \in Worker : pc'[v] = "reserving" =>
         SameProcess(v) /\ skipLocked'[v] = skipLocked[v]
    /\ \A v \in Worker : pc[v] = "reserving" /\ JobOf(v) \in locks' => SameProcess(v)

LEMMA OpenRows ==
    ASSUME TypeInv, TurnInv, OpenAsBefore
    PROVE  /\ \A j \in locks' : \E w \in Worker : pc'[w] = "reserving" /\ JobOf(w)' = j
           /\ \A w \in Worker : pc'[w] = "reserving" =>
                /\ pc[w] = "reserving" /\ JobOf(w)' = JobOf(w) /\ Reach(w)' = Reach(w)
                /\ JobOf(w) \in Job
<1>1. ASSUME NEW j \in locks'
      PROVE  \E w \in Worker : pc'[w] = "reserving" /\ JobOf(w)' = j
  <2>1. PICK w \in Worker : pc[w] = "reserving" /\ JobOf(w) = j
    BY DEF TurnInv, OpenAsBefore
  <2>2. SameProcess(w)
    BY <2>1 DEF OpenAsBefore
  <2>3. QED
    BY <2>1, <2>2 DEF SameProcess, JobOf
<1>2. QED
  BY <1>1 DEF OpenAsBefore, SameProcess, JobOf, Reach, TypeInv, HoldsJob

(* A step that leaves the line and the pending rows alone.                  *)
LEMMA LineUntouched ==
    ASSUME TypeInv, LineInv, OpenAsBefore, UNCHANGED <<ready, delayed>>,
           \A j \in Job : status[j] = "pending" => status'[j] = "pending"
    PROVE  LineInv'
<1>1. ready \in Seq(Job) /\ delayed \subseteq Job
  BY DEF TypeInv, TypeOK, TableTypeOK
<1>2. \A a \in DOMAIN ready : ready[a] \in Job
  BY <1>1
<1>3. ReadyInv'
  BY <1>1, <1>2 DEF LineInv, ReadyInv
<1>4. TurnInv'
  BY OpenRows DEF LineInv, TurnInv
<1>5. QED
  BY <1>3, <1>4 DEF LineInv

(* The elements of a line one longer.                                       *)
LEMMA AppendPlaces ==
    ASSUME NEW S, NEW s \in Seq(S), NEW e \in S
    PROVE  /\ Len(s) \in Nat /\ DOMAIN s = 1..Len(s)
           /\ DOMAIN Append(s, e) = 1..(Len(s) + 1)
           /\ \A i \in DOMAIN s : Append(s, e)[i] = s[i]
           /\ Append(s, e)[Len(s) + 1] = e
<1>1. Len(s) \in Nat /\ DOMAIN s = 1..Len(s)
  BY LenProperties
<1>2. QED
  BY <1>1, AppendProperties

(* A row that becomes visible goes to the end; no open transaction has it.  *)
LEMMA JobJoinsLine ==
    ASSUME TypeInv, RowInv, ClaimInv, LineInv, OpenAsBefore,
           NEW j \in Job, status[j] # "pending" \/ j \in delayed,
           ready' = Append(ready, j), delayed' = delayed \ {j},
           status' = [status EXCEPT ![j] = "pending"]
    PROVE  LineInv'
<1>1. ready \in Seq(Job) /\ delayed \subseteq Job /\ status \in [Job -> Status]
  BY DEF TypeInv, TypeOK, TableTypeOK
<1>2. \A a \in DOMAIN ready : ready[a] # j
  BY DEF LineInv, ReadyInv
<1>3. /\ Len(ready) \in Nat /\ DOMAIN ready = 1..Len(ready)
      /\ DOMAIN ready' = 1..(Len(ready) + 1)
      /\ \A i \in DOMAIN ready : ready'[i] = ready[i]
      /\ ready'[Len(ready) + 1] = j
  BY <1>1, AppendPlaces
<1>4. \A a \in DOMAIN ready' : a \in DOMAIN ready \/ a = Len(ready) + 1
  BY <1>3
<1>5. \A a \in DOMAIN ready : ready[a] \in Job
  BY <1>1
<1>6. ReadyInv'
  <2>1. \A a, b \in DOMAIN ready' : ready'[a] = ready'[b] => a = b
    BY <1>2, <1>3, <1>4 DEF LineInv, ReadyInv
  <2>2. \A a \in DOMAIN ready' : status'[ready'[a]] = "pending" /\ ready'[a] \notin delayed'
    BY <1>1, <1>3, <1>4, <1>5 DEF LineInv, ReadyInv
  <2>3. \A k \in delayed' : status'[k] = "pending"
    BY <1>1 DEF LineInv, ReadyInv
  <2>4. QED
    BY <2>1, <2>2, <2>3 DEF ReadyInv
<1>7. ASSUME NEW w \in Worker, pc'[w] = "reserving"
      PROVE  /\ JobOf(w)' \notin delayed'
             /\ \A i \in DOMAIN ready' : ready'[i] = JobOf(w)' => i <= Reach(w)'
  <2>1. /\ pc[w] = "reserving" /\ JobOf(w)' = JobOf(w) /\ Reach(w)' = Reach(w)
        /\ status[JobOf(w)] = "pending" /\ JobOf(w) \notin delayed
    BY <1>7, OpenRows DEF LineInv, TurnInv, ClaimInv, ClaimOK
  <2>2. JobOf(w) # j
    BY <2>1
  <2>3. QED
    BY <2>1, <2>2, <1>3, <1>4 DEF LineInv, TurnInv
<1>8. QED
  BY <1>6, <1>7, OpenRows DEF LineInv, TurnInv

(* A row put off until later.                                               *)
LEMMA JobIsDelayed ==
    ASSUME TypeInv, ClaimInv, LineInv, OpenAsBefore, NEW j \in Job, status[j] # "pending",
           ready' = ready, delayed' = delayed \cup {j},
           status' = [status EXCEPT ![j] = "pending"]
    PROVE  LineInv'
<1>1. ready \in Seq(Job) /\ delayed \subseteq Job /\ status \in [Job -> Status]
  BY DEF TypeInv, TypeOK, TableTypeOK
<1>2. \A a \in DOMAIN ready : ready[a] # j /\ ready[a] \in Job
  BY <1>1 DEF LineInv, ReadyInv
<1>3. ReadyInv'
  BY <1>1, <1>2 DEF LineInv, ReadyInv
<1>4. ASSUME NEW w \in Worker, pc'[w] = "reserving"
      PROVE  JobOf(w)' \notin delayed'
  BY <1>4, OpenRows DEF LineInv, TurnInv, ClaimInv, ClaimOK
<1>5. QED
  BY <1>3, <1>4, OpenRows DEF LineInv, TurnInv

-------------------------------------------------------------------------------
(* Taking a row. *)

(* No more rows can be locked by other processes than there are processes.  *)
LEMMA LockedByOthers ==
    ASSUME TypeInv, LineInv, NEW w \in Worker, pc[w] # "reserving", NEW i \in DOMAIN ready,
           \A k \in 1..(i - 1) : ready[k] \in locks
    PROVE  i <= Cardinality(Worker)
<1> DEFINE Others == Worker \ {w}
           before == 1..(i - 1)
           locker == [k \in before |->
                        CHOOSE v \in Others : pc[v] = "reserving" /\ JobOf(v) = ready[k]]
<1>1. ready \in Seq(Job) /\ i \in 1..Len(ready) /\ Len(ready) \in Nat
      /\ DOMAIN ready = 1..Len(ready)
  BY LenProperties DEF TypeInv, TypeOK, TableTypeOK
<1>2. /\ IsFiniteSet(Worker) /\ Cardinality(Worker) \in Nat
      /\ IsFiniteSet(Others) /\ Cardinality(Others) = Cardinality(Worker) - 1
  BY MySqlWorkersAssumption, FS_CardinalityType, FS_RemoveElement
  DEF MySqlWorkersAssumption
<1>3. IsFiniteSet(before) /\ Cardinality(before) = i - 1
  <2>1. i - 1 \in Int /\ 1 \in Int
    BY <1>1
  <2>2. /\ IsFiniteSet(1..(i - 1))
        /\ Cardinality(1..(i - 1)) = IF 1 > i - 1 THEN 0 ELSE (i - 1) - 1 + 1
    BY <2>1, FS_Interval
  <2>3. QED
    BY <1>1, <2>2
<1>4. \A k \in before : \E v \in Others : pc[v] = "reserving" /\ JobOf(v) = ready[k]
  BY DEF LineInv, TurnInv
<1>5. locker \in [before -> Others]
  BY <1>4
<1>6. \A k \in before : JobOf(locker[k]) = ready[k]
  BY <1>4
<1>7. \A x, y \in before : locker[x] = locker[y] => x = y
  <2>1. \A x, y \in before : locker[x] = locker[y] => ready[x] = ready[y]
    BY <1>6
  <2>2. before \subseteq DOMAIN ready
    BY <1>1
  <2>3. QED
    BY <2>1, <2>2 DEF LineInv, ReadyInv
<1>8. ~ (Cardinality(Others) < Cardinality(before))
  <2> HIDE DEF locker, before, Others
  <2>1. QED
    BY <1>2, <1>3, <1>5, <1>7, FS_PigeonHole
<1>9. QED
  BY <1>1, <1>2, <1>3, <1>8

(* The row a SELECT returns is within reach of the process, by SKIP LOCKED  *)
(* or because it waited for the head of the line.                           *)
LEMMA SelectWithinReach ==
    ASSUME TypeInv, LineInv, NEW w \in Worker, NEW i \in DOMAIN ready, Select(w, i)
    PROVE  LineInv'
<1>1. /\ ready \in Seq(Job) /\ pc \in [Worker -> Location]
      /\ held \in [Worker -> ReservedJob] /\ skipLocked \in [Worker -> BOOLEAN]
  BY DEF TypeInv, TypeOK, TableTypeOK, WorkerTypeOK
<1>2. i \in 1..Len(ready) /\ Len(ready) \in Nat
  BY <1>1, LenProperties
<1>3. /\ UNCHANGED <<status, ready, delayed>>
      /\ locks' = locks \cup {ready[i]}
      /\ pc[w] = "loop" /\ pc'[w] = "reserving" /\ JobOf(w)' = ready[i]
      /\ skipLocked'[w] = Skips(w)
      /\ \A v \in Worker \ {w} : SameProcess(v) /\ skipLocked'[v] = skipLocked[v]
  BY <1>1 DEF Select, SelectForUpdate, BeginReserve, Step, SameProcess, JobOf, RowRead
<1>4. i <= Reach(w)'
  <2>1. \A k \in 1..(i - 1) : Skips(w) /\ ready[k] \in locks
    BY DEF Select, SelectForUpdate, FirstVisible
  <2>2. CASE Skips(w)
    BY <1>3, <2>1, <2>2, LockedByOthers DEF Reach
  <2>3. CASE ~ Skips(w)
    <3>1. i = 1
      BY <1>2, <2>1, <2>3
    <3>2. QED
      BY <1>3, <2>3, <3>1 DEF Reach
  <2>4. QED
    BY <2>2, <2>3
<1>5. ReadyInv'
  BY <1>3 DEF LineInv, ReadyInv
<1>6. ASSUME NEW j \in locks'
      PROVE  \E v \in Worker : pc'[v] = "reserving" /\ JobOf(v)' = j
  <2>1. CASE j = ready[i]
    BY <1>3, <2>1
  <2>2. CASE j \in locks
    BY <1>3, <2>2 DEF LineInv, TurnInv, SameProcess, JobOf
  <2>3. QED
    BY <1>3, <2>1, <2>2
<1>7. ASSUME NEW v \in Worker, pc'[v] = "reserving"
      PROVE  /\ JobOf(v)' \notin delayed'
             /\ \A a \in DOMAIN ready' : ready'[a] = JobOf(v)' => a <= Reach(v)'
  <2>1. CASE v = w
    <3>1. \A a \in DOMAIN ready : ready[a] = ready[i] => a = i
      BY DEF LineInv, ReadyInv
    <3>2. ready[i] \notin delayed
      BY DEF LineInv, ReadyInv
    <3>3. QED
      BY <1>3, <1>4, <2>1, <3>1, <3>2
  <2>2. CASE v # w
    <3>1. pc[v] = "reserving" /\ JobOf(v)' = JobOf(v) /\ Reach(v)' = Reach(v)
      BY <1>3, <1>7, <2>2 DEF SameProcess, JobOf, Reach
    <3>2. QED
      BY <1>3, <3>1 DEF LineInv, TurnInv
  <2>3. QED
    BY <2>1, <2>2
<1>8. QED
  BY <1>5, <1>6, <1>7 DEF LineInv, TurnInv

(* Where the rows stand once one has left the line.                         *)
LEMMA RemovePlaces ==
    ASSUME NEW S, NEW s \in Seq(S), NEW p \in DOMAIN s
    PROVE  /\ DOMAIN s = 1..Len(s) /\ Len(s) \in Nat
           /\ DOMAIN RemoveAt(s, p) = 1..(Len(s) - 1)
           /\ \A i \in DOMAIN RemoveAt(s, p) :
                RemoveAt(s, p)[i] = s[IF i < p THEN i ELSE i + 1]
<1> DEFINE head == SubSeq(s, 1, p - 1)
           tail == SubSeq(s, p + 1, Len(s))
<1>1. p \in 1..Len(s) /\ Len(s) \in Nat /\ DOMAIN s = 1..Len(s)
  BY LenProperties
<1>2. /\ head \in Seq(S) /\ Len(head) = p - 1
      /\ \A i \in 1..(p - 1) : head[i] = s[i]
  BY <1>1, SubSeqProperties
<1>3. /\ tail \in Seq(S) /\ Len(tail) = Len(s) - p
      /\ \A i \in 1..(Len(s) - p) : tail[i] = s[p + i]
  BY <1>1, SubSeqProperties
<1>4. RemoveAt(s, p) = head \o tail
  BY DEF RemoveAt
<1> HIDE DEF head, tail
<1>5. /\ head \o tail \in Seq(S)
      /\ Len(head \o tail) = Len(s) - 1
      /\ \A i \in 1..(Len(s) - 1) : (head \o tail)[i] =
            IF i <= p - 1 THEN head[i] ELSE tail[i - (p - 1)]
  <2>1. /\ head \o tail \in Seq(S)
        /\ Len(head \o tail) = Len(head) + Len(tail)
        /\ \A i \in 1..(Len(head) + Len(tail)) : (head \o tail)[i] =
              IF i <= Len(head) THEN head[i] ELSE tail[i - Len(head)]
    BY <1>2, <1>3, ConcatProperties
  <2>2. Len(head) + Len(tail) = Len(s) - 1
    BY <1>1, <1>2, <1>3
  <2>3. QED
    BY <1>2, <2>1, <2>2
<1>6. DOMAIN (head \o tail) = 1..(Len(s) - 1)
  BY <1>5, LenProperties
<1>7. ASSUME NEW i \in 1..(Len(s) - 1)
      PROVE  (head \o tail)[i] = s[IF i < p THEN i ELSE i + 1]
  <2>1. CASE i < p
    BY <1>1, <1>2, <1>5, <1>7, <2>1
  <2>2. CASE ~ (i < p)
    <3>1. i - (p - 1) \in 1..(Len(s) - p) /\ p + (i - (p - 1)) = i + 1
      BY <1>1, <1>7, <2>2
    <3>2. (head \o tail)[i] = tail[i - (p - 1)] /\ ~ (i <= p - 1)
      BY <1>1, <1>5, <1>7, <2>2
    <3>3. tail[i - (p - 1)] = s[p + (i - (p - 1))]
      BY <1>3, <3>1
    <3>4. QED
      BY <2>2, <3>1, <3>2, <3>3
  <2>3. QED
    BY <2>1, <2>2
<1>8. QED
  BY <1>1, <1>4, <1>6, <1>7

(* A committed reservation takes one row out of the line: the rows behind   *)
(* it move up, those of the other open transactions among them.             *)
LEMMA CommitShortensLine ==
    ASSUME IInv, LineInv, NEW w \in Worker, Reserve(w) \/ ReserveRaises(w, TRUE)
    PROVE  LineInv'
<1> DEFINE j == JobOf(w)
<1>1. /\ TypeInv
      /\ ready \in Seq(Job) /\ delayed \subseteq Job
      /\ status \in [Job -> Status] /\ pc \in [Worker -> Location]
      /\ held \in [Worker -> ReservedJob]
  BY DEF IInv, TypeInv, TypeOK, TableTypeOK, WorkerTypeOK
<1>2. /\ pc[w] = "reserving" /\ pc'[w] # "reserving"
      /\ \A v \in Worker \ {w} : SameProcess(v)
  BY <1>1 DEF Reserve, ReserveRaises, EndReserve, ReservedNothing, LetGo, Step, SameProcess
<1>3. /\ status' = [status EXCEPT ![j] = "reserved"]
      /\ locks' = locks \ {j}
      /\ UNCHANGED <<delayed, skipLocked>>
  BY DEF Reserve, ReserveRaises, CommitReserved, JobOf
<1>4. PICK p \in DOMAIN ready : ready[p] = j /\ ready' = RemoveAt(ready, p)
  BY DEF Reserve, ReserveRaises, CommitReserved, JobOf
<1>5. /\ DOMAIN ready = 1..Len(ready) /\ Len(ready) \in Nat
      /\ DOMAIN ready' = 1..(Len(ready) - 1)
      /\ \A i \in DOMAIN ready' : ready'[i] = ready[IF i < p THEN i ELSE i + 1]
  BY <1>1, <1>4, RemovePlaces
<1>6. ASSUME NEW i \in DOMAIN ready'
      PROVE  \E a \in DOMAIN ready : /\ a = (IF i < p THEN i ELSE i + 1)
                                     /\ a # p /\ ready'[i] = ready[a] /\ i <= a
  BY <1>5, <1>6
<1>7. \A a \in DOMAIN ready : a # p => ready[a] # j /\ ready[a] \in Job
  BY <1>1, <1>4 DEF LineInv, ReadyInv
<1>8. ReadyInv'
  <2>1. ASSUME NEW x \in DOMAIN ready', NEW y \in DOMAIN ready', ready'[x] = ready'[y]
        PROVE  x = y
    <3>1. PICK a \in DOMAIN ready : a = (IF x < p THEN x ELSE x + 1) /\ ready'[x] = ready[a]
      BY <1>6
    <3>2. PICK b \in DOMAIN ready : b = (IF y < p THEN y ELSE y + 1) /\ ready'[y] = ready[b]
      BY <1>6
    <3>3. a = b
      BY <2>1, <3>1, <3>2 DEF LineInv, ReadyInv
    <3>4. QED
      BY <1>5, <3>1, <3>2, <3>3
  <2>2. ASSUME NEW x \in DOMAIN ready'
        PROVE  status'[ready'[x]] = "pending" /\ ready'[x] \notin delayed'
    <3>1. PICK a \in DOMAIN ready : a # p /\ ready'[x] = ready[a]
      BY <1>6
    <3>2. QED
      BY <1>1, <1>3, <1>7, <3>1 DEF LineInv, ReadyInv
  <2>3. \A k \in delayed' : status'[k] = "pending"
    BY <1>1, <1>2, <1>3 DEF LineInv, ReadyInv, TurnInv
  <2>4. QED
    BY <2>1, <2>2, <2>3 DEF ReadyInv
<1>9. ASSUME NEW k \in locks'
      PROVE  \E v \in Worker : pc'[v] = "reserving" /\ JobOf(v)' = k
  <2>1. PICK v \in Worker : pc[v] = "reserving" /\ JobOf(v) = k
    BY <1>3 DEF LineInv, TurnInv
  <2>2. v # w
    BY <1>3, <2>1
  <2>3. QED
    BY <1>2, <2>1, <2>2 DEF SameProcess, JobOf
<1>10. ASSUME NEW v \in Worker, pc'[v] = "reserving"
       PROVE  /\ JobOf(v)' \notin delayed'
              /\ \A x \in DOMAIN ready' : ready'[x] = JobOf(v)' => x <= Reach(v)'
  <2>1. pc[v] = "reserving" /\ JobOf(v)' = JobOf(v) /\ Reach(v)' = Reach(v)
    BY <1>2, <1>3, <1>10 DEF SameProcess, JobOf, Reach
  <2>2. Reach(v) \in Int
    BY MySqlWorkersAssumption, FS_CardinalityType DEF Reach, MySqlWorkersAssumption
  <2>3. ASSUME NEW x \in DOMAIN ready', ready'[x] = JobOf(v)'
        PROVE  x <= Reach(v)'
    <3>1. PICK a \in DOMAIN ready : ready'[x] = ready[a] /\ x <= a
      BY <1>6
    <3>2. a <= Reach(v)
      BY <2>1, <2>3, <3>1 DEF LineInv, TurnInv
    <3>3. QED
      BY <1>5, <2>1, <2>2, <3>1, <3>2
  <2>4. QED
    BY <1>3, <2>1, <2>3 DEF LineInv, TurnInv
<1>11. QED
  BY <1>8, <1>9, <1>10 DEF LineInv, TurnInv

(* All steps but a SELECT and a committed reservation leave the other open  *)
(* transactions open; a process that gives up its own rolls it back.        *)
LEMMA OthersStayOpen ==
    ASSUME TypeInv, NEW w \in Worker, Boot(w) \/ Advance(w) \/ Disturb(w),
           ~ Reserve(w), ~ ReserveRaises(w, TRUE), ~\E i \in DOMAIN ready : Select(w, i)
    PROVE  OpenAsBefore
<1>1. /\ pc \in [Worker -> Location] /\ skipLocked \in [Worker -> BOOLEAN]
      /\ \A v \in Worker \ {w} : SameProcess(v)
  BY ProcessFrame DEF TypeInv, TypeOK, WorkerTypeOK, TableTypeOK
<1>2. \A a \in BOOLEAN : ReserveRaises(w, a) => a = FALSE
  OBVIOUS
<1>3. /\ locks' = locks \/ locks' = locks \ {JobOf(w)}
      /\ pc[w] = "reserving" => locks' = locks \ {JobOf(w)} \/ SameProcess(w)
      /\ pc'[w] = "reserving" => SameProcess(w) /\ skipLocked' = skipLocked
      /\ \A v \in Worker \ {w} : skipLocked'[v] = skipLocked[v]
  <2>1. locks' = locks \/ locks' = locks \ {JobOf(w)}
    BY <1>2
    DEF Boot, Advance, Disturb, Signal, Leave, LimitReached, Crash, SelectRaises,
        RejectPayload, ReserveRaises, LogStarted, LogStartedRaises, HandlerReturns,
        HandlerThrows, Ack, AckRaises, LogCompleted, LogCompletedRaises, Dispose,
        DisposeRaises, LogDisposal, LogDisposalRaises, Construct, SelectFails, RollBack,
        MarkDone, MarkFailed, Release, Settle, tableVars
  <2>2. pc[w] = "reserving" => locks' = locks \ {JobOf(w)} \/ SameProcess(w)
    BY <1>2
    DEF Boot, Advance, Disturb, Signal, Leave, LimitReached, Crash, SelectRaises,
        RejectPayload, ReserveRaises, LogStarted, LogStartedRaises, HandlerReturns,
        HandlerThrows, Ack, AckRaises, LogCompleted, LogCompletedRaises, Dispose,
        DisposeRaises, LogDisposal, LogDisposalRaises, RollBack, BootRun, ReceiveSignal,
        LeaveLoop, LeaveOnLimit, Polls, EnterTry, HandleReturned, EnterCatch, MarkedDone,
        Disposed, NextIteration, Step, SameProcess
  <2>3. pc'[w] = "reserving" => SameProcess(w) /\ skipLocked' = skipLocked
    BY <1>1, <1>2
    DEF Boot, Advance, Disturb, Signal, Leave, LimitReached, Crash, SelectRaises,
        RejectPayload, ReserveRaises, LogStarted, LogStartedRaises, HandlerReturns,
        HandlerThrows, Ack, AckRaises, LogCompleted, LogCompletedRaises, Dispose,
        DisposeRaises, LogDisposal, LogDisposalRaises, BootRun, ReceiveSignal, LeaveLoop,
        LeaveOnLimit, Polls, Die, ReservedNothing, EnterTry, HandleReturned, EnterCatch,
        MarkedDone, Disposed, NextIteration, Step, workerVars, tableVars, SameProcess
  <2>4. \A v \in Worker \ {w} : skipLocked'[v] = skipLocked[v]
    BY <1>1, <1>2
    DEF Boot, Advance, Disturb, Signal, Leave, LimitReached, Crash, SelectRaises,
        RejectPayload, ReserveRaises, LogStarted, LogStartedRaises, HandlerReturns,
        HandlerThrows, Ack, AckRaises, LogCompleted, LogCompletedRaises, Dispose,
        DisposeRaises, LogDisposal, LogDisposalRaises, Construct, SelectFails, RollBack,
        MarkDone, MarkFailed, Release, Settle, tableVars
  <2>5. QED
    BY <2>1, <2>2, <2>3, <2>4
<1>4. QED
  BY <1>1, <1>3 DEF OpenAsBefore

(* The catch block puts its job back into the line, or takes it out of play.*)
LEMMA SettleKeepsLine ==
    ASSUME IInv, LineInv, OpenAsBefore, NEW w \in Worker, pc[w] = "failing",
           NEW d \in BOOLEAN, Settle(w, d) \/ UNCHANGED tableVars
    PROVE  LineInv'
<1> DEFINE j == JobOf(w)
<1>1. TypeInv /\ RowInv /\ ClaimInv /\ j \in Job /\ status \in [Job -> Status]
  BY DEF IInv, TypeInv, HoldsJob, TypeOK, TableTypeOK
<1>2. status[j] # "pending" /\ j \notin delayed
  BY <1>1 DEF ClaimInv, ClaimOK, LineInv, ReadyInv
<1>3. CASE UNCHANGED tableVars
  BY <1>1, <1>3, LineUntouched DEF tableVars
<1>4. CASE MarkFailed(j)
  <2>1. \A k \in Job : status[k] = "pending" => status'[k] = "pending"
    BY <1>1, <1>2, <1>4 DEF MarkFailed
  <2>2. QED
    BY <1>1, <1>4, <2>1, LineUntouched DEF MarkFailed
<1>5. CASE Release(j, d)
  <2>1. CASE d
    BY <1>1, <1>2, <1>5, <2>1, JobIsDelayed DEF Release, MakeAvailable
  <2>2. CASE ~ d
    <3>1. /\ ready' = Append(ready, j) /\ delayed' = delayed
          /\ status' = [status EXCEPT ![j] = "pending"]
      BY <1>5, <2>2 DEF Release, MakeAvailable
    <3>2. delayed' = delayed \ {j}
      BY <1>2, <3>1
    <3>3. QED
      BY <1>1, <1>2, <3>1, <3>2, JobJoinsLine
  <2>3. QED
    BY <2>1, <2>2
<1>6. QED
  BY <1>3, <1>4, <1>5 DEF Settle

(* Producers and the clock: a row is stored or becomes visible.             *)
LEMMA ProducerKeepsLine ==
    ASSUME IInv, LineInv, NEW j \in Job,
           Producer(j) \/ ProducerRaises(j) \/ DelayElapses(j)
    PROVE  LineInv'
<1>1. TypeInv /\ RowInv /\ ClaimInv /\ status \in [Job -> Status]
  BY DEF IInv, TypeInv, TypeOK, TableTypeOK
<1>2. OpenAsBefore
  BY DEF Producer, ProducerRaises, DelayElapses, Push, PushRaises, LogDispatched,
         LogDispatchedRaises, Insert, BecomeVisible, tableVars, workerVars, OpenAsBefore,
         SameProcess
<1>3. CASE \E d \in BOOLEAN, n \in RequestedAttempts : Insert(j, d, n)
  <2>1. PICK d \in BOOLEAN : /\ status[j] = "absent"
                             /\ status' = [status EXCEPT ![j] = "pending"]
                             /\ MakeAvailable(j, d)
    BY <1>3 DEF Insert
  <2>2. j \notin delayed
    BY <2>1 DEF LineInv, ReadyInv
  <2>3. CASE d
    BY <1>1, <1>2, <2>1, <2>3, JobIsDelayed DEF MakeAvailable
  <2>4. CASE ~ d
    <3>1. ready' = Append(ready, j) /\ delayed' = delayed \ {j}
      BY <2>1, <2>2, <2>4 DEF MakeAvailable
    <3>2. QED
      BY <1>1, <1>2, <2>1, <3>1, JobJoinsLine
  <2>5. QED
    BY <2>3, <2>4
<1>4. CASE UNCHANGED tableVars
  BY <1>1, <1>2, <1>4, LineUntouched DEF tableVars
<1>5. CASE DelayElapses(j)
  <2>1. /\ j \in delayed /\ delayed' = delayed \ {j} /\ ready' = Append(ready, j)
        /\ status' = status
    BY <1>5 DEF DelayElapses, BecomeVisible
  <2>2. status' = [status EXCEPT ![j] = "pending"]
    <3>1. status[j] = "pending"
      BY <2>1 DEF LineInv, ReadyInv
    <3>2. QED
      BY <1>1, <2>1, <3>1
  <2>3. QED
    BY <1>1, <1>2, <2>1, <2>2, JobJoinsLine
<1>6. QED
  BY <1>3, <1>4, <1>5
  DEF Producer, ProducerRaises, Push, PushRaises, LogDispatched, LogDispatchedRaises

LEMMA LineInvStep ==
    ASSUME IInv, LineInv, [Next]_vars
    PROVE  LineInv'
<1>1. TypeInv /\ RowInv /\ ClaimInv /\ status \in [Job -> Status]
  BY DEF IInv, TypeInv, TypeOK, TableTypeOK
<1>2. ASSUME NEW j \in Job, Producer(j) \/ ProducerRaises(j) \/ DelayElapses(j)
      PROVE  LineInv'
  BY <1>2, ProducerKeepsLine
<1>3. ASSUME NEW w \in Worker, Boot(w) \/ Advance(w) \/ Disturb(w)
      PROVE  LineInv'
  <2>1. CASE Reserve(w) \/ ReserveRaises(w, TRUE)
    BY <2>1, CommitShortensLine
  <2>2. CASE \E i \in DOMAIN ready : Select(w, i)
    BY <1>1, <2>2, SelectWithinReach
  <2>3. ASSUME ~ Reserve(w), ~ ReserveRaises(w, TRUE),
               ~\E i \in DOMAIN ready : Select(w, i)
        PROVE  LineInv'
    <3>1. OpenAsBefore
      BY <1>1, <1>3, <2>3, OthersStayOpen
    <3>2. CASE \E d, a \in BOOLEAN : Dispose(w, d) \/ DisposeRaises(w, d, a)
      <4>1. PICK d \in BOOLEAN : Settle(w, d) \/ UNCHANGED tableVars
        BY <3>2 DEF Dispose, DisposeRaises
      <4>2. pc[w] = "failing"
        BY <3>2 DEF Dispose, DisposeRaises, Disposed, Step
      <4>3. QED
        BY <3>1, <4>1, <4>2, SettleKeepsLine
    <3>3. ASSUME ~\E d \in BOOLEAN : Dispose(w, d),
                 ~\E d, a \in BOOLEAN : DisposeRaises(w, d, a)
          PROVE  LineInv'
      <4>1. \A a \in BOOLEAN : ReserveRaises(w, a) => a = FALSE
        BY <2>3
      <4>2. UNCHANGED <<ready, delayed>>
        BY <1>3, <2>3, <3>3, <4>1
        DEF Boot, Advance, Disturb, Signal, Leave, LimitReached, Crash, SelectRaises,
            RejectPayload, ReserveRaises, LogStarted, LogStartedRaises, HandlerReturns,
            HandlerThrows, Ack, AckRaises, LogCompleted, LogCompletedRaises, LogDisposal,
            LogDisposalRaises, Construct, SelectFails, RollBack, MarkDone,
              tableVars
      <4>3. \/ status' = status
            \/ pc[w] = "acking" /\ status' = [status EXCEPT ![JobOf(w)] = "done"]
        BY <1>3, <2>3, <3>3, <4>1
        DEF Boot, Advance, Disturb, Signal, Leave, LimitReached, Crash, SelectRaises,
            RejectPayload, ReserveRaises, LogStarted, LogStartedRaises, HandlerReturns,
            HandlerThrows, Ack, AckRaises, LogCompleted, LogCompletedRaises, LogDisposal,
            LogDisposalRaises, Construct, SelectFails, RollBack, MarkDone,
              MarkedDone, EnterCatch, Step, tableVars
      <4>4. pc[w] = "acking" => status[JobOf(w)] = "reserved"
        BY <1>1 DEF ClaimInv, ClaimOK
      <4>5. \A k \in Job : status[k] = "pending" => status'[k] = "pending"
        BY <1>1, <4>3, <4>4
      <4>6. QED
        BY <1>1, <3>1, <4>2, <4>5, LineUntouched
    <3>4. QED
      BY <3>2, <3>3
  <2>4. QED
    BY <2>1, <2>2, <2>3
<1>4. CASE UNCHANGED vars
  BY <1>4 DEF LineInv, ReadyInv, TurnInv, Reach, vars, workerVars, tableVars, JobOf
<1>5. QED
  BY <1>2, <1>3, <1>4 DEF Next

(* Only a committed reservation makes a pending row reserved.               *)
LEMMA ReservedByCommit ==
    ASSUME IInv, LineInv, Next, NEW j \in Job, NEW i \in DOMAIN ready,
           status[j] = "pending", status'[j] = "reserved", ready[i] = j
    PROVE  \E w \in Worker : /\ pc[w] = "reserving" /\ JobOf(w) = j
                             /\ i <= IF skipLocked[w] THEN Cardinality(Worker) ELSE 1
<1>1. TypeInv /\ status \in [Job -> Status]
  BY DEF IInv, TypeInv, TypeOK, TableTypeOK
<1>2. ASSUME NEW k \in Job, Producer(k) \/ ProducerRaises(k) \/ DelayElapses(k)
      PROVE  FALSE
  BY <1>1, <1>2 DEF Producer, ProducerRaises, DelayElapses, Push, PushRaises, LogDispatched,
              LogDispatchedRaises, Insert, BecomeVisible, tableVars
<1>3. PICK w \in Worker : Boot(w) \/ Advance(w) \/ Disturb(w)
  BY <1>2 DEF Next
<1>4. j = JobOf(w) /\ Claims(w)
  BY <1>1, <1>3, ProcessFrame DEF SameLedger, SameBooks, SameRow
<1>5. pc[w] = "reserving"
  BY <1>4, OwnRow DEF ClaimOK, Claims
<1>6. QED
  BY <1>4, <1>5 DEF LineInv, TurnInv, Reach

(* A row is reserved only from within the reach of its process: behind no   *)
(* more older rows than there are other processes, and behind none when the *)
(* process works without SKIP LOCKED, whatever fails in between.            *)
THEOREM LineStays == Spec => LineIsKept
<1>1. Init => LineInv
  BY DEF Init, WorkerInit, TableInit, LineInv, ReadyInv, TurnInv
<1>2. IInv /\ LineInv /\ [Next]_vars => LineInv'
  BY LineInvStep
<1>3. IInv /\ LineInv /\ [Next]_vars =>
        [\A j \in Job, i \in DOMAIN ready :
           status[j] = "pending" /\ status'[j] = "reserved" /\ ready[i] = j =>
             \E w \in Worker :
               /\ pc[w] = "reserving" /\ JobOf(w) = j
               /\ i <= IF skipLocked[w] THEN Cardinality(Worker) ELSE 1]_vars
  BY ReservedByCommit
<1>4. QED
  BY <1>1, <1>2, <1>3, Invariance, PTL DEF Spec, LineIsKept

-------------------------------------------------------------------------------
(* The contract of a job. *)

(* The value of the refinement mapping, by the status of the row.           *)
LEMMA PhaseValue ==
    \A j : /\ status[j] = "pending" => PhaseOf(j) = "queued"
           /\ status[j] = "reserved" /\ outcome[j] = "none" => PhaseOf(j) = "queued"
           /\ status[j] = "reserved" /\ outcome[j] # "none" => PhaseOf(j) = outcome[j]
           /\ status[j] \notin {"pending", "reserved"} => PhaseOf(j) = status[j]
BY DEF PhaseOf

(* A step that moves the phase of one job and of no other is a move of the  *)
(* contract.                                                                *)
LEMMA PhaseMoves ==
    ASSUME NEW j \in Job, NEW from, NEW to,
           \A k \in Job : k # j => SameRow(k),
           PhaseOf(j) = from, PhaseOf(j)' = to
    PROVE  Contract!Move(j, from, to)
<1>1. \A k \in Job : k # j => PhaseOf(k)' = PhaseOf(k)
  BY DEF PhaseOf, SameRow
<1>2. QED
  BY <1>1 DEF Contract!Move

Untouched == UNCHANGED Contract!vars

Refines == Contract!Next \/ Untouched

(* A step that keeps every phase, every delivery and every limit is none of *)
(* the contract's.                                                          *)
LEMMA SamePhases ==
    ASSUME \A k \in Job : PhaseOf(k)' = PhaseOf(k), UNCHANGED <<delivered, limit>>
    PROVE  Refines
<1>1. [k \in Job |-> PhaseOf(k)]' = [k \in Job |-> PhaseOf(k)]
  OBVIOUS
<1>2. QED
  BY <1>1 DEF Refines, Untouched, Contract!vars

(* Without faults of the storage and of the log, none is ever spent.        *)
Sound == Budget["storage"] = 0 /\ Budget["audit"] = 0

LEMMA NothingToRepair ==
    ASSUME Sound, LInv
    PROVE  Repairs = 0 /\ ~ Spend("storage") /\ ~ Spend("audit")
<1>1. "storage" \in Disturbance /\ "audit" \in Disturbance
  BY DEF Disturbance
<1>2. /\ left["storage"] \in Nat /\ left["storage"] <= 0
      /\ left["audit"] \in Nat /\ left["audit"] <= 0
  BY <1>1 DEF Sound, LInv, BudgetOK, IInv, TypeInv, TypeOK
<1>3. left["storage"] = 0 /\ left["audit"] = 0
  BY <1>2
<1>4. QED
  BY <1>3 DEF Sound, Repairs, Spent, Spend

(* A push.                                                                  *)
LEMMA PushRefines ==
    ASSUME TypeInv, NEW j \in Job, NEW d \in BOOLEAN, NEW n \in RequestedAttempts,
           Push(j, d, n)
    PROVE  Refines
<1>1. /\ limit \in [Job -> Nat] /\ status \in [Job -> Status] /\ attempts \in [Job -> Nat]
  BY DEF TypeInv, TypeOK, TableTypeOK
<1>2. AtLeastOne(n) \in Nat \ {0}
  BY MySqlWorkersAssumption DEF MySqlWorkersAssumption, AtLeastOne
<1>3. /\ status[j] = "absent" /\ status' = [status EXCEPT ![j] = "pending"]
      /\ attempts' = [attempts EXCEPT ![j] = 0]
      /\ limit' = [limit EXCEPT ![j] = AtLeastOne(n)]
      /\ UNCHANGED <<delivered, outcome>>
  BY DEF Push, Insert, historyVars
<1>4. limit'[j] = AtLeastOne(n)
  BY <1>1, <1>3
<1>5. limit' = [limit EXCEPT ![j] = limit'[j]]
  BY <1>3, <1>4
<1>6. \A k \in Job : k # j => SameRow(k)
  BY <1>1, <1>3 DEF SameRow
<1>7. (\A k : status[k] = "pending" => PhaseOf(k) = "queued")'
  BY DEF PhaseOf
<1>8. PhaseOf(j) = "absent" /\ PhaseOf(j)' = "queued"
  BY <1>1, <1>3, <1>7, PhaseValue
<1>9. Contract!Submit(j)
  BY <1>2, <1>3, <1>4, <1>5, <1>6, <1>8, PhaseMoves DEF Contract!Submit
<1>10. QED
  BY <1>9 DEF Refines, Contract!Next

(* A reserved row still counts as queued.                                   *)
LEMMA ReserveRefines ==
    ASSUME LInv, NEW w \in Worker, Reserve(w)
    PROVE  Refines
<1>1. PICK j : j = JobOf(w)
  OBVIOUS
<1>2. pc[w] = "reserving"
  BY DEF Reserve, EndReserve, Step
<1>3. /\ j \in Job /\ status[j] = "pending" /\ outcome[j] = "none"
      /\ status \in [Job -> Status]
  BY <1>1, <1>2, OwnRow DEF LInv, IInv, TypeInv, TypeOK, TableTypeOK, Claims, ClaimOK, RowOK
<1>4. /\ status' = [status EXCEPT ![j] = "reserved"]
      /\ UNCHANGED <<outcome, delivered, limit>>
  BY <1>1 DEF Reserve, CommitReserved, JobOf, historyVars
<1>5. (\A k : status[k] = "reserved" /\ outcome[k] = "none" => PhaseOf(k) = "queued")'
  BY DEF PhaseOf
<1>6. PhaseOf(j)' = PhaseOf(j)
  BY <1>3, <1>4, <1>5, PhaseValue
<1>7. ASSUME NEW k \in Job, k # j
      PROVE  PhaseOf(k)' = PhaseOf(k)
  BY <1>3, <1>4, <1>7 DEF PhaseOf
<1>8. QED
  BY <1>4, <1>6, <1>7, SamePhases

(* One delivery: into the handler, out of it, and the row marked done.      *)
LEMMA TryRefines ==
    ASSUME LInv, NEW w \in Worker,
           LogStarted(w) \/ HandlerReturns(w) \/ HandlerThrows(w) \/ Ack(w)
    PROVE  Refines
<1>1. PICK j : j = JobOf(w)
  OBVIOUS
<1>2. /\ TypeInv /\ IInv
      /\ pc[w] \in {"starting", "handling", "acking"}
      /\ Claims(w)
  BY DEF LInv, IInv, LogStarted, HandlerReturns, HandlerThrows, Ack, EnterTry,
         HandleReturned, EnterCatch, MarkedDone, Step, Claims
<1>3. /\ j \in Job /\ RowOK(j) /\ ClaimOK(w) /\ StageOK(w)
      /\ attempts[j] \in Nat /\ delivered[j] \in Nat /\ limit[j] \in Nat
  BY <1>1, <1>2, OwnRow DEF LInv, Accounts, TypeInv, TypeOK, TableTypeOK
<1>4. /\ status \in [Job -> Status] /\ outcome \in [Job -> Outcome]
      /\ limit' = limit
      /\ \A k \in Job : k # j => SameRow(k)
  <2>1. \A k \in Job : k # j => SameRow(k)
    BY <1>1, <1>2, ProcessFrame DEF Advance, SameLedger, SameBooks
  <2>2. limit' = limit
    BY DEF LogStarted, HandlerReturns, HandlerThrows, Ack, MarkDone, tableVars
  <2>3. QED
    BY <1>2, <2>1, <2>2 DEF TypeInv, TypeOK, TableTypeOK
<1>5. (\A k : /\ status[k] = "reserved" /\ outcome[k] # "none" => PhaseOf(k) = outcome[k]
              /\ status[k] \notin {"pending", "reserved"} => PhaseOf(k) = status[k])'
  BY DEF PhaseOf
<1>6. CASE LogStarted(w)
  <2>1. /\ pc[w] = "starting" /\ status' = status
        /\ outcome' = [outcome EXCEPT ![j] = "running"]
        /\ delivered' = [delivered EXCEPT ![j] = @ + 1]
    BY <1>1, <1>6 DEF LogStarted, EnterTry, Step, Outcomes, tableVars
  <2>2. /\ status[j] = "reserved" /\ outcome[j] = "none"
        /\ delivered[j] < limit[j]
    BY <1>1, <1>3, <2>1 DEF ClaimOK, RowOK
  <2>3. PhaseOf(j) = "queued" /\ PhaseOf(j)' = "running"
    BY <1>3, <1>4, <1>5, <2>1, <2>2, PhaseValue
  <2>4. Contract!Deliver(j)
    BY <1>3, <1>4, <2>1, <2>2, <2>3, PhaseMoves DEF Contract!Deliver
  <2>5. QED
    BY <1>3, <2>4 DEF Refines, Contract!Next
<1>7. CASE HandlerReturns(w) \/ HandlerThrows(w)
  <2>1. PICK o \in {"succeeded", "threw"} :
           /\ outcome' = [outcome EXCEPT ![j] = o]
           /\ pc[w] = "handling" /\ UNCHANGED <<status, delivered>>
    BY <1>1, <1>7 DEF HandlerReturns, HandlerThrows, HandleReturned, EnterCatch, Step,
                      Outcomes, tableVars
  <2>2. status[j] = "reserved" /\ outcome[j] = "running"
    BY <1>1, <1>3, <2>1 DEF ClaimOK, StageOK
  <2>3. PhaseOf(j) = "running" /\ PhaseOf(j)' = o
    BY <1>3, <1>4, <1>5, <2>1, <2>2, PhaseValue
  <2>4. Contract!Move(j, "running", o)
    BY <1>3, <1>4, <2>3, PhaseMoves
  <2>5. Contract!Succeed(j) \/ Contract!Throw(j)
    BY <1>4, <2>1, <2>4 DEF Contract!Succeed, Contract!Throw
  <2>6. QED
    BY <1>3, <2>5 DEF Refines, Contract!Next
<1>8. CASE Ack(w)
  <2>1. /\ pc[w] = "acking"
        /\ status' = [status EXCEPT ![j] = "done"]
        /\ UNCHANGED <<outcome, delivered>>
    BY <1>1, <1>8 DEF Ack, MarkedDone, MarkDone, Step, historyVars
  <2>2. status[j] = "reserved" /\ outcome[j] = "succeeded"
    BY <1>1, <1>3, <2>1 DEF ClaimOK, StageOK
  <2>3. PhaseOf(j) = "succeeded" /\ PhaseOf(j)' = "done"
    BY <1>3, <1>4, <1>5, <2>1, <2>2, PhaseValue
  <2>4. Contract!Settle(j)
    BY <1>3, <1>4, <2>1, <2>3, PhaseMoves DEF Contract!Settle
  <2>5. QED
    BY <1>3, <2>4 DEF Refines, Contract!Next
<1>9. QED
  BY <1>6, <1>7, <1>8

(* The catch block: when nothing is to repair, the job it settles threw.    *)
LEMMA SettleRefines ==
    ASSUME Sound, LInv, NEW w \in Worker, NEW d \in BOOLEAN, Dispose(w, d)
    PROVE  Refines
<1>1. PICK j : j = JobOf(w)
  OBVIOUS
<1>2. /\ TypeInv /\ IInv
      /\ pc[w] = "failing" /\ Claims(w)
  BY DEF LInv, IInv, Dispose, Disposed, Step, Claims
<1>3. /\ j \in Job /\ RowOK(j) /\ ClaimOK(w) /\ StageOK(w)
      /\ attempts[j] \in Nat /\ delivered[j] \in Nat /\ limit[j] \in Nat
  BY <1>1, <1>2, OwnRow DEF LInv, Accounts, TypeInv, TypeOK, TableTypeOK
<1>4. status[j] = "reserved" /\ outcome[j] = "threw"
  BY <1>1, <1>2, <1>3, NothingToRepair DEF StageOK
<1>5. /\ held[w].attempt = delivered[j] /\ held[w].maxAttempts = limit[j]
      /\ delivered[j] <= limit[j]
  BY <1>1, <1>2, <1>3 DEF ClaimOK, RowOK, Claims
<1>6. /\ status \in [Job -> Status] /\ outcome \in [Job -> Outcome]
      /\ UNCHANGED <<delivered, limit>>
      /\ \A k \in Job : k # j => SameRow(k)
  <2>1. \A k \in Job : k # j => SameRow(k)
    BY <1>1, <1>2, ProcessFrame DEF Advance, SameLedger, SameBooks
  <2>2. UNCHANGED <<delivered, limit>>
    BY DEF Dispose, Settle, MarkFailed, Release
  <2>3. QED
    BY <1>2, <2>1, <2>2 DEF TypeInv, TypeOK, TableTypeOK
<1>7. (\A k : /\ status[k] = "pending" => PhaseOf(k) = "queued"
              /\ status[k] \notin {"pending", "reserved"} => PhaseOf(k) = status[k])'
  BY DEF PhaseOf
<1>8. PhaseOf(j) = "threw"
  BY <1>4, PhaseValue
<1>9. CASE Exhausted(w)
  <2>1. status'[j] = "failed" /\ delivered[j] = limit[j]
    BY <1>1, <1>3, <1>5, <1>6, <1>9 DEF Dispose, Settle, MarkFailed, Exhausted
  <2>2. PhaseOf(j)' = "failed"
    BY <1>7, <2>1
  <2>3. Contract!GiveUp(j)
    BY <1>3, <1>6, <1>8, <2>1, <2>2, PhaseMoves DEF Contract!GiveUp
  <2>4. QED
    BY <1>3, <2>3 DEF Refines, Contract!Next
<1>10. CASE ~ Exhausted(w)
  <2>1. status'[j] = "pending" /\ delivered[j] < limit[j]
    BY <1>1, <1>3, <1>5, <1>6, <1>10 DEF Dispose, Settle, Release, Exhausted
  <2>2. PhaseOf(j)' = "queued"
    BY <1>7, <2>1
  <2>3. Contract!Requeue(j)
    BY <1>3, <1>6, <1>8, <2>1, <2>2, PhaseMoves DEF Contract!Requeue
  <2>4. QED
    BY <1>3, <2>3 DEF Refines, Contract!Next
<1>11. QED
  BY <1>9, <1>10

(* Every step is one of the contract's, or none of its business.            *)
LEMMA EveryStepRefines ==
    ASSUME Sound, LInv, [Next]_vars
    PROVE  Refines
<1>1. ASSUME UNCHANGED <<status, outcome, delivered, limit>>
      PROVE  Refines
  <2>1. \A k \in Job : PhaseOf(k)' = PhaseOf(k)
    BY <1>1 DEF PhaseOf
  <2>2. QED
    BY <1>1, <2>1, SamePhases
<1>2. ~ Spend("storage") /\ ~ Spend("audit") /\ TypeInv
  BY NothingToRepair DEF LInv, IInv
<1>3. ASSUME NEW j \in Job, Producer(j) \/ ProducerRaises(j) \/ DelayElapses(j)
      PROVE  Refines
  <2>1. ASSUME NEW d \in BOOLEAN, NEW n \in RequestedAttempts, Push(j, d, n)
        PROVE  Refines
    BY <1>2, <2>1, PushRefines
  <2>2. CASE LogDispatched(j) \/ DelayElapses(j)
    BY <1>1, <2>2 DEF LogDispatched, DelayElapses, BecomeVisible, tableVars, historyVars
  <2>3. ~ ProducerRaises(j)
    BY <1>2 DEF ProducerRaises, PushRaises, LogDispatchedRaises
  <2>4. QED
    BY <1>3, <2>1, <2>2, <2>3 DEF Producer
<1>4. ASSUME NEW w \in Worker, Boot(w) \/ Advance(w)
      PROVE  Refines
  <2>1. CASE \/ Boot(w) \/ Leave(w) \/ RejectPayload(w) \/ LogCompleted(w) \/ LogDisposal(w)
             \/ \E i \in DOMAIN ready : Select(w, i)
    <3>1. UNCHANGED <<status, outcome, delivered, limit>>
      BY <2>1 DEF Boot, Leave, RejectPayload, LogCompleted, LogDisposal, Select, Construct,
                  SelectForUpdate, RollBack, tableVars, historyVars
    <3>2. QED
      BY <1>1, <3>1
  <2>2. QED
    BY <1>4, <2>1, ReserveRefines, TryRefines, SettleRefines DEF Advance
<1>5. ASSUME NEW w \in Worker, Disturb(w)
      PROVE  Refines
  <2>1. Signal(w) \/ LimitReached(w) \/ Crash(w)
    BY <1>2, <1>5 DEF Disturb, SelectRaises, ReserveRaises, AckRaises, DisposeRaises,
                      LogStartedRaises, LogCompletedRaises, LogDisposalRaises
  <2>2. UNCHANGED <<status, outcome, delivered, limit>>
    BY <2>1 DEF Signal, LimitReached, Crash, RollBack, tableVars, historyVars
  <2>3. QED
    BY <1>1, <2>2
<1>6. CASE UNCHANGED vars
  BY <1>1, <1>6 DEF vars, tableVars, historyVars
<1>7. QED
  BY <1>3, <1>4, <1>5, <1>6 DEF Next

(* As long as queue statements and activity entries succeed, Worker::run    *)
(* over MySqlQueue gives every job what JobContract promises, kills,        *)
(* signals, quotas and undecodable payloads included: never a delivery      *)
(* after the last attempt or after a success, no job given up early, and    *)
(* none given up or delivered again once it is done or failed.              *)
THEOREM KeepsContract ==
    ASSUME Budget["storage"] = 0, Budget["audit"] = 0
    PROVE  Spec => ImplementsContract
<1>1. Init => Contract!Init
  <2>1. ASSUME Init
        PROVE  \A j \in Job : PhaseOf(j) = "absent"
    BY <2>1, PhaseValue DEF Init, TableInit
  <2>2. QED
    BY <2>1 DEF Init, TableInit, Contract!Init
<1>2. LInv /\ [Next]_vars => [Contract!Next]_(Contract!vars)
  BY EveryStepRefines DEF Sound, Refines, Untouched
<1>3. QED
  BY <1>1, <1>2, AccountsBalance, PTL DEF Spec, ImplementsContract, Contract!Spec
===============================================================================
