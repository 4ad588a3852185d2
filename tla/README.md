# Verification of yii3-base

TLA+ models of the parts of this application whose correctness depends on
order: what several PHP processes do to one table, one Redis server or one
row, what a crash leaves behind, and what a failing statement costs. Each
model is checked by TLC on small instances; every safety and step property that
holds is also proved with TLAPS for every value of the constants.

Paths below are relative to the repository; `Worker.php:107` means line 107
of the file of that name.

- [1. The system](#1-the-system): its parts, what they keep, what can go wrong
- [2. Modules](#2-modules): which module models what
- [3. The job queues](#3-the-job-queues) and
  [4. The web application](#4-the-web-application): the models, step by step
  beside the code
- [5. Runs](#5-runs): what each run checks, bounds, fairness
- [6. What the runs found](#6-what-the-runs-found)
- [7. Proofs](#7-proofs)
- [8. Assumptions and what is left out](#8-assumptions-and-what-is-left-out)
- [9. What is left](#9-what-is-left)

## 1. The system

The application is a PHP program of short processes. Web processes serve one
request at a time and share nothing but MySQL, Redis and the session store;
console processes (`queue:work`, `seed`) share the same. So
every piece of concurrent state is a row, a Redis key or a session, and every
atomic step is one SQL statement, one transaction or one Redis command.

### Inventory

**Job queues** (`src/Shared/Infrastructure/Queue`).
State: table `queue_jobs` (status, attempts, max_attempts, available_at), or
the Redis keys for pending, delayed and failed jobs; in each `queue:work`
process `$reservedJob`, `$processed`, `$failed`, `shouldStop`.
Operations: `push`, `pushDelayed`, `reserveNext`, `markDone`, `release`,
`markFailed`; `Worker::run`.
Interactions: web requests and commands push; workers under supervisor
reserve, call the handler found by `JobTypeRegistry`, settle the job, and
write each stage to the activity log inside or outside their `try`.
Hard: several workers on one table; a process killed anywhere between
reservation and settlement; a statement that fails without saying whether it
took effect; retries with a delay; `SKIP LOCKED` that may not exist; payloads
that do not decode.
Correct when: a job is handed to one worker at a time, never beyond
max_attempts, is failed only when exhausted, is done only after success, and
is lost, stranded or repeated by faults alone.

**API tokens and login** (`src/Auth`).
State: `auth_tokens` (owner, revoked_at, last_used_at), `users.status`.
Operations: bearer check of every API call, login, logout, token issue.
Interactions: `BearerTokenMiddleware` → `GetAuthenticatedUserHandler`, which
*writes* the token row on every call; the administrator's requests write the
user row next to it.
Hard: whole rows are read, changed in memory and saved; the status is checked
in one request and changed in another.
Correct when: a revoked token or a blocked user stays out, and a token that
nobody knows exists only after a failure.

**Users** (`src/User`, `src/Api`, `src/Dashboard`).
State: `users` (email, name, status) with a unique index.
Operations: create, PATCH, the dashboard's two forms, change of status.
Hard: check-then-insert of the e-mail; one request reads the row up to three
times and saves it twice; every save writes every column.
Correct when: an update is lost, or an e-mail refused that the request did not
name, only where two requests overlap; a refused request has changed nothing;
a successful one has stored what it was asked to.

**Roles and permissions, access rules** (`src/Rbac`,
`Rbac/Interface/Middleware/RbacMiddleware.php`).
State: `roles`, `permissions`, `user_roles`, `role_permissions`; the list of
path prefixes.
Operations: create, assign, revoke; `requiredPermission`.
Hard: check-then-insert of codes, the last administrator, the first match of
overlapping prefixes, a right that goes while a request is on its way.
Correct when: codes are unique, a revoked right is gone with the next request,
and each path gets the rule the list means.

**Web session and credentials** (`src/Auth/Infrastructure/Session`,
`AuthenticationMiddleware`, `LoginHandler`).
State: a user id in the session of each browser; `user_credentials`.
Operations: login to the site and to the dashboard, the login page that drops
a session without access, logout, pages.
Hard: the status is checked at login only; the login rehashes a password it
verified some statements ago.
Correct when: a session of somebody who may not log in is older than the block,
and the password that works is the one given last.

**Rate limiter** (`src/Shared/Infrastructure/Http/RateLimit`): one counter per
key and window in Redis; INCR then EXPIRE; lets requests pass when Redis fails.
Hard: the two commands, the clock read once, failures that may have counted.
Correct when: a window admits at most its limit, nobody is refused before it is
full, and every counter expires.

**Request pipeline** (middleware order, `ApiErrorMiddleware`): which exception
becomes which answer.

**Activity log** (`src/Shared/Infrastructure/Audit`): append only; every component
writes to it, and its failure is an exception in the middle of their work.

**Seed command** (`src/Console/SeedCommand.php`): one transaction of upserts
over a snapshot, then an activity entry.
Hard: it runs on an empty, an older or a current database, beside requests.
Correct when: its commit leaves an active administrator with every right.

**Tracing and logging, read side, dashboard and public pages, environment and
configuration**: no state that other parts depend on.

`PROJECT.json` lists every component with its sources and status, and under
`hazards` each place where one of these difficulties bites, with the property
that would notice.

## 2. Modules

| module | models | code |
| --- | --- | --- |
| `QueueTypes` | a reservation; the normalisation of max_attempts | `ReservedJob`, `max(1, ...)` in both queues |
| `Worker` | the control of one `queue:work` process, without storage | `Worker.php` |
| `MySqlQueue` | the table `queue_jobs` and its row locks | `MySqlQueue.php` |
| `MySqlWorkers` | producers + `Worker` + `MySqlQueue` | both, with the activity log |
| `RedisQueue` | the three Redis keys and the sweep | `RedisQueue.php` |
| `RedisWorkers` | producers + `Worker` + `RedisQueue` | both |
| `JobContract` | what either queue promises about one job | `QueueInterface`, `Worker.php` |
| `ApiTokens` | tokens and statuses under concurrent requests | `src/Auth`, `src/User`, `src/Api` |
| `Users` | the table `users` under concurrent requests | `src/User`, `src/Api`, `src/Dashboard` |
| `RateLimiter` | counters, clock and requests | `RedisRateLimiter.php`, `RateLimitMiddleware.php` |
| `AccessRules` | which permission a path needs | `RbacMiddleware.php`, `config/common/params.php` |
| `Access` | sessions, logins, roles, blocks and the seed around the access check | `src/Auth`, `src/Rbac`, `SeedCommand.php` |
| `MC...` | bounds and symmetry for TLC | |
| `...Proofs` | theorems; of the MySQL queue in three modules, each on the one before: `MySqlWorkersProofs` (who holds a row), `MySqlLedgerProofs` (what faults cost), `MySqlContractProofs` (the refinement) | |

`Worker` is used twice, unchanged: its operators are the worker's half of a
step and name no storage. `MySqlWorkers` and `RedisWorkers` conjoin each half
with the storage's half and add the producers, the disturbances and the
history variables the properties speak of. Both instantiate `JobContract`.
`Access` stands on `AccessRules`, whose operators decide which request needs
which right; `AccessRules` has no state.

`Users`, `ApiTokens` and `Access` look at the same row of `users` from three
sides and share no variable: `Users` has the e-mails and every path that writes
the row, `ApiTokens` the race between an edit, a block and a bearer check,
`Access` the sessions and roles, where the status is a single column that is
set. What one leaves out another has; none of them assumes a property of
another.

Some definitions (`RowReadStale`, `ExhaustedLate`, `CollidesNever`,
`IsLimitedEarly`, ...) stand next to the one they resemble and are used
nowhere in a specification. Each is a plausible mistake in the code; TLC
finds the property violated when it takes the place of the real one.
`mutants` in `PROJECT.json` pairs them, so every property is known to be able
to fail.

## 3. The job queues

### The worker

`pc[w]` is the statement process `w` executes next. One pass of the loop:

| `pc` | code | leaves for |
| --- | --- | --- |
| `down` | no process; supervisor starts one | `loop` |
| `loop` | conditions at the top of `run()`, `pause` | `down`, `reserving` |
| `reserving` | inside `reserveNext`: MySQL, the transaction with its row locked; Redis, the sweep and the pop | `starting`, `loop` |
| `starting` | JOB_STARTED entry, outside every `try` | `handling`, `down` |
| `handling` | `resolveHandler`, `handle` | `acking`, `failing` |
| `acking` | `markDone` | `completing`, `failing` |
| `completing` | JOB_COMPLETED entry, still inside the `try` | `loop`, `failing` |
| `failing` | catch block: `markFailed` or `release` | `reporting`, `down` |
| `reporting` | JOB_FAILED or JOB_RETRIED entry | `loop`, `down` |

An exception in `starting`, `failing` or `reporting` leaves `run()` and ends
the process; one in `acking` or `completing` lands in the catch block with a
job that may be done already. Signals set `stopping` at any time and are read
in `loop` only. `LimitReached` is `--max-time` or `--memory-limit`: it may
happen at the top of the loop whenever the budget allows a stop.

### The MySQL queue

`ready` holds the visible pending rows in the order `reserveInternal` selects
them (`available_at`, then `created_at`); `delayed` the pending rows whose time has not
come; `locks` the rows that are locked. `reserveNext` is three steps: `Select`
(SELECT ... FOR UPDATE takes the lock), then `Reserve` (UPDATE and COMMIT) or
`RejectPayload` (decoding throws, rollback). With `SKIP LOCKED` a worker
takes the first unlocked row; without it, it waits for the head. `SelectRaises`
covers the failing SELECT, whose message can switch the clause off for the
rest of the process, so processes of both kinds work side by side.
`LineIsKept` says of a commit what that leaves of the order: a process with the
clause has overtaken at most one locked row per other process, one without it
none, whatever was rolled back, released or pushed between SELECT and commit.

Every statement has a second action for its failure. `applied` says whether
the server had carried the statement out before the connection broke: the
process cannot tell, so both are allowed. The same holds for `written` and the
activity log.

The trail counts the entries of each job by action. `TrailIsComplete` reads it
from both ends: no attempt without its closing entry, and no stored job without
its JOB_DISPATCHED entry (`Undispatched`), but for one gap per fault. The second
is the push that commits its row and then throws.

Disturbances are counted by kind in `left`: `crash` (kill at any point),
`storage`, `audit`, `stop`. A property such as `StrandedOnlyByFaults` compares
what went wrong with what was spent.

### The Redis queue

The sweep of due jobs runs command by command: `StartSweep` (ZRANGEBYSCORE),
`MoveDue` (ZREM, which answers 1 to one of several sweepers), `MakePending`
(RPUSH), then `Pop` (LPOP). `Refused` says what ZADD does with the
dictionary the code passes: `[score => member]`. Predis 1 read it that way,
the locked predis 2.4.1 takes `[member => score]`, and the server refuses a
JSON text as a score. `ZaddReadsScoreFirst` selects the reading; runs about
the rest of the queue use the one with which delays work, `RedisContract` and
`RedisDelay` the installed one.

`phase` is history: once popped, a job is nowhere on the server, so
whether it was finished can only be remembered. So is `losses`, which counts
the two ways in which the queue drops a job by itself: a retry whose ZADD is
refused, a payload that does not decode. `LossesAreCounted` holds the jobs that
are nowhere (`Lost`) against these and the faults, and so holds with either
client; `LostOnlyByFaults`, which leaves the refused retries out as the class
comment of `RedisQueue` does, is what `redis_delay` refutes.

### The contract

A job is submitted with a limit of at least one, delivered, succeeds or
throws; a success is settled, a throw is queued again while attempts are left
and given up when they are not; nothing else happens to it. A worker that
dies leaves the job where it is: the contract lets a job stop for ever at any
point (it has no fairness), but it never lets one repeat beyond its limit, run
twice at a time or be failed early. Refinement mapping for MySQL: `PhaseOf`, from
the status and the outcome of the delivery under way; for Redis: `phase`.

A failing statement is outside the contract on purpose: an UPDATE
that failed after a success sends the job back to the queue. What that costs is
`RepeatsCostFaults`.

## 4. The web application

### API tokens

A process (`request[r]`) serves one request after another; each step is one SQL
statement, and no two share a transaction.

| action | code |
| --- | --- |
| `SendToken`, `SendLogin`, `SendStatus`, `SendEdit` | a request arrives at a free process |
| `FindToken` | `findByHash` and the check of `revoked_at` |
| `FindOwner` | `findById` of the user and the check of the status |
| `SaveToken` | `markUsed` and `save()`: the whole row as read, `revoked_at` included |
| `AnswerCall` | the action behind the middleware |
| `Revoke`, `AnswerLogout` | `revoke()` and the activity entry |
| `CheckLogin`, `RefuseLogin`, `IssueToken`, `AnswerLogin` | `LoginHandler`, `IssueApiTokenHandler`, `LoginAction` |
| `SaveStatus` | `ChangeUserStatusHandler` |
| `ReadUser`, `RefuseEdit`, `SaveEdit` | `UpdateUserHandler`: reads the row, writes all of it |
| `AnswerAdmin` | activity entry and answer |
| `Fail` | the request ends without its answer |

A PATCH with a new status is an edit followed by a change of status, in two
requests of the model.

The code loses updates: `save()` writes back what was read.
The two central properties say exactly how far that goes. `raced` collects the tokens
that were being checked at the moment they were revoked, `stale` the users whose row
an edit had read as active before a block. Outside these two sets,
logout and block are final (`AfterLogoutOnlyByOverlap`,
`AfterBlockOnlyByOverlap`); that logouts are not final without the exception is
what `NoUseAfterLogout` shows with two processes. `latecomers`
and `outsiders` restrict both to requests sent afterwards, so that a call
already past its check is not counted.

### Users

Every member of `Request` is one HTTP request, served once; a step is one SQL
statement.

| action | code |
| --- | --- |
| `Arrive` | a create, a PATCH, a form or a change of status is sent |
| `RefuseCreate`, `AcceptCreate` | `CreateUserHandler`: `existsByEmail` |
| `ReadUser` | `UpdateUserAction`, `EditSubmitAction`: `findById`; fields that were not sent are taken from this row |
| `FindUser` | `UpdateUserHandler`: the second `findById`, whose status is kept and whose e-mail decides if the index is asked |
| `ProbeEmail` | `existsByEmail` |
| `Save` | `save()`: INSERT or UPDATE of the whole row, refused by the unique index |
| `LogSaved` | the activity entry, and whether a status follows: sent (PATCH) or different (forms) |
| `LoadUser`, `StoreStatus`, `LogStatus` | `ChangeUserStatusHandler` |
| `Fail` | a statement or an entry raises, or the process ends |

`copy` is the object in memory. `asked` remembers the last value each column
was asked to have, `raced` the columns that were stored while another request
held a copy with another value, `since` the e-mails others have stored since a
request was sent, `wrote` what a request stored itself. The four properties
say which of the code's promises survive its races, and by how much.

### The rate limiter

`ReadClock` fixes the window and so the key; `Count` is INCR, `LetExpire` is
EXPIRE, `Admit` and `Refuse` are the middleware's decision. `CountRaises` and
`LetExpireRaises` are a failing command, applied or not: `hit()` then answers
zero attempts, and the request is let through. `BreakOff` ends the process at
any point between. `Tick` moves the clock by a second between any two steps;
`Vanish` removes a counter whose time has come, and the clock does not pass
that second before it has: Redis never answers with an expired key.

`late` are the requests whose INCR reached Redis more than a second after the
end of the window they read: their counter may be gone, and only for them (and
for failed-open ones, `exempt`) may a window admit more than its limit.

### Access rules, sessions, roles and the seed

A path in `AccessRules` is a sequence of pieces, so that `str_starts_with` is
`IsPrefix`. `RequiredPermission` is the code: the first rule that matches, in the
order of the configuration. `IntendedPermission` is what the list means: the rule
of the longest prefix. The properties of `Access` use the second and its steps
the first, so a list in the wrong order lets somebody in.

| action | code |
| --- | --- |
| `Arrive` | a page takes the user id from the session; the seed's transaction takes its snapshot |
| `Authenticate` | bearer check of an API call, reduced to the user's status |
| `Authorize` | `RbacMiddleware`, `MySqlAccessChecker` |
| `AnswerPage`, `AnswerRead` | pages behind the check; two of them end the session |
| `SetStatus` | `ChangeUserStatusHandler` |
| `StartCreateRole`, `InsertRole` | `CreateRoleHandler`: `existsByCode`, INSERT |
| `Assign`, `Revoke` | `AssignRoleHandler`, `RevokeRoleHandler` |
| `CheckLogin`, `Verify`, `Rehash`, `Enter` | `LoginHandler`, the two `LoginSubmitAction` |
| `SeedWrite`, `SeedCommit`, `SeedLog` | `SeedCommand` |
| `Fail` | a statement or an entry raises, or the process ends; a seed rolls back |

The seed is one transaction on InnoDB: its SELECTs see the snapshot (`seen`, the
roles there were), its INSERTs meet the rows there are, and what it has
written blocks others until it commits (`SeedHolds`, `Hold`).

`lacking` are the requests whose user never had the right they need since they
were sent; `carried` the browsers, and the logins past their status check, that
are older than the last block of their user; `secret` the password last given
on purpose, `undone` the users whose reset fell into a rehash.

## 5. Runs

| run | question | result |
| --- | --- | --- |
| `mysql_faults` | two workers, two jobs and an undecodable one, one fault of each kind anywhere: delivery, attempts, the line, failure, audit trail, and is the undecodable job inert? | pass, 3.0 M states |
| `mysql_contract` | a crash, a signal, a quota of one, limits -1, 0, 2, no `SKIP LOCKED`: does the table implement `JobContract`, does every job settle that no crash strands, does every stop take effect? | pass, 407 k |
| `mysql_quota` | does a process that has been through its quota end? | violated |
| `mysql_crash` | does a reserved job survive its worker? | violated |
| `redis_faults` | delays that work, one fault of each kind: one copy of each job, no repeat without a failing entry, and does every job end done, failed or lost? | pass, 944 k |
| `redis_contract` | the installed client, a crash, a failing command, a stop, an undecodable job, limits -1, 0, 2: `JobContract`, and is every loss accounted for? | pass, 42 k |
| `redis_delay` | is a job lost without a fault, with the installed client? | violated |
| `api_tokens` | three processes, two tokens, one failure: is an overlap the only way past a logout or a block? | pass, 5.0 M |
| `logout_sticks` | is a logout final? | violated |
| `users` | three requests, two users, two e-mails, one failure: what do the races cost? | pass, 5.3 M |
| `rate_limiter` | four requests, windows of two seconds and two requests, one failing command: is the limit kept, is nobody refused early, does every counter expire? | pass, 1.5 M |
| `access` | four requests of all kinds beside the seed, from three installations, one failure: who gets in, and is there a way back? | pass, 1.7 M |

**Bounds of the queues.** Two workers are what a race for one row or one due job needs: the
code tells workers apart only as "the one that holds the lock" and "another".
Two jobs let one overtake the other; `mysql_faults` has two beside the
undecodable one, so that jobs stand before and behind it in the line and the
line can be broken at its second and third place. Limits -1, 0 and 2 are
below, at and above the normalisation, and 2 gives every job a first, a
repeated and a last attempt. One fault of each kind, crash, statement and
entry, falls in any step and in any order with the others; the
properties count faults, so more of them would only add up. The safety and step
properties of both queues, the two refinements included, are proved without
these bounds. A worker that is restarted comes back with its
counters at zero, so the runs have no bound on restarts.

**Bounds of the web application.** Three processes for one user are the least
in which a call, a logout and an edit or block all overlap; two tokens let a
login run beside a logout. In `users` the third request is needed to take an e-mail
away between the two saves of another; one user there is and one there may be,
with two e-mails, give every way to collide. In `rate_limiter` two requests fill a
window and the third is refused; the fourth is the one that comes too late,
and five seconds are two and a half windows, enough for a counter to expire
under it. In `access` the longest story, a revocation or a reset around a
login in two halves, takes three requests; the fourth is a disturbance. Its paths
are the three of the dashboard on which rules differ and two of the API, and
its installations are an empty database, one from before a role was added and
a current one whose administrator has an outdated hash. The properties of these
four runs are proved for every bound.

No counter needs a cap besides these: `MaxFaults`, `Budget`, `MaxTime`, the
requests and the free tokens bound the state.

**Symmetry** is over workers, jobs, tokens, processes and requests, which occur in the
modules by equality only; `mysql_faults` permutes decodable jobs among
themselves. Users and e-mails are told apart in the initial states and are not
permuted. The runs with a liveness property (`mysql_contract`, `mysql_quota`,
`mysql_crash`, `redis_faults`) and `redis_contract`, whose undecodable job is one
of the two, use none.

**Views.** Two runs compare states without the variables that nothing in them
depends on, so that states apart only in these are one. `CountersHidden`
(`mysql_faults`) leaves out `processed` and `failures`: without a quota no guard
reads them, and no property of that run does. `TrailHidden` (`mysql_contract`)
leaves out the activity log and the counts of successes and failures, which no
guard and none of its properties reads but the type invariant; what the type
invariant says of them holds in every state by `TypeCorrect`. Every step of a
process changes `pc` or a variable that stays, so fairness is not affected.

**Deadlock.** The MySQL runs switch the check off: with every job settled, the
budget spent and workers idle, polling is a stutter and nothing else is
enabled; the counterexample of `mysql_quota` is such a poll. `users`, `rate_limiter` and `access` switch it off because a request is served
once: with all of them answered, and the clock at its bound, nothing is left to
do. The Redis and token runs keep it on: a sweep or a request is always possible.

**Fairness** (`FairSpec` of both queue modules): `Boot`, because supervisor
has `autorestart=true`; `Advance`, because handlers return or throw and
statements answer or raise; `DelayElapses`, because time passes. Nothing is
assumed of producers, signals or faults. One caveat: with `startsecs=3` and
the default `startretries`, a process that ends within three seconds several times in a
row is given up by supervisor, which the runs with a liveness property exclude. The modules of
the web application have safety properties only and need no fairness: a request
that nobody finishes harms no other.

## 6. What the runs found

Each of these is a run that TLC refutes, with the line of the repository it disagrees
with in `PROJECT.json`.

1. `mysql_crash`: the row of a killed worker stays `reserved`; nothing reads
   `reserved_at`. `docs/queue.md` calls this queue the durable one.
2. `mysql_quota`: `--max-jobs` counts successes only (`Worker.php:50`, `:108`). A
   worker with a quota of one whose job failed polls on, where
   `WorkerTracingTest.php:187` runs exactly that and expects the call to return.
   What does hold of the stop conditions is `StopIsHonoured`, about signals.
3. `redis_delay`: with predis 2 every ZADD of the queue is refused. A retry with
   `--sleep` above 0, the default, ends the worker and loses the job.
   `LossesAreCounted` draws the line: these losses come on top of the ones by
   faults, and there are no others.
4. `logout_sticks`: a call that overlaps the logout writes `revoked_at = NULL`
   back.

Observations that have no run of their own. Where a passing property draws the
line, it is named: its exception is the behaviour described.

- A block is undone by an edit that overlaps it
  (`MySqlUserRepository.php:45`; `AfterBlockOnlyByOverlap`, `LostOnlyByOverlap`).
- A row at the head whose payload does not decode is selected and rolled back
  at every poll (`MySqlQueue.php:163`, `:196`), so a single process, or one
  without `SKIP LOCKED`, never gets past it; `EveryJobSettles` is checked on
  queues whose jobs all decode.
- The status `inactive` of the API documentation (`docs/api/README.md:192`, `:224`)
  does not exist in the code: a PATCH that names it is answered 500 after the
  new e-mail and name were stored (`ErrorsAreClean`).
- Of two overlapping requests that want one e-mail or one role code, the second is answered
  500 by the unique index, not 409 as `docs/api/README.md:170` has it
  (`ClashOnlyByOverlap`, `RoleClashOnlyByOverlap`). A PATCH that names no e-mail
  may be answered 409 about the e-mail it had read (`ClashOnlyByOverlap`), and
  the second of two equal edits about its own new one.
- A session outlives a block of its user for as long as it lasts
  (`AuthenticationMiddleware.php:96`; `BlockedOnlyByOldSession`), and
  `POST /dashboard/logout` is itself behind `dashboard.access`, so a user who
  lost that right cannot use it.
- A login that rehashes an old password while the seed resets it brings the
  old one back (`LoginHandler.php:74`; `OldPasswordOnlyByOverlap`).
- A request that reaches Redis after its counter has expired is counted
  from one again, so late requests can exceed the limit of a window that is over
  (`WindowKeepsLimit`). A counter whose EXPIRE was never sent stays for
  ever (`LeaksCostFaults`).

## 7. Proofs

The proof modules assume only the ASSUMEs of the modules they extend: sets of
any size, any quota, any budget, any limit, window, table or wish.

**`MySqlWorkersProofs`.** Exclusive delivery is not inductive: markDone,
release and markFailed name a row by its id, so nothing in them keeps one worker off
another's row. The invariant that does is

    IInv == TypeInv /\ RowInv /\ ClaimInv /\ ExclusiveDelivery

- `TypeInv`: types, and a process in the middle of a job holds one;
- `RowInv`: per row, how the status bounds the counters, e.g. a failed row has
  used up its limit in deliveries;
- `ClaimInv`: per process, what its location says of the row it holds: locked
  and pending in `reserving`, reserved with the attempt number it carries
  later.

A claim makes the row its holder's, and no other process can select it: that
is what the steps `SelectStep` and `ReserveStep` show. Most actions change
one row and one process (`OwnRowStep`), or no row at all (`QuietStep`); these
two lemmas carry the frame argument once for all of them. Theorems:
`TypeCorrect`, `DeliveryIsExclusive`, `AttemptsAreBounded`,
`GivenUpOnlyWhenExhausted`, `GivenUpIsFinal` (a step property), `PoisonStaysInert`.

**`MySqlLedgerProofs`.** What a fault costs is a matter of counting, and the
bounds the runs check are not inductive: between two statements a process has
done something that the log or the table does not show yet. The accounts add
the processes at work to both sides:

    LInv == IInv /\ BudgetOK /\ Accounts

- `LedgerOK(j)`, per job: `attempts` is at most the closing entries plus the
  processes at work on it (`WorksOn`) plus the faults; the closing entries plus
  the processes between start and end (`Started`) are at most the starts plus
  the failed entries, since an entry that was written and then raised is
  followed by a second one from the catch block; the successes are at most the
  repairs (`Repairs`, failed statements and entries) plus the one under way or
  kept. The sets are needed: after `release` a second worker can be at
  work on a job before the first has written its JOB_RETRIED;
- `StageOK(w)`, per process: its location says what the row owes it, e.g. in
  the catch block the job threw, or something was to repair;
- `BudgetOK`: nothing is spent that was not there.

A step moves one process and one job's account, so each proof is the balance of
that account (`Attendance`: one process more or less) and a frame for the rest
(`ProcessFrame`, used for every action of a process at once).
For the dispatched entries (`UndispatchedInv`) a step adds at most one stored row the log
never saw, and only if a statement or an entry raises (`UndispatchedStep`).
`StrandedOnlyByFaults` counts rows and needs no account: a claim is given up
only with the row settled, unless a fault ends the process (`KeepsOrSettles`),
so a step adds at most one stranded row, and only a fault does. Theorems:
`RepeatsAreCounted`, `TrailClaimsNothingFalse`, `TrailLosesOnlyToFaults`,
`StrandedRowsAreCounted`.

**`MySqlContractProofs`.** `DoneStays`: a done row is named again only from the catch
block, where `StageOK` has something to repair. `LineStays`: a process in `reserving`
has its row within reach: at the head without `SKIP LOCKED`, otherwise not
further back than there are processes (`TurnInv`). When it selects, every row
before its own is locked by another process, and no two by the same one, which
is a pigeonhole (`LockedByOthers`, `SelectWithinReach`); for that the set of
workers has to be finite. From then on rows join the line behind it, and one
that leaves before it only brings it nearer (`JobJoinsLine`,
`CommitShortensLine`). `LineInv` adds what the table needs for that: no row is
twice in the line, and all of them are pending (`ReadyInv`).
`KeepsContract`:
every step maps to a step of `JobContract` or to none, under `PhaseOf`. It assumes
`Budget["storage"] = 0` and `Budget["audit"] = 0` and nothing else, because
outside these the contract is not kept: an UPDATE that raises after a success sends the job
back to the queue, and so does the JOB_COMPLETED entry. Kills, signals,
quotas and undecodable payloads stay in. With nothing to repair, `StageOK` says
that a job in the catch block threw, which is the step that needs it:
without it a succeeded job could be released.

**`RedisWorkersProofs`.** A job that is popped has no copy on the server, so "at
most one copy" is inductive only together with what each copy says:

    IInv == TypeInv /\ JobsOK

`JobsOK` says of each job (`JobOK`):

- `Placed`: it is in the list, in the sorted set, between the two in one
  process, or in one process's hands; in one of these at most and once there.
  A process moves one message at a time (`MovesOne` in `TypeInv`);
- `MessagesOK`: a stored message belongs to a queued job, counts its deliveries
  and leaves one;
- `ClaimOK`: a reservation counts the delivery it is for, and its process's
  location says where the job stands; in the catch block the job threw, or
  it is done and an entry is to blame;
- `Counted`: successes beyond the first are entries that failed.

A job that a step is not about keeps its part because the step adds no copy
of it (`JobKept`). Steps that only take copies away are one case for all
(`ForgetsKeeps`); steps that stay with the job in hand another (`Progress`); the
ones that move a job to another place need a lemma each (`PushKeeps`, `MoveDueKeeps`,
`MakePendingKeeps`, `PopKeeps`, `SettleKeeps`).

Losses are counted on top of that: every step spares all copies but those of
one job (`Spares`), and this one has a copy afterwards, is done or failed, or
the step has spent a fault or counted a refused retry or an undecodable payload
(`EveryLossStep`, `CausesGrow`).

Theorems: `TypeCorrect`, `OneCopyAtMost`, `RepeatsAreCounted` and `LossIsCounted`
without further assumptions, for either client: `LossIsCounted` also covers the
losses between ZREM and RPUSH, which the run `redis_contract` cannot reach,
because with the installed client nothing ever enters the delayed set;
`KeepsContract`, the refinement of `JobContract`, for a budget without failing activity entries, since
such an entry sends a finished job back to the queue.

**`ApiTokensProofs`.** `AfterLogoutOnlyByOverlap` speaks of requests inside
the door; it holds because of what is true before they get there:

    IInv == TypeInv /\ LogoutInv /\ BlockInv /\ OrphanInv

- `TypeInv`: types, and what a process holds at each stage (`RequestShape`);
- `LogoutInv`: a token whose logout was answered is in `raced`, or it is
  revoked and *no process is checking it* (`Gone`); the second half is what
  makes it stay so, since only a check can write NULL;
- `BlockInv`: a barred user is in `stale`, or is not active and *no edit holds
  a copy that says active* (`Shut`);
- `OrphanInv`: orphans are finitely many and at most `faults`.

Theorems: `TypeCorrect`, `LogoutHoldsWithoutOverlap`,
`BlockHoldsWithoutOverlap`, `OrphansAreBounded`.

**`UsersProofs`.** `LostOnlyByOverlap` is about the table alone, and what threatens it
are the copies in memory. The invariant

    IInv == TypeInv /\ LostInv /\ ClashInv /\ EffectInv

says of each copy what the properties say of the row:

- `TypeInv`: types, and what a request holds and has stored at each stage (`Shape`);
- `LostInv`: a column that a request will write back unasked (`Carries`) has
  the value last asked for, or the column has been raced for;
- `ClashInv`: whoever else has the e-mail a request is about to store got it
  while that request ran (`OthersAreNew`). The unique index is why this starts
  true: a copy of a row shares its e-mail with nobody;
- `EffectInv`: the two properties of answers, which `Shape` makes inductive.

**`RateLimiterProofs`.** The counter does not know whom it counted, so

    IInv == TypeInv /\ WindowInv /\ FullInv /\ LeakInv

- `WindowInv`: until a second after its window a counter is no less than the
  number of requests it vouches for (`Vouched`), because it does not expire
  sooner: a fault that counts twice only makes it larger;
- `FullInv`: neither a counter nor a number read from one exceeds the requests
  counted on that key, so a refused request has `Limit` others before it;
- `LeakInv`: leaked counters are finitely many and cost a fault each.

`RetryAfterCorrect` is arithmetic on windows, without an inductive part beyond the types, and
has no run: the header promises neither too little nor too much.

**`AccessProofs`.** `RulesAgree` is about the lists as configured, for paths of
any length: longer prefixes stand before the ones they begin with, so the first
match is the longest. It carries the guards of `Authorize` over to the intended
rule. The inductive invariant has a part per story:

- `LackingLack`: who lacked a right when sent, and was not given it since,
  lacks it still and is not past the check;
- `LoginsCarried`: a login past its status check is treated like a session, so
  that the block is known to be younger when it enters;
- `RehashSafe`: the password about to be stored is the one last given, or a
  reset has been noted;
- `SeenRemain`, `CodesNoted`: nobody deletes roles, so a code looked for in vain
  and there now was stored meanwhile;
- `LoginsKnown`, `OneSeedHolds` and the types support these.

Theorems of the three: one for each property of the runs `users`,
`rate_limiter` and `access`, `SeedRestoresAdmin` as a property of steps, and
`RetryAfterCorrect` and `RulesAgree` besides.

**Model-checked only.** Liveness (`EveryJobSettles` of both queues and `StopIsHonoured`), because
fairness and ENABLED are outside what the prover does. Every other property of a
passing run is a theorem. The four runs that expect a violation are counterexamples, which need
no proof.

## 8. Assumptions and what is left out

Assumed:

- MySQL row locks exclude each other, and a transaction whose connection
  ends rolls back.
- `queue_jobs.id` is CHAR(36) while the code binds 16 raw bytes; what the
  server does with these depends on its mode and charset. Ids are opaque and
  distinct here.
- `attempts` and `max_attempts` are SMALLINT UNSIGNED; limits above 65535 are
  not considered.
- In `reserveInternal` the branch for `affectedRows !== 1` is unreachable: the row
  is locked since it was selected.
- A failing SELECT may quote the statement in its message, so any failure of it
  may drop `SKIP LOCKED`.
- Rows of `auth_tokens`, `users`, `roles` and `user_credentials` are never deleted
  (no caller does); `LoginAction` issues tokens without an expiry;
  `revokeAllForUser` has no caller.
- An administrator who changes users is authenticated elsewhere: its own token is not part of
  the requests `status` and `edit` of `ApiTokens` nor of `Users`.
- A session is a file locked by the request that has it open, so requests of one browser
  follow each other, and a request that ends in an exception leaves it as it was.
- The seed's transaction runs at REPEATABLE READ, MySQL's default: its SELECTs
  share the snapshot of the first. Its statements are taken in two steps, the
  ones that may fail or wait and the commit; nobody sees the rows between.
- Two processes that read the clock agree on it to the second.
- `AssignRoleHandler` and `RevokeRoleHandler` have no route yet; they are
  modelled as a caller would use them, at any time.

Left out of the modelled parts: payloads, types and handlers' effects (a
handler returns or throws); clocks of the queues (a delay elapses at some point); the wording of
log lines and of the entries about refused requests; abilities of tokens; hashing itself; names and
descriptions; the name of a user, which is written wherever the e-mail is.

Not modelled:

- `CreatePermissionHandler`: no route leads to it, and it repeats
  `CreateRoleHandler`.
- The rest of the request pipeline (parsers, CSRF, error pages, formatting), tracing
  and logging, environment and configuration: sequential, without state that others
  depend on.
- The read side, the dashboard's pages and the public pages: SELECTs and rendering.
- The JSON of `JobSerializer`: of a payload the queues see only whether it decodes.
- The constructors of activity entries: append only, and no property reads them
  but the queue's trail.

## 9. What is left

1. A contract for runs with faults: `JobContract` is refined only while statements and
   entries succeed. One with a step that returns a succeeded or done job to the queue
   at the cost of a fault would be refined for every `Budget`, and
   `DoneStays` and `RepeatsAreCounted` would follow from it.
2. Liveness for every value of the constants, which needs a prover with ENABLED.
3. `CreatePermissionHandler`, should a route lead to it.
