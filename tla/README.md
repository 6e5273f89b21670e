# Verification of the code executor

TLA+ modules, TLC runs and TLAPS proofs for the code-execution service of this
repository. Paths are relative to the repository; `core/`, `api/` and the like
stand for `src/core/`, `src/api/`.

## The system

Users submit programs over HTTP. A submission becomes a record and a queue
entry in Redis; worker loops inside the same Node process claim entries, run the
program in a container and write the result back. A start-up recovery and a
periodic sweeper repair what crashes and hung programs leave behind.

| Component | State | Operations | Talks to |
|---|---|---|---|
| Job queue, `core/jobs/jobQueue.ts` | Redis lists `jobs:queue`, `jobs:processing` | enqueue (LPUSH), dequeue (BLMOVE), complete (LREM), requeue (LMOVE loop) | Redis |
| Job store, `core/jobs/jobStore.ts` | `job:<id>` (JSON, TTL), `user:<id>:jobs` | create, get, update (GET then SET), index | Redis |
| Submission, `api/routes/job.routes.ts` | none | POST /submit: create, index, enqueue, 201 | store, queue |
| Worker, `core/workers/executorWorker.ts` | locals of a turn | claim, look up, mark RUNNING, run, save, complete, announce | queue, store, limiter, runner, webhooks |
| Recovery and sweeper, `core/workers/jobRecovery.ts` | locals of a scan | requeue and re-enqueue at start; SYSTEM_ERROR for stale RUNNING | queue, store |
| Process, `server.ts`, pm2 | the abort signals | start, recover, start workers, graceful and forced shutdown | all |
| Execution limiter, `core/limits/executionLimiter.ts` | `running`, `queue` | `run` | worker, runner |
| Runner, `core/runner/` | child processes, a temporary directory | compile, run, kill on timeout | Docker |
| Webhooks, `core/webhooks/` | `webhook:*` records, retry timers | register, delete, deliver with retries, count failures | HTTP, Redis |
| Users, API keys, refresh tokens, `core/auth/` | `user:*`, `apikey:*`, `refresh_token:*` | register, rename, delete, login, refresh, logout, revoke | Redis |
| Rate limiter, `middleware/rateLimiter.ts` | a counter per user and minute, or per IP | INCR, EXPIRE, compare | Redis |
| Metrics, languages, URL checks, config, logging | counters, tables | | |

What is hard in it: everything between two `await`s of one handler interleaves
with every other handler, worker and timer; the process may die between any two
Redis commands; a command may fail, or succeed and lose its reply; the sweeper
and `updateJob` write what they read some awaits earlier; the limiter depends on
the order of microtasks. `PROJECT.json` lists each hazard at its line with the
properties that cover it.

What makes each component correct:
- queue: no id is lost, duplicated or reordered by claim and requeue; only
  completion removes one;
- workers, recovery, sweeper, process: a promised job is not lost and finishes,
  is not run or announced twice, keeps its result once it has one;
- limiter: the number of containers is bounded, no slot is idle while a run
  waits, runs start in order and all start;
- runner: ACCEPTED is earned on every input, a result by exit code is that of a
  program nobody killed, every run ends, no container stays behind but those that
  `docker kill` was sent to and missed;
- metrics: counters that agree with the jobs and with each other, errors with the
  jobs given up and the commands that failed;
- webhooks: one outcome per delivery that is the truth, failure counts that
  match deliveries, no delivery to a webhook deleted before;
- accounts: unique names and e-mails, indexes that agree with records, revoked
  keys and tokens stay unusable, no lost updates;
- rate limiter: a bound on what passes in any minute, no undue refusal, counters
  that expire.

## Modules

`ReliableQueue` is the abstract waiting line: a sequence of ids whose last
`taken` ones are claimed. Put adds behind all others, Take claims the next, Give
back returns the oldest claim to the waiting part without moving it, Discard
lets a claimed id go.

`JobQueue` is `jobQueue.ts`: two sequences, left end first, one action per Redis
command. `KeepsTheLine` states that it implements `ReliableQueue` with
`line <- queue \o processing` and `taken <- Len(processing)`.

`JobLifecycle` extends it with everything that touches the lists or a record.
One action is one Redis command, or one run of the sandbox, with the code up to
the next `await`.

| Variables | Code |
|---|---|
| `store`, `old`, `index` | status of `job:<id>` or absent; whether `started_at` is past the sweeper's cutoff; `user:<id>:jobs` |
| `submit` | how far each POST /submit is: created, indexed, then accepted (201) or failed |
| `pc`, `job`, `verdict`, `notices` | the `await` each worker is at, its `jobId`, its `result`; the statuses given to `onJobCompleted` |
| `recPc`, `requeued`, `recTodo`, `recJob` | `recoverInFlightJobs` and its `requeuedIds` |
| `sweepTodo`, `sweepJob` | `sweepStaleJobs` |
| `phase` | down, recovering (listening, no workers yet), up, stopping |

| Actions | Code |
|---|---|
| `CreateJob`, `IndexJob`, `EnqueueJob`, `SubmitFails` | POST /submit |
| `Claim`, `ClaimTimesOut` | BLMOVE, and the test of the abort signal |
| `Lookup`, `ReadForUpdate`, `MarkRunning` | `getJob`, the GET of each `updateJob`, the SET to RUNNING |
| `Run`, `SaveResult`, `Complete`, `Notify` | the run, the SET of the result or of SYSTEM_ERROR, LREM, `getJob` and `onJobCompleted` |
| `CommandFails`, and the `Fault` branches of `GoTo` | a command that rejects without effect; one that took effect but whose reply is lost. `Handler` says which catch block takes over |
| `Requeue`, `ScanRunning`, `RecoverGet`, `RecoverSet`, `RecoverPush`, `StartWorkers` | recovery, command by command; the workers start also when it threw |
| `Age`, `SweepScan`, `SweepGet`, `SweepSet`, `SweepFails` | time passing, the sweep |
| `Boot`, `Crash`, `Stop`, `Exit`, `ForcedExit`, `Expire` | pm2, death at any moment, SIGTERM, the two exits, the TTL |

`ExecutionLimiter` is `executionLimiter.ts` on a model of Node's event loop: an
event (a chunk of Redis replies, the end of a container) happens when the
microtask queue is empty, and then all its microtasks run in order. The model
counts awaits: a worker reaches `run` two turns after the reply to the SET of
`updateJob`, three turns after a GET that found no record, because `getJob`
returns first. A run may settle without a container (mock mode, an alias such as
`py` that `runCode` has no branch for, no temporary directory).

`Languages`, `MetricsCollector` and `Runner` are composed by `Executions`.
`Languages` is the registry: a name is supported if it is an id or an alias, and
only ids have a branch in `runCode`. `MetricsCollector` is the counters, as
functions from one value of the singleton to the next. `Runner` is what happens
between a call of `runCode` and its return, for several jobs on one event loop:

| Variables | Code |
|---|---|
| `at`, `results`, `status` | where a run is, its `results`, what `runCode` returned |
| `client`, `box`, `exit` | per input: the docker client's process and events, the container, how the program ended |
| `timer`, `killing` | `killTimer`; the job whose timer is inside `spawnSync` |
| `missed` | history: inputs whose container is there after `docker kill` |

| Actions | Code |
|---|---|
| `Begin`, `CompileEnds` | `runCode` up to its first await, with the file writes that may fail; `compileC` |
| `Spawn`, `SpawnFails` | `executeContainer` or `runJava`, the "error" event |
| `Close`, `Expire`, `KillReturns` | "close"; the kill timer, in two steps because `spawnSync` lets docker, programs and the clock go on while no handler of any job runs |
| `DaemonStarts`, `ProgramEnds`, `ClientExits`, `TimeIsUp` | the environment |

The end of a program, the exit of its docker client and the "close" event are
three steps, and the timer may fire between any two. So a program that ended in
time may be judged too slow: while the loop is stopped by the `docker kill` of
another job, while `docker run --rm` still removes the container, or because the
timer comes first in a turn of the loop. The code does not exclude any of these,
and no property does: `VerdictsAreTrue` is about the other verdicts.

`Executions` adds POST /submit and the turn of a worker with every Redis command
of it that may fail (the reading of the queue's size has a catch of its own), and
where each step updates the metrics:

| Actions | Code |
|---|---|
| `Submit`, `Submitted` | POST /submit; the reply to its LPUSH that comes late, which is why a completion can precede the recording of its submission |
| `Admit`, `TurnFails`, `ClaimFails` | from `dequeueJob` to the call of the limiter: the run starts, the limiter throws, or the record is gone; a command fails after the claim; BLMOVE itself fails |
| `Store`, `StoreFailure` | the result, or SYSTEM_ERROR from the inner catch |
| `Complete` | `completeJobProcessing` and the `getJob` for the webhooks, for a job that has its result |
| `Catch` | the outer catch, which all of these reach: `recordWorkerError` |

`DeliveryContract` is what a call of `deliverWebhook` promises: one result, which
is "success" with the first accepted answer, "failure" after `MAX_RETRIES` vain
tries, "refused" for a blocked URL. `WebhookDelivery` is the code: every try is a
`tryDeliver` with its own `isLastAttempt`, all share `attemptCount` and the
promise. `KeepsContract` states that it implements the contract. The code does
not bound tries by `MAX_RETRIES`, and the contract does not promise that: a
request that times out before an answer runs both the "timeout" and the "error"
handler, and each schedules a try. A try past the last is never the last again,
so against a receiver that stays silent the tries double every 10 s, without end
and without delay, although the promise is settled. `OneTryAtATime` says that
this is the only way to more than one try at a time.

`Webhooks` extends it with the routes that create and delete webhooks, their
records, index keys and histories in Redis, the scan of `triggerWebhooks` and the
bookkeeping of a result, one action per Redis command.

| Variables | Code |
|---|---|
| `record`, `indexed`, `history` | `webhook:<id>`, `user:<id>:webhooks:<id>`, `webhook:<id>:deliveries:*` |
| `create`, `drop` | POST and DELETE under way |
| `trig`, `todo`, `found` | `triggerWebhooks` and `getUserWebhooks` |
| `attemptCount`, `try`, `timers`, `outcome` | locals of `deliverWebhook`, its requests and timers, its promise |
| `book`, `doomed`, `copy` | `recordWebhookDelivery`, then `resetFailedAttempts` or `incrementFailedAttempts` |

`Accounts` is `userStore.ts`, `apiKeyStore.ts`, `refreshTokenStore.ts` and the
routes that change what they store. A request is a record that says what it asks
for (`Register`, `Patch`, `RevokeKey`, ...) and goes through its Redis commands
one by one (`pc`); handlers share the actions of the store functions they share
in the code: `Check`, `Drop`, `SetIndex` and `WriteUser` are `createUser` and
`updateUser`, `DeleteKeys`, `DeleteHooks` and `EraseUser` are `deleteUser`,
`RevokeAll` serves both a password change and a logout everywhere. Its variables
are the keys of Redis, the locals of each request (`field`, `copy`, `who`,
`todo`) and what the properties remember: which requests overlapped (`met`), the
sessions there were (`had`), the records without lost updates (`serial`).

`RateLimiter` is both limiters: a request finds its window, its INCR takes effect
some time later, an EXPIRE follows a first INCR, the verdict is by the reply.

The `MC` modules give TLC its model values.
`JobQueueProofs`, `JobLifecycleProofs`, `NoJobLostProofs`,
`ExecutionLimiterProofs`, `RateLimiterProofs`, `WebhooksProofs`, `ExecutionsProofs`
and `AccountsProofs` hold theorems. Operators whose name has a suffix
(`Dequeue_Pop`, `Settle_NoWake`) are deliberate slips: replacing the operator by
its slip must break the property that guards it.

## Runs

| Run | Shows |
|---|---|
| `jobs_core` | no job is lost, workers are covered, one restart never duplicates, settled jobs stay settled, the lists refine `ReliableQueue`; Redis never fails |
| `jobs_live` | promised jobs finish, RUNNING ends, results are announced, a completed recovery requeues every RUNNING job; one restart, one failing command, a program that never returns |
| `jobs_lost` | violated: a failing command lets the worker's error path lose a job |
| `jobs_double` | violated: a crash soon after a recovery makes the next one enqueue a job twice |
| `jobs_sweep` | violated: the sweeper overwrites a result it did not see |
| `jobs_shutdown` | violated: a graceful shutdown does not wait for jobs |
| `limiter` | exact counter, bounded overshoot, no idle slot, no overtaking, no starvation |
| `limiter_overshoot` | violated: more than `max` containers |
| `executions` | ACCEPTED and results by exit code are those of the programs, runs end once compiled, only containers that `docker kill` missed stay, counters agree with jobs and errors |
| `webhooks` | deliveries keep their contract and get a result, deleted webhooks stay silent, failure counts never exceed failures and are exact without overlap, the history keeps the newest |
| `accounts` | lost updates, wrong indexes, surviving sessions and keys, remains of deleted users occur only in the overlaps or interruptions that the properties name |
| `rate_limiter` | at most twice the limit in any minute, refusals are due, counters fade |

The four job violations and the limiter's are listed as findings with the line
of the repository each contradicts.

Bounds. Two jobs and two workers are the least with which jobs queue behind each
other, two workers hold the same job, and a worker races with the sweeper over
one job while another job is in the lists; nothing in the code distinguishes a
third. Two restarts are what a double enqueue needs (one crash to requeue, one
to scan the requeued job again), and a second recovery is the first that starts
from what a recovery left. One fault reaches each error path. One expiry
exercises each "record is gone" branch. `jobs_live` needs one restart less
because liveness depends on the last one only. The limiter has five workers so
that two run, two wait and one is rejected or barges in. Every bound is a guard
on an environment action (`restarts`, `faults`, `expiries`, `gone`, `hangs`),
none on the code's own steps. Verdicts are one value in the runs: no guard looks
at which final status it is, except that the sweeper's is distinguished.

`executions` has two jobs, one with two inputs, so that a program of one job ends
while the timer of the other is at work, and a second input follows a killed
first; the three language pairs take a compiler and none, Java and an
unsupported name, and one alias twice. One fault reaches each catch; that several
add up is `CountersAgree`, proved for any number. `webhooks`
has one webhook and two events, of which one delivery may fail and the other
meets only good answers or a blocked URL: overlapping bookkeeping, pruning with
a history of one and a disabling limit of two need no more. `MAX_RETRIES` is two
and there may be three tries: the first and the last, and one that comes after
the last or beside it. One
trouble (a death, a failing command, an expired key) comes at any point.
`accounts` tries every pair of calls and every triple of those that race; two
users, three values and one key, token and webhook suffice for a conflict on
each kind of key, and a stop may hit any set of requests, as the death of the
process does. `rate_limiter` has windows of two steps, so that a request may come
in the middle of one, and enough time for a counter to expire and for an INCR to
come after that.

Symmetry is used over jobs and workers in `jobs_core`, over requests in
`accounts` and `rate_limiter`, where all properties are safety or action
properties and treat the elements alike.

Fairness. Worker loops, recovery and sweeper are weakly fair: they are loops of
a live process and each waits only for a reply of Redis. Boot is fair because
pm2 restarts the process, `ForcedExit` because of the 10 s timer, `Age` because
time passes. A claim is fair as part of its worker. Clients, crashes, faults and
expiries are not. In the limiter, microtasks are weakly fair; the end of a
container is strongly fair, since other events may interrupt its being enabled
but libuv looks at every handle in each turn. A run that hangs is exempt. In
`Executions`, what the process does next for a job is weakly fair, and so is
time; nothing is assumed of programs, clients, containers and `gcc`. `compileC`
waits for `gcc` without a timeout (a hazard of its own, in `JobLifecycle` a run
that hangs), so `RunsEnd` begins where the compiler has ended. In `Webhooks`, replies of Redis, timers and the end of a request
are weakly fair as one: Node destroys a request after 10 s of silence, and within
the bounds there are finitely many steps, so that one condition does for all.

## Proofs

All for arbitrary constants; TLC checked each statement first.

- `QueueImplementsLine` (JobQueueProofs): `QueueSpec => KeepsTheLine`, by
  lemmas on what each command does to `queue \o processing`: a claim moves the
  boundary, an LREM removes one element of the claimed part.
- `TypeCorrect` (JobLifecycleProofs): types need `LocalsOK`, that a worker past
  its claim has a job, one about to save has a verdict, and a recovery about to
  write has an id; one lemma per action.
- `LifecycleKeepsTheLine`: each step of the whole system is a step of
  `QueueNext` or leaves the lists alone, so refinement carries over, with
  crashes and failing commands.
- `PromisedJobsAreKept` and `WorkersAreCovered` (NoJobLostProofs), assuming
  `MaxFaults = 0`, which the run `jobs_lost` shows to be needed. `NoJobLost`
  is not inductive: a worker removes an entry knowing nothing of the lists. The
  invariant `SafeInv` adds that in a running process a promised job is queued or
  held by a worker that has not finished it; that an injection maps workers at
  work to processing entries (with duplicates in the lists, membership would not
  survive an LREM); that only a running process has workers at work; that a
  recovery treats records only after it emptied the processing list, and that
  whatever promised job it reopens is queued.
- `SettledJobsStaySettled` (NoJobLostProofs), with `MaxFaults = 0` too, from
  `SafeInv`: who still has hold of a job, a worker or a recovery, has it in the
  lists or promised to put it there. `PushInv` adds that a recovery that reopens
  a promised job finds its id in the queue.
- `OnceUntilTheSecondRestart` (JobLifecycleProofs) from `OnceInv`, which holds
  while there was at most one restart: a job that was not submitted is nowhere
  (`FreshAlone`); a worker has its job alone and out of the queue (`OneHand`); a
  job that was announced is finished and on no list (`ToldOnce`); and a recovery
  reopens only jobs on no list (`Reopens`), since what is RUNNING in the queue is
  what this recovery requeued. The second restart breaks just that clause.
- `RecoveryLeavesNoneBehind` from `FoundInv`: until the workers start nothing
  leaves the queue and nothing becomes RUNNING, what was requeued is there, and
  after the scan every RUNNING job is there or has its turn to come.
- `CounterIsExact`, `OvershootIsBounded`, `NoSlotIsIdle`, `NobodyOvertakes`
  and `LimiterTyped` (ExecutionLimiterProofs), from one inductive invariant,
  `LimiterInv`: entries of the microtask queue differ by at most one turn and
  later entries are not at an earlier one, so that a call at the head of the
  queue excludes a woken waiter behind it; running, woken and late workers together are at most `max`
  plus the records that were gone; while a run waits, running and woken ones are
  at least `max`. The late calls are what breaks `max` itself: they come in a
  turn in which waiters may be woken.
- `CountersAreFading` (RateLimiterProofs): `CountersFade` is inductive with the
  types it needs. The INCR that makes a counter makes its request the witness;
  only that request's EXPIRE ends its role, and it gives the time to live; a
  counter loses its time to live only by expiring.
- `LimitsAreKept` (RateLimiterProofs) from `LimitInv`: a counter outlives the
  requests that are in time for it, so the replies of such requests differ
  (`DistinctInv`), and every number up to a reply was somebody's (`CoveredInv`).
  Then the replies map those of one window that passed one-to-one into
  `1 .. limit`, and the times of one window's length lie in at most two windows;
  and a refused request has `limit` others before it.
- `TriesComeInTurn` and `DeliveriesKeepContract` (WebhooksProofs), from one
  inductive invariant, `WebhooksInv`: a delivery none of whose requests timed out
  unanswered has only its latest try under way, or one timer and then fewer than
  `MaxRetries` tries; tries under way and timers are tries begun; what was
  accepted has a result; an event has no deliveries before its scan is over.
  `TryMoves` takes a try from one state to another and is cited by each event of
  a request. A refusal or a failure is a step of the contract because a promise
  without a result was accepted by nobody.
- `DeletedHooksStaySilent` needs besides that a webhook some DELETE was answered
  for has no index key and never gets one again (`RoutesInv`: only a webhook
  whose POST is over is deleted), and that no scan since holds its id
  (`EventInv`). Its record may come back.
- `WebhooksTyped` is the first part of `WebhooksInv`.
- `DisabledForAReason` (`RealInv`): a delivery is counted once, when its
  bookkeeping ends, so a copy of the record that a delivery holds was justified
  by failures booked before, and more can only have come since.
- `BooksStayExact` (`ExactInv`): of a webhook without overlapping bookkeeping at
  most one delivery is about to write, and its copy says what is expected.
- `NewestAreKept` (`CutInv`): a history lists each delivery once (`ListInv`);
  what is to be deleted has `Keep` later ones (`DoomInv`), which later entries
  only add to. The bound on the length must be stated for what any set of the
  deliveries that prune will leave (`CountInv`): only so does the deletion by
  one of what another is about to delete keep it.
- `VerdictsFollow` and `ContainersHaveEnded` (ExecutionsProofs) from `RunsInv`:
  inputs of a job run one at a time and the timer is that of the one that runs
  (`Progress`), nobody has killed the program of the running input, and its client
  outlives its container (`Running`, from `docker run` waiting for it), a
  container is gone when its program has ended (`Boxes`), verdicts are those of
  the programs (`Earned`), and other inputs have containers only if `docker kill`
  missed them (`Alone`). `KillInv` says that who kills is a job whose time is up,
  so that the loop goes on with the same input.
- `CountersAgree` (ExecutionsProofs): `CountsInv` is the property with the types
  of the counters and that a recorded submission made its language known. Errors
  lie between the jobs given up and the commands that failed, and each failing
  command moves at most one of each (`CatchCounts`). Jobs are assumed finite in
  number. `RunsTyped` is the conjunction of both types.
- `AccountsTyped` (AccountsProofs): types need `Flow`, which kinds of request
  come to which command, and `Holds`, that what a request has read is what its
  next commands need. Assumed of the constants: ids are fresh, seeded users have
  names and addresses of their own, and calls are ones that the constructors
  make.
- `AdminsAreMadeByAdmins` (`AdminInv`): whoever is an administrator, was read as
  one by a request at work, or makes another one, has been an administrator.
- `RecordsStaySerial` (`SerialInv`, with `MetInv`: requests that are under way
  together have met): while nobody else writes a record, what has been read of
  it stays true.
- `RevokedKeysAreDead` (`KeyInv`): the id of a key is stored only after the key,
  so a revocation that found it deletes a key that is there, and no request that
  met none brings it back.
- `SessionsAreEnded` (`SessionInv`): every token there was when the call began is
  in the set until it is read, then to do, then ended.
- `IndexesFollowRecords` (`AgreeInv`): a value that nobody contends for, of users
  that no two calls changed at once and none left half-changed, is in the index
  for the user whose request at work has listed it (`Listed`), or else whose
  record says so. `WorkInv` has what the requests at work know: a patch looks up
  only what changes, nobody changes a user not yet there, what was written or
  erased before the indexes stays so, a value found free is still free. The lemmas `ArriveSays` to `EraseSays` say how each
  writer's step changes what the indexes are to have (`Says`).
- `DeletedUsersAreGone` (`GoneInv`): while nothing disturbs a user (`Safe`), every
  key and webhook of it is on its list or being made (`Kept`, `HookKept`), and a
  deletion has come as far as its next command says (`KeysGo`, `HooksGo`,
  `UserGoes`). A step is either about other users (`Elsewhere`) or of the only
  request at work about this one (`OnlyOne`). Keys and webhooks do not change
  hands (`OwnInv`), and the name to be dropped is the one that leads to the user
  (`NamedInv`), who has been there (`BornInv`).

Every safety invariant and every safety action property that a passing run checks
is stated by one of these theorems. Only model-checked is liveness
(`AcceptedFinishes`, `RunningEnds`, `FinishedIsAnnounced`, `WaitingIsServed`,
`DeliverySettles`, `EventIsDelivered`, `RunsEnd`), since liveness under fairness
and ENABLED are beyond the prover, and the properties that are violated. One operator was rewritten for the proofs: a pruned history is
`RemoveFirst` of each key, which occurs in it once, since `SelectSeq` takes an
operator and the prover knows nothing of it.

## Not modelled

- Payloads, stdout, input validation, signatures, hashes: no property depends on
  them. In `JobLifecycle` a run returns a final status, throws, or hangs; `Runner`
  says which status.
- A scan of Redis is one snapshot. For the recovery this is exact up to expiry,
  since no worker runs; for the sweeper the later write is a step of its own,
  which is where staleness bites. Sweeps do not overlap (they would after 30 s).
  A SCAN may also return a key twice, and a webhook would then get an event
  twice.
- TTLs, beyond a record expiring once (jobs, webhooks) or a counter's own.
  Refresh tokens do not expire by themselves.
- The LLEN for the metrics and the closing of the Redis clients at exit.
- A command executed twice because ioredis sent it again.
- The death of the process in a run, as far as the run is concerned: it leaves
  its directory and its containers behind; `JobLifecycle` has what it does to
  the job. An error of `child.stdin`, which nobody handles, is one cause.
- The mock runner; truncation of output; the arguments of docker.
- Two logins of a user within a second get the same refresh token.
- The names "constructor" and "__proto__", which `LANGUAGES[name]` finds and
  `by_language` too (an assumption of `Languages`).
- Two remarks of the code that the checks do not support and no run refutes by
  itself: `rateLimiter.ts:7` and `docs/API.md:1373` call fixed windows
  sliding (`AtMostTwice` is the bound that holds), and `MAX_RETRIES` does not
  bound the tries (above).
- URL safety, configuration, Redis options, the HTTP shell and logging: stateless
  code or options of libraries.

## Plan

1. Done: queue, job lifecycle, limiter, webhooks, accounts, runner with metrics,
   rate limiter; proofs about each.
2. Resent commands in `JobLifecycle`; the death of the process in `Runner`.
