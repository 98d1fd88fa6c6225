# Goal Guardian: a verification development

Goal Guardian (`src/codex_goal_guardian/`) watches the network, the model
service and the Codex processes of a machine, and continues Codex Goals that an
outage, a capacity limit or a crash has stopped. It works from outside, through
the Codex App Server, so everything it knows about a thread may be out of date
when it acts, and it can die between any two of its calls. This directory holds
TLA+ models of its core, TLC configurations that check them on small instances
and TLAPS proofs of the results that matter most.

Line numbers below are of `src/codex_goal_guardian/` unless a script is named.

## The system

| Component | State | Operations | Talks to |
|---|---|---|---|
| health transition (`state.py` 72-127, `health.py`) | per target: health, two counters, `outage_generation`, `recovery_pending` | `transition_health` on each probe result | called by `run_once` |
| recovery ledger (`state.py` 141-180, 447-470) | action per generation and thread | `mark_recovered`, `recovery_records` | used by the CLI recovery |
| CLI outage recovery (`engine.py` 305-476, 2327-2714) | working copy of the state, position in the pass | arm, list, read, resume, start, follow, mark, complete | App Server, state store, process probe |
| model capacity recovery (693-1174, 2804-2873) | a record per thread: failed turn, model, attempts, `next_retry_at` | schedule, retry, advance to a fallback, exhaust | App Server, state store |
| desktop recovery (1176-1779, 2098-2325; `cli.py` 136-165; `state.py` 180-296) | queue of requests, a record per watched thread | request, decide, reactivate the Goal, wake, policy continuation | App Server shared with Desktop, state store |
| desktop stall supervision (1781-2096, 3298-3333) | observation of an active turn, restart request file | observe, read afresh, interrupt, request a restart | App Server, watchdog |
| watchdog (`scripts/watchdog-windows.ps1`) and installer (`installers/windows/install.ps1`) | maintenance marker, scheduled tasks, the shared App Server process | serve a request, restart what is down, remove a stale marker; drain, stop, replace, start | watcher, App Server |
| delegated CLI (478-691, 2724-2768) | a record per thread | continue a Goal of a delegated CLI thread | App Server, state store |
| state store (`state.py` 473-581) | the JSON file, the state lock, the supervisor lease | load, save (replace the file), lock | everything |
| App Server client (`app_server.py`) | the process or socket held, one queue, the last request id, a reader thread per process or connection | start with its handshake, request with a deadline, notify, close | Codex App Server |
| ownership (`ownership.py`) | a process list cached for 5 s | probe | the operating system |
| supervisor (`cli.py` 465-515) | lease, maintenance flag | loop of `run_once` | state store, installer |
| the rest | configuration, logs, reports, doctor, hooks, installers | | |

One pass of `run_once` takes the state lock, loads the state, applies the health
transition of each target and, where the target is up, runs the capacity recovery
and then one of three: the desktop recovery, the delegated CLI supervision or
the outage recovery, as the target is configured. It keeps the lock while it polls a recovery turn, which may take hours. Users, the Codex CLI,
Codex Desktop and other App Server clients work on the same threads meanwhile,
without any lock in common with Guardian.

What is hard here, and what each component must get right:

- **Crash and lost answers** between a call that has an effect and the save that
  records it: no outage may be forgotten, no turn be started again and again.
- **Stale reads**: what a read shows is not what holds when the next call
  arrives; the harm must be limited to the last such window.
- **Partial failure**: one thread fails, the pass goes on; a recovery must not be
  called complete then.
- **Counters and limits**: hysteresis of the probe, retries per model, backoff,
  generations kept.
- **Eventually**: what is owed is done, unless a named circumstance prevents it.
- **Two writers** of one file: the request command and the watcher on the state,
  the watcher and the watchdog on the restart request, the installer and the
  watchdog on the maintenance marker.
- **Threads and processes left over**: a reader thread outlives the process it
  reads, an installer that was killed leaves its marker.

`PROJECT.json` lists the hazards line by line with the properties that cover
them, including those no property covers yet.

## Modules

```
HealthTransition ----- OutageHealth ----- OutageHealthProofs
       |
RecoveryLedger
       |
CliRecovery -------- CliRecoveryProofs --- CliContractProofs
       |                                          |
       +------------- RecoveryContract -----------+
            (the abstract specification CliRecovery implements)

ModelCapacity ------ ModelCapacityProofs
DesktopRecovery ---- DesktopRecoveryProofs
DesktopStall ------- DesktopStallProofs
AppServerClient ---- AppServerClientProofs
ProcessOwnership --- DelegatedCli --- DelegatedCliProofs
```

**HealthTransition** is `transition_health` as two operators on the target record,
`ProbeFailed` and `ProbeSucceeded`, and the flag `RecoverNow` the function
returns. `OutageHealth` lets probes succeed and fail in any order.

**RecoveryLedger** is the `recovered` table. `MarkRecovered` writes one action and
drops the oldest generations, as `mark_recovered` does with its limit of eight
(the constant `KeptGenerations`).

**CliRecovery** is one target of kind `cli_turn` through a whole pass. `disk` is what
was last saved, `mem` the copy the pass works on. Every call to the App Server
is a step of its own (`ReadThread`, `ResumeThread`, `RereadThread`,
`PrepareStart`, `StartTurn`, `PollThread`, ...), so that the world may move
between any two; every change the code saves before the next call is in the
step that makes it (`Mark`). Where the pass stands is `pc`. `Crash`, `CallFails`
and `StartReplyLost` cut it off anywhere: a crash loses `mem`, a failed call
leaves the thread and goes on with the next, as the `except` around each thread
does. Threads are
records with a status, the state of the last turn and whether they are too old.
`Reason` is `thread_eligibility`. The capacity pass is one step here, for what
it may save before the recovery is armed.

**RecoveryContract** says what a user is promised of outages, with five variables
and no pass: a recovery is owed from the step that ends the outage, work is done
only while one is owed and only on threads not settled, and it is discharged
only when every thread a turn was started on is settled. `CliRecovery` maps
`owed` to `Owed(disk)`, `settled` to the threads with a terminal action and
`started` to those with a turn started.

**ModelCapacity** is `_recover_model_capacity`. The record is on disk before every
call, so there is no working copy. Turn ids matter only as "the last turn" and
"older". `next_retry_at` is the number of ticks left. Time passes anywhere, but up
to its decision a pass goes by the time that `run_once` took when it began (309),
however slow it has been since: `BeginPass` takes that time, `lag` says how long ago
it is, and `SaveDecision` writes what is left of a delay that counts from it. Only
the failures dated by a clock of their own (1076, 1146) count from where they are
seen.

**DesktopRecovery** is the request queue with its lock, the decision on a request or
on a watched thread, the reactivation of the Goal, the wake that resumes,
observes twice and starts a turn only if the thread stays idle, and the policy
continuation. A thread is the sequence of kinds of its turns, a turn id its
place. The record `config` takes the values of `Configs`: watched or not, turns
started or not, delegated continuity, policy retry.

**ProcessOwnership** is the cache of the process list: `AnswerFromCache`,
`AnswerFromQuery`, `AnswerAfterTimeout` (the old list, whatever its age) and
`ProbeRaises` (there is none). `DelegatedCli` extends it.

**DelegatedCli** is `_supervise_delegated_cli` over the threads of a target whose
sources it may take over. As in `CliRecovery`, `disk` and `mem` are the records
before and after the last save and every call to the App Server is a step. A
turn is an id and how it ended, the evidence of a continuation the id of the turn
it continues. `seenGoal` and `seenActive` are what the fresh read showed;
`KnownGoalless` is the cached `no_goal_observed`: it compares the second a thread's
summary shows with the one it was remembered under, so a Goal set, or a turn
begun, later in that second (`Seconds`) leaves the thread looking the same. The turns a pass has started
or followed run in its own App Server (`hosted`), so that the end of the pass ends
them. `recoveries` is what a thread's turns were continued by, whether Guardian
knows or not; `untold` the part that a lost answer or a crash kept from the ledger.

**DesktopStall** puts four actors on one machine around one active thread: the
Guardian pass (`_supervise_active_desktop_turn`, `pc`), the watchdog script
(`watchdog`), the installer (`installer`) and Codex (`TurnBegins`,
`TurnProgresses`, `TurnHangs`, `GoalChanges`, `ServerCrashes`). They share the
restart request, the maintenance marker, the watcher's task and the App Server.
Time is counted in ticks. The fingerprint is not a value: an observation that
no longer matches is dropped, since the code replaces it just as if it were not
there. What a pass decides by is its own clock, taken when it began
(`stalledFor`, `settledFor`). A pass by hand (`run-once --dry-run`) takes the lease
when no watcher has it.

**AppServerClient** is one client with its caller, its reader threads and its
processes or connections, numbered as they are opened. `queue` is replaced by
`Open` while an old reader may still put into it; `outer` counts the handshakes
that `notify` has begun inside another's. A message carries its id, its sender
and whether it is a result, an error or a message of the server's own.

`map` in `PROJECT.json` gives for each definition the lines it stands for.

Variables named at the end of each `VARIABLES` list (`starts`, `mishaps`, `closed`,
`asked`, `wakes`, `policyRun`, `lost`, `since`, `recoveries`, `untold`, `quiet`, `owed`, `writtenTo`, ...) are history: no guard reads them
except the bounds.

## Runs

| Run | Question | Bounds |
|---|---|---|
| `outage_health` | hysteresis: is each outage declared on a full run of failures and announced over exactly once, on a full run of successes? | thresholds 3 and 3, 7 outages |
| `cli_recovery` | is no outage forgotten, no turn doubled without a mishap, no thread left half way by a completed recovery; does the record implement the contract? | 2 threads (one of a source not allowed), 2 outages, 1 kept generation, 1 crash or failed call, 3 interferences, records of an older version |
| `cli_liveness` | is every recovery owed completed, or superseded by the next outage? | 2 threads, 1 outage, thresholds 2, 2 faults, 2 interferences |
| `cli_capacity` | the same as the first question with capacity fallbacks: **violated** | as `cli_recovery` |
| `cli_resumed` | is a turn that resume brought online never followed by a second one: **violated** | as `cli_recovery` |
| `model_capacity` | do attempts add up, are retries bounded, the backoff waited for (from the beginning of the pass that schedules it), turns not overlapped, and is the failure retried until it is over or exhausted? | 2 threads in order, 1 fallback, 1 retry per model, backoff 1 and 2, 1 fault, 1 interference |
| `capacity_reset` | do the counters survive a restart: **violated** | 1 thread, 2 retries, 1 fault |
| `desktop_recovery` | is no request lost, no evidence answered twice, nothing changed outside the residual window; are stopped threads and requests attended to? | 1 thread, 4 configurations, 1 failed turn, 2 interferences, 1 fault |
| `desktop_policy` | is a second policy rejection final: **violated** | 1 thread, 2 failed turns, 1 fault |
| `delegated_cli` | is no stopped turn continued twice and a rejected retry the last, as far as the ledger could learn of it, are held Goals, running turns and threads of a live CLI left alone, are recovery turns seen out, and is every stopped turn of a wanted Goal continued, but for a Goal set in the second of its thread's `no_goal_observed`? | 1 thread, 3 turns, 3 interferences, 1 fault |
| `desktop_stall` | is only a stalled turn interrupted and not too often, every request served, no old watcher restarted under the marker, and is every hung turn resolved? | timeouts 1, 2 and 2, 2 turns, 1 installer run, Goal change or pass by hand, 1 fault |
| `app_server_client` | is a result always the own peer's, nothing asked before the handshake, and, if writes complete, does every call end? | both transports, deadline 2, 2 processes, 2 calls, 2 unread messages, 1 fault |

Why these bounds are enough to be interesting. Two threads are what it takes for
one to fail or fall off the list while the other goes on, and for one to wait
behind another; desktop threads do not share anything but the queue, so one is
enough there. Two outages let the second come at any point of the recovery of
the first. One kept generation makes dropping happen at the second outage. One fault at any step, together with the interferences, reaches every
crash window; a second one is allowed where the question is whether recovery
still ends. `MaxUnhealthy`, and `MaxFailures` in `OutageHealth`, cap the
counter of failing probes, which the code lets grow: beyond the threshold it
makes no difference. `MaxFailures` in `DesktopRecovery` caps the turns that end
short of the Goal, `MaxDisturbances` what users and other clients do,
`MaxFaults` the crashes and failed calls.

One delegated thread is enough for its questions: records, evidence and
eligibility are per thread. What threads share is the probe's cache and the pass
itself: a call that fails on one ends the pass for all later ones, which the fault
does to the one thread wherever the pass stands.
Three turns are the failed one, its continuation and one that another client
starts. In `DesktopStall` the timeouts only need to differ: one tick is the
shortest stall, and an operation and the settling of an interrupt last longer.
Two turns let one follow another between a read and an interrupt.
`MaxVisits` caps what users do: installer runs, changes of the Goal, passes by
hand. In `AppServerClient` two processes are the one that is replaced and the one
that replaces it, two calls a request that timed out and the one that must not
take its answer. `MaxUnread` holds a reader back while that many messages wait,
`ServerIds` are the ids of the server's own messages, 0 for notifications and
one id that the client uses too.

Deadlock is checked in every run but `app_server_client`: an idle watcher can
always start another pass, while a client whose calls are used up is done.

### Disagreements between the code and its documents

- `cli_capacity`: `run_once` saves health "up" in the capacity pass and sets
  `recovery_pending` only at `engine.py` 428. A crash in between forgets the
  outage.
- `cli_resumed`: after `thread/resume` the thread is looked at once, after the
  grace period. A turn that has come and gone by then is not seen, and a second
  is started, where the project's README says never.
- `capacity_reset`: `recovery_turn_id` is saved after `turn/start` returns. If the
  watcher dies in between, the retry's failure is taken for a new one and all
  counters start at zero, although they are said to survive restarts.
- `desktop_policy`: a second rejection is recognised by a turn id that is saved after
  `turn/start` returns. If that answer is lost, a second continuation follows.

Met while modelling, without a run of their own (see the hazards in
`PROJECT.json`): a reader that ends late puts its end into the queue of the next
process, whose handshake then fails (`app_server.py` 420); the drain does not wait
for a Desktop pass (`install.ps1` 770), though watchers are said to finish theirs; the
Desktop task's own trigger may start an old watcher during a replacement
(`install.ps1` 876); the marker in WSL is not removed when its installer was killed.
And these, which properties of passing runs except and say so:

- A capacity backoff counts from the beginning of the pass that schedules it
  (`engine.py` 309, 812-817, 836-841): a slow pass shortens it by its own duration.
- A delegated continuation whose answer is lost, or whose pass dies between 622 and
  641, is not in the ledger. Its evidence, or its own rejection, may then be
  continued once more, where the project's README (400-401) has at most one
  continuation per evidence turn. It is the flaw that `desktop_policy` shows for
  Desktop.
- A Goal set in the second under which its thread was remembered to have none is
  passed over until the thread moves (517-524, 3336-3343).

## Fairness

Safety properties are checked without fairness. For liveness:

- A pass that has begun goes on (`PassStep`, `Retry`, `Pass`): every call has a
  deadline (`app_server.py` 337-356) and its failure is a step too.
- The watcher keeps starting passes: `_watch` is an endless loop and the watchdog
  restarts it. In `CliRecovery` this is strong fairness of `BeginPass(FALSE)`: its
  pass modes are an environment's choice, and dry runs must not be all there is.
- In `ModelCapacity` passes are weakly fair (`BeginPass`, `Decide`, `Retry`): one is always
  possible when none runs.
- Turns end, the CLI exits, the network comes back, Desktop returns to the shared
  App Server, time passes: without these nothing is owed to anyone. What users
  do and what fails has no fairness, and is bounded.

- In `DesktopStall` the watchdog goes on (`WatchdogStep`): its task is triggered
  every minute. An installer that is not killed ends (`InstallerStep`). Passes
  have strong fairness, since markers and restarts hold them up now and then;
  of `TaskTrigger`, passes by hand, new installers and users nothing is assumed.
- In `AppServerClient` only the caller and its clock are fair; the App Server may
  fall silent or send without end, and a reader need not read.
- In `DelegatedCli`, turns and CLIs end and the cached list expires.

`RecoveryDischarged` excepts a turn left `inProgress` on a thread that is not
loaded: the code waits for such a turn for ever (`engine.py` 2449), and so does
the model. `RetriedOrExhausted` speaks of the first thread in order: the loop
returns at the first thread that is waiting or exhausted (860-879), so those
behind it are never reached. `RequestsDecided` speaks of threads not watched. `StoppedGoalsContinued` excepts a thread
that is `Overlooked`, and `RequestsEnd` rests on writes that complete.

## Proofs

Every safety property the passing runs check is also a theorem, invariant and
action property alike, for every set of threads, peers and calls, every
threshold and timeout, every number of outages and faults. The named `ASSUME`s
of the modules are all the theorems rest on, and TLC evaluates them in the runs.
Two theorems assume `CapacityEnabled = FALSE` besides, and say so.

The proofs have one pattern. A type invariant (`TypeInv`, in parts of the state)
says where a pass may stand and what it then holds. The property's own
invariant adds what the copy of the pass, its reads and the disk know of each
other at each of those places. Steps are grouped by what they leave alone, so
that only the few that touch an invariant need an argument.

**OutageHealth** (`OutageHealthProofs`): `TypeCorrect`, `BlipsOpenNoGeneration`,
`OutagesAnnounced`, `AnnouncementConfirmed`. `IInv` ties the two counters of the code
to the length of the run of equal results, which the code does not keep: a
generation is opened by a counter, and only this tie makes it a real run.

**CliRecovery** (`CliRecoveryProofs`, `CliContractProofs`). The first lemmas are of
`mark_recovered`: it keeps the shape of the ledger, and never drops the generation
it marks when no later one has records.

- `TypeCorrect`.
- `OutageRemembered`: `OutageNeverForgotten`, assuming `CapacityEnabled = FALSE`,
  the very assumption that the run `cli_capacity` shows to be needed. The
  property speaks of the moments between two passes and is not inductive. `OutageInv`
  adds that from the probe to the arming the copy is ahead of the disk by
  exactly one successful probe (`UnsavedProbe`), and that from the arming to the
  end of the pass it holds the pending flag (`Armed`): whatever save comes last
  before a crash, either the old health or the pending flag is on disk.
- `StartsBounded`: `StartsBoundedByMishaps`, from `CountInv`. Copy and disk agree on
  the records and no record is of a later generation (`Books`); a thread has at
  most one turn more than it has mishaps, and at most as many unless its record is
  terminal or the pass is supervising its turn (`Counted`); the thread a turn
  is started on has no terminal record (`OpenVisit`).
- `CompletionIsFinal`: `CompletedLeavesNothingStaged`, from `CompletionInv`. In a
  pass without error and without anyone to wait for, a staged thread is still to
  be visited or is being visited (`Pursued`); so a completed recovery leaves none,
  and no later pass takes it up again (`Final`).
- `RecoveryKeepsContract`: `ImplementsContract`, the refinement of
  `RecoveryContract`, step by step, assuming `CapacityEnabled = FALSE`. It takes all
  invariants above, that a turn started leaves a trace in the ledger or in the
  position of the pass (`Traces`), and that once armed the disk knows that a recovery
  is owed (`OwedOnDisk`).
- `OverlapIsResidual`: `OverlapOnlyInResidualWindow`. Between the last read and
  `turn/start` a running turn was seen, or began after it (`Watched`).

**ModelCapacity** (`ModelCapacityProofs`).

- `CountersAgree` (`AttemptsAddUp`) and `RetriesEnd` (`RetriesBounded`), from
  `CountInv`. `RetriesBounded` speaks of the retries a thread has had, which no
  record keeps: `CountsCover` ties them to the attempts its record counts and
  to one budget for each failure that lost a started turn. A new record counts
  none, so `Known` is needed: the record knows the thread's last turn, and is not
  replaced, unless the retries are covered without it or the pass is about to save
  the turn it has just begun.
- `TypeCorrect`. That the count of failures stays one ahead of the attempts at most
  (`FailuresCounted`) is what bounds it: each failure but the last was answered.
- `BackoffKept`: `BackoffHonoured`, from `DelayInv`: while a failure is the last
  turn, the time since it and what is left of its delay by the pass's own clock
  add up to its backoff. Before its decision a pass is behind by `lag`, and it counts
  every failure as at least as old as itself (`LagInv`).
- `OverlapIsResidual`, as above.

**DesktopRecovery** (`DesktopRecoveryProofs`).

- `RequestsKept`: `RequestNeverLost`, from `RequestInv`. A pass works on the state
  it has saved last, and holds the lock that a request waits for, so no save of
  it brings back an older set of requests.
- `TypeCorrect`.
- `ChangesAreResidual`: `ChangesOnlyInResidualWindow`, from `WindowInv`: until the
  world moves after the last read, nothing began on the thread, and a Goal about
  to be set is one that may be set.
- `StartedOnce`: `OneStartPerEvidence`, from `StartInv`. Turns were started for the
  evidence of the record and for earlier ones only; while the record waits for
  a wake, every start for it has been lost (`AccountInv`); and a pass follows up
  only evidence that is new or whose starts were lost (`VisitInv`).

**DelegatedCli** (`DelegatedCliProofs`).

- `TypeCorrect`, with the bound on turn ids that each thread keeps.
- `ContinuedOnce` (`EvidenceContinuedOnce`) and `RejectedRetryEnds`
  (`RejectedRetryIsLast`), both but for recoveries that a lost answer or a crash
  kept from the ledger, from `LedgerInv`. Copy and ledger agree up to
  a failed save, and tell of the visit's recovery once it is recorded (`SaveInv`). Nothing
  the ledger was told of was continued after the
  evidence in the record, and a recovery it once told of is the recorded one, older,
  or out of sight (`LedgerTells`); the evidence of a visit is newer than all of it
  (`EvidenceFresh`).
- `ChangesAreResidual` (`WindowInv`), and `CliFirst`: `CliKeepsItsThreads`, from
  `CliInv`: a process list that shows no CLI is older than any there is.
- `RecoveriesSeenOut`: `RecoveryTurnsSeenOut`, from `SeenOutInv`: of the turns the
  pass hosts, only that of the thread it is visiting may be one that its records
  tell of and run.

**DesktopStall** (`DesktopStallProofs`).

- `TypeCorrect`: `TypeOK` is inductive as it stands.
- `RequestsServed`: `RequestsServedBeforeRemoved`, from `RestartInv`. From the stop of
  the App Server to the removal of the request the request stays, and a pass that
  asks again leaves it as it is.
- `NoOldWatcher`: `NoOldWatcherDuringReplacement`, from `InstallerInv`: once its task
  is stopped, no watchdog begins while the marker is a live installer's.
- `StalledTurnsOnly`: `OnlyStalledTurnsInterrupted`, from `StallInv`. The age of a
  record is owed to the turn's quiet but for the time the recording pass had run
  (`AgeInv`), and so is what a pass took of it as long as the record stands
  (`SeenInv`); past the fresh read the timeout has been compared (`DueInv`,
  `ReadInv`).
- `InterruptsApart`: `InterruptsSpaced`, from `SpacingInv` on top of `StallInv`. A turn
  that has not moved since its interrupt has its record still (`UnmovedInv`), and
  neither the record nor the pass takes the interrupt to be longer ago than it is
  (`SavedInv`, `TakenInv`, `SavingInv`).

**AppServerClient** (`AppServerClientProofs`): `TypeCorrect`, which includes that no
peer is left running behind the client's back; `HandshakeComplete`
(`HandshakeFirst`), from `Informed`, which follows the live peer through every
state in which the caller may send; and `OwnResults` (`ResultsAreOwn`), from
`OwnInv`: wherever a result is, in an inbox, a pipe or the queue, its id is no
newer than the last one used and equals it only if it is the pending request's
own. Its key is `NewRequestNewId`: ids are not begun anew with a new peer.

Model-checked only: liveness, that is `RecoveryDischarged`, `RetriedOrExhausted`,
`StoppedThreadsAttended`, `RequestsDecided`, `StoppedGoalsContinued`,
`HungTurnsResolved` and `RequestsEnd`, since fairness and `ENABLED` are beyond the
prover; and the violated properties, whose counterexamples TLC finds.

## Not modelled

- Texts: which error messages count as network, capacity or policy errors, the
  prompts, the reports and the logs. The classes are values of the models.
- The state file as a file: a save is atomic; a corrupt file and its repair are left
  out. Only one watcher exists: the lease is assumed.
- Several targets in one state file. A pass handles them one after the other under
  one lock and each has its own records; a save for one also writes what the pass
  has changed for those before it, which is what the end of the pass would write.
- The process probe's cache outside `DelegatedCli`; elsewhere it answers truly at
  the moment it is asked. Whether a command line is that of a CLI is a value.
- The probe of the Desktop runtime (`engine.py` 1241-1255) in `DesktopStall`: it is
  taken to find the shared runtime active.
- The write side of the App Server client: a write completes at once, though the
  code sets no deadline for it. Frames, upgrade and masking of the WebSocket.
- The WSL lane of watchdog and installer, and the drain's search for processes:
  how long it takes is free, and what it looks for is not in the Desktop lane.
- A failing `store.save` in `CliRecovery`: there a save completes or the watcher dies
  before it.
- The health transition that is lost when a process probe raises (719).
- Threads that grow too old in `DesktopRecovery` and `ModelCapacity`.
- Composition: the modules share threads and records only through the App Server and
  the state file, and each lets the world do what the others would. Delegated
  continuity's way around the capacity backoff (`engine.py` 380) would need
  `DesktopRecovery` and `ModelCapacity` together.
- Limits of 32 and 64 records per table: beyond single threads.
- Configuration, logs, status, doctor, hooks: no state that recovery depends on.

## Plan

In order of weight:

1. Proofs: how far the properties that TLC finds violated do hold.
   `SecondRejectionIsFinal` fails by a lost answer only: that it holds of every
   run without a fault is worth a theorem, as is `RetriesSurviveRestart`.
2. `DesktopRecovery` composed with `ModelCapacity`: delegated continuity's shortcut.
3. The WSL lane: its marker, its watcher and the installer's probe of it.
