# A model of the parser-os worker

The worker (`src/parser_os_worker/main.py`, "main.py" below) takes compile
requests from two Azure Storage queues, runs the parser-os compiler on a deal's
documents and leaves the results in blobs. Several replicas run the same loop.
They share no memory and take no lock: they meet in the queues' leases and in
blobs that each overwrites without looking. Processes are killed for memory, for
time, by operators and by deploys, and what they leave behind is read by the
next boot, by other replicas and by the pages people wait in front of. Most of
the code, and most of its comments, are about those ends. So is this project.

## Inventory

| Part | Where | State | Operations |
|---|---|---|---|
| Main loop | main.py 2401-2884, 2955-2971 | the held message and job in `_INFLIGHT` | poll priority then normal queue, guards, attempt, acknowledge, `except` |
| Queues | external | messages, visibility, dequeue counts, pop receipts, the poison queue | receive, renew, release, delete |
| Status and run index | 1195-1322 | `parser-jobs/<compile>/status.json`, `_parser-runs/` | `_write_status`, `_previous_attempt_cannot_succeed` |
| Progress document ("page") | 350-417, 683-732, 1936-2137 | `compile-progress.json`, one per deal | stage callbacks, heartbeat, `_fail_progress_if_ours` |
| Active index and recovery | 253-309, 433-478 | one marker per running compile, naming replica and boot | mark, clear, `recover_dead_runs` |
| Watchdog, memory guard | 159-243, 536-608 | a thread each | tell the deal, `os._exit` |
| Cancel watcher | 735-882 | `compile-cancel.json`, one per deal | poll, record, delete message and request, exit |
| Termination release | 949-1057 | `_INFLIGHT` | on SIGTERM give the lease back, mark the compile interrupted |
| Lease renewer, budget | 60-98, 885-946 | clocks, the current receipt | renew every 10 minutes until a ceiling; budget from the number of documents |
| Results | 1391-1401, 1657-1783, 2142-2325 | envelope, fingerprint, scope, SOW, trace, atoms, renders | one write after the other |
| SOW draft on demand | 2887-2952 | the envelope and PM handoff again, a status blob | read, write back |
| Brief generation | 1446-1540 | -- | queue message and HTTP call, both best effort |
| Keepalive | 629-666 | a message only the autoscaler counts | send, delete |
| Drain and deploy | drain.py, deploy-dev.yml | a sentinel blob | refuse new work; write, wait, roll, remove |
| ML artifacts | fetch_ml.py, write_back_ml.py | model files, a registry mirrored to blobs | fetch at boot, upload and prune |
| Everything else | entrypoint.sh, Dockerfile, smoke tests, drift alarm, JSON reshaping | none that lasts | -- |

What makes each correct:

* queues and main loop: bounded attempts, no two replicas on one compile while
  leases hold, no message dropped before its outcome is on record or in silence;
  hopeless or cancelled compiles should not be started again (see Findings);
* pages: they end, they say "done" only of what is delivered, only their owner
  fails them;
* recovery: every dead run is found, and only dead runs are;
* results: no reader finds a sidecar without its envelope, and a compile is
  skipped only for what has been stored;
* renewer: a working replica keeps its lease, a stuck one loses it;
* deploy: nothing is killed that was at work when the drain was over;
* ML artifacts: nobody deletes what it did not fetch.

Behaviours that are hard here: a process that ends between any two writes;
redelivery after a lapse, to another replica or the same; state of one message
surviving in memory into the next; two compiles of one deal at once; failures
of the very calls that report failures; threads that exit the process while the
main thread writes. `PROJECT.json` lists the hazards at their lines.

## Modules

Six modules model six views of the system. They overlap on purpose, and where
they do, one takes in a single step what the other takes apart:

| Module | Question | Against |
|---|---|---|
| CompileWorker (with CompileLedger) | what becomes of a message, over replicas, crashes and restarts | a renewal, a heartbeat tick, an artifact are one step |
| LeaseTiming | whether the clocks fit together | one message; the compile is an interval |
| CompileProcess | what the threads of one process do to each other's writes | one compile; other replicas are one newer compile |
| DealArtifacts | what a reader finds of a deal | how often an attempt is made is left open |
| DrainDeploy | what a deploy interrupts | compiles have a marker and stages, and no content |
| MLArtifacts | what is lost when several containers share the model store | training is external |

**CompileLedger** is the abstract specification: which compiles are outstanding,
how often each was attempted, which have an outcome on record. A compile is
attempted a bounded number of times and settled only when recorded.

### CompileWorker

The main loop with everything it shares.

| Variable | Code |
|---|---|
| `queue`, `hidden`, `lessee`, `dequeued` | a queue's messages, their visibility, whose pop receipt is current, `dequeue_count` |
| `archive` | the poison queue |
| `status`, `runIndex` | the status blob by its `stage`, the run index |
| `progress` | `compile-progress.json`: `of` its `compile_id`, `is` its `status` |
| `marker` | `_active-compiles/<compile>.json`: `replica`, `boot_id` |
| `envelope`, `fingerprint` | which compile wrote `envelope.json`; which documents `compile-idempotency.json` names |
| `request` | `compile-cancel.json`: the compiles it stops; one without a `compile_id` stops any |
| `pc`, `boot` | where the process is; its boot id |
| `held`, `seen`, `job` | `_INFLIGHT["msg"]`, the `dequeue_count` on it, `_INFLIGHT["job"]` |
| `killing` | the threads that are about to end the process: which of the three, for which delivery, at which of its writes |
| `listed` | the markers `recover_dead_runs` has listed and not yet looked at |
| `starts`, `uploaded`, `briefed`, `doomed`, `cancelled`, `dead`, `skipped`, `faults` | history, read by properties and bounds only |

`starts` counts passes through "Mark running". `doomed`, `cancelled`, `dead` and
`skipped` keep what `status` forgets when it is overwritten.

An action is the code between two points where a crash or another replica makes
a difference. One attempt is

    Receive -> PassGuards -> MarkRunning -> BeginCompile -> Seed -> (Tick)* ->
    Project -> UploadEnvelope -> MarkDone -> WriteFingerprint -> LeaveCompile ->
    RecordCompleted -> NotifyBriefGen -> Settle

with its ways out: `RunSowDraft`/`AckSowDraft` for SOW drafts, `CannotDecode` and
`GiveUp` through `ForwardToPoisonQueue` to `Ack`, `SkipDeal`, `SkipUnchanged`,
`ManifestFails` and `CompileRaises` to `HandleException`, `DeleteFails` where a
delete answers otherwise than MessageNotFound, `Sigterm`/`MarkInterrupted` for
the termination release, and `Sigkill`. `Restart`, `RecoverDeadRun` and
`RecoveryDone` are the next boot: one pass over the markers there were, as in the
code, which a failed listing leaves to the boot after. `Lapse` and `LapseInUse`
are the queue's clock.

Watchdog, memory guard and cancel watcher are threads beside main. `WatcherFires`
lets one of them see what it waits for; from then on it takes its writes one by one,
in its own order (`KillOrder`): `KillWritesStatus`, `KillWritesPage`,
`KillDropsMessage`, `KillDropsRequest`, `KillClearsMarker`, and at the end
`KillExits`. Main and the heartbeat go on between any two of them, and may write
"running" over what the thread has written, finish the compile, fail it, or hold
the next message by the time the process exits.

Three things follow the code closely because findings hang on them. Places
that return without `_INFLIGHT.clear()` leave `held` and `job` behind (`Ack`,
`HandleException`), and a later `Sigterm` acts on them. The marker is cleared
only by the `finally` around `_do_compile` and by the exits that clear it, so
`SkipUnchanged` and `ManifestFails` leave it. And the `except` of main writes the
page unconditionally, unlike the paths that use `_fail_progress_if_ours`.

Abstracted:

* A compile and its queue message are one value; documents are compared as a
  whole (`docs1`, `docs2`). The stages of a compile are one place with repeated ticks.
* The writes of the other error paths (recovery, giving up, the `except`, the end of
  a termination) are one step each. CompileProcess takes the `except` and the
  termination apart, killed in between.
* Blob writes succeed. The code wraps nearly all of them as best effort.
* The two polls are one step. All messages are enqueued at the start; sending
  one later is like receiving it later.
* A delete with an old receipt does nothing, as in the code: MessageNotFound is
  benign to it. Renewal keeps the lease and rotates no receipt; that a delete of the
  cancel watcher may miss through a renewal is the fault `"renewing"` here, and
  LeaseTiming shows how.
* The drain gate only delays a receive; keepalives, retraining and the sidecar
  artifacts touch none of these variables.

**CompileWorkerProofs**, **CompileWorkerLeaseProofs** and **CompileWorkerOutcomeProofs**
hold the theorems, each extending the one before; **MCCompileWorker** the values for
TLC. The theorems of each of the other five modules are in the module of its name
with `Proofs` appended.

### LeaseTiming

One message, the replicas that may receive it, and time.

| Variable | Code |
|---|---|
| `present`, `hiddenFor`, `dequeued` | the message, the rest of its visibility timeout, `dequeue_count` |
| `receipt` | who has the current pop receipt, and whether it is in the message object (where a delete takes it from), in an answer the renewer has yet to read, or nowhere |
| `docs`, `outcome` | size of the manifest, final stage of the status |
| `pc`, `age`, `ran` | what a replica does, since when it has the message, since when the compile runs |
| `wait`, `call`, `misses` | the thread of `_LeaseRenewer`: until it wakes, the `update_message` it is in, failures in a row |

`Budget` is `compile_budget_sec`, `Every` and `MaxTotal` are what
`_LeaseRenewer.__init__` computes. `Begin` starts renewer and watchdog.
`RenewerWakes`, `Renew` or `RenewalFails`, `ReadReply` or `ReadFailure` are one
renewal, taken apart because a delete or release may fall in between.
`CompileEnds`/`LeaveCompile` is the `finally` with `renewer.stop()`, which joins
the thread; `Cancel`/`FinishCancel` is the cancel watcher, which does not.
`WatchdogFires` and `Cancel` leave their stage in the status or not (`Remains`),
since main may write over it. `Sigterm`/`Release` is `_release_inflight`, possible
wherever a message is held, also while it is being given up on (`"returning"`), so
that each of the `terminations` may cost one delivery more. `Tick` is time: it waits for whatever
is `Due`, so deadlines are met, and all timers count down, so time needs no bound.

Assumed: calls are short against a tick, a renewal in flight ends within the
five seconds of the join, an answer is never lost (either the caller learns of
it or nothing was done), and at most `MaxMisses` renewals fail in a row.
`SettingsAssumption` is what the settings have to satisfy, a watchdog that is not
turned off among them; the default ones do.
What the `except` does after a failure is `Stand`: the message waits for its lease.

### CompileProcess

The threads of one process -- main thread and signal handler, heartbeat,
watchdog, memory guard, cancel watcher -- around one compile, and one newer
compile of the deal on another replica.

| Variable | Code |
|---|---|
| `page`, `snapshot` | `compile-progress.json`; what `_fail_progress_if_ours` has read of it, and whether its ETag still fits |
| `status`, `marker` | the status blob; the marker, and whether it names the keepalive |
| `message`, `attempt`, `keepalive` | the two queue messages, `dequeue_count` |
| `known`, `job` | the `keepalive` and `job` entries of `_INFLIGHT` |
| `raised` | an exception on its way out of `_do_compile` |
| `pc` | each thread's place |
| `lock`, `silenced` | `_lock` and `_stop` of `_ProgressHeartbeat` |
| `request`, `newer` | the cancel request; the newer compile |

The main thread is `Receive`, `StartWatchdog`, `SendKeepalive`,
`RememberKeepalive`, `CompileStatus`, `Seed`, then `StageReports`/`StageMarks` in a
loop, `StagesOver`, `StagesSilence` (`heartbeat.stop()`, which waits for the lock),
`ProjectionPage`, `ProjectionStatus`, `UploadEnvelope`, `DonePage`, the `finally`
(`FinallySilence`, `FinallyClear`, `StopWatchers`, `FinallyFree`), and
`RecordCompleted`, `Acknowledge` or `FailPage`, `RecordException`. The killers are
`Fire`, `KillStatus`, `ReadPage`, `KillPage`, `KillClear`, `Leave`, the watchdog in
another order than the guard (`First`, `After`). The cancel watcher is
`CancelStatus` to `CancelForget`, where `_INFLIGHT.clear()` takes the heartbeat
away from the `finally` of the main thread. `BeatTakes`, `BeatPage`, `BeatMarks` is
one tick. Any `Leave` stops every thread where it is.

`GiveUp` and `Recover` are one step each: no other thread of the process exists
then, and what a newer compile may do between read and write is in `KillPage`.
The compile is forced, so the skip of CompileWorker does not come in between.

### DealArtifacts

| Variable | Code |
|---|---|
| `blob` | which compile each artifact is of: envelope, fingerprint (`idempotency`), the sidecars in `BestEffort` |
| `handoff` | which compile `PM_HANDOFF.json` is of |
| `draftStatus`, `copy` | `sow-draft-status.json`; the compile of what a draft has read |
| `notified` | brief generation has been told and has not answered |
| `visible`, `lessee`, `task`, `at` | messages, their receivers, what each replica works on and its next step |
| `stored`, `faults` | history |

A compile is a sequence of steps (`Steps`), most of which write one blob: `Store`,
or `StoreFails` where the code goes on without (without its atoms a compile does
not write its full result). `SkipUnchanged` or `Compile` is the check before,
`Notify` and `Acknowledge` come after. A draft is `DraftBegins` to `DraftDone`, with
`DraftFails` for what its `except` reports. `Abandon` is an exception nothing
catches, a kill, a cancel, a termination: the message is left, and `Lapse` or
`GiveUp` decides what becomes of it. `BriefGen` is external: it makes the hand-off
of the envelope it finds.

Assumed: a draft outlives its lease only while it is being written. One that is
received and then stands still for a whole lease before its first status write
could say "running" after another has finished it.

### DrainDeploy

| Variable | Code |
|---|---|
| `sentinel` | `control/parser-os-worker.drain` |
| `marked`, `age` | the active markers, rounds since each was written |
| `replica`, `at`, `held`, `queue` | replicas and their revision, where each is in the loop |
| `deploy`, `rounds` | the step each deploy is at, how often it has waited |
| `taken`, `quiet`, `forced`, `robbed`, `trouble` | history |

`Gate` and `Receive` are two steps, as in the code: the sentinel is read, then the
queue. `Start`, `Touch`, `Project`, `Finish`, `Settle` are a message's life as far as a
deploy can see it: the marker is written before the documents are fetched ("preparing"),
touched from the first stage report to the end of the last stage ("staging"), and left
alone during projection, renders and uploads ("projecting"). A deploy is
`WriteSentinel`, `Count` in rounds (`Pass` is one), `Roll`, `OldOnesGone`, `Remove`;
with `ForceRoll`, and `StepFails` for a step that fails, a cancelled run or a guard that
skips all but the last one. `Terminate` and `Provision` are the platform, external.

Assumed: during the stages the marker is touched before it is `FRESH_SEC` old -- the
heartbeat does so every few seconds. Of the time before and after them nothing is
assumed, and a marker may go stale in it.

### MLArtifacts

| Variable | Code |
|---|---|
| `source`, `registry`, `log` | the store: each head, `_head_registry/`, the training log |
| `landed`, `failed`, `entries`, `logged`, `rows` | a container's disk: heads, whether a tarball failed, the registry, whether it has a training log and what is in it |
| `toUpload`, `toDelete` | what is left of `write_back_ml.py`'s two loops |
| `at` | the program a container is in |
| `missed`, `learnt`, `registered`, `pruned`, `faults` | history |

`Boot`, `Fetch` or `FetchFails`, `Extract`, `Gate` are fetch_ml.py; `Die` is its `_die`
with `ML_ARTIFACTS_OPTIONAL`. A fetch that fails leaves what came before on the disk,
and the training log whole, empty (the file is opened before the download) or not
at all; `WriteLog` uploads it if it exists. `List`, `Upload`, `Delete`, `WriteLog` are
write_back_ml.py, one blob at a time. `Learn`, `Register`, `Prune` are training,
external. `Kill` is the 180 seconds main.py gives the write-back, or the container's
end.

## What the runs show

Passing runs, in the order of the modules. A queue may run dry and a message be
gone for good, so deadlock is checked in MLArtifacts only.

| Run | Instance | Checks |
|---|---|---|
| TwoReplicas | CompileWorker, 2 replicas, 2 compiles of a deal with the same documents, 2 faults | types, and threads that take only steps of their own; a deal whose messages are gone shows nothing running; "done" and "completed" only with the envelope up, a skip only after an upload of the same input; a compile whose message is gone was delivered, archived, cancelled or is of a dead deal |
| LostLeases | 2 replicas, a compile, and on the priority queue a SOW draft, garbage and a compile of a skipped deal, leases that lapse under the replicas, 2 faults | attempts bounded; an outcome was put on record before the message goes; CompileLedger is implemented |
| Liveness | 2 replicas, 1 compile, 2 faults, fairness | every message leaves the queues, every orphaned marker is found, no page says running for ever but that of a cancelled compile |
| LeaseTiming | 2 replicas, three sizes of a deal, 1 failed renewal in a row, 1 termination | nobody starts a compile under another; a completed one is gone although renewals replace receipts; a termination makes the message visible at once; even a compile that hangs frees its message |
| CompileProcess | 2 faults, a newer compile, the page absent or of an older run | "done" is the last word of its process; a killer spares the page of a newer compile; every page but a cancelled compile's stops saying running; the keepalive of a dead run is deleted |
| DealArtifacts | 2 replicas, 2 compiles with the same documents in two scopes, 1 draft, 2 faults | no sidecar before its envelope, whatever was killed; a skip rests on a stored envelope of the same input; a draft's status ends; undisturbed, the hand-off catches up |
| DrainDeploy | 2 replicas, 2 messages, a deploy and a skipped one beside it, 1 fault | at most one message more per replica under a sentinel; a drained roll spares the compiles in their stages; only live compiles make a deploy give up; nothing is taken after the roll; the sentinel goes |
| MLArtifacts | a nightly run and a worker that boots without, 2 heads, 2 entries, 2 rows, 2 faults | nothing boots without its heads; the registry loses only what was pruned; registry before log |

Runs that end with a counterexample, each to one sentence of the repository
(Findings):

| Run | Instance | Refutes |
|---|---|---|
| RecoveryKillsCompleted | CompileWorker, 1 replica, 2 compiles, 1 kill | recovery fails only dead runs |
| TimedOutRunsAgain | 1 replica, 1 compile, 1 timeout | a timed out compile is not run again |
| CancelRacesRenewal | LeaseTiming, cancellations only | a cancelled message is deleted |
| StaleFingerprint | DealArtifacts, 1 replica, 3 compiles, 1 failed write | a skip is of the last compile's documents |

Bounds, and why they are enough:

* CompileWorker: `Faults` says what may go wrong and `MaxFaults` how often in all.
  `MaxDequeue` 2 makes the second redelivery the exhausted one, so two faults are enough
  for a message to be tried, lost, tried again and given up on. Between them the three
  runs use every kind of fault there is. Boots and dequeue counts are bounded by faults
  and by the size of the queue. Replicas are symmetric wherever no liveness property
  is checked, and the two compiles of TwoReplicas, of one deal and the same documents,
  are too. In LostLeases all but one compile go to the priority queue.
* LeaseTiming: a tick is five minutes, and the constants are the default settings:
  visibility 30 minutes, a renewal every 10, four hours of them, a floor of 25 minutes,
  75 percent. Documents count in batches that add one tick, six or seven of them at
  the default of 45 seconds each. The default of `MIN_RENEW`, 30 seconds, is below a
  tick and does not bind. One batch stays on the floor, eleven lie between floor and
  ceiling, eighty above the ceiling. `MaxDequeue` 3 lets a lost message be received
  again and again until it is given up on. `MaxTerminations` 1 bounds how often the
  platform ends a replica at work: one that it ends every time never comes to give
  a message up.
* CompileProcess: one compile, because what several do to each other is one
  newer page; two faults, because the races are between two ends of the process
  (a kill beside a cancel, a termination beside a kill), and a second attempt
  follows the first whenever the first was cut short.
* DealArtifacts: with two compiles and two replicas any two of their writes
  interleave in every order; each may also be repeated. One sidecar stands for those
  without a rule of their own, in this run: they differ in their place in the order, and the
  order is checked by what comes before it. StaleFingerprint has all of them.
* DrainDeploy: two replicas for one that looks idle while the other is not; a
  marker is stale after two rounds and a drain gives up after three, which keeps
  the order of 5 and 60 minutes and lets a marker go stale during a drain. The
  second deploy is skipped by its guard, whose removal step runs all the same.
* MLArtifacts: one container that mirrors and one that does not, one head as a
  tarball and one as files; one entry and one row are in the store at the start,
  the other is added. That is enough for one container to overtake the other's boot.

Fairness:

* CompileWorker (`FairSpec`): a replica that has something to do does it -- the loop
  of `__main__` catches every exception and never ends, the watchdog bounds the one
  step that may hang, and the platform restarts a container that exits -- and a
  lease nobody renews runs out. A thread that has begun to end its process does so.
  Nothing is fair about ticks, faults, lapses in use or requests to cancel. With 2
  faults and a `MaxDequeue` of 2 a compile is lost until it is given up on, or
  dropped as a dead deal with its marker left for a later boot to find.
* LeaseTiming: time passes, replicas and renewers do what is due. Nothing is
  assumed of the compile (`CompileEnds`), which may hang: that is the point.
* CompileProcess: threads run, and a thread that has begun to write ends its
  write. Strong fairness of `StagesOver` says a compile does not report stages
  for ever, which the watchdog sees to. Taking the lock is strongly fair: the
  heartbeat releases it between ticks for far longer than it holds it.
* DealArtifacts: replicas run, leases end, brief generation answers.
* DrainDeploy: deploys go on, rounds pass, compiles in their stages touch their
  markers, the platform ends what was rolled. Of polling, starting and finishing nothing
  is assumed: the sentinel must go even if no compile ever ends.
* MLArtifacts has no liveness property.

What was assumed for a property to hold, found by letting it fail first:

* `SettledPageIsTerminal` excepts cancelled compiles (Findings) and those once
  skipped for their documents: a compile may be killed between a failure and its
  handler, another's fingerprint makes its redelivery a skip, and a skip writes no page
  (main.py:2713-2719), so the page says running until the page's own rule for stale
  documents (src/README.md:91-93), which is outside this code. It and its theorem
  suppose that leases hold.
* `PageSettles` excepts cancelled compiles, for the same reason, in both modules, and
  is checked with one compile in CompileWorker.
* `OutcomeRecorded` says that an outcome was put on record, by this attempt or an earlier
  one: a status may be overwritten afterwards. Status writes are taken to succeed.
* `DroppedIsAccountedFor` is of a poison queue that takes messages: the forward is best
  effort, and the message is deleted all the same (Findings).
* `OrphanFound` is of replicas that are started again under their name.
* `NoOverlap` excludes more failed renewals than `MaxMisses`: the code does not fence a
  lessee that lost its lease.
* `NewerPageIsKept` excludes a page that was absent when it was read: without a
  version there is nothing to make the write conditional on.
* `BriefCatchesUp` is of deals without faults and drafts; a failed or lost
  notification is not repeated, and a draft writes an older envelope back.
* `RollSparesStages` is of compiles in their parser stages, on any replica; of those
  before and after, see Findings.
* `DyingTakesNothing` excepts forced rolls, other deploys, an unreadable sentinel and a
  wait that timed out. `SentinelLifted` supposes that the `if: always()` step is run:
  a runner that is lost leaves the sentinel.
* `RegistryKept` and `PromotionFirst` are of one registrar.

## Findings

Four runs end with a counterexample to a sentence the repository says of itself
(quoted in `PROJECT.json`):

* **RecoveryKillsCompleted.** `SkipUnchanged` returns before the `try` whose
  `finally` clears the marker. After the next restart of the replica,
  `recover_dead_runs` writes "killed" over the status of a run that completed.
* **TimedOutRunsAgain.** The watchdog writes "timeout" and exits some writes later
  (213-233). Main runs on in between and may write "running" over it (1906, 2148). The
  guard of the redelivery then sees "running", and the compile is started again, on one
  replica and with nothing else going wrong. The same holds of `out_of_memory`.
* **CancelRacesRenewal.** The cancel watcher deletes the message without stopping the
  renewer (859-863). A renewal in flight replaces the receipt, the delete is answered
  MessageNotFound, which counts as done, and the cancelled compile comes back after
  its lease.
* **StaleFingerprint.** A fingerprint that fails to be written leaves the one before
  it beside a newer envelope. A compile of the older documents is then skipped
  as "byte-identical to the last successful compile", and the deal goes on
  showing the newer ones.

The models contain the following too; TLC finds each when the property is added.

Messages and outcomes (CompileWorker):

* A replica fails a compile and goes on polling with `_INFLIGHT` still set.
  Another replica runs the redelivery into its timeout. The first is terminated
  and writes "interrupted" over "timeout", and the next delivery is run again: a second
  way to what TimedOutRunsAgain shows.
* A watcher that fires just before the compile ends can no longer be called off
  (`stop()` sets a flag it has already looked at): it ends a process that has gone on to
  the next message.
* Between the cancel watcher's page and its exit (837-882) a stage callback, a heartbeat
  tick or the projection may write "running" over the page of the cancelled deal. The
  message is deleted, so nobody ever corrects it: the "run that never ends" of
  main.py:757. `\A d : Settled(d) => progress[d].is # "running"` fails with one
  replica, one compile and one cancellation.
* The delete of a cancelled message is tried once; if it fails, or the process dies
  before it, the cancelled compile is run again.
* The `except` of main fails the page whoever it belongs to (main.py:2839; compare 332-333).
* A failed forward to the poison queue is logged, and the message deleted: the
  silent drop (1413) the function is there to prevent (1442).
* A termination right after a delete announces a retry (1032) of a message that no
  longer exists.
* A termination between fingerprint and notification: the redelivery is skipped
  as unchanged, so the brief generator is never told (2707; 1487-1488).
* Cancelled compiles are missing from the run index (1242, 1250).
* The marker also survives a failed manifest download; a SOW draft is exempt from
  `MAX_DEQUEUE_COUNT` and from renewal; a run killed after its upload is reported
  with "Nothing was saved"; a cancel request without a compile id outlives the run
  it was meant for and stops the deal's next one.

Threads (CompileProcess):

* A keepalive outlives its run when the process dies between sending it and the first
  marker that names it, or when the run is cancelled: its time to live is what ends it.

Artifacts (DealArtifacts):

* A SOW draft writes the envelope it read minutes before over that of a compile
  that has finished meanwhile, and so with the hand-off (2935).
* A compile that failed and is retried after its lease puts its envelope over that
  of a newer compile that ran in between. No line says which should win.

Deploy (DrainDeploy):

* Two deploys may run side by side: the workflow has no concurrency group. Whichever
  ends first, even one its guard skipped, removes the sentinel the other drains
  under, since the removal is `if: always()`.
* A deploy counts a compile as running while its marker is fresh, and
  deploy-dev.yml:310-312 says that every running compile keeps its marker so. Nothing
  touches the marker before the first stage report and after the last stage (2017,
  2084; projection, renders and uploads are 2085-2335). The projection alone takes about
  90 seconds (2087), so it is a slow download or a slow tail that gets past the 300
  seconds of `FRESH_SEC` and is rolled over. `RollSparesStages` with all of `Working`
  for the stages fails with one deploy and no fault.
* The drain protects compiles that have a marker. From receive to first marker, from
  the cleared marker to the delete, and during a SOW draft a replica holds a
  message the deploy does not see; SIGTERM hands it back.
* The removal is `|| true`: if it fails, the worker takes nothing until the next deploy.

ML artifacts (MLArtifacts):

* Rows of the training log should "accumulate ACROSS runs" (write_back_ml.py:1-3), and
  `[][log \subseteq log']_vars` fails with two workers and no fault: every container
  writes its own log over the store's (write_back_ml.py:86-89). main.py:2811-2825 starts
  the write-back after every compile of every replica, with `RETRAIN_ENABLED` on by
  default, besides the nightly run. What another container stored since this one
  booted is lost.
* `log # {}` fails with one worker and one failed download, which leaves an empty file
  (fetch_ml.py:149-150). A container with `ML_ARTIFACTS_OPTIONAL` starts all the same, and
  its write-back puts the empty file over the log: the guard that keeps an empty disk
  from wiping the registry (write_back_ml.py:71-74) is not there for the log.
* The embedding cache is overwritten like the training log; the comment at
  write_back_ml.py:99-101 says that it has a single writer.
* A container with both `FETCH_ML_INCLUDE_REGISTRY` and `ML_ARTIFACTS_OPTIONAL` would
  boot with half a registry after a failed download, and its write-back delete the
  other half. No configuration in the repository has both, and the run has none.
* An upload is skipped when name and size agree (write_back_ml.py:56), which is
  sound for names that are hashes and not for the others.

## What is proved

Every invariant and every action property that a passing run checks, and the
refinement, is also a theorem, for any value of the constants that the named
assumptions of the modules allow: any replicas, messages, deals, documents, threads' interleaving,
faults in any number. Each module's main invariant was given to TLC before it was
proved. A proof has one step per action; what several need is a lemma.

| Theorem | Says | Supposing |
|---|---|---|
| `TypeCorrect`, `AttemptsAreBounded`, `OutcomesAreRecorded`, `WorkerImplementsLedger` | `TypeOK`, `AttemptsBounded`, `OutcomeRecorded`, `LedgerSpec` | -- |
| `DeliveredIsUploaded` | `DeliveredMeansUploaded` | -- |
| `SettledPagesAreTerminal` | `SettledPageIsTerminal` | `LeasesHold` |
| `DropsAreAccountedFor` | `DroppedIsAccountedFor` | `PoisonWorks` |
| `TimingTypeCorrect`, `LeaseIsItsOwn`, `CompletedMessageIsGone`, `ReleasedIsVisible` | `TypeOK`, `NoOverlap`, `CompletedIsGone`, `TerminatedIsVisible` of LeaseTiming | -- |
| `BudgetWithinLease` | `compile_budget_sec` lies between the floor and the ceiling and grows with the documents | -- |
| `ProcessTypeCorrect`, `DoneStaysLast`, `NewerIsKept` | `TypeOK`, `DoneIsLast`, `NewerPageIsKept` of CompileProcess | -- |
| `DealTypeCorrect`, `EnvelopeComesFirst`, `SkipsAreCompiled` | `TypeOK`, `SidecarsBacked`, `SkippedWasCompiled` | -- |
| `DrainTypeCorrect`, `DrainSparesStages`, `DrainTakesOneMore`, `DrainHeldByLive`, `DyingIsDrained` | `TypeOK`, `RollSparesStages`, `OneMoreEach`, `OnlyLiveHolds`, `DyingTakesNothing` | -- |
| `MLTypeCorrect`, `BootGateHolds` | `TypeOK`, `BootedWithHeads` | -- |
| `PromotedBeforeLog` | `PromotionFirst` | `OneRegistrar` |
| `OnlyPrunedIsDeleted` | `RegistryKept` | `OneRegistrar`, `RegistrarsFetch` |

The hypotheses restrict what may go wrong or who takes part; all are what the run of
the same property sets its constants to, and none can be dropped:

* `LeasesHold`: no lease runs out under a replica at work (`"slow"` is not among the
  faults). The code relies on it and does not fence. `LeaseIsItsOwn` is the reason to
  grant it: under `SettingsAssumption` and with at most `MaxMisses` failed renewals
  in a row, renewal keeps it true.
* `PoisonWorks`: the forward to the poison queue is best effort (Findings).
* `OneRegistrar`: `FETCH_ML_INCLUDE_REGISTRY` is for the nightly job alone
  (fetch_ml.py:115-118). Two that train at once would each delete what the
  other has added. `RegistrarsFetch`: nothing in the repository sets
  `ML_ARTIFACTS_OPTIONAL` (Findings).

Arguments, by module:

* CompileWorker. `TypeOK` is inductive as it stands: its last conjunct, that a process
  at work holds a message, an attempt is a compile's and a thread is at a step of its
  own, is needed to type the others. `AttemptsBounded` is not, since a replica past the
  guards will start its compile whatever `starts` says by then. `BudgetInv` counts
  those: starts plus the replicas that still hold a delivery within the limit
  (`Pending`) never exceed the deliveries made, nor `MaxDequeue`. A receive pays for a
  new pending replica with its `dequeue_count`; `MarkRunning` turns a pending replica
  into a start; nothing else adds to either. `RecordInv` adds that whoever is at a place
  it deletes from (`Closing`) has its outcome on record, and so has a canceller past its
  first write: records are never taken back, and each way into those places writes one
  first. Every step starts a compile, records outcomes or drops a message that is
  recorded, and maps to the ledger step of that name or to a stutter.
* Pages. `LeaseInv`: a replica at work on a message is its lessee, the message is
  hidden, the dequeue count the replica saw is the message's, and a compile's message is
  gone under it only when it was cancelled. Two at work would both be the lessee
  (`OneWorker`). `PageInv`: a page that says running is of a compile of that deal whose
  message is still in the queue, or that was cancelled or skipped for its documents;
  who is past writing the final page (`Told`) does not show its compile running. Without
  the leases another replica could delete the message of a compile that still writes.
* Outcomes. `DeliveredInv`: past the upload the held compile is in `uploaded`, and a
  fingerprint names documents of an uploaded compile of the deal; without the latter
  a skip could say "completed" of nothing. `AccountInv`: whoever is about to drop a
  compile without results of its own has archived it, or found its deal dead or
  skipped, or skips it for results that are up. Nothing is ever taken off the
  account (`AccountStays`), so lapses, kills and second deliveries do not matter.
* LeaseTiming. `TimingInv`: while a replica is at work the lease outlasts the next
  renewal and the reserve for those that may fail (`Every * (MaxMisses - misses)`), and
  the only good receipt is in its message object or in the answer it is about to read.
  `OutgoingInv`: a message received more often than the limit and the terminations allow
  is being given up on, which is what bounds the dequeue count. Settings enter through
  `Budget(n) <= LeaseMax` and `SettingsAssumption`.
* CompileProcess. `DoneInv`: the heartbeat is off from the projection on, so neither it
  nor a stage is left to write once the page says done; it needs that `lock` is held
  exactly while a tick writes, so that silencing waits for one. `SnapshotInv`: every
  write outdates the versions that were read, so a current one is of the compile
  itself. `ProcessInv` adds to the types that a message received once too often is gone.
* DealArtifacts. `StepsOfCompile` and `NextOfCompile` say of `Steps`, for any sequence
  `BestEffort`, that each artifact is a step, that every step but "ack" has a next
  one, and that the envelope is next to the skip check and to nothing else.
  `BackedInv` follows a compile past it: whoever is at a sidecar, or beyond, has
  stored its envelope. A skip rests on a fingerprint, which is a sidecar.
* DrainDeploy. `HeldOnce` keeps two replicas off one message. `MarkedWhileStaging`: a
  compile in its stages has a fresh marker, from the first touch to `Project`, so a
  deploy that goes on to roll because it counted none found nobody there.
  `OnceUnderSentinel`: who has taken one is not past the gate, unless it could not read
  the sentinel. `QuietSince`: no marker is younger than the last sign of life.
  `DrainUpheld`: while an old replica is dying some deploy waits for it, unless that
  wait failed, and a deploy that drains has its sentinel, unless another deploy took it
  or the drain was forced.
* MLArtifacts. `HeadsInv` follows a boot from download to gate. `KeptInv`: who does not
  register has and deletes nothing; what the registrar lacks of the registry was
  pruned. `PromotedInv`: what is no longer to be uploaded is in the store, unless
  an upload failed.

Only model-checked is all liveness (`EverySettled`, `OrphanFound`, `PageSettles`,
`EventuallyGone`, `KeepaliveFound`, `DraftSettles`, `BriefCatchesUp`,
`SentinelLifted`): fairness is stated with ENABLED, which is beyond the prover. The
four runs that expect a violation are counterexamples and need no proof.

## Plan

Modelling is done, and so are the proofs of what the runs check short of liveness.
What is left:

1. The step of the liveness arguments that is not temporal: what makes each wait
   shorter (a delivery or a fault is used up, a marker is cleared), as action theorems.
2. An abstract specification of the lease (one lessee at a time, handed over through the
   queue) that LeaseTiming implements and whose guarantee is `LeasesHold`.
3. Hypotheses to weaken: `SettledPagesAreTerminal` without `LeasesHold`, for compiles
   that nobody else has received.

## Not modelled

* The compiler (`app.core`), external: it returns, raises, hangs or is killed.
* The reshaping of its results into JSON: no state, and no property depends on it.
* Image build, entrypoint, import smoke tests: programs run one after the other. The
  one branch that matters, refusing to start without heads, is `Die`.
* The drift alarm: it compares two dates on a timer.
* Of modelled parts: the keepalive's time to live and a failed send; retries
  of the brief notification, which is one step with two outcomes; the embedding
  cache, written like the training log; three artifact directories that are uploaded and
  never mirrored; the fetch receipt; a SOW draft for a deal id that is refused.
