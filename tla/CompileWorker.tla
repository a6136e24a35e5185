---------------------------- MODULE CompileWorker ----------------------------
(***************************************************************************)
(* The parser worker's main loop (src/parser_os_worker/main.py): replicas  *)
(* that poll a priority and a normal queue, run one message at a time, and *)
(* leave their results and their traces in blobs that other replicas, the  *)
(* next boot of the same replica and the operators' pages read.            *)
(*                                                                         *)
(* A message that asks for a compile is identified with that compile.  The *)
(* queues and the blob store are external: a receive hides a message and   *)
(* makes the receiver its lessee, and only the lessee's receipt is good    *)
(* for a delete or a release.  Blob writes are atomic and succeed.         *)
(***************************************************************************)
EXTENDS Naturals, FiniteSets

CONSTANTS
  Replicas, Compiles, SowDrafts, Garbage, Deals, Docs, NoOne,
  Priority,     \* the messages sent to the priority queue
  DealOf,       \* the deal each compile is for
  DocsOf,       \* the documents in its manifest (and the scope of the run)
  Forced,       \* compiles enqueued with force=true
  SkipDeals,    \* SOWSMITH_WORKER_SKIP_DEALS
  MaxDequeue,   \* MAX_DEQUEUE_COUNT
  Faults,       \* the kinds of trouble that may happen
  MaxFaults     \* how many times in all

Message == Compiles \cup SowDrafts \cup Garbage

FaultKinds == { "sigkill", "sigterm", "slow_restart", "slow", "error", "missing",
                "timeout", "memory", "cancel", "poison", "delete", "renewing", "sow",
                "notify", "priority", "listing" }

ASSUME SetsAssumption ==
  /\ IsFiniteSet(Replicas)
  /\ Compiles \cap SowDrafts = {} /\ Compiles \cap Garbage = {} /\ SowDrafts \cap Garbage = {}
  /\ NoOne \notin Message \cup Replicas \cup Docs
  /\ Priority \subseteq Message /\ Forced \subseteq Compiles /\ SkipDeals \subseteq Deals
ASSUME JobAssumption ==
  /\ DealOf \in [Compiles -> Deals]
  /\ DocsOf \in [Compiles -> Docs]
ASSUME BoundsAssumption ==
  /\ MaxDequeue \in Nat \ {0}
  /\ MaxFaults \in Nat
  /\ Faults \subseteq FaultKinds

VARIABLES
  queue,        \* messages not deleted
  hidden,       \* those of them under a visibility timeout
  lessee,       \* who received a message last: whose pop receipt is current
  dequeued,     \* its dequeue_count
  archive,      \* messages forwarded to the poison queue
  status,       \* parser-jobs/<compile>/status.json, by final stage
  runIndex,     \* compiles with an entry under _parser-runs/
  progress,     \* compile-progress.json of a deal: whose it is, what it says
  marker,       \* _active-compiles/<compile>.json: the replica and boot in it
  envelope,     \* the compile that wrote envelope.json of a deal
  fingerprint,  \* the documents named by compile-idempotency.json of a deal
  request,      \* the compiles that compile-cancel.json of a deal asks to stop
  pc, boot,     \* where a replica's process is, and which boot of it this is
  held, seen,   \* _INFLIGHT["msg"], and the dequeue_count it came with
  job,          \* _INFLIGHT["job"]
  killing,      \* the threads of a process that are about to end it
  listed,       \* the markers that its recovery has listed and not yet read
  starts,       \* history: how often a compile was started
  uploaded,     \* history: compiles whose envelope was written
  briefed,      \* history: compiles brief generation was told about
  doomed,       \* history: compiles once found hopeless to run again
  cancelled,    \* history: compiles once recorded as cancelled
  dead,         \* history: compiles once recorded as a dead deal
  skipped,      \* history: compiles once recorded as skipped for their documents
  faults        \* history: how much trouble there has been

queueVars == <<queue, hidden, lessee, dequeued, archive>>
recordVars == <<status, runIndex, doomed, dead, skipped>>
artifactVars == <<envelope, fingerprint, uploaded, briefed>>
mainVars == <<boot, held, seen, job, listed>>
processVars == <<mainVars, killing>>
vars == <<queueVars, recordVars, progress, marker, artifactVars, request, processVars,
          pc, starts, cancelled, faults>>

\* The stages a compile's status blob can end on.  _DO_NOT_RERUN_STAGES, and
\* those written with a status of _TERMINAL_STATUSES.
Hopeless == {"timeout", "killed", "out_of_memory"}
TerminalOnlySuccess == {"completed", "skipped_unchanged", "terminated"}  \* bug: "failed" left out
Terminal == Hopeless \cup { "completed", "skipped_unchanged", "exhausted_retries",
                            "exception", "dead_deal", "terminated" }
Stage == Terminal \cup {"none", "running", "cancelled"}
PageState == {"none", "running", "done", "failed", "interrupted", "cancelled"}
NoMarker == [replica |-> NoOne, boot |-> 0]

\* The threads beside main that end the process -- the watchdog, the memory guard
\* and the cancel watcher -- what each calls the compile it ends, and its steps in
\* their order.  Main and the heartbeat run on until the last of them, os._exit.
Killers == {"watchdog", "guard", "canceller"}
KillStage == [watchdog |-> "timeout", guard |-> "out_of_memory", canceller |-> "cancelled"]
KillBegins == [watchdog |-> "status", guard |-> "page", canceller |-> "status"]
KillOrder ==
  [ watchdog  |-> [status |-> "page", page |-> "marker", marker |-> "exit"],
    guard     |-> [page |-> "status", status |-> "marker", marker |-> "exit"],
    canceller |-> [status |-> "page", page |-> "message", message |-> "request",
                   request |-> "marker", marker |-> "exit"] ]
KillStep == {"status", "page", "message", "request", "marker", "exit"}

\* Where main can be.  From "prepare" to "fingerprinted" it is inside _do_compile,
\* with the watchdog, the memory guard and the cancel watcher up.
Watched == {"prepare", "compile", "project", "uploaded", "done", "fingerprinted"}
Attempting == Watched \cup {"manifest", "skipped", "left", "recorded", "notified", "failed", "dead"}
Busy == Attempting \cup {"dispatch", "start", "archive", "ack", "sow_done"}
Place == Busy \cup {"down", "recover", "poll", "releasing"}

TypeOK ==
  /\ queue \in SUBSET Message /\ hidden \in SUBSET Message
  /\ lessee \in [Message -> Replicas \cup {NoOne}]
  /\ dequeued \in [Message -> Nat]
  /\ archive \in SUBSET Message
  /\ status \in [Compiles -> Stage] /\ runIndex \in SUBSET Compiles
  /\ progress \in [Deals -> [of : Compiles \cup {NoOne}, is : PageState]]
  /\ marker \in [Compiles -> [replica : Replicas \cup {NoOne}, boot : Nat]]
  /\ envelope \in [Deals -> Compiles \cup {NoOne}]
  /\ fingerprint \in [Deals -> Docs \cup {NoOne}]
  /\ request \in [Deals -> SUBSET Compiles]
  /\ pc \in [Replicas -> Place] /\ boot \in [Replicas -> Nat]
  /\ held \in [Replicas -> Message \cup {NoOne}] /\ seen \in [Replicas -> Nat]
  /\ job \in [Replicas -> Compiles \cup {NoOne}]
  /\ killing \in [Replicas -> SUBSET [by : Killers, of : Compiles, receive : Nat, at : KillStep]]
  /\ listed \in [Replicas -> SUBSET Compiles]
  /\ starts \in [Compiles -> Nat]
  /\ uploaded \in SUBSET Compiles /\ briefed \in SUBSET Compiles
  /\ doomed \in SUBSET Compiles /\ cancelled \in SUBSET Compiles
  /\ dead \in SUBSET Compiles /\ skipped \in SUBSET Compiles
  /\ faults \in Nat
  \* a process that is working works on a message, an attempt is a compile's, and
  \* a thread takes only steps of its own, of a process that is there
  /\ \A r \in Replicas : /\ pc[r] \in Busy => held[r] \in Message
                         /\ pc[r] \in Attempting \cup {"start"} => held[r] \in Compiles
                         /\ pc[r] = "down" => killing[r] = {}
                         /\ \A k \in killing[r] :
                              k.at = "exit" \/ k.at \in DOMAIN KillOrder[k.by]
------------------------------------------------------------------------------
Init ==
  /\ queue = Message /\ hidden = {} /\ archive = {}
  /\ lessee = [m \in Message |-> NoOne]
  /\ dequeued = [m \in Message |-> 0]
  /\ status = [c \in Compiles |-> "none"] /\ runIndex = {}
  /\ progress = [d \in Deals |-> [of |-> NoOne, is |-> "none"]]
  /\ marker = [c \in Compiles |-> NoMarker]
  /\ envelope = [d \in Deals |-> NoOne]
  /\ fingerprint = [d \in Deals |-> NoOne]
  /\ request = [d \in Deals |-> {}]
  /\ pc = [r \in Replicas |-> "down"] /\ boot = [r \in Replicas |-> 0]
  /\ held = [r \in Replicas |-> NoOne] /\ seen = [r \in Replicas |-> 0]
  /\ job = [r \in Replicas |-> NoOne]
  /\ killing = [r \in Replicas |-> {}] /\ listed = [r \in Replicas |-> {}]
  /\ starts = [c \in Compiles |-> 0]
  /\ uploaded = {} /\ briefed = {} /\ doomed = {} /\ cancelled = {}
  /\ dead = {} /\ skipped = {}
  /\ faults = 0

Goto(r, place) == pc' = [pc EXCEPT ![r] = place]

At(r, place) == pc[r] = place

\* A piece of trouble of this kind happens.
Fault(kind) == kind \in Faults /\ faults < MaxFaults /\ faults' = faults + 1

\* _write_status, and with it _write_run_index for a terminal status.
WriteStatus(c, stage) ==
  /\ status' = [status EXCEPT ![c] = stage]
  /\ runIndex' = IF stage \in Terminal THEN runIndex \cup {c} ELSE runIndex
  /\ doomed' = IF stage \in Hopeless THEN doomed \cup {c} ELSE doomed
  /\ dead' = IF stage = "dead_deal" THEN dead \cup {c} ELSE dead
  /\ skipped' = IF stage = "skipped_unchanged" THEN skipped \cup {c} ELSE skipped

Page(c) == progress[DealOf[c]]
WritePage(c, says) == progress' = [progress EXCEPT ![DealOf[c]] = [of |-> c, is |-> says]]

\* bug: the status alone is failed, as it was before 010264.
FailNoPage(c) == UNCHANGED progress

\* _fail_progress_if_ours: absent, or written by this compile.
FailPageIfOurs(c) ==
  IF Page(c).of \in {NoOne, c} THEN WritePage(c, "failed") ELSE UNCHANGED progress

MarkActive(r, c) == marker' = [marker EXCEPT ![c] = [replica |-> r, boot |-> boot[r]]]
ClearActive(c) == marker' = [marker EXCEPT ![c] = NoMarker]

\* _safe_delete_queue_message of the held message.  A receipt that is no longer
\* current answers MessageNotFound, which the code takes for a benign ack race.
DeleteHeld(r) ==
  LET m == held[r] IN
  /\ IF lessee[m] = r THEN queue' = queue \ {m} /\ hidden' = hidden \ {m}
                      ELSE UNCHANGED <<queue, hidden>>
  /\ UNCHANGED <<lessee, dequeued, archive>>

\* _INFLIGHT.clear()
ForgetInflight(r) ==
  /\ held' = [held EXCEPT ![r] = NoOne]
  /\ job' = [job EXCEPT ![r] = NoOne]
  /\ seen' = [seen EXCEPT ![r] = 0]
  /\ UNCHANGED boot

\* The threads of a process go with it, and what its recovery has listed.
ForgetThreads(r) ==
  /\ killing' = [killing EXCEPT ![r] = {}]
  /\ listed' = [listed EXCEPT ![r] = {}]

\* bug: sys.exit in a thread ends only that thread.
ExitThread(r) == UNCHANGED pc /\ ForgetInflight(r) /\ ForgetThreads(r)

\* os._exit, or a kill: nothing of the process's memory survives.
Exit(r) == Goto(r, "down") /\ ForgetInflight(r) /\ ForgetThreads(r)
------------------------------------------------------------------------------
\* The container is started (again): a new boot id, empty memory.  The markers of
\* its name are there to be listed; no other process writes one.
Restart(r) ==
  /\ At(r, "down")
  /\ Goto(r, "recover")
  /\ boot' = [boot EXCEPT ![r] = @ + 1]
  /\ listed' = [listed EXCEPT ![r] = {c \in Compiles : marker[c].replica = r}]
  /\ UNCHANGED <<queueVars, recordVars, progress, marker, artifactVars, request, held, seen, job,
                 killing, starts, cancelled, faults>>

\* A marker of this replica and of another boot.
Orphan(r, c) == marker[c].replica = r /\ marker[c].boot # boot[r]

\* recover_dead_runs goes through the markers it listed once: a run whose marker
\* is still an orphan is failed as "killed".
RecoverDeadRun(r) ==
  /\ At(r, "recover")
  /\ \E c \in listed[r] :
       /\ listed' = [listed EXCEPT ![r] = @ \ {c}]
       /\ IF Orphan(r, c)
          THEN FailPageIfOurs(c) /\ WriteStatus(c, "killed") /\ ClearActive(c)
          ELSE UNCHANGED <<recordVars, progress, marker>>
  /\ UNCHANGED <<queueVars, artifactVars, request, boot, held, seen, job, killing, pc, starts,
                 cancelled, faults>>

\* bug: a recovery that stops at the first marker it cannot read.
RecoveryGivesUp(r) ==
  /\ At(r, "recover")
  /\ Goto(r, "poll")
  /\ listed' = [listed EXCEPT ![r] = {}]
  /\ UNCHANGED <<queueVars, recordVars, progress, marker, artifactVars, request, boot, held, seen,
                 job, killing, starts, cancelled, faults>>

\* Once per process; a listing that fails leaves the markers to the next boot.
RecoveryDone(r) ==
  /\ At(r, "recover")
  /\ \/ listed[r] = {} /\ UNCHANGED <<listed, faults>>
     \/ Fault("listing") /\ listed' = [listed EXCEPT ![r] = {}]
  /\ Goto(r, "poll")
  /\ UNCHANGED <<queueVars, recordVars, progress, marker, artifactVars, request, boot, held, seen,
                 job, killing, starts, cancelled>>

Visible == queue \ hidden

\* receive_message(visibility_timeout=VISIBILITY_TIMEOUT_SEC)
Lease(r, m) ==
  /\ lessee' = [lessee EXCEPT ![m] = r]
  /\ dequeued' = [dequeued EXCEPT ![m] = @ + 1]
  /\ hidden' = hidden \cup {m}

\* The priority queue first, the normal queue when that one is empty -- or when
\* polling it failed.
Receive(r) ==
  /\ At(r, "poll")
  /\ \E m \in Visible :
       /\ \/ m \in Priority /\ UNCHANGED faults
          \/ m \notin Priority /\ Visible \cap Priority = {} /\ UNCHANGED faults
          \/ m \notin Priority /\ Visible \cap Priority # {} /\ Fault("priority")
       /\ Lease(r, m)
       /\ held' = [held EXCEPT ![r] = m]
       /\ seen' = [seen EXCEPT ![r] = dequeued[m] + 1]
       /\ Goto(r, "dispatch")
  /\ UNCHANGED <<queue, archive, recordVars, progress, marker, artifactVars, request, boot, job,
                 killing, listed, starts, cancelled>>

\* _run_sow_draft: its own failures are caught and written down; one that
\* escapes (the status blob cannot be written) ends this iteration of the loop.
RunSowDraft(r) ==
  /\ At(r, "dispatch") /\ held[r] \in SowDrafts
  /\ \/ Goto(r, "sow_done") /\ UNCHANGED faults
     \/ Goto(r, "poll") /\ Fault("sow")
  /\ UNCHANGED <<queueVars, recordVars, progress, marker, artifactVars, request, processVars,
                 starts, cancelled>>

AckSowDraft(r) ==
  /\ At(r, "sow_done")
  /\ DeleteHeld(r)
  /\ ForgetInflight(r)
  /\ Goto(r, "poll")
  /\ UNCHANGED <<recordVars, progress, marker, artifactVars, request, killing, listed, starts,
                 cancelled, faults>>

CannotDecode(r) ==
  /\ At(r, "dispatch") /\ held[r] \in Garbage
  /\ Goto(r, "archive")
  /\ UNCHANGED <<queueVars, recordVars, progress, marker, artifactVars, request, processVars,
                 starts, cancelled, faults>>

ExhaustedLate(r) == seen[r] > MaxDequeue + 1                    \* bug: off by one
Exhausted(r) == seen[r] > MaxDequeue
CannotSucceed(r) == seen[r] > 1 /\ status[held[r]] \in Hopeless

\* The two ways to give up on a message: too many receives, or an earlier
\* attempt that re-running would only repeat.
GiveUp(r) ==
  /\ At(r, "dispatch") /\ held[r] \in Compiles
  /\ \/ Exhausted(r) /\ WriteStatus(held[r], "exhausted_retries")
     \/ ~ Exhausted(r) /\ CannotSucceed(r) /\ WriteStatus(held[r], status[held[r]])
  /\ FailPageIfOurs(held[r])
  /\ Goto(r, "archive")
  /\ UNCHANGED <<queueVars, marker, artifactVars, request, processVars, starts, cancelled, faults>>

\* bug: creating a queue that is there already raises, and skips the send.
ForwardToNewQueue(r) ==
  /\ At(r, "archive")
  /\ archive' = IF archive = {} THEN {held[r]} ELSE archive
  /\ Goto(r, "ack")
  /\ UNCHANGED <<queue, hidden, lessee, dequeued, recordVars, progress, marker, artifactVars,
                 request, processVars, starts, cancelled, faults>>

\* _forward_to_poison_queue, which swallows its errors.
ForwardToPoisonQueue(r) ==
  /\ At(r, "archive")
  /\ \/ archive' = archive \cup {held[r]} /\ UNCHANGED faults
     \/ Fault("poison") /\ UNCHANGED archive
  /\ Goto(r, "ack")
  /\ UNCHANGED <<queue, hidden, lessee, dequeued, recordVars, progress, marker, artifactVars,
                 request, processVars, starts, cancelled>>

SkipDeal(r) ==
  /\ At(r, "dispatch") /\ held[r] \in Compiles
  /\ ~ Exhausted(r) /\ ~ CannotSucceed(r)
  /\ DealOf[held[r]] \in SkipDeals
  /\ Goto(r, "ack")
  /\ UNCHANGED <<queueVars, recordVars, progress, marker, artifactVars, request, processVars,
                 starts, cancelled, faults>>

\* The guards are read here and the attempt is marked in the next step: what
\* they read can change in between.
PassGuards(r) ==
  /\ At(r, "dispatch") /\ held[r] \in Compiles
  /\ ~ Exhausted(r) /\ ~ CannotSucceed(r)
  /\ DealOf[held[r]] \notin SkipDeals
  /\ Goto(r, "start")
  /\ UNCHANGED <<queueVars, recordVars, progress, marker, artifactVars, request, processVars,
                 starts, cancelled, faults>>

\* The deletes that return without clearing _INFLIGHT.
Ack(r) ==
  /\ pc[r] \in {"ack", "skipped"}
  /\ DeleteHeld(r)
  /\ Goto(r, "poll")
  /\ UNCHANGED <<recordVars, progress, marker, artifactVars, request, processVars, starts,
                 cancelled, faults>>
------------------------------------------------------------------------------
MarkRunning(r) ==
  LET c == held[r] IN
  /\ At(r, "start")
  /\ job' = [job EXCEPT ![r] = c]
  /\ WriteStatus(c, "running")
  /\ MarkActive(r, c)
  /\ starts' = [starts EXCEPT ![c] = @ + 1]
  /\ Goto(r, "manifest")
  /\ UNCHANGED <<queueVars, progress, artifactVars, request, boot, held, seen, killing, listed,
                 cancelled, faults>>

\* _unchanged_since_last_compile, which force=true bypasses.
Unchanged(c) == c \notin Forced /\ fingerprint[DealOf[c]] = DocsOf[c]

\* bug: a skip that leaves no record.
SkipSilently(r) ==
  /\ At(r, "manifest") /\ Unchanged(held[r])
  /\ Goto(r, "skipped")
  /\ UNCHANGED <<queueVars, recordVars, progress, marker, artifactVars, request, processVars, starts,
                 cancelled, faults>>

\* The marker stays: the `finally` that clears it is not entered yet.
SkipUnchanged(r) ==
  /\ At(r, "manifest") /\ Unchanged(held[r])
  /\ WriteStatus(held[r], "skipped_unchanged")
  /\ Goto(r, "skipped")
  /\ UNCHANGED <<queueVars, progress, marker, artifactVars, request, processVars, starts,
                 cancelled, faults>>

BeginCompile(r) ==
  /\ At(r, "manifest") /\ ~ Unchanged(held[r])
  /\ Goto(r, "prepare")
  /\ UNCHANGED <<queueVars, recordVars, progress, marker, artifactVars, request, processVars,
                 starts, cancelled, faults>>

\* The manifest cannot be downloaded, for now or because its blob is gone.
ManifestFails(r) ==
  /\ At(r, "manifest")
  /\ \/ Fault("error") /\ Goto(r, "failed")
     \/ Fault("missing") /\ Goto(r, "dead")
  /\ UNCHANGED <<queueVars, recordVars, progress, marker, artifactVars, request, processVars,
                 starts, cancelled>>

\* An exception inside _do_compile: the `finally` clears the marker on its way.
CompileRaises(r) ==
  /\ pc[r] \in {"prepare", "compile", "project"}
  /\ \/ Fault("error") /\ Goto(r, "failed")
     \/ Fault("missing") /\ Goto(r, "dead")
  /\ ClearActive(held[r])
  /\ UNCHANGED <<queueVars, recordVars, progress, artifactVars, request, processVars, starts,
                 cancelled>>

\* bug: a failure that does not reach the page.
HandleQuietly(r) ==
  /\ pc[r] \in {"failed", "dead"}
  /\ WriteStatus(held[r], IF At(r, "dead") THEN "dead_deal" ELSE "exception")
  /\ Goto(r, IF At(r, "dead") THEN "ack" ELSE "poll")
  /\ UNCHANGED <<queueVars, progress, marker, artifactVars, request, processVars, starts, cancelled,
                 faults>>

\* The `except` of main: the page is failed whoever it belongs to; a permanent
\* failure drops the message, any other leaves it for the lease to lapse.
HandleException(r) ==
  /\ pc[r] \in {"failed", "dead"}
  /\ WritePage(held[r], "failed")
  /\ WriteStatus(held[r], IF At(r, "dead") THEN "dead_deal" ELSE "exception")
  /\ Goto(r, IF At(r, "dead") THEN "ack" ELSE "poll")
  /\ UNCHANGED <<queueVars, marker, artifactVars, request, processVars, starts, cancelled, faults>>

Seed(r) ==
  /\ At(r, "prepare")
  /\ WriteStatus(held[r], "running")
  /\ WritePage(held[r], "running")
  /\ Goto(r, "compile")
  /\ UNCHANGED <<queueVars, marker, artifactVars, request, processVars, starts, cancelled, faults>>

\* A stage callback or a heartbeat tick: the page and the marker again.
Tick(r) ==
  /\ At(r, "compile")
  /\ WritePage(held[r], "running")
  /\ MarkActive(r, held[r])
  /\ UNCHANGED <<queueVars, recordVars, artifactVars, request, processVars, pc, starts, cancelled,
                 faults>>

\* bug: "done" before the projection, as it was before v58.
ProjectAsDone(r) ==
  /\ At(r, "compile")
  /\ WritePage(held[r], "done")
  /\ WriteStatus(held[r], "running")
  /\ Goto(r, "project")
  /\ UNCHANGED <<queueVars, marker, artifactVars, request, processVars, starts, cancelled, faults>>

\* The stages are over and the heartbeat is stopped; the projection begins.
Project(r) ==
  /\ At(r, "compile")
  /\ WritePage(held[r], "running")
  /\ WriteStatus(held[r], "running")
  /\ Goto(r, "project")
  /\ UNCHANGED <<queueVars, marker, artifactVars, request, processVars, starts, cancelled, faults>>

UploadEnvelope(r) ==
  LET c == held[r] IN
  /\ At(r, "project")
  /\ envelope' = [envelope EXCEPT ![DealOf[c]] = c]
  /\ uploaded' = uploaded \cup {c}
  /\ Goto(r, "uploaded")
  /\ UNCHANGED <<queueVars, recordVars, progress, marker, fingerprint, briefed, request,
                 processVars, starts, cancelled, faults>>

MarkDone(r) ==
  /\ At(r, "uploaded")
  /\ WritePage(held[r], "done")
  /\ Goto(r, "done")
  /\ UNCHANGED <<queueVars, recordVars, marker, artifactVars, request, processVars, starts,
                 cancelled, faults>>

WriteFingerprint(r) ==
  LET c == held[r] IN
  /\ At(r, "done")
  /\ fingerprint' = [fingerprint EXCEPT ![DealOf[c]] = DocsOf[c]]
  /\ Goto(r, "fingerprinted")
  /\ UNCHANGED <<queueVars, recordVars, progress, marker, envelope, uploaded, briefed, request,
                 processVars, starts, cancelled, faults>>

\* The `finally` around _do_compile: the watchers stop, the marker goes.
LeaveCompile(r) ==
  /\ At(r, "fingerprinted")
  /\ ClearActive(held[r])
  /\ Goto(r, "left")
  /\ UNCHANGED <<queueVars, recordVars, progress, artifactVars, request, processVars, starts,
                 cancelled, faults>>

RecordCompleted(r) ==
  /\ At(r, "left")
  /\ WriteStatus(held[r], "completed")
  /\ Goto(r, "recorded")
  /\ UNCHANGED <<queueVars, progress, marker, artifactVars, request, processVars, starts,
                 cancelled, faults>>

\* _enqueue_brief_gen and _trigger_brief_gen_http, best effort both.
NotifyBriefGen(r) ==
  /\ At(r, "recorded")
  /\ \/ briefed' = briefed \cup {held[r]} /\ UNCHANGED faults
     \/ Fault("notify") /\ UNCHANGED briefed
  /\ Goto(r, "notified")
  /\ UNCHANGED <<queueVars, recordVars, progress, marker, envelope, fingerprint, uploaded, request,
                 processVars, starts, cancelled>>

Settle(r) ==
  /\ At(r, "notified")
  /\ DeleteHeld(r)
  /\ ForgetInflight(r)
  /\ Goto(r, "poll")
  /\ UNCHANGED <<recordVars, progress, marker, artifactVars, request, killing, listed, starts,
                 cancelled, faults>>

\* A delete that fails otherwise than with MessageNotFound.  Inside the `try` of
\* main it is a failure of the compile; elsewhere it ends the iteration.
DeleteFails(r) ==
  /\ Fault("delete")
  /\ \/ pc[r] \in {"notified", "skipped"} /\ Goto(r, "failed")
     \/ pc[r] \in {"ack", "sow_done"} /\ Goto(r, "poll")
  /\ UNCHANGED <<queueVars, recordVars, progress, marker, artifactVars, request, processVars,
                 starts, cancelled>>
------------------------------------------------------------------------------
\* Somebody asks for a deal's running compile to stop: one by name, or whatever
\* runs on the deal.
RequestCancel(d) ==
  /\ Fault("cancel")
  /\ \E wanted \in {{c} : c \in Compiles} \cup {Compiles} :
       request' = [request EXCEPT ![d] = wanted]
  /\ UNCHANGED <<queueVars, recordVars, progress, marker, artifactVars, processVars, pc, starts,
                 cancelled>>

\* _CompileWatchdog, _MemoryGuard or _CancelWatcher has seen what it waits for: a
\* compile past its budget, a worker short of memory, a request that is for this
\* compile.  From here on main can no longer call it off.
WatcherFires(r) ==
  LET c == held[r]
      Fires(by) == killing' = [killing EXCEPT ![r] = @ \cup
                     {[by |-> by, of |-> c, receive |-> seen[r], at |-> KillBegins[by]]}]
  IN
  /\ pc[r] \in Watched
  /\ \/ Fault("timeout") /\ Fires("watchdog")
     \/ Fault("memory") /\ Fires("guard")
     \/ /\ c \in request[DealOf[c]]
        /\ ~ \E k \in killing[r] : k.by = "canceller" /\ k.of = c
        /\ Fires("canceller") /\ UNCHANGED faults
  /\ UNCHANGED <<queueVars, recordVars, progress, marker, artifactVars, request, mainVars, pc,
                 starts, cancelled>>

\* The thread k of the process is at this step and takes it.
Takes(r, k, step) ==
  /\ k.at = step
  /\ killing' = [killing EXCEPT ![r] =
                   (@ \ {k}) \cup {[k EXCEPT !.at = KillOrder[k.by][step]]}]

KillWritesStatus(r) ==
  /\ \E k \in killing[r] :
       /\ Takes(r, k, "status")
       /\ WriteStatus(k.of, KillStage[k.by])
       /\ cancelled' = IF k.by = "canceller" THEN cancelled \cup {k.of} ELSE cancelled
  /\ UNCHANGED <<queueVars, progress, marker, artifactVars, request, mainVars, pc, starts, faults>>

\* A cancelled deal is told so whoever its page belongs to.
KillWritesPage(r) ==
  /\ \E k \in killing[r] :
       /\ Takes(r, k, "page")
       /\ IF k.by = "canceller" THEN WritePage(k.of, "cancelled") ELSE FailPageIfOurs(k.of)
  /\ UNCHANGED <<queueVars, recordVars, marker, artifactVars, request, mainVars, pc, starts,
                 cancelled, faults>>

\* The cancelled message is deleted, unless its receipt is no longer good -- another
\* replica received it, or the renewer is just then renewing it -- or the delete
\* fails: nobody tries again.
KillDropsMessage(r) ==
  /\ \E k \in killing[r] :
       LET current == lessee[k.of] = r /\ dequeued[k.of] = k.receive IN
       /\ Takes(r, k, "message")
       /\ \/ /\ current
             /\ queue' = queue \ {k.of} /\ hidden' = hidden \ {k.of}
             /\ UNCHANGED faults
          \/ ~ current /\ UNCHANGED <<queue, hidden, faults>>
          \/ (Fault("delete") \/ Fault("renewing")) /\ UNCHANGED <<queue, hidden>>
  /\ UNCHANGED <<lessee, dequeued, archive, recordVars, progress, marker, artifactVars, request,
                 mainVars, pc, starts, cancelled>>

KillDropsRequest(r) ==
  /\ \E k \in killing[r] :
       /\ Takes(r, k, "request")
       /\ request' = [request EXCEPT ![DealOf[k.of]] = {}]
  /\ UNCHANGED <<queueVars, recordVars, progress, marker, artifactVars, mainVars, pc, starts,
                 cancelled, faults>>

KillClearsMarker(r) ==
  /\ \E k \in killing[r] : Takes(r, k, "marker") /\ ClearActive(k.of)
  /\ UNCHANGED <<queueVars, recordVars, progress, artifactVars, request, mainVars, pc, starts,
                 cancelled, faults>>

KillExits(r) ==
  /\ \E k \in killing[r] : k.at = "exit"
  /\ Exit(r)
  /\ UNCHANGED <<queueVars, recordVars, progress, marker, artifactVars, request, starts, cancelled,
                 faults>>

Sigkill(r) ==
  /\ ~ At(r, "down")
  /\ Fault("sigkill")
  /\ Exit(r)
  /\ UNCHANGED <<queueVars, recordVars, progress, marker, artifactVars, request, starts, cancelled>>

\* _release_inflight: the lease of the held message first, if its receipt is
\* still good...
Sigterm(r) ==
  /\ pc[r] \notin {"down", "releasing"}
  /\ Fault("sigterm")
  /\ IF held[r] = NoOne
     THEN Exit(r) /\ UNCHANGED hidden
     ELSE /\ hidden' = IF lessee[held[r]] = r THEN hidden \ {held[r]} ELSE hidden
          /\ Goto(r, "releasing")
          /\ UNCHANGED processVars
  /\ UNCHANGED <<queue, lessee, dequeued, archive, recordVars, progress, marker, artifactVars,
                 request, starts, cancelled>>

\* ...then, when a compile is known, its marker, its page and its status.
MarkInterrupted(r) ==
  LET c == job[r] IN
  /\ At(r, "releasing")
  /\ IF c = NoOne
     THEN UNCHANGED <<recordVars, progress, marker>>
     ELSE ClearActive(c) /\ WritePage(c, "interrupted") /\ WriteStatus(c, "terminated")
  /\ Exit(r)
  /\ UNCHANGED <<queueVars, artifactVars, request, starts, cancelled, faults>>

\* bug: a compile that raises leaves its lease renewer running.
RenewsForEver(r, m) == held[r] = m

\* A replica is at work on the message it received, or about to die on it: both
\* take far less than the visibility timeout, or renew it.
AtWork(r, m) ==
  \/ pc[r] \in Busy /\ held[r] = m
  \/ \E k \in killing[r] : k.of = m /\ k.receive = dequeued[m]

\* The visibility timeout of a message nobody works on any more runs out; while
\* its last receiver is still restarting only if restarts take that long.
Lapse(m) ==
  LET r == lessee[m] IN
  /\ m \in hidden
  /\ ~ AtWork(r, m)
  /\ pc[r] \in {"down", "recover", "releasing"} => "slow_restart" \in Faults
  /\ hidden' = hidden \ {m}
  /\ UNCHANGED <<queue, lessee, dequeued, archive, recordVars, progress, marker, artifactVars,
                 request, processVars, pc, starts, cancelled, faults>>

\* The same under a replica that works on it: its renewals failed for that long,
\* or it was slow where nothing renews.
LapseInUse(m) ==
  LET r == lessee[m] IN
  /\ m \in hidden
  /\ AtWork(r, m)
  /\ Fault("slow")
  /\ hidden' = hidden \ {m}
  /\ UNCHANGED <<queue, lessee, dequeued, archive, recordVars, progress, marker, artifactVars,
                 request, processVars, pc, starts, cancelled>>
------------------------------------------------------------------------------
\* What a replica does of itself, reports aside.
Work(r) ==
  \/ Restart(r) \/ RecoverDeadRun(r) \/ RecoveryDone(r) \/ Receive(r)
  \/ RunSowDraft(r) \/ AckSowDraft(r) \/ CannotDecode(r) \/ GiveUp(r)
  \/ ForwardToPoisonQueue(r) \/ SkipDeal(r) \/ PassGuards(r) \/ Ack(r)
  \/ MarkRunning(r) \/ SkipUnchanged(r) \/ BeginCompile(r) \/ HandleException(r)
  \/ Seed(r) \/ Project(r) \/ UploadEnvelope(r) \/ MarkDone(r) \/ WriteFingerprint(r)
  \/ LeaveCompile(r) \/ RecordCompleted(r) \/ NotifyBriefGen(r) \/ Settle(r)
  \/ MarkInterrupted(r)

\* What the threads that end a process do next.
Kill(r) ==
  \/ KillWritesStatus(r) \/ KillWritesPage(r) \/ KillDropsMessage(r)
  \/ KillDropsRequest(r) \/ KillClearsMarker(r) \/ KillExits(r)

Trouble(r) ==
  \/ ManifestFails(r) \/ CompileRaises(r) \/ DeleteFails(r)
  \/ WatcherFires(r) \/ Sigkill(r) \/ Sigterm(r)

Next ==
  \/ \E r \in Replicas : Work(r) \/ Tick(r) \/ Trouble(r) \/ Kill(r)
  \/ \E m \in Message : Lapse(m) \/ LapseInUse(m)
  \/ \E d \in Deals : RequestCancel(d)

Spec == Init /\ [][Next]_vars

\* The loop never blocks for good, nor does a thread that ends the process; the
\* platform restarts containers, and a lease that nobody renews runs out.
Fairness ==
  /\ \A r \in Replicas : WF_vars(Work(r)) /\ WF_vars(Kill(r))
  /\ \A m \in Message : WF_vars(Lapse(m))

FairSpec == Spec /\ Fairness
------------------------------------------------------------------------------
\* A compile's message is gone from the queues; nobody works on it or ends a
\* process because of it.
Gone(c) == c \notin queue
Idle(c) ==
  \A r \in Replicas : /\ ~ (pc[r] \in Busy \cup {"releasing"} /\ held[r] = c)
                       /\ \A k \in killing[r] : k.of # c
Settled(d) == \A c \in Compiles : DealOf[c] = d => Gone(c) /\ Idle(c)

\* No compile is started more often than MAX_DEQUEUE_COUNT allows, whatever is
\* lost, lapses or is killed (main.py:70 "poison after 3 retries").
AttemptsBounded == \A c \in Compiles : starts[c] <= MaxDequeue

\* A compile's message is dropped only when its outcome was put on record: in the
\* run index, as a cancellation, or as a deal that is configured to be skipped.
Recorded(c) == c \in runIndex \cup cancelled \/ DealOf[c] \in SkipDeals
OutcomeRecorded == \A c \in Compiles : Gone(c) => Recorded(c)

\* A compile is not dropped in silence: when its message is gone, its results are
\* up (or those of the same documents, for which it was skipped), or the message is
\* in the poison queue, or somebody cancelled it, or its deal is dead or skipped
\* (main.py:1413 "instead of silent drop").
SameInput(c1, c2) == DealOf[c1] = DealOf[c2] /\ DocsOf[c1] = DocsOf[c2]
Delivered(c) == \E e \in uploaded : SameInput(c, e)
AccountedFor(c) ==
  c \in archive \cup cancelled \cup dead \/ Delivered(c) \/ DealOf[c] \in SkipDeals
DroppedIsAccountedFor == \A c \in Compiles : Gone(c) => AccountedFor(c)

\* When every compile of a deal is settled, its page does not show one running --
\* but one that was cancelled while it wrote, or one that was killed and is then
\* skipped for its documents: a skip writes no page (main.py:2713-2719).
SettledPageIsTerminal ==
  \A d \in Deals :
    Settled(d) /\ progress[d].is = "running" =>
      progress[d].of \in cancelled \cup skipped

\* Nothing says a compile delivered before its envelope is up: neither the
\* page's "done", nor the status, nor the fingerprint a later run skips on.
DeliveredMeansUploaded ==
  /\ \A d \in Deals : progress[d].is = "done" => progress[d].of \in uploaded
  /\ \A c \in Compiles : status[c] = "completed" => c \in uploaded
  /\ \A c \in Compiles : status[c] = "skipped_unchanged" => Delivered(c)

\* Every message leaves the queues in the end, however it fares.
EverySettled == \A m \in Message : <>(m \notin queue)

\* A run that died with its process is noticed: its marker does not stay.
OrphanFound ==
  \A r \in Replicas, c \in Compiles : Orphan(r, c) ~> ~ Orphan(r, c)

\* A page does not show a compile running for ever (main.py:2837 "otherwise
\* the cockpit fast-polls "running" forever"), unless that compile was cancelled.
PageSettles ==
  \A d \in Deals : <>[](progress[d].is = "running" => progress[d].of \in cancelled)

\* The worker implements what it promises whoever enqueues a compile.
Ledger == INSTANCE CompileLedger WITH
  MaxAttempts <- MaxDequeue,
  outstanding <- queue \cap Compiles,
  attempts <- starts,
  recorded <- {c \in Compiles : Recorded(c)}
LedgerSpec == Ledger!Spec
------------------------------------------------------------------------------
\* What the repository says of the program and the code does not keep.

\* main.py:436-438: a marker of this replica and another boot "can only be a run
\* that died with the old process" -- so it is not one whose message is done with.
OnlyDeadRunsAreKilled ==
  [][\A c \in Compiles :
       status'[c] = "killed" /\ status[c] # "killed"
         => c \in queue]_vars

\* README.md:98 "No identical re-runs", and main.py:330-331: a compile once found to
\* have timed out, been killed or run out of memory is not started again.
NoIdenticalRerun ==
  [][\A c \in Compiles : starts'[c] > starts[c] => c \notin doomed]_vars
==============================================================================
