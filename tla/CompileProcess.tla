---------------------------- MODULE CompileProcess ----------------------------
(***************************************************************************)
(* The threads of one worker process around one compile, blob write by     *)
(* blob write (src/parser_os_worker/main.py): the main thread and the      *)
(* signal handler that interrupts it, the progress heartbeat with its      *)
(* lock, the watchdog, the memory guard and the cancel watcher, each of    *)
(* which ends in os._exit whatever the others are in the middle of.  They  *)
(* meet in the deal's progress document, which a newer compile of the deal *)
(* writes as well, in the compile's status and marker, and in two queue    *)
(* messages: the compile's own and the keepalive.                          *)
(*                                                                         *)
(* The compile is forced, so a redelivery runs it again unless its status  *)
(* forbids that.  Writes are atomic and succeed.                           *)
(***************************************************************************)
EXTENDS Naturals

CONSTANTS
  InitialPages,   \* what compile-progress.json may be before: "absent", "older"
  MaxDequeue,     \* MAX_DEQUEUE_COUNT
  Faults,         \* what may go wrong
  MaxFaults       \* how often in all

FaultKinds == {"timeout", "memory", "cancel", "sigterm", "sigkill", "raise"}

ASSUME BoundsAssumption ==
  /\ InitialPages \subseteq {"absent", "older"}
  /\ MaxDequeue \in Nat \ {0} /\ MaxFaults \in Nat
  /\ Faults \subseteq FaultKinds

VARIABLES
  page,        \* compile-progress.json: whose it is, what it says
  snapshot,    \* what a killer has read of it, and whether that is still current
  status,      \* the final stage in this compile's status
  marker,      \* this compile's active marker, "full" when it names the keepalive
  message,     \* the compile's message in its queue
  attempt,     \* its dequeue_count
  keepalive,   \* the keepalive is in the in-flight queue
  known, job,  \* _INFLIGHT["keepalive"] and _INFLIGHT["job"] are set
  raised,      \* an exception is on its way out of _do_compile
  newer,       \* the deal's newer compile, which another replica runs
  request,     \* compile-cancel.json asks for this compile or for any
  pc,          \* where each thread is
  lock,        \* the heartbeat holds its lock
  silenced,    \* the heartbeat's stop flag
  cancelled,   \* history: the cancel watcher has fired
  faults       \* history

pageVars == <<page, snapshot>>
queueVars == <<message, attempt, keepalive>>
localVars == <<known, job, raised, lock, silenced>>
vars == <<pageVars, status, marker, queueVars, localVars, request, newer, pc, cancelled, faults>>

Killers == {"watchdog", "guard"}
Threads == Killers \cup {"main", "heartbeat", "canceller"}

Hopeless == {"timeout", "killed", "out_of_memory"}
\* The order in which the two killers tell and leave.
First == [watchdog |-> "status", guard |-> "read"]
After == [watchdog |-> [status |-> "read", read |-> "write", write |-> "clear"],
          guard    |-> [read |-> "write", write |-> "status", status |-> "clear"]]
Stage == [watchdog |-> "timeout", guard |-> "out_of_memory"]

MainPlace == { "down", "recover", "poll", "watch", "keepalive", "remember", "status", "seed",
               "stages", "mark", "silence", "projection", "projecting", "upload", "done", "finally",
               "clear", "unwatch", "free", "completed", "ack", "failed", "exception",
               "unmark", "interrupt", "terminated", "exit" }
Inside == {"status", "seed", "stages", "mark", "silence", "projection", "projecting", "upload", "done"}
WatcherPlace == {"off", "armed", "status", "read", "write", "page", "message", "request",
                 "clear", "forget", "exit", "writing", "marking"}

\* The types, and: a compile at work is one a termination knows of, until its
\* cancellation is complete, and the lock is held while a tick writes.
TypeOK ==
  /\ page \in [of : {"nobody", "older", "ours", "newer"},
               is : {"none", "running", "done", "failed", "interrupted", "cancelled"}]
  /\ snapshot \in [Killers -> {"none", "absent", "current", "outdated"}]
  /\ status \in Hopeless \cup {"none", "running", "completed", "exception", "cancelled",
                               "terminated", "exhausted_retries"}
  /\ marker \in {"none", "bare", "full"}
  /\ message \in {"visible", "leased", "deleted"}
  /\ attempt \in 0..(MaxDequeue + 1)
  /\ keepalive \in BOOLEAN /\ known \in BOOLEAN /\ job \in BOOLEAN /\ raised \in BOOLEAN
  /\ request \in BOOLEAN /\ newer \in {"none", "running", "done"}
  /\ pc \in [Threads -> MainPlace \cup WatcherPlace]
  /\ lock \in BOOLEAN /\ silenced \in BOOLEAN /\ cancelled \in BOOLEAN
  /\ faults \in 0..MaxFaults
  /\ pc["main"] \in Inside => job \/ pc["canceller"] = "exit"
  /\ lock <=> pc["heartbeat"] \in {"writing", "marking"}
------------------------------------------------------------------------------
Init ==
  /\ \E before \in InitialPages :
       page = IF before = "absent" THEN [of |-> "nobody", is |-> "none"]
                                   ELSE [of |-> "older", is |-> "done"]
  /\ snapshot = [k \in Killers |-> "none"]
  /\ status = "none" /\ marker = "none" /\ message = "visible" /\ attempt = 0
  /\ keepalive = FALSE /\ known = FALSE /\ job = FALSE /\ raised = FALSE
  /\ request = FALSE /\ newer = "none"
  /\ pc = [t \in Threads |-> IF t = "main" THEN "poll" ELSE "off"]
  /\ lock = FALSE /\ silenced = FALSE /\ cancelled = FALSE /\ faults = 0

At(t, place) == pc[t] = place
Go(t, place) == pc' = [pc EXCEPT ![t] = place]
Fault(kind) == kind \in Faults /\ faults < MaxFaults /\ faults' = faults + 1

\* Every write gives the document a new version.
WritePage(of, is) ==
  /\ page' = [of |-> of, is |-> is]
  /\ snapshot' = [k \in Killers |-> IF snapshot[k] = "current" THEN "outdated" ELSE snapshot[k]]

Mark == marker' = IF known THEN "full" ELSE "bare"

\* os._exit: every thread stops where it is.
Exit ==
  /\ pc' = [t \in Threads |-> IF t = "main" THEN "down" ELSE "off"]
  /\ snapshot' = [k \in Killers |-> "none"]
  /\ known' = FALSE /\ job' = FALSE /\ raised' = FALSE
  /\ lock' = FALSE /\ silenced' = FALSE

\* A thread writes the status, or the page, and goes on.
StatusStep(t, from, says, to) ==
  /\ At(t, from)
  /\ status' = says
  /\ Go(t, to)
  /\ UNCHANGED <<pageVars, marker, queueVars, localVars, request, newer, cancelled, faults>>
PageStep(t, from, says, to) ==
  /\ At(t, from)
  /\ WritePage("ours", says)
  /\ Go(t, to)
  /\ UNCHANGED <<status, marker, queueVars, localVars, request, newer, cancelled, faults>>
ClearStep(t, from, to) ==
  /\ At(t, from)
  /\ marker' = "none"
  /\ Go(t, to)
  /\ UNCHANGED <<pageVars, status, queueVars, localVars, request, newer, cancelled, faults>>

\* _fail_progress_if_ours where nothing comes between its read and its write.
FailPageIfOurs ==
  IF page.of \in {"nobody", "ours"} THEN WritePage("ours", "failed") ELSE UNCHANGED pageVars
------------------------------------------------------------------------------
Restart ==
  /\ At("main", "down")
  /\ Go("main", "recover")
  /\ UNCHANGED <<pageVars, status, marker, queueVars, localVars, request, newer, cancelled, faults>>

\* bug: the keepalive of a dead run is left to its time to live.
RecoverMarkerOnly ==
  /\ At("main", "recover")
  /\ IF marker = "none"
     THEN UNCHANGED <<pageVars, status, keepalive>>
     ELSE FailPageIfOurs /\ status' = "killed" /\ UNCHANGED keepalive
  /\ marker' = "none"
  /\ Go("main", "poll")
  /\ UNCHANGED <<message, attempt, localVars, request, newer, cancelled, faults>>

\* recover_dead_runs: a marker names the run that died, and perhaps its keepalive.
Recover ==
  /\ At("main", "recover")
  /\ IF marker = "none"
     THEN UNCHANGED <<pageVars, status, keepalive>>
     ELSE FailPageIfOurs /\ status' = "killed" /\ keepalive' = (keepalive /\ marker # "full")
  /\ marker' = "none"
  /\ Go("main", "poll")
  /\ UNCHANGED <<message, attempt, localVars, request, newer, cancelled, faults>>

\* bug: a message is given up on and the page keeps what it said.
GiveUpQuietly ==
  /\ At("main", "poll") /\ message = "visible"
  /\ attempt' = attempt + 1
  /\ \/ attempt + 1 > MaxDequeue /\ status' = "exhausted_retries"
     \/ attempt + 1 \in 2..MaxDequeue /\ status \in Hopeless /\ UNCHANGED status
  /\ message' = "deleted"
  /\ UNCHANGED <<pageVars, marker, keepalive, localVars, request, newer, pc, cancelled, faults>>

\* A message is given up on -- status, page, poison queue, delete...
GiveUp ==
  /\ At("main", "poll") /\ message = "visible"
  /\ attempt' = attempt + 1
  /\ \/ attempt + 1 > MaxDequeue /\ status' = "exhausted_retries"
     \/ attempt + 1 \in 2..MaxDequeue /\ status \in Hopeless /\ UNCHANGED status
  /\ FailPageIfOurs
  /\ message' = "deleted"
  /\ UNCHANGED <<marker, keepalive, localVars, request, newer, pc, cancelled, faults>>

\* bug: the message is not noted, so a termination does not hand it back.
ReceiveUnnoted ==
  /\ At("main", "poll") /\ message = "visible"
  /\ attempt < MaxDequeue /\ (attempt > 0 => status \notin Hopeless)
  /\ attempt' = attempt + 1 /\ message' = "leased"
  /\ status' = "running"
  /\ Mark
  /\ Go("main", "watch")
  /\ UNCHANGED <<pageVars, keepalive, localVars, request, newer, cancelled, faults>>

\* ...or marked running.
Receive ==
  /\ At("main", "poll") /\ message = "visible"
  /\ attempt < MaxDequeue /\ (attempt > 0 => status \notin Hopeless)
  /\ attempt' = attempt + 1 /\ message' = "leased"
  /\ job' = TRUE
  /\ status' = "running"
  /\ Mark
  /\ Go("main", "watch")
  /\ UNCHANGED <<pageVars, keepalive, known, raised, lock, silenced, request, newer, cancelled, faults>>

StartWatchdog ==
  /\ At("main", "watch")
  /\ pc' = [pc EXCEPT !["main"] = "keepalive", !["watchdog"] = IF @ = "off" THEN "armed" ELSE @]
  /\ UNCHANGED <<pageVars, status, marker, queueVars, localVars, request, newer, cancelled, faults>>

SendKeepalive ==
  /\ At("main", "keepalive")
  /\ keepalive' = TRUE
  /\ Go("main", "remember")
  /\ UNCHANGED <<pageVars, status, marker, message, attempt, localVars, request, newer, cancelled,
                 faults>>

\* _INFLIGHT["keepalive"] = ..., then the memory guard and the cancel watcher.
RememberKeepalive ==
  /\ At("main", "remember")
  /\ known' = TRUE
  /\ pc' = [pc EXCEPT !["main"] = "status", !["guard"] = IF @ = "off" THEN "armed" ELSE @,
                      !["canceller"] = IF @ = "off" THEN "armed" ELSE @]
  /\ UNCHANGED <<pageVars, status, marker, queueVars, job, raised, lock, silenced, request, newer,
                 cancelled, faults>>

CompileStatus == StatusStep("main", "status", "running", "seed")
Seed == PageStep("main", "seed", "running", "stages")

\* _write_progress from a stage callback: the page, then the marker.  From the
\* first report on the heartbeat has something to repeat.
StageReports ==
  /\ At("main", "stages")
  /\ WritePage("ours", "running")
  /\ pc' = [pc EXCEPT !["main"] = "mark", !["heartbeat"] = IF @ = "off" THEN "armed" ELSE @]
  /\ silenced' = FALSE
  /\ UNCHANGED <<status, marker, queueVars, known, job, raised, lock, request, newer, cancelled, faults>>

StageMarks ==
  /\ At("main", "mark")
  /\ Mark
  /\ Go("main", "stages")
  /\ UNCHANGED <<pageVars, status, queueVars, localVars, request, newer, cancelled, faults>>

\* bug: the flag is set without the lock a tick writes under.
SilenceUnlocked(from, to) ==
  /\ At("main", from)
  /\ silenced' = TRUE
  /\ pc' = [pc EXCEPT !["main"] = to, !["heartbeat"] = IF @ = "armed" THEN "off" ELSE @]
  /\ UNCHANGED <<pageVars, status, marker, queueVars, known, job, raised, lock, request, newer,
                 cancelled, faults>>

\* _ProgressHeartbeat.stop: whoever has the lock finishes its tick first.
Silence(from, to) ==
  /\ At("main", from) /\ ~ lock
  /\ silenced' = TRUE
  /\ pc' = [pc EXCEPT !["main"] = to, !["heartbeat"] = IF @ = "armed" THEN "off" ELSE @]
  /\ UNCHANGED <<pageVars, status, marker, queueVars, known, job, raised, lock, request, newer,
                 cancelled, faults>>

StagesOver ==
  /\ At("main", "stages")
  /\ Go("main", "silence")
  /\ UNCHANGED <<pageVars, status, marker, queueVars, localVars, request, newer, cancelled, faults>>
StagesSilence == Silence("silence", "projection")
ProjectionPage == PageStep("main", "projection", "running", "projecting")
ProjectionStatus == StatusStep("main", "projecting", "running", "upload")

\* Renders, envelope; the artifacts themselves are not this module's subject.
UploadEnvelope ==
  /\ At("main", "upload")
  /\ Go("main", "done")
  /\ UNCHANGED <<pageVars, status, marker, queueVars, localVars, request, newer, cancelled, faults>>

DonePage == PageStep("main", "done", "done", "finally")

CompileRaises ==
  /\ pc["main"] \in Inside
  /\ Fault("raise")
  /\ raised' = TRUE
  /\ Go("main", "finally")
  /\ UNCHANGED <<pageVars, status, marker, queueVars, known, job, lock, silenced, request, newer,
                 cancelled>>
------------------------------------------------------------------------------
\* The `finally`: heartbeat, marker, watchers, keepalive, in that order.  It finds
\* the heartbeat in _INFLIGHT, unless the cancel watcher has emptied that.
FinallySilence ==
  \/ job /\ Silence("finally", "clear")
  \/ /\ ~ job /\ At("main", "finally")
     /\ Go("main", "clear")
     /\ UNCHANGED <<pageVars, status, marker, queueVars, localVars, request, newer, cancelled, faults>>
FinallyClear == ClearStep("main", "clear", "unwatch")

\* A stop is a flag: a watcher that has fired goes on.
StopWatchers ==
  /\ At("main", "unwatch")
  /\ pc' = [t \in Threads |-> IF t = "main" THEN "free"
                              ELSE IF At(t, "armed") /\ t # "heartbeat" THEN "off" ELSE pc[t]]
  /\ UNCHANGED <<pageVars, status, marker, queueVars, localVars, request, newer, cancelled, faults>>

\* _delete_keepalive of the keepalive this process knows of.
FreeKeepalive == keepalive' = (keepalive /\ ~ known) /\ known' = FALSE

FinallyFree ==
  /\ At("main", "free")
  /\ FreeKeepalive
  /\ raised' = FALSE
  /\ Go("main", IF raised THEN "failed" ELSE "completed")
  /\ UNCHANGED <<pageVars, status, marker, message, attempt, job, lock, silenced, request, newer,
                 cancelled, faults>>

RecordCompleted == StatusStep("main", "completed", "completed", "ack")

Acknowledge ==
  /\ At("main", "ack")
  /\ message' = "deleted"
  /\ job' = FALSE
  /\ Go("main", "poll")
  /\ UNCHANGED <<pageVars, status, marker, attempt, keepalive, known, raised, lock, silenced, request,
                 newer, cancelled, faults>>

\* The `except`; the message is left to its lease.
FailPage == PageStep("main", "failed", "failed", "exception")
RecordException == StatusStep("main", "exception", "exception", "poll")
------------------------------------------------------------------------------
\* One tick: the page and the marker, under the lock.
BeatTakes ==
  /\ At("heartbeat", "armed") /\ ~ lock
  /\ lock' = TRUE
  /\ Go("heartbeat", "writing")
  /\ UNCHANGED <<pageVars, status, marker, queueVars, known, job, raised, silenced, request, newer,
                 cancelled, faults>>
BeatPage == PageStep("heartbeat", "writing", "running", "marking")
BeatMarks ==
  /\ At("heartbeat", "marking")
  /\ Mark
  /\ lock' = FALSE
  /\ Go("heartbeat", IF silenced THEN "off" ELSE "armed")
  /\ UNCHANGED <<pageVars, status, queueVars, known, job, raised, silenced, request, newer, cancelled,
                 faults>>

\* The budget is over, or the memory is.
Fire(k) ==
  /\ At(k, "armed")
  /\ Fault(IF k = "watchdog" THEN "timeout" ELSE "memory")
  /\ Go(k, First[k])
  /\ UNCHANGED <<pageVars, status, marker, queueVars, localVars, request, newer, cancelled>>

KillStatus(k) == StatusStep(k, "status", Stage[k], After[k]["status"])

\* _fail_progress_if_ours reads the page and its version...
ReadPage(k) ==
  /\ At(k, "read")
  /\ snapshot' = [snapshot EXCEPT ![k] = CASE page.of = "nobody" -> "absent"
                                            [] page.of = "ours" -> "current"
                                            [] OTHER -> "outdated"]
  /\ Go(k, After[k]["read"])
  /\ UNCHANGED <<page, status, marker, queueVars, localVars, request, newer, cancelled, faults>>

\* bug: the write is not conditional on the version.
OverwritePage(k) ==
  /\ At(k, "write")
  /\ WritePage("ours", "failed")
  /\ Go(k, After[k]["write"])
  /\ UNCHANGED <<status, marker, queueVars, localVars, request, newer, cancelled, faults>>

\* ...and writes only over that version; over whatever there is, if there was
\* none to have a version.
KillPage(k) ==
  /\ At(k, "write")
  /\ IF snapshot[k] \in {"absent", "current"} THEN WritePage("ours", "failed") ELSE UNCHANGED pageVars
  /\ Go(k, After[k]["write"])
  /\ UNCHANGED <<status, marker, queueVars, localVars, request, newer, cancelled, faults>>

KillClear(k) ==
  /\ At(k, "clear")
  /\ FreeKeepalive
  /\ marker' = "none"
  /\ Go(k, "exit")
  /\ UNCHANGED <<pageVars, status, message, attempt, job, raised, lock, silenced, request, newer,
                 cancelled, faults>>

\* Somebody asks for the deal's compile to stop.
RequestCancel ==
  /\ Fault("cancel")
  /\ request' = TRUE
  /\ UNCHANGED <<pageVars, status, marker, queueVars, localVars, newer, pc, cancelled>>

\* _CancelWatcher: status, page, message, request, marker, _INFLIGHT, exit.
CancelStatus ==
  /\ At("canceller", "armed") /\ request
  /\ cancelled' = TRUE
  /\ status' = "cancelled"
  /\ Go("canceller", "page")
  /\ UNCHANGED <<pageVars, marker, queueVars, localVars, request, newer, faults>>
CancelPage == PageStep("canceller", "page", "cancelled", "message")
CancelMessage ==
  /\ At("canceller", "message")
  /\ message' = IF message = "leased" THEN "deleted" ELSE message
  /\ Go("canceller", "request")
  /\ UNCHANGED <<pageVars, status, marker, attempt, keepalive, localVars, request, newer, cancelled,
                 faults>>
CancelRequest ==
  /\ At("canceller", "request")
  /\ request' = FALSE
  /\ Go("canceller", "clear")
  /\ UNCHANGED <<pageVars, status, marker, queueVars, localVars, newer, cancelled, faults>>
CancelClear == ClearStep("canceller", "clear", "forget")
CancelForget ==
  /\ At("canceller", "forget")
  /\ job' = FALSE /\ known' = FALSE
  /\ Go("canceller", "exit")
  /\ UNCHANGED <<pageVars, status, marker, queueVars, raised, lock, silenced, request, newer,
                 cancelled, faults>>

\* A killer, the cancel watcher or the signal handler ends the process.
Leave(t) ==
  /\ At(t, "exit")
  /\ Exit
  /\ UNCHANGED <<page, status, marker, queueVars, request, newer, cancelled, faults>>

\* The signal handler runs on the main thread, wherever that is: keepalive and
\* message first; nothing when _INFLIGHT is empty.
Sigterm ==
  /\ pc["main"] \notin {"down", "unmark", "interrupt", "terminated", "exit"}
  /\ Fault("sigterm")
  /\ FreeKeepalive
  /\ job' = FALSE
  /\ message' = IF job /\ message = "leased" THEN "visible" ELSE message
  /\ Go("main", IF job THEN "unmark" ELSE "exit")
  /\ UNCHANGED <<pageVars, status, marker, attempt, raised, lock, silenced, request, newer, cancelled>>
TermClear == ClearStep("main", "unmark", "interrupt")
TermPage == PageStep("main", "interrupt", "interrupted", "terminated")
TermStatus == StatusStep("main", "terminated", "terminated", "exit")

Sigkill ==
  /\ ~ At("main", "down")
  /\ Fault("sigkill")
  /\ Exit
  /\ UNCHANGED <<page, status, marker, queueVars, request, newer, cancelled>>

\* The lease of a message nobody works on runs out.
Lapse ==
  /\ message = "leased" /\ pc["main"] \in {"down", "recover", "poll"}
  /\ message' = "visible"
  /\ UNCHANGED <<pageVars, status, marker, attempt, keepalive, localVars, request, newer, pc,
                 cancelled, faults>>

\* Another replica runs a newer compile of the deal.
NewerWrites ==
  /\ \/ newer = "none" /\ newer' = "running" /\ WritePage("newer", "running")
     \/ newer = "running" /\ newer' = "done" /\ WritePage("newer", "done")
  /\ UNCHANGED <<status, marker, queueVars, localVars, request, pc, cancelled, faults>>
------------------------------------------------------------------------------
\* What the main thread does of itself.
Main ==
  \/ Restart \/ Recover \/ GiveUp \/ Receive \/ StartWatchdog \/ SendKeepalive
  \/ RememberKeepalive \/ CompileStatus \/ Seed \/ StageReports \/ StageMarks \/ StagesOver \/ StagesSilence
  \/ ProjectionPage \/ ProjectionStatus \/ UploadEnvelope \/ DonePage \/ FinallySilence
  \/ FinallyClear \/ StopWatchers \/ FinallyFree \/ RecordCompleted \/ Acknowledge
  \/ FailPage \/ RecordException \/ TermClear \/ TermPage \/ TermStatus \/ Leave("main")

Heartbeat == BeatTakes \/ BeatPage \/ BeatMarks

Kill(k) == KillStatus(k) \/ ReadPage(k) \/ KillPage(k) \/ KillClear(k) \/ Leave(k)

Canceller ==
  \/ CancelStatus \/ CancelPage \/ CancelMessage \/ CancelRequest \/ CancelClear \/ CancelForget
  \/ Leave("canceller")

Next ==
  \/ Main \/ Heartbeat \/ Canceller \/ Lapse
  \/ \E k \in Killers : Fire(k) \/ Kill(k)
  \/ CompileRaises \/ RequestCancel \/ Sigterm \/ Sigkill \/ NewerWrites

Spec == Init /\ [][Next]_vars

\* Threads run, leases end, containers are started again.  The stages of a
\* compile are over some time: if not of themselves, the watchdog sees to it.
FairSpec ==
  /\ Spec
  /\ WF_vars(Main) /\ SF_vars(StagesOver) /\ WF_vars(Canceller) /\ WF_vars(Lapse)
  /\ WF_vars(BeatPage) /\ WF_vars(BeatMarks) /\ SF_vars(StagesSilence) /\ SF_vars(FinallySilence)
  /\ \A k \in Killers : WF_vars(Kill(k))
------------------------------------------------------------------------------
\* Once the page says "done" of a compile, no thread of the same process says it
\* is running: a tick that has begun is over before, none follows (main.py:697-698
\* "whatever is written next is last").
DoneIsLast ==
  [][page = [of |-> "ours", is |-> "done"] /\ page' = [of |-> "ours", is |-> "running"]
       => pc["main"] = "seed"]_vars

\* A killer never fails the page of a newer compile that took it over between its
\* read and its write, if there was a page to read (main.py:366-368).
NewerPageIsKept ==
  [][\A k \in Killers :
       pc[k] = "write" /\ pc'[k] # "write" /\ page.of = "newer" /\ snapshot[k] # "absent"
         => page' = page]_vars

\* A compile that is killed, terminated, or fails does not leave a page that says
\* running for ever, whatever its threads wrote last: a recovery or the next
\* delivery sees to it.  A cancelled one has no next delivery.
PageSettles == <>[](page = [of |-> "ours", is |-> "running"] => cancelled)

\* The keepalive of a run that died with its name on the marker is deleted by the
\* next boot (main.py:622-623).
KeepaliveFound == (At("main", "down") /\ keepalive /\ marker = "full") ~> ~ keepalive
==============================================================================
