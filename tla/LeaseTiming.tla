------------------------------ MODULE LeaseTiming ------------------------------
(***************************************************************************)
(* The clocks of one compile request (src/parser_os_worker/main.py): the   *)
(* visibility timeout the queue gave its receiver, the _LeaseRenewer that  *)
(* extends it, the watchdog that bounds the compile, and the pop receipt,  *)
(* which every receive and every renewal replaces.                         *)
(*                                                                         *)
(* Time passes in ticks, and only when nobody has anything due.  Timers    *)
(* count down, so that no bound on the time is needed.  The queue is       *)
(* external: an update or a delete succeeds                                *)
(* exactly with the current receipt, also after the timeout has run out,   *)
(* as long as nobody received the message since.  Calls are short, and an  *)
(* answer is never lost: either the caller learns of it or nothing was     *)
(* done.                                                                   *)
(***************************************************************************)
EXTENDS Integers

CONSTANTS
  Replicas,
  Nobody,
  VisibilityTimeout,  \* MESSAGE_VISIBILITY_TIMEOUT_SEC
  LeaseRenew,         \* MESSAGE_LEASE_RENEW_SEC
  LeaseMax,           \* MESSAGE_LEASE_MAX_SEC
  CompileTimeout,     \* COMPILE_TIMEOUT_SEC
  PerDoc,             \* COMPILE_SEC_PER_DOC
  LeasePercent,       \* COMPILE_BUDGET_LEASE_FRACTION, in percent
  MinRenew,           \* the 30 seconds below which the renewer does not go
  MaxDequeue,         \* MAX_DEQUEUE_COUNT
  DocCounts,          \* the sizes a manifest may have
  Startup,            \* how long manifest and change detection may take
  MaxMisses,          \* how many renewals in a row may fail
  MaxTerminations,    \* bound: how often the platform ends a replica at work
  Events              \* what else may happen

EventKinds == {"raise", "sigterm", "cancel"}

Larger(a, b) == IF a < b THEN b ELSE a
Smaller(a, b) == IF a < b THEN a ELSE b

\* bug: no ceiling, as if the lease were renewed for ever.
BudgetUncapped(docs) == Larger(CompileTimeout, PerDoc * docs)

\* compile_budget_sec
Ceiling == Larger(CompileTimeout, (LeaseMax * LeasePercent) \div 100)
Budget(docs) == Smaller(Ceiling, Larger(CompileTimeout, PerDoc * docs))

\* _LeaseRenewer.__init__
Every == Larger(MinRenew, LeaseRenew)
MaxTotal == Larger(Every, LeaseMax)

ASSUME TimesAssumption ==
  /\ VisibilityTimeout \in Nat /\ LeaseRenew \in Nat /\ LeaseMax \in Nat
  /\ CompileTimeout \in Nat /\ PerDoc \in Nat /\ LeasePercent \in 0..100
  /\ MinRenew \in Nat \ {0} /\ Startup \in Nat /\ MaxMisses \in Nat
  /\ MaxTerminations \in Nat /\ MaxDequeue \in Nat /\ DocCounts \subseteq Nat
  /\ Nobody \notin Replicas /\ Events \subseteq EventKinds

\* What main.py:75-76 asks of the settings ("Staying under the lease backstop is
\* what matters"), a watchdog that is not turned off, and a lease that has room for
\* the renewals that may fail.
ASSUME SettingsAssumption ==
  /\ 0 < CompileTimeout /\ CompileTimeout <= LeaseMax
  /\ VisibilityTimeout > Startup + Every * (MaxMisses + 1)

VARIABLES
  present,      \* the message is in its queue
  hiddenFor,    \* the time until it can be received (again)
  receipt,      \* where its current pop receipt is: whose, and in what
  dequeued,     \* its dequeue_count
  terminations, \* history: how often a replica at work was terminated
  docs,         \* the documents of its manifest
  outcome,      \* the final stage of the compile's status
  pc,           \* what a replica does with the message
  age,          \* since the replica received it, until its watchdog starts
  ran,          \* since its renewer and watchdog were started
  wait,         \* until its renewer wakes
  call,         \* its renewer, or the update_message it is in
  misses        \* history: renewals failed in a row

messageVars == <<present, hiddenFor, receipt, dequeued>>
renewerVars == <<wait, call, misses>>
vars == <<messageVars, terminations, docs, outcome, pc, age, ran, renewerVars>>

Place == { "idle", "starting", "compiling", "stopping", "closing",
           "giving_up", "cancelling", "releasing", "returning" }
CallState == {"off", "waiting", "sent", "renewed", "failed"}
\* "message": in the attribute of the message object a delete would use;
\* "reply": in an answer its renewer has not read; "nowhere": in no process.
Lost == [by |-> Nobody, at |-> "nowhere"]

TypeOK ==
  /\ present \in BOOLEAN
  /\ hiddenFor \in 0..VisibilityTimeout
  /\ receipt \in [by : Replicas \cup {Nobody}, at : {"message", "reply", "nowhere"}]
  /\ terminations \in 0..MaxTerminations
  /\ dequeued \in 0..(MaxDequeue + 1 + terminations)
  /\ docs \in DocCounts
  /\ outcome \in {"none", "exception", "timeout", "completed", "cancelled",
                 "terminated", "exhausted_retries"}
  /\ pc \in [Replicas -> Place]
  /\ age \in [Replicas -> 0..Startup]
  /\ ran \in [Replicas -> 0..(MaxTotal + 1)]
  /\ wait \in [Replicas -> 0..Every]
  /\ call \in [Replicas -> CallState]
  /\ misses \in [Replicas -> 0..MaxMisses]
------------------------------------------------------------------------------
Init ==
  /\ present = TRUE /\ hiddenFor = 0 /\ receipt = Lost /\ dequeued = 0
  /\ terminations = 0
  /\ docs \in DocCounts
  /\ outcome = "none"
  /\ pc = [r \in Replicas |-> "idle"]
  /\ age = [r \in Replicas |-> 0] /\ ran = [r \in Replicas |-> 0]
  /\ wait = [r \in Replicas |-> 0] /\ call = [r \in Replicas |-> "off"]
  /\ misses = [r \in Replicas |-> 0]

Goto(r, place) == pc' = [pc EXCEPT ![r] = place]
Holds(r) == present /\ receipt = [by |-> r, at |-> "message"]

\* The process ends or turns to other work: no timer of it is left.
Stand(r) ==
  /\ Goto(r, "idle")
  /\ age' = [age EXCEPT ![r] = 0] /\ ran' = [ran EXCEPT ![r] = 0]
  /\ wait' = [wait EXCEPT ![r] = 0] /\ call' = [call EXCEPT ![r] = "off"]
  /\ misses' = [misses EXCEPT ![r] = 0]

\* _safe_delete_queue_message: an outdated receipt answers MessageNotFound, and
\* the message stays.
Delete(r) ==
  /\ present' = (present /\ ~ Holds(r))
  /\ UNCHANGED <<hiddenFor, receipt, dequeued>>
------------------------------------------------------------------------------
\* bug: only the attempts that ran into their budget are given up on.
ReceiveForEver(r) ==
  /\ pc[r] = "idle" /\ present /\ hiddenFor = 0
  /\ hiddenFor' = VisibilityTimeout
  /\ receipt' = [by |-> r, at |-> "message"]
  /\ dequeued' = dequeued + 1
  /\ Goto(r, IF outcome = "timeout" THEN "giving_up" ELSE "starting")
  /\ UNCHANGED <<present, terminations, docs, outcome, age, ran, renewerVars>>

\* receive_message, and the guards on what was received: too many receives, or
\* an attempt that ran into its budget.
Receive(r) ==
  /\ pc[r] = "idle" /\ present /\ hiddenFor = 0
  /\ hiddenFor' = VisibilityTimeout
  /\ receipt' = [by |-> r, at |-> "message"]
  /\ dequeued' = dequeued + 1
  /\ IF dequeued + 1 > MaxDequeue \/ outcome = "timeout"
     THEN /\ Goto(r, "giving_up")
          /\ outcome' = IF outcome = "timeout" THEN outcome ELSE "exhausted_retries"
     ELSE Goto(r, "starting") /\ UNCHANGED outcome
  /\ UNCHANGED <<present, terminations, docs, age, ran, renewerVars>>

\* After the forward to the poison queue.
GiveUp(r) ==
  /\ pc[r] = "giving_up"
  /\ Delete(r)
  /\ Stand(r)
  /\ UNCHANGED <<terminations, docs, outcome>>

\* The manifest is read: renewer and watchdog start together.
Begin(r) ==
  /\ pc[r] = "starting"
  /\ Goto(r, "compiling")
  /\ wait' = [wait EXCEPT ![r] = Every]
  /\ call' = [call EXCEPT ![r] = "waiting"]
  /\ UNCHANGED <<messageVars, terminations, docs, outcome, age, ran, misses>>

\* The renewer runs beside the compile and beside a cancellation.
RenewerWakes(r) ==
  /\ pc[r] \in {"compiling", "cancelling"} /\ call[r] = "waiting" /\ wait[r] = 0
  /\ call' = [call EXCEPT ![r] = IF ran[r] > MaxTotal THEN "off" ELSE "sent"]
  /\ UNCHANGED <<messageVars, terminations, docs, outcome, pc, age, ran, wait, misses>>

\* update_message reaches the queue.
Renew(r) ==
  /\ call[r] = "sent" /\ Holds(r)
  /\ hiddenFor' = VisibilityTimeout
  /\ receipt' = [by |-> r, at |-> "reply"]
  /\ call' = [call EXCEPT ![r] = "renewed"]
  /\ UNCHANGED <<present, dequeued, terminations, docs, outcome, pc, age, ran, wait, misses>>

\* It does not, or is refused for its receipt.
RenewalFails(r) ==
  /\ call[r] = "sent"
  /\ \/ ~ Holds(r) /\ UNCHANGED misses
     \/ misses[r] < MaxMisses /\ misses' = [misses EXCEPT ![r] = @ + 1]
  /\ call' = [call EXCEPT ![r] = "failed"]
  /\ UNCHANGED <<messageVars, terminations, docs, outcome, pc, age, ran, wait>>

\* The renewer waits again, unless it has been told to stop.
Rest(r) ==
  /\ call' = [call EXCEPT ![r] = IF pc[r] \in {"compiling", "cancelling"} THEN "waiting" ELSE "off"]
  /\ wait' = [wait EXCEPT ![r] = Every]

\* bug: the message object keeps the receipt it was received with.
ReplyDiscarded(r) ==
  /\ call[r] = "renewed"
  /\ receipt' = Lost
  /\ misses' = [misses EXCEPT ![r] = 0]
  /\ Rest(r)
  /\ UNCHANGED <<present, hiddenFor, dequeued, terminations, docs, outcome, pc, age, ran>>

\* The answer is read, and the message object gets the new receipt.
ReadReply(r) ==
  /\ call[r] = "renewed"
  /\ receipt' = IF receipt = [by |-> r, at |-> "reply"] THEN [receipt EXCEPT !.at = "message"]
                                                        ELSE receipt
  /\ misses' = [misses EXCEPT ![r] = 0]
  /\ Rest(r)
  /\ UNCHANGED <<present, hiddenFor, dequeued, terminations, docs, outcome, pc, age, ran>>

ReadFailure(r) ==
  /\ call[r] = "failed"
  /\ Rest(r)
  /\ UNCHANGED <<messageVars, terminations, docs, outcome, pc, age, ran, misses>>

\* renewer.stop() has returned: its flag is set, and the thread is over -- which
\* takes a call in flight less than the five seconds it is joined for.
StopsAtOnce(r) == TRUE  \* bug: only the flag is set
Stopped(r) == call[r] \in {"off", "waiting"}

\* _do_compile returns or raises, and the `finally` stops the renewer.
CompileEnds(r) ==
  /\ pc[r] = "compiling"
  /\ Goto(r, "stopping")
  /\ UNCHANGED <<messageVars, terminations, docs, outcome, age, ran, renewerVars>>

LeaveCompile(r) ==
  /\ pc[r] = "stopping" /\ Stopped(r)
  /\ \/ /\ Goto(r, "closing") /\ outcome' = "completed"
        /\ call' = [call EXCEPT ![r] = IF @ = "waiting" THEN "off" ELSE @]
        /\ UNCHANGED <<age, ran, wait, misses>>
     \/ "raise" \in Events /\ Stand(r) /\ outcome' = "exception"
  /\ UNCHANGED <<messageVars, terminations, docs>>

\* "compile success"
Acknowledge(r) ==
  /\ pc[r] = "closing"
  /\ Delete(r)
  /\ Stand(r)
  /\ UNCHANGED <<terminations, docs, outcome>>

\* bug: no limit for a deal that does not exceed the floor.
OverdueIfLarge(r) == PerDoc * docs > CompileTimeout /\ ran[r] >= Budget(docs)
\* A budget of zero turns the watchdog off.
Overdue(r) == Budget(docs) > 0 /\ ran[r] >= Budget(docs)

\* What stays of a stage that a killing thread writes: main runs on until the
\* process exits, and may write "running" over it.
Remains(stage) == {stage, "none"}

\* _CompileWatchdog: the message comes back when its lease is over.
WatchdogFires(r) ==
  /\ pc[r] = "compiling" /\ Overdue(r)
  /\ outcome' \in Remains("timeout")
  /\ Stand(r)
  /\ UNCHANGED <<messageVars, terminations, docs>>

\* _CancelWatcher: it records the cancellation, and does not stop the renewer.
Cancel(r) ==
  /\ pc[r] = "compiling" /\ "cancel" \in Events
  /\ outcome' \in Remains("cancelled")
  /\ Goto(r, "cancelling")
  /\ UNCHANGED <<messageVars, terminations, docs, age, ran, renewerVars>>

\* Its delete uses the receipt the message object has; then it exits.
FinishCancel(r) ==
  /\ pc[r] = "cancelling"
  /\ Delete(r)
  /\ Stand(r)
  /\ UNCHANGED <<terminations, docs, outcome>>

\* _release_inflight, whenever a message is held: it stops the renewer, if there
\* is one, ...
Sigterm(r) ==
  /\ pc[r] \notin {"idle", "releasing", "returning"} /\ "sigterm" \in Events
  /\ terminations < MaxTerminations
  /\ terminations' = terminations + 1
  /\ Goto(r, IF pc[r] = "giving_up" THEN "returning" ELSE "releasing")
  /\ UNCHANGED <<messageVars, docs, outcome, age, ran, renewerVars>>

\* ...then makes the message visible, with whatever receipt it has, and marks the
\* job interrupted.  A message that was being given up on has not set the job.
Release(r) ==
  /\ pc[r] \in {"releasing", "returning"} /\ Stopped(r)
  /\ IF Holds(r) THEN hiddenFor' = 0 /\ receipt' = Lost
                 ELSE UNCHANGED <<hiddenFor, receipt>>
  /\ \/ outcome' = "terminated"
     \/ pc[r] = "returning" /\ UNCHANGED outcome
  /\ Stand(r)
  /\ UNCHANGED <<present, dequeued, terminations, docs>>

\* What cannot wait for the clock: calls are short, and deadlines are met.
Due(r) ==
  \/ pc[r] \in {"stopping", "closing", "giving_up", "cancelling", "releasing", "returning"}
  \/ call[r] \in {"sent", "renewed", "failed"}
  \/ call[r] = "waiting" /\ wait[r] = 0
  \/ pc[r] = "starting" /\ age[r] = Startup
  \/ pc[r] = "compiling" /\ Overdue(r)

Later(t) == IF t = 0 THEN 0 ELSE t - 1

Tick ==
  /\ \A r \in Replicas : ~ Due(r)
  /\ \E r \in Replicas : pc[r] # "idle" \/ hiddenFor > 0
  /\ hiddenFor' = Later(hiddenFor)
  /\ wait' = [r \in Replicas |-> Later(wait[r])]
  /\ age' = [r \in Replicas |-> IF pc[r] = "starting" THEN age[r] + 1 ELSE age[r]]
  /\ ran' = [r \in Replicas |-> IF pc[r] = "compiling" THEN Smaller(ran[r] + 1, MaxTotal + 1)
                                                       ELSE ran[r]]
  /\ UNCHANGED <<present, receipt, dequeued, terminations, docs, outcome, pc, call, misses>>
------------------------------------------------------------------------------
\* What a replica does about its message, whatever the compile does.
Work(r) ==
  \/ Receive(r) \/ GiveUp(r) \/ Begin(r) \/ LeaveCompile(r) \/ Acknowledge(r)
  \/ WatchdogFires(r) \/ FinishCancel(r) \/ Release(r)

Renewing(r) ==
  RenewerWakes(r) \/ Renew(r) \/ RenewalFails(r) \/ ReadReply(r) \/ ReadFailure(r)

Next ==
  \/ Tick
  \/ \E r \in Replicas : Work(r) \/ Renewing(r) \/ CompileEnds(r) \/ Cancel(r) \/ Sigterm(r)

Spec == Init /\ [][Next]_vars

\* Time passes, and nobody sleeps past what is due.  Nothing is assumed of the
\* compile: it may hang for ever.
FairSpec ==
  /\ Spec
  /\ WF_vars(Tick)
  /\ \A r \in Replicas : WF_vars(Work(r)) /\ WF_vars(Renewing(r))
------------------------------------------------------------------------------
\* While a replica is at work on the message, the lease is its own: no second
\* compile starts on top of the first, however long that takes, unless more
\* than MaxMisses renewals fail in a row (main.py:62-68).
NoOverlap ==
  \A r1, r2 \in Replicas : pc[r1] # "idle" /\ pc[r2] # "idle" => r1 = r2

\* A delivered result is delivered once: when the compile has completed and the
\* delete has run, the message is gone, although renewals replace the receipt
\* the delete needs (main.py:891-893).
CompletedIsGone ==
  outcome = "completed" /\ (\A r \in Replicas : pc[r] = "idle") => ~ present

\* What main.py:757-759 and 2738-2740 say of a cancelled compile: its message is
\* deleted, so that it is not run again.  It does not hold.
CancelledIsGone ==
  outcome = "cancelled" /\ (\A r \in Replicas : pc[r] = "idle") => ~ present

\* A termination costs seconds and not the rest of the lease: what it hands back
\* can be received at once (main.py:952-954).
TerminatedIsVisible ==
  [][\A r \in Replicas :
       pc[r] \in {"releasing", "returning"} /\ pc'[r] = "idle" => hiddenFor' = 0]_vars

\* A compile that hangs frees its message: every message leaves the queue in the
\* end (main.py:160-176).
EventuallyGone == <>(~ present)
==============================================================================
