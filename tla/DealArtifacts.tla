----------------------------- MODULE DealArtifacts -----------------------------
(***************************************************************************)
(* The result artifacts of one deal (src/parser_os_worker/main.py): the    *)
(* blobs every compile of the deal writes one after the other, the SOW     *)
(* drafts that rewrite two of them, and brief generation, which makes one  *)
(* of another.  Replicas work on the deal at the same time; nothing but    *)
(* the order of the writes protects a reader.                              *)
(*                                                                         *)
(* Blob writes are atomic.  How a message is received, counted and given   *)
(* up on is the subject of CompileWorker: here an attempt that fails or    *)
(* is killed is tried again or given up on, as it may turn out.            *)
(***************************************************************************)
EXTENDS Naturals, Sequences, SequencesExt

CONSTANTS
  Replicas, Nobody,
  Compiles, Drafts, \* the messages of this deal
  BestEffort,   \* the artifacts after the fingerprint, in order
  DocsOf,       \* the documents in the manifest of a compile
  ScopeOf,      \* its as_of cut
  Forced,       \* compiles with force=true
  Briefless,    \* compiles whose envelope has no c3_brief
  Faults, MaxFaults

Task == Compiles \cup Drafts
FaultKinds == {"store", "raise", "kill", "notify", "slow"}

ASSUME TasksAssumption ==
  /\ Compiles \cap Drafts = {} /\ Nobody \notin Task \cup Replicas
  /\ Forced \cup Briefless \subseteq Compiles
  /\ DOMAIN DocsOf = Compiles /\ DOMAIN ScopeOf = Compiles
  /\ BestEffort \in Seq({"scope", "sow", "trace", "atoms", "result"})
  /\ Faults \subseteq FaultKinds /\ MaxFaults \in Nat

VARIABLES
  blob,        \* the compile that each artifact is of
  handoff,     \* the compile that PM_HANDOFF.json is of
  draftStatus, \* sow-draft-status.json: whose, and how far
  notified,    \* brief generation has an open notification
  visible,     \* messages that can be received
  lessee,      \* who has received the others; of a deleted one, nobody
  task, at,    \* what each replica works on, and which step is next
  copy,        \* the compile of the envelope, or hand-off, a draft has read
  stored,      \* history: compiles that have written the envelope
  faults       \* history

artifactVars == <<blob, handoff, draftStatus>>
queueVars == <<visible, lessee>>
vars == <<artifactVars, notified, queueVars, task, at, copy, stored, faults>>

\* bug: the fingerprint before what it stands for.
FingerprintFirst == <<"manifest", "idempotency", "envelope">> \o BestEffort \o <<"notify", "ack">>
\* bug: brief generation is told of an envelope to come.
NotifyFirst == <<"manifest", "notify", "envelope", "idempotency">> \o BestEffort \o <<"ack">>

\* The steps of a compile from its skip check on; those in between write a blob.
Steps == <<"manifest", "envelope", "idempotency">> \o BestEffort \o <<"notify", "ack">>
DraftSteps == <<"running", "read", "write", "handoff_read", "handoff_write", "done", "ack">>

\* What a reader combines with the envelope.
Sidecars == {"idempotency"} \cup ToSet(BestEffort)
Artifact == {"envelope"} \cup Sidecars

\* The types, and: a replica at work has a task, and a step that task takes.
TypeOK ==
  /\ blob \in [Artifact -> Compiles \cup {Nobody}]
  /\ handoff \in Compiles \cup {Nobody} /\ copy \in [Replicas -> Compiles \cup {Nobody}]
  /\ draftStatus \in [of : Drafts \cup {Nobody}, is : {"none", "running", "done", "failed"}]
  /\ notified \in BOOLEAN
  /\ visible \subseteq Task /\ lessee \in [Task -> Replicas \cup {Nobody}]
  /\ task \in [Replicas -> Task \cup {Nobody}]
  /\ \A r \in Replicas :
       CASE task[r] \in Compiles -> at[r] \in ToSet(Steps)
         [] task[r] \in Drafts   -> at[r] \in ToSet(DraftSteps) \cup {"failed"}
         [] OTHER                -> at[r] = "poll"
  /\ \A t \in visible : lessee[t] = Nobody
  /\ stored \subseteq Compiles /\ faults \in 0..MaxFaults
------------------------------------------------------------------------------
Init ==
  /\ blob = [a \in Artifact |-> Nobody] /\ handoff = Nobody
  /\ draftStatus = [of |-> Nobody, is |-> "none"]
  /\ notified = FALSE
  /\ \E asked \in SUBSET Drafts : visible = Compiles \cup asked
  /\ lessee = [t \in Task |-> Nobody]
  /\ task = [r \in Replicas |-> Nobody] /\ at = [r \in Replicas |-> "poll"]
  /\ copy = [r \in Replicas |-> Nobody]
  /\ stored = {} /\ faults = 0

Fault(kind) == kind \in Faults /\ faults < MaxFaults /\ faults' = faults + 1
Go(r, step) == at' = [at EXCEPT ![r] = step]
On(r, step) == at[r] = step
StepAfter(steps, s) == steps[(CHOOSE i \in DOMAIN steps : steps[i] = s) + 1]
Continue(r) == Go(r, StepAfter(IF task[r] \in Compiles THEN Steps ELSE DraftSteps, at[r]))

\* bug: the message of the last round is still the one at hand.
IdleKeepsTask(r) ==
  /\ Go(r, "poll")
  /\ copy' = [copy EXCEPT ![r] = Nobody]
  /\ UNCHANGED task

Idle(r) ==
  /\ task' = [task EXCEPT ![r] = Nobody]
  /\ Go(r, "poll")
  /\ copy' = [copy EXCEPT ![r] = Nobody]

Receive(r, t) ==
  /\ On(r, "poll") /\ t \in visible
  /\ visible' = visible \ {t}
  /\ lessee' = [lessee EXCEPT ![t] = r]
  /\ task' = [task EXCEPT ![r] = t]
  /\ Go(r, IF t \in Compiles THEN "manifest" ELSE "running")
  /\ UNCHANGED <<artifactVars, notified, copy, stored, faults>>

\* bug: keyed on the documents alone, not on the scope of the run.
UnchangedDocuments(c) ==
  \E f \in Compiles : blob["idempotency"] = f /\ DocsOf[f] = DocsOf[c]

\* _unchanged_since_last_compile
Unchanged(c) ==
  \E f \in Compiles : /\ blob["idempotency"] = f
                      /\ DocsOf[f] = DocsOf[c] /\ ScopeOf[f] = ScopeOf[c]

\* The skip check, and the compile itself unless it skips.  The renders of its
\* drawings, the one thing stored before the envelope, are nobody's concern.
SkipUnchanged(r) ==
  /\ On(r, "manifest") /\ task[r] \notin Forced /\ Unchanged(task[r])
  /\ Go(r, "ack")
  /\ UNCHANGED <<artifactVars, notified, queueVars, task, copy, stored, faults>>
Compile(r) ==
  /\ On(r, "manifest") /\ (task[r] \in Forced \/ ~ Unchanged(task[r]))
  /\ Continue(r)
  /\ UNCHANGED <<artifactVars, notified, queueVars, task, copy, stored, faults>>

\* The next artifact is written over whatever is there.
Store(r, a) ==
  /\ On(r, a) /\ task[r] \in Compiles
  /\ blob' = [blob EXCEPT ![a] = task[r]]
  /\ stored' = IF a = "envelope" THEN stored \cup {task[r]} ELSE stored
  /\ Continue(r)
  /\ UNCHANGED <<handoff, draftStatus, notified, queueVars, task, copy, faults>>

\* All but the envelope are best effort; without its atoms a compile does not
\* write its full result either.
StoreFails(r, a) ==
  /\ On(r, a) /\ task[r] \in Compiles /\ a # "envelope"
  /\ Fault("store")
  /\ Go(r, StepAfter(Steps, IF a = "atoms" /\ "result" \in Artifact THEN "result" ELSE a))
  /\ UNCHANGED <<artifactVars, notified, queueVars, task, copy, stored>>

\* The completed status, then the queue and the HTTP call: one may do.
Notify(r) ==
  /\ On(r, "notify")
  /\ \/ notified' = TRUE /\ UNCHANGED faults
     \/ Fault("notify") /\ UNCHANGED notified
  /\ Continue(r)
  /\ UNCHANGED <<artifactVars, queueVars, task, copy, stored>>

\* Only the current receipt deletes.
Acknowledge(r) ==
  /\ On(r, "ack")
  /\ lessee' = [lessee EXCEPT ![task[r]] = IF @ = r THEN Nobody ELSE @]
  /\ Idle(r)
  /\ UNCHANGED <<artifactVars, notified, visible, stored, faults>>
------------------------------------------------------------------------------
DraftSays(r, says) == draftStatus' = [of |-> task[r], is |-> says]

\* bug: a draft is acknowledged when it begins.
DraftBeginsAcknowledged(r) ==
  /\ On(r, "running")
  /\ DraftSays(r, "running")
  /\ lessee' = [lessee EXCEPT ![task[r]] = IF @ = r THEN Nobody ELSE @]
  /\ Continue(r)
  /\ UNCHANGED <<blob, handoff, notified, visible, task, copy, stored, faults>>

DraftBegins(r) ==
  /\ On(r, "running")
  /\ DraftSays(r, "running")
  /\ Continue(r)
  /\ UNCHANGED <<blob, handoff, notified, queueVars, task, copy, stored, faults>>

\* No envelope, or none with a c3_brief, is a failure.
DraftReads(r) ==
  /\ On(r, "read")
  /\ IF blob["envelope"] \in Compiles \ Briefless
     THEN copy' = [copy EXCEPT ![r] = blob["envelope"]] /\ Continue(r)
     ELSE Go(r, "failed") /\ UNCHANGED copy
  /\ UNCHANGED <<artifactVars, notified, queueVars, task, stored, faults>>

\* The envelope that was read goes back with a c3_sow, whatever is there now.
DraftWrites(r) ==
  /\ On(r, "write")
  /\ blob' = [blob EXCEPT !["envelope"] = copy[r]]
  /\ Continue(r)
  /\ UNCHANGED <<handoff, draftStatus, notified, queueVars, task, copy, stored, faults>>

\* So does the hand-off, unless it is not there.
DraftReadsHandoff(r) ==
  /\ On(r, "handoff_read")
  /\ copy' = [copy EXCEPT ![r] = handoff]
  /\ Go(r, IF handoff = Nobody THEN "done" ELSE "handoff_write")
  /\ UNCHANGED <<artifactVars, notified, queueVars, task, stored, faults>>
DraftWritesHandoff(r) ==
  /\ On(r, "handoff_write")
  /\ \/ handoff' = copy[r] /\ UNCHANGED faults
     \/ Fault("store") /\ UNCHANGED handoff
  /\ Continue(r)
  /\ UNCHANGED <<blob, draftStatus, notified, queueVars, task, copy, stored>>

DraftDone(r) ==
  /\ On(r, "done")
  /\ DraftSays(r, "done")
  /\ Continue(r)
  /\ UNCHANGED <<blob, handoff, notified, queueVars, task, copy, stored, faults>>

\* Writing the draft, or its envelope, or its status raises.
DraftRaises(r) ==
  /\ at[r] \in {"read", "write", "done"}
  /\ Fault("raise")
  /\ Go(r, "failed")
  /\ UNCHANGED <<artifactVars, notified, queueVars, task, copy, stored>>
DraftFails(r) ==
  /\ On(r, "failed")
  /\ DraftSays(r, "failed")
  /\ Go(r, "ack")
  /\ UNCHANGED <<blob, handoff, notified, queueVars, task, copy, stored, faults>>

\* What nothing catches leaves the message to its lease.
Abandon(r) ==
  /\ \/ task[r] \in Compiles /\ at[r] \in {"manifest", "envelope"} /\ Fault("raise")
     \/ at[r] \in {"running", "failed"} /\ Fault("raise")
     \/ ~ On(r, "poll") /\ Fault("kill")
  /\ Idle(r)
  /\ UNCHANGED <<artifactVars, notified, queueVars, stored>>
------------------------------------------------------------------------------
\* The lease of a message ends when nobody works on it, and while a draft is
\* being written: that takes minutes, and nobody renews it.
Lapse(t) ==
  /\ \E r \in Replicas : /\ lessee[t] = r
                         /\ \/ task[r] # t /\ UNCHANGED faults
                            \/ task[r] = t /\ On(r, "write") /\ Fault("slow")
  /\ visible' = visible \cup {t}
  /\ lessee' = [lessee EXCEPT ![t] = Nobody]
  /\ UNCHANGED <<artifactVars, notified, task, at, copy, stored>>

\* A compile that failed or was killed or cancelled may be given up on.
GiveUp(c) ==
  /\ \E r \in Replicas : lessee[c] = r /\ task[r] # c
  /\ lessee' = [lessee EXCEPT ![c] = Nobody]
  /\ UNCHANGED <<artifactVars, notified, visible, task, at, copy, stored, faults>>

\* Brief generation makes the hand-off of the envelope it finds.
BriefGen ==
  /\ notified
  /\ notified' = FALSE
  /\ handoff' = blob["envelope"]
  /\ UNCHANGED <<blob, draftStatus, queueVars, task, at, copy, stored, faults>>

Run(r) ==
  \/ \E t \in Task : Receive(r, t)
  \/ SkipUnchanged(r) \/ Compile(r) \/ Notify(r) \/ Acknowledge(r)
  \/ \E a \in Artifact : Store(r, a)
  \/ DraftBegins(r) \/ DraftReads(r) \/ DraftWrites(r) \/ DraftReadsHandoff(r)
  \/ DraftWritesHandoff(r) \/ DraftDone(r) \/ DraftFails(r)

Next ==
  \/ \E r \in Replicas : \/ Run(r) \/ DraftRaises(r) \/ Abandon(r)
                         \/ \E a \in Artifact : StoreFails(r, a)
  \/ \E t \in Task : Lapse(t)
  \/ \E c \in Compiles : GiveUp(c)
  \/ BriefGen

Spec == Init /\ [][Next]_vars

\* Replicas run, leases end, brief generation answers.
FairSpec ==
  /\ Spec
  /\ \A r \in Replicas : WF_vars(Run(r))
  /\ \A t \in Task : WF_vars(Lapse(t))
  /\ WF_vars(BriefGen)
------------------------------------------------------------------------------
\* No artifact that is read together with the envelope is there before it: of
\* every compile seen in one, the envelope had been written, whoever overwrote it
\* since and wherever compiles were killed (main.py:2323 "envelope.json already
\* uploaded above is the contract").
SidecarsBacked == \A a \in Sidecars : blob[a] \in stored \cup {Nobody}

\* A compile is skipped only when the same documents in the same scope have been
\* compiled and stored, which a retry after a crash relies on (main.py:1376-1382).
SkippedWasCompiled ==
  [][\A r \in Replicas : at[r] = "manifest" /\ at'[r] = "ack" =>
       \E c \in stored : DocsOf[c] = DocsOf[task[r]] /\ ScopeOf[c] = ScopeOf[task[r]]]_vars

\* A draft's status does not stay "running", whatever was killed (main.py:2916
\* "so the Studio can wait on it").
DraftSettles == <>[](draftStatus.is # "running")

\* While nothing fails and no draft interferes, the hand-off catches up with the
\* envelope of the last compile, however the compiles of the deal interleave.
Undisturbed == faults = 0 /\ draftStatus.of = Nobody
BriefCatchesUp ==
  \A c \in Compiles :
    blob["envelope"] = c ~> (handoff = c \/ blob["envelope"] # c \/ ~ Undisturbed)

\* main.py:1351-1352: a compile is skipped only when its documents "are byte-identical
\* to the last successful compile", whose envelope is what the deal shows.
SkipIsRedundant ==
  [][\A r \in Replicas : at[r] = "manifest" /\ at'[r] = "ack" =>
       /\ DocsOf[blob["envelope"]] = DocsOf[task[r]]
       /\ ScopeOf[blob["envelope"]] = ScopeOf[task[r]]]_vars
==============================================================================
