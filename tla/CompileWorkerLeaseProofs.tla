----------------------- MODULE CompileWorkerLeaseProofs -----------------------
(***************************************************************************)
(* The pages that CompileWorker leaves behind, for any number of replicas, *)
(* messages and faults, as long as no lease runs out under a replica that  *)
(* works on its message ("slow" is not among the faults).  A replica at    *)
(* work then has the lease, so no other writes its compile's page in the   *)
(* meantime; the threads that end a process never write "running".         *)
(***************************************************************************)
EXTENDS CompileWorkerProofs

USE DEF queueVars, recordVars, artifactVars, mainVars, processVars, Goto, At, Fault, WritePage,
        MarkActive, ClearActive, DeleteHeld, ForgetInflight, ForgetThreads, Exit

\* No lease runs out under the replica that works on its message.
LeasesHold == "slow" \notin Faults

\* A replica at work on a message is its current lessee, nobody has received the
\* message since, and it is hidden from everybody -- unless the compile was
\* cancelled and its message is gone already.
LeaseInv ==
  \A r \in Replicas : pc[r] \in Busy =>
    /\ lessee[held[r]] = r
    /\ seen[r] = dequeued[held[r]]
    /\ held[r] \in queue => held[r] \in hidden
    /\ held[r] \in Compiles => held[r] \in queue \cup cancelled

\* What a step other than a receive may do to the leases: replicas go on with
\* what they have or leave it; only the lessee that leaves a message, or has left
\* it, makes it visible or deletes it, or else a canceller deletes it.
LeasesKept ==
  /\ UNCHANGED <<lessee, dequeued>>
  /\ queue' \subseteq queue /\ cancelled \subseteq cancelled'
  /\ \A r \in Replicas : pc'[r] \in Busy =>
       pc[r] \in Busy /\ held'[r] = held[r] /\ seen'[r] = seen[r]
  /\ \A r \in Replicas : \A m \in Message :
       lessee[m] = r /\ pc[r] \in Busy /\ pc'[r] \in Busy /\ held[r] = m =>
         /\ m \in queue => m \in queue' \cup cancelled'
         /\ m \in hidden => m \in hidden' \/ m \notin queue'

LeaseEffect ==
  LeasesKept \/ UNCHANGED <<queue, hidden, lessee, dequeued, pc, held, seen, cancelled>>

\* Nobody takes a lease from a replica at work: deletes and releases need the
\* receipt, and a lapse finds nobody at work.
LEMMA LeasesAreKept ==
  ASSUME TypeOK, RecordInv, LeaseInv, LeasesHold, [Next]_vars, \A r \in Replicas : ~ Receive(r)
  PROVE  LeaseEffect
<1> USE DEF TypeOK, LeaseEffect, LeasesKept, LeasesHold, Busy, Attempting, Watched
<1>1. ASSUME NEW r \in Replicas, Restart(r) \/ RecoverDeadRun(r) \/ RecoveryDone(r) PROVE LeaseEffect
  BY <1>1 DEF Restart, RecoverDeadRun, RecoveryDone
<1>2. ASSUME NEW r \in Replicas, RunSowDraft(r) \/ CannotDecode(r) \/ GiveUp(r) PROVE LeaseEffect
  BY <1>2 DEF RunSowDraft, CannotDecode, GiveUp
<1>3. ASSUME NEW r \in Replicas, ForwardToPoisonQueue(r) \/ SkipDeal(r) \/ PassGuards(r) \/ MarkRunning(r) PROVE LeaseEffect
  BY <1>3 DEF ForwardToPoisonQueue, SkipDeal, PassGuards, MarkRunning
<1>4. ASSUME NEW r \in Replicas, AckSowDraft(r) PROVE LeaseEffect
  BY <1>4 DEF LeaseInv, AckSowDraft
<1>5. ASSUME NEW r \in Replicas, Ack(r) PROVE LeaseEffect
  BY <1>5 DEF LeaseInv, Ack
<1>6. ASSUME NEW r \in Replicas, Settle(r) PROVE LeaseEffect
  BY <1>6 DEF LeaseInv, Settle
<1>8. ASSUME NEW r \in Replicas, SkipUnchanged(r) \/ BeginCompile(r) \/ HandleException(r) \/ Seed(r) PROVE LeaseEffect
  BY <1>8 DEF SkipUnchanged, BeginCompile, HandleException, Seed
<1>9. ASSUME NEW r \in Replicas, Project(r) \/ UploadEnvelope(r) \/ MarkDone(r) \/ WriteFingerprint(r) \/ LeaveCompile(r) PROVE LeaseEffect
  BY <1>9 DEF Project, UploadEnvelope, MarkDone, WriteFingerprint, LeaveCompile
<1>10. ASSUME NEW r \in Replicas, RecordCompleted(r) \/ NotifyBriefGen(r) \/ MarkInterrupted(r) \/ Tick(r) PROVE LeaseEffect
  BY <1>10 DEF RecordCompleted, NotifyBriefGen, MarkInterrupted, Tick
<1>11. ASSUME NEW r \in Replicas, ManifestFails(r) \/ CompileRaises(r) \/ DeleteFails(r) \/ WatcherFires(r) \/ Sigkill(r) PROVE LeaseEffect
  BY <1>11 DEF ManifestFails, CompileRaises, DeleteFails, WatcherFires, Sigkill
<1>12. ASSUME NEW r \in Replicas, Sigterm(r) PROVE LeaseEffect
  BY <1>12 DEF Sigterm
<1>13. ASSUME NEW r \in Replicas, KillWritesStatus(r) \/ KillWritesPage(r) \/ KillDropsRequest(r) \/ KillClearsMarker(r) \/ KillExits(r) PROVE LeaseEffect
  <2>1. UNCHANGED <<queue, hidden, lessee, dequeued>> /\ cancelled \subseteq cancelled'
    BY <1>13 DEF KillWritesStatus, KillWritesPage, KillDropsRequest, KillClearsMarker, KillExits
  <2>2. \A q \in Replicas : pc'[q] \in Busy => pc[q] = pc'[q] /\ held'[q] = held[q] /\ seen'[q] = seen[q]
    BY <1>13 DEF KillWritesStatus, KillWritesPage, KillDropsRequest, KillClearsMarker, KillExits
  <2> QED
    BY <2>1, <2>2
<1>14. ASSUME NEW r \in Replicas, KillDropsMessage(r) PROVE LeaseEffect
  <2>1. PICK k \in killing[r] : /\ k.at = "message"
                                /\ \/ queue' = queue \ {k.of} /\ hidden' = hidden \ {k.of}
                                   \/ UNCHANGED <<queue, hidden>>
    BY <1>14 DEF KillDropsMessage, Takes
  <2>2. k.of \in cancelled
    BY <2>1, DroppedByCanceller
  <2> QED
    BY <1>14, <2>1, <2>2 DEF KillDropsMessage
<1>15. ASSUME NEW m \in Message, Lapse(m) PROVE LeaseEffect
  BY <1>15 DEF Lapse, AtWork
<1>16. ASSUME NEW m \in Message, LapseInUse(m) PROVE LeaseEffect
  BY <1>16 DEF LapseInUse
<1>17. ASSUME NEW d \in Deals, RequestCancel(d) PROVE LeaseEffect
  BY <1>17 DEF RequestCancel
<1>18. CASE UNCHANGED vars
  BY <1>18 DEF vars
<1> HIDE DEF TypeOK, LeaseEffect, LeasesKept, LeasesHold, Busy, Attempting, Watched
<1> QED
  BY <1>1, <1>2, <1>3, <1>4, <1>5, <1>6, <1>8, <1>9, <1>10, <1>11, <1>12, <1>13, <1>14, <1>15,
     <1>16, <1>17, <1>18 DEF Next, Work, Trouble, Kill

\* Every step keeps the leases of the replicas at work.
LEMMA LeaseStep ==
  ASSUME TypeOK, RecordInv, LeaseInv, LeasesHold, [Next]_vars
  PROVE  LeaseInv'
<1>1. ASSUME NEW r \in Replicas, Receive(r) PROVE LeaseInv'
  \* the message was visible, so nobody was at work on it
  <2>1. PICK m \in queue \ hidden : /\ Lease(r, m)
                                  /\ held' = [held EXCEPT ![r] = m]
                                  /\ seen' = [seen EXCEPT ![r] = dequeued[m] + 1]
                                  /\ pc' = [pc EXCEPT ![r] = "dispatch"]
                                  /\ UNCHANGED <<queue, cancelled>>
    BY <1>1 DEF Receive, Visible
  <2>2. m \in Message
    BY DEF TypeOK
  <2>3. \A q \in Replicas : pc[q] \in Busy => held[q] # m
    BY DEF LeaseInv
  <2>4. ASSUME NEW q \in Replicas, pc'[q] \in Busy
        PROVE  /\ lessee'[held'[q]] = q
               /\ seen'[q] = dequeued'[held'[q]]
               /\ held'[q] \in queue' => held'[q] \in hidden'
               /\ held'[q] \in Compiles => held'[q] \in queue' \cup cancelled'
    <3>1. CASE q = r
      BY <2>1, <2>2, <3>1 DEF TypeOK, Lease
    <3>2. CASE q # r
      <4>1. pc[q] \in Busy /\ held'[q] = held[q] /\ seen'[q] = seen[q]
        BY <2>1, <2>4, <3>2 DEF TypeOK
      <4>2. held[q] \in Message /\ held[q] # m
        BY <2>3, <4>1 DEF TypeOK
      <4>3. lessee'[held[q]] = lessee[held[q]] /\ dequeued'[held[q]] = dequeued[held[q]]
            /\ hidden' = hidden \cup {m}
        BY <2>1, <2>2, <4>2 DEF TypeOK, Lease
      <4> QED
        BY <2>1, <4>1, <4>3 DEF LeaseInv
    <3> QED
      BY <3>1, <3>2
  <2> QED
    BY <2>4 DEF LeaseInv
<1>2. CASE \A r \in Replicas : ~ Receive(r)
  <2>1. LeaseEffect
    BY <1>2, LeasesAreKept
  <2>2. CASE LeasesKept
    <3>1. ASSUME NEW q \in Replicas, pc'[q] \in Busy
          PROVE  /\ lessee'[held'[q]] = q
                 /\ seen'[q] = dequeued'[held'[q]]
                 /\ held'[q] \in queue' => held'[q] \in hidden'
                 /\ held'[q] \in Compiles => held'[q] \in queue' \cup cancelled'
      <4>1. pc[q] \in Busy /\ held'[q] = held[q] /\ seen'[q] = seen[q] /\ held[q] \in Message
        BY <2>2, <3>1 DEF LeasesKept, TypeOK
      <4> QED
        BY <2>2, <3>1, <4>1 DEF LeasesKept, LeaseInv
    <3> QED
      BY <3>1 DEF LeaseInv
  <2>3. CASE UNCHANGED <<queue, hidden, lessee, dequeued, pc, held, seen, cancelled>>
    BY <2>3 DEF LeaseInv
  <2> QED
    BY <2>1, <2>2, <2>3 DEF LeaseEffect
<1> QED
  BY <1>1, <1>2

\* Leases hold at the start, when nobody is at work.
LEMMA LeaseInit == Init => LeaseInv
  BY DEF Init, LeaseInv, Busy, Attempting, Watched

\* No message is worked on by two replicas.
LEMMA OneWorker ==
  ASSUME LeaseInv, NEW q \in Replicas, NEW r \in Replicas,
         pc[q] \in Busy, pc[r] \in Busy, held[q] = held[r]
  PROVE  q = r
  BY DEF LeaseInv
------------------------------------------------------------------------------
\* The page of c's deal shows c running.
ShownRunning(c) == Page(c) = [of |-> c, is |-> "running"]

\* Where the page of the held compile is final, and where it may still be running.
Told == {"done", "fingerprinted", "left", "recorded", "notified", "archive", "ack"}
Compiling == {"prepare", "compile", "project"}

\* A page that shows a compile running is of one that the guards let through, and
\* whose message is still there, or was skipped or cancelled meanwhile.
PageInv ==
  /\ \A d \in Deals : progress[d].is = "running" =>
       /\ progress[d].of \in (queue \cup cancelled \cup skipped) \cap Compiles
       /\ DealOf[progress[d].of] = d /\ d \notin SkipDeals
  /\ \A r \in Replicas :
       /\ pc[r] \in Told /\ held[r] \in Compiles => ~ ShownRunning(held[r])
       /\ pc[r] = "skipped" => held[r] \in skipped
       /\ pc[r] \in Attempting \cup {"start"} => DealOf[held[r]] \notin SkipDeals

\* What a step does about pages: a replica gets to a place where a page is final
\* with the page of what it holds told, to a skip with that on record, and past
\* the guards only if these let it.
Advance ==
  /\ skipped \subseteq skipped'
  /\ \A r \in Replicas :
       /\ pc'[r] \in Told \cup Attempting \cup {"start"} => held'[r] = held[r]
       /\ pc'[r] \in Told =>
            pc[r] \in Told \/ held[r] \notin Compiles \/ ~ ShownRunning(held[r])'
       /\ pc'[r] = "skipped" => pc[r] = "skipped" \/ held[r] \in skipped'
       /\ pc'[r] \in Attempting \cup {"start"} =>
            pc[r] \in Attempting \cup {"start"} \/ DealOf[held[r]] \notin SkipDeals

\* Only a compile in progress is shown running.
QuietStep == \A d \in Deals : progress'[d].is = "running" => progress'[d] = progress[d]
RunningStep(r) == /\ pc[r] \in Compiling /\ WritePage(held[r], "running")
                  /\ UNCHANGED <<queue, cancelled>>
PageEffect == Advance /\ (QuietStep \/ \E r \in Replicas : RunningStep(r))

\* A page that is failed, or otherwise not written as "running", says "running" only as before.
LEMMA PageNotRunning ==
  ASSUME TypeOK, NEW c \in Compiles, NEW says, says # "running",
         WritePage(c, says) \/ FailPageIfOurs(c)
  PROVE  /\ \A d \in Deals : progress'[d].is = "running" => progress'[d] = progress[d]
         /\ ~ ShownRunning(c)'
<1>1. CASE WritePage(c, says)
  BY <1>1, JobAssumption DEF TypeOK, ShownRunning, Page
<1>2. CASE FailPageIfOurs(c)
  BY <1>2, JobAssumption, SetsAssumption DEF TypeOK, FailPageIfOurs, ShownRunning, Page, Message
<1> QED
  BY <1>1, <1>2

\* A compile that is shown running is not of a deal that is skipped.
LEMMA ShownMeansAllowed ==
  ASSUME PageInv, NEW c \in Compiles, ShownRunning(c)
  PROVE  DealOf[c] \notin SkipDeals
<1>1. DealOf[c] \in Deals
  BY JobAssumption
<1>2. progress[DealOf[c]].is = "running" /\ progress[DealOf[c]].of = c
  BY DEF ShownRunning, Page
<1> QED
  BY <1>1, <1>2 DEF PageInv

\* The places of an attempt, spelled out.
LEMMA PlaceFacts ==
  /\ Told \subseteq Busy /\ Compiling \subseteq Attempting
  /\ Watched \subseteq Attempting /\ Attempting \subseteq Busy
  BY DEF Told, Compiling, Attempting, Watched, Busy

\* Every step has one of these effects.
LEMMA StepsTellPages ==
  ASSUME TypeOK, PageInv, [Next]_vars
  PROVE  PageEffect
<1> USE SetsAssumption DEF TypeOK, PageEffect, Advance, QuietStep, Told, Compiling, Attempting, Watched, WriteStatus
<1>1. ASSUME NEW r \in Replicas, Restart(r) \/ RecoveryDone(r) \/ RunSowDraft(r) \/ CannotDecode(r) PROVE PageEffect
  BY <1>1 DEF Restart, RecoveryDone, RunSowDraft, CannotDecode
<1>2. ASSUME NEW r \in Replicas, RecoverDeadRun(r) PROVE PageEffect
  <2>1. /\ UNCHANGED <<pc, held>> /\ skipped \subseteq skipped'
        /\ \/ \E c \in Compiles : FailPageIfOurs(c)
           \/ UNCHANGED progress
    BY <1>2 DEF RecoverDeadRun
  <2>2. QuietStep
    BY <2>1, PageNotRunning
  <2> QED
    BY <2>1, <2>2
<1>3. ASSUME NEW r \in Replicas, Receive(r) PROVE PageEffect
  BY <1>3 DEF Receive, Lease, Visible
<1>4. ASSUME NEW r \in Replicas, GiveUp(r) PROVE PageEffect
  <2>1. held[r] \in Compiles /\ FailPageIfOurs(held[r])
    BY <1>4 DEF GiveUp
  <2>2. QuietStep /\ ~ ShownRunning(held[r])'
    BY <1>4, <2>1, PageNotRunning DEF GiveUp
  <2> QED
    BY <1>4, <2>2 DEF GiveUp
<1>5. ASSUME NEW r \in Replicas, ForwardToPoisonQueue(r) \/ PassGuards(r) PROVE PageEffect
  BY <1>5 DEF ForwardToPoisonQueue, PassGuards
<1>51. ASSUME NEW r \in Replicas, SkipDeal(r) PROVE PageEffect
  \* a deal that is skipped has no run to show
  <2>1. held[r] \in Compiles /\ DealOf[held[r]] \in SkipDeals /\ UNCHANGED <<progress, held>>
    BY <1>51 DEF SkipDeal
  <2>2. ~ ShownRunning(held[r])'
    BY <2>1, ShownMeansAllowed DEF ShownRunning, Page
  <2> QED
    BY <1>51, <2>2 DEF SkipDeal
<1>6. ASSUME NEW r \in Replicas, MarkRunning(r) PROVE PageEffect
  BY <1>6 DEF MarkRunning
<1>7. ASSUME NEW r \in Replicas, AckSowDraft(r) \/ Ack(r) \/ Settle(r) PROVE PageEffect
  BY <1>7 DEF AckSowDraft, Ack, Settle
<1>8. ASSUME NEW r \in Replicas, SkipUnchanged(r) \/ BeginCompile(r) PROVE PageEffect
  BY <1>8 DEF SkipUnchanged, BeginCompile
<1>9. ASSUME NEW r \in Replicas, HandleException(r) PROVE PageEffect
  <2>1. held[r] \in Compiles /\ WritePage(held[r], "failed")
    BY <1>9 DEF HandleException
  <2>2. QuietStep /\ ~ ShownRunning(held[r])'
    BY <1>9, <2>1, PageNotRunning DEF HandleException
  <2> QED
    BY <1>9, <2>2 DEF HandleException
<1>10. ASSUME NEW r \in Replicas, UploadEnvelope(r) \/ WriteFingerprint(r) PROVE PageEffect
  BY <1>10 DEF UploadEnvelope, WriteFingerprint
<1>101. ASSUME NEW r \in Replicas, MarkDone(r) PROVE PageEffect
  <2>1. held[r] \in Compiles /\ WritePage(held[r], "done")
    BY <1>101 DEF MarkDone
  <2>2. QuietStep /\ ~ ShownRunning(held[r])'
    BY <1>101, <2>1, PageNotRunning DEF MarkDone
  <2> QED
    BY <1>101, <2>2 DEF MarkDone
<1>11. ASSUME NEW r \in Replicas, LeaveCompile(r) \/ RecordCompleted(r) \/ NotifyBriefGen(r) PROVE PageEffect
  BY <1>11 DEF LeaveCompile, RecordCompleted, NotifyBriefGen
<1>12. ASSUME NEW r \in Replicas, KillWritesPage(r) PROVE PageEffect
  <2>1. \E c \in Compiles : WritePage(c, "cancelled") \/ FailPageIfOurs(c)
    <3>1. PICK k \in killing[r] : WritePage(k.of, "cancelled") \/ FailPageIfOurs(k.of)
      BY <1>12 DEF KillWritesPage
    <3>2. k.of \in Compiles
      BY DEF TypeOK
    <3> QED
      BY <3>1, <3>2
  <2>2. QuietStep
    BY <2>1, PageNotRunning
  <2> QED
    BY <1>12, <2>2 DEF KillWritesPage
<1>13. ASSUME NEW r \in Replicas, KillWritesStatus(r) \/ KillDropsMessage(r) \/ KillDropsRequest(r) \/ KillClearsMarker(r) \/ KillExits(r) PROVE PageEffect
  <2>1. UNCHANGED progress /\ skipped \subseteq skipped'
    BY <1>13 DEF KillWritesStatus, KillDropsMessage, KillDropsRequest, KillClearsMarker, KillExits
  <2>2. \A q \in Replicas : pc'[q] = "down" \/ (pc'[q] = pc[q] /\ held'[q] = held[q])
    BY <1>13 DEF KillWritesStatus, KillDropsMessage, KillDropsRequest, KillClearsMarker, KillExits
  <2> QED
    BY <2>1, <2>2
<1>14. ASSUME NEW r \in Replicas, MarkInterrupted(r) PROVE PageEffect
  <2>1. /\ pc' = [pc EXCEPT ![r] = "down"] /\ held' = [held EXCEPT ![r] = NoOne]
        /\ skipped \subseteq skipped'
    BY <1>14 DEF MarkInterrupted
  <2>2. \/ UNCHANGED progress
        \/ \E c \in Compiles : WritePage(c, "interrupted")
    BY <1>14 DEF MarkInterrupted
  <2>3. QuietStep
    BY <2>2, PageNotRunning
  <2> QED
    BY <2>1, <2>3
<1>15. ASSUME NEW r \in Replicas, ManifestFails(r) \/ CompileRaises(r) \/ DeleteFails(r) \/ WatcherFires(r) PROVE PageEffect
  BY <1>15 DEF ManifestFails, CompileRaises, DeleteFails, WatcherFires
<1>17. ASSUME NEW r \in Replicas, Sigkill(r) \/ Sigterm(r) PROVE PageEffect
  BY <1>17 DEF Sigkill, Sigterm
<1>18. ASSUME NEW r \in Replicas, Seed(r) \/ Project(r) \/ Tick(r) PROVE PageEffect
  <2>1. RunningStep(r)
    BY <1>18 DEF Seed, Project, Tick, RunningStep
  <2>2. Advance
    BY <1>18 DEF Seed, Project, Tick
  <2> QED
    BY <2>1, <2>2
<1>19. ASSUME NEW m \in Message, Lapse(m) \/ LapseInUse(m) PROVE PageEffect
  BY <1>19 DEF Lapse, LapseInUse
<1>20. ASSUME NEW d \in Deals, RequestCancel(d) PROVE PageEffect
  BY <1>20 DEF RequestCancel
<1>21. CASE UNCHANGED vars
  BY <1>21 DEF vars
<1> HIDE SetsAssumption DEF TypeOK, PageEffect, Advance, QuietStep, Told, Compiling, Attempting, Watched, WriteStatus
<1> QED
  BY <1>1, <1>2, <1>3, <1>4, <1>5, <1>51, <1>101, <1>6, <1>7, <1>8, <1>9, <1>10, <1>11, <1>12, <1>13, <1>14,
     <1>15, <1>17, <1>18, <1>19, <1>20, <1>21
     DEF Next, Work, Trouble, Kill

\* Every step keeps the pages of running compiles to messages still there, or
\* skipped or cancelled.
LEMMA PageStep ==
  ASSUME TypeOK, LeaseInv, RecordInv, PageInv, [Next]_vars
  PROVE  PageInv'
<1>1. PageEffect
  BY StepsTellPages
<1>2. cancelled \subseteq cancelled' /\ skipped \subseteq skipped'
  BY <1>1, StepsKeepRecords DEF RecordsStay, PageEffect, Advance
\* a message that goes is told, skipped or cancelled
<1>3. ASSUME NEW c \in Compiles, ShownRunning(c), c \in queue \cup cancelled \cup skipped
      PROVE  c \in queue' \cup cancelled' \cup skipped'
  <2>1. CASE \E r \in Replicas : pc[r] \in Deleting /\ held[r] = c
    <3>1. PICK r \in Replicas : pc[r] \in Deleting /\ held[r] = c
      BY <2>1
    <3>2. pc[r] \in Told \cup {"skipped"}
      BY <3>1, SetsAssumption DEF Deleting, Told, RecordInv, ClosingIsRecorded
    <3>3. pc[r] = "skipped"
      BY <1>3, <3>1, <3>2 DEF PageInv
    <3> QED
      BY <1>2, <3>1, <3>3 DEF PageInv
  <2>2. CASE \E r \in Replicas : \E k \in killing[r] : k.at = "message" /\ k.of = c
    BY <1>2, <2>2, DroppedByCanceller
  <2>3. CASE c \in queue => c \in queue'
    BY <1>2, <1>3, <2>3
  <2> QED
    BY <2>1, <2>2, <2>3, StepsKeepRecords DEF RecordsStay, Message
<1>4. ASSUME NEW q \in Replicas
      PROVE  /\ pc'[q] = "skipped" => held'[q] \in skipped'
             /\ pc'[q] \in Attempting \cup {"start"} => DealOf[held'[q]] \notin SkipDeals
  <2>1. pc'[q] \in Attempting \cup {"start"} =>
          held'[q] = held[q] /\ (pc[q] \in Attempting \cup {"start"} \/ DealOf[held[q]] \notin SkipDeals)
    BY <1>1 DEF PageEffect, Advance
  <2>2. pc'[q] = "skipped" => held'[q] = held[q] /\ (pc[q] = "skipped" \/ held[q] \in skipped')
    BY <1>1 DEF PageEffect, Advance, Attempting
  <2> QED
    BY <1>2, <2>1, <2>2 DEF PageInv
<1>5. CASE QuietStep
  <2>2. ASSUME NEW d \in Deals, progress'[d].is = "running"
        PROVE  /\ progress'[d].of \in (queue' \cup cancelled' \cup skipped') \cap Compiles
               /\ DealOf[progress'[d].of] = d /\ d \notin SkipDeals
    <3>1. progress'[d] = progress[d] /\ progress[d].is = "running"
      BY <1>5, <2>2 DEF QuietStep
    <3>2. progress[d].of \in Compiles /\ ShownRunning(progress[d].of)
      BY <3>1 DEF PageInv, ShownRunning, Page, TypeOK
    <3> QED
      BY <1>3, <3>1, <3>2 DEF PageInv
  <2>3. ASSUME NEW q \in Replicas, pc'[q] \in Told, held'[q] \in Compiles
        PROVE  ~ ShownRunning(held[q])'
    <3>1. held'[q] = held[q] /\ (pc[q] \in Told \/ ~ ShownRunning(held[q])')
      BY <1>1, <2>3 DEF PageEffect, Advance
    <3>2. pc[q] \in Told => ~ ShownRunning(held[q])
      BY <2>3, <3>1 DEF PageInv
    <3>3. held[q] \in Compiles
      BY <2>3, <3>1
    <3> QED
      BY <1>5, <3>1, <3>2, <3>3, JobAssumption DEF QuietStep, ShownRunning, Page
  <2> QED
    BY <1>4, <2>2, <2>3 DEF PageInv
<1>6. ASSUME NEW r \in Replicas, RunningStep(r) PROVE PageInv'
  <2>1. /\ held[r] \in (queue \cup cancelled) \cap Compiles
        /\ DealOf[held[r]] \notin SkipDeals /\ DealOf[held[r]] \in Deals
    BY <1>6, PlaceFacts, JobAssumption DEF RunningStep, LeaseInv, PageInv, TypeOK
  <2>2. progress' = [progress EXCEPT ![DealOf[held[r]]] = [of |-> held[r], is |-> "running"]]
        /\ UNCHANGED <<queue, cancelled>>
    BY <1>6 DEF RunningStep
  <2>3. ASSUME NEW d \in Deals, progress'[d].is = "running"
        PROVE  /\ progress'[d].of \in (queue' \cup cancelled' \cup skipped') \cap Compiles
               /\ DealOf[progress'[d].of] = d /\ d \notin SkipDeals
    <3>1. CASE d = DealOf[held[r]]
      <4>1. progress'[d].of = held[r]
        BY <2>2, <3>1 DEF TypeOK
      <4> QED
        BY <2>1, <2>2, <3>1, <4>1
    <3>2. CASE d # DealOf[held[r]]
      <4>1. progress'[d] = progress[d]
        BY <2>2, <3>2 DEF TypeOK
      <4> QED
        BY <1>2, <2>2, <2>3, <4>1 DEF PageInv
    <3> QED
      BY <3>1, <3>2
  <2>4. ASSUME NEW q \in Replicas, pc'[q] \in Told, held'[q] \in Compiles
        PROVE  ~ ShownRunning(held[q])'
    <3>1. held'[q] = held[q] /\ (pc[q] \in Told \/ ~ ShownRunning(held[q])')
      BY <1>1, <2>4 DEF PageEffect, Advance
    <3>2. CASE pc[q] \in Told
      <4>1. ~ ShownRunning(held[q]) /\ pc[q] \notin Compiling
        BY <2>4, <3>1, <3>2 DEF PageInv, Told, Compiling
      <4>2. held[q] # held[r]
        BY <1>6, <3>2, <4>1, OneWorker, PlaceFacts DEF RunningStep
      <4> QED
        BY <2>1, <2>2, <2>4, <3>1, <4>1, <4>2, JobAssumption DEF ShownRunning, Page, TypeOK
    <3> QED
      BY <3>1, <3>2
  <2>5. \A q \in Replicas : pc'[q] \in Told /\ held'[q] \in Compiles => held'[q] = held[q]
    BY <1>1 DEF PageEffect, Advance
  <2> QED
    BY <1>4, <2>3, <2>4, <2>5 DEF PageInv
<1> QED
  BY <1>1, <1>5, <1>6 DEF PageEffect

\* When every compile of a deal is settled its page does not show one running, be
\* it killed, failed or given up on, skipped itself or run beside others of the
\* same documents, as long as no lease runs out under a replica at work -- unless
\* that compile was cancelled, or was killed and then skipped.
THEOREM SettledPagesAreTerminal ==
  ASSUME LeasesHold
  PROVE  Spec => []SettledPageIsTerminal
<1>1. TypeOK /\ RecordInv /\ LeaseInv /\ [Next]_vars => LeaseInv'
  BY LeaseStep
<1>2. TypeOK /\ RecordInv /\ [Next]_vars => RecordInv'
  BY RecordStep
<1>3. Init => PageInv
  BY DEF Init, PageInv, Told, Compiling, Attempting, Watched
<1>4. TypeOK /\ LeaseInv /\ RecordInv /\ PageInv /\ [Next]_vars => PageInv'
  BY PageStep
<1>5. PageInv => SettledPageIsTerminal
  BY DEF PageInv, SettledPageIsTerminal, Settled, Gone
<1> QED
  BY <1>1, <1>2, <1>3, <1>4, <1>5, LeaseInit, RecordInit, TypeCorrect, PTL DEF Spec
==============================================================================
