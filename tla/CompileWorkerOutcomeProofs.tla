---------------------- MODULE CompileWorkerOutcomeProofs ----------------------
(***************************************************************************)
(* What becomes of a compile in CompileWorker, for any number of replicas, *)
(* messages and faults, leases that run out under a working replica and    *)
(* threads that end a process beside main included: what is said to be     *)
(* delivered is, and no message is dropped in silence.                     *)
(***************************************************************************)
EXTENDS CompileWorkerProofs

USE DEF queueVars, recordVars, artifactVars, mainVars, processVars, Goto, At, Fault, WritePage,
        MarkActive, ClearActive, DeleteHeld, ForgetInflight, ForgetThreads, Exit

\* From its upload on, the envelope of the compile a replica holds is up; and a
\* fingerprint stands for an envelope of the same deal and the same documents.
AfterUpload == {"uploaded", "done", "fingerprinted", "left", "recorded", "notified"}

HolderUploaded == \A r \in Replicas : pc[r] \in AfterUpload => held[r] \in uploaded
FingerprintBacked ==
  \A d \in Deals : fingerprint[d] # NoOne =>
    \E e \in uploaded : DealOf[e] = d /\ DocsOf[e] = fingerprint[d]

DeliveredInv == HolderUploaded /\ FingerprintBacked /\ DeliveredMeansUploaded

\* A step that uploads nothing keeps the promise, if it says "done" of no page,
\* "completed" or "skipped_unchanged" of no compile, and moves nobody past the upload.
LEMMA NothingDelivered ==
  ASSUME DeliveredInv, UNCHANGED <<uploaded, fingerprint>>,
         \A r \in Replicas : pc'[r] \in AfterUpload => pc[r] \in AfterUpload /\ held'[r] = held[r],
         \A d \in Deals : progress'[d].is = "done" => progress'[d] = progress[d],
         \A c \in Compiles : status'[c] \in {"completed", "skipped_unchanged"} => status'[c] = status[c]
  PROVE  DeliveredInv'
  BY DEF DeliveredInv, HolderUploaded, FingerprintBacked, DeliveredMeansUploaded, Delivered

\* A page that is failed, or otherwise not written as "done", says "done" only as before.
LEMMA PageNotDone ==
  ASSUME TypeOK, NEW c \in Compiles, NEW says, says # "done",
         WritePage(c, says) \/ FailPageIfOurs(c)
  PROVE  \A d \in Deals : progress'[d].is = "done" => progress'[d] = progress[d]
  BY JobAssumption DEF TypeOK, FailPageIfOurs

\* Every step keeps what is said to be delivered behind an upload.
LEMMA DeliveredStep ==
  ASSUME TypeOK, DeliveredInv, [Next]_vars
  PROVE  DeliveredInv'
<1> USE SetsAssumption, JobAssumption
    DEF TypeOK, AfterUpload, WriteStatus
<1>1. ASSUME NEW r \in Replicas, Restart(r) \/ RecoveryDone(r) \/ Receive(r) PROVE DeliveredInv'
  BY <1>1, NothingDelivered DEF Restart, RecoveryDone, Receive
<1>2. ASSUME NEW r \in Replicas, RecoverDeadRun(r) PROVE DeliveredInv'
  <2>1. /\ UNCHANGED <<uploaded, fingerprint, pc, held>>
        /\ progress' = progress \/ \E c \in Compiles : FailPageIfOurs(c)
    BY <1>2 DEF RecoverDeadRun
  <2>2. \A c \in Compiles : status'[c] \in {status[c], "killed"}
    BY <1>2 DEF RecoverDeadRun
  <2>3. \A d \in Deals : progress'[d].is = "done" => progress'[d] = progress[d]
    BY <2>1, PageNotDone
  <2> QED
    BY <2>1, <2>2, <2>3, NothingDelivered
<1>3. ASSUME NEW r \in Replicas, RunSowDraft(r) \/ CannotDecode(r) PROVE DeliveredInv'
  BY <1>3, NothingDelivered DEF RunSowDraft, CannotDecode
<1>4. ASSUME NEW r \in Replicas, GiveUp(r) PROVE DeliveredInv'
  <2>1. held[r] \in Compiles /\ FailPageIfOurs(held[r])
    BY <1>4 DEF GiveUp
  <2>2. UNCHANGED <<uploaded, fingerprint, held>> /\ pc' = [pc EXCEPT ![r] = "archive"]
    BY <1>4 DEF GiveUp
  <2>3. \A c \in Compiles : status'[c] \in {status[c], "exhausted_retries"}
    BY <1>4 DEF GiveUp
  <2>4. \A d \in Deals : progress'[d].is = "done" => progress'[d] = progress[d]
    BY <2>1, PageNotDone
  <2>5. \A q \in Replicas : pc'[q] \in AfterUpload => pc[q] \in AfterUpload /\ held'[q] = held[q]
    BY <2>2
  <2>6. \A c \in Compiles : status'[c] \in {"completed", "skipped_unchanged"} => status'[c] = status[c]
    BY <2>3
  <2> HIDE DEF TypeOK, AfterUpload, WriteStatus
  <2> QED
    BY <2>2, <2>4, <2>5, <2>6, NothingDelivered
<1>5. ASSUME NEW r \in Replicas, ForwardToPoisonQueue(r) \/ SkipDeal(r) \/ PassGuards(r) PROVE DeliveredInv'
  BY <1>5, NothingDelivered DEF ForwardToPoisonQueue, SkipDeal, PassGuards
<1>6. ASSUME NEW r \in Replicas, MarkRunning(r) PROVE DeliveredInv'
  BY <1>6, NothingDelivered DEF MarkRunning
<1>7. ASSUME NEW r \in Replicas, AckSowDraft(r) \/ Ack(r) \/ Settle(r) PROVE DeliveredInv'
  BY <1>7, NothingDelivered DEF AckSowDraft, Ack, Settle
<1>8. ASSUME NEW r \in Replicas, SkipUnchanged(r) PROVE DeliveredInv'
  <2>1. held[r] \in Compiles /\ pc' = [pc EXCEPT ![r] = "skipped"]
        /\ status' = [status EXCEPT ![held[r]] = "skipped_unchanged"]
        /\ UNCHANGED <<uploaded, fingerprint, progress, held>>
    BY <1>8 DEF SkipUnchanged, Attempting
  <2>2. Delivered(held[r])
    <3>1. fingerprint[DealOf[held[r]]] = DocsOf[held[r]] /\ DocsOf[held[r]] # NoOne
      BY <1>8, <2>1 DEF SkipUnchanged, Unchanged
    <3> QED
      BY <2>1, <3>1 DEF DeliveredInv, FingerprintBacked, Delivered, SameInput
  <2>3. \A c \in Compiles : Delivered(c)' <=> Delivered(c)
    BY <2>1 DEF Delivered
  <2>4. DeliveredMeansUploaded'
    BY <2>1, <2>2, <2>3 DEF DeliveredInv, DeliveredMeansUploaded
  <2> QED
    BY <2>1, <2>4 DEF DeliveredInv, HolderUploaded, FingerprintBacked
<1>9. ASSUME NEW r \in Replicas, BeginCompile(r) \/ ManifestFails(r) \/ CompileRaises(r) \/ DeleteFails(r) \/ WatcherFires(r) PROVE DeliveredInv'
  BY <1>9, NothingDelivered DEF BeginCompile, ManifestFails, CompileRaises, DeleteFails, WatcherFires
<1>10. ASSUME NEW r \in Replicas, HandleException(r) PROVE DeliveredInv'
  <2>1. held[r] \in Compiles /\ WritePage(held[r], "failed")
    BY <1>10 DEF HandleException, Attempting
  <2> QED
    BY <1>10, <2>1, NothingDelivered, PageNotDone DEF HandleException
<1>21. ASSUME NEW r \in Replicas, Seed(r) \/ Project(r) \/ Tick(r) PROVE DeliveredInv'
  <2>1. held[r] \in Compiles /\ WritePage(held[r], "running")
    BY <1>21 DEF Seed, Project, Tick, Attempting, Watched
  <2>2. UNCHANGED <<uploaded, fingerprint, held>>
    BY <1>21 DEF Seed, Project, Tick
  <2>3. /\ pc[r] \notin AfterUpload /\ pc'[r] \notin AfterUpload
        /\ \A q \in Replicas \ {r} : pc'[q] = pc[q]
    BY <1>21 DEF Seed, Project, Tick
  <2>4. \A c \in Compiles : status'[c] \in {status[c], "running"}
    BY <1>21 DEF Seed, Project, Tick
  <2>5. \A d \in Deals : progress'[d].is = "done" => progress'[d] = progress[d]
    BY <2>1, PageNotDone
  <2>6. \A q \in Replicas : pc'[q] \in AfterUpload => pc[q] \in AfterUpload /\ held'[q] = held[q]
    BY <2>2, <2>3
  <2>7. \A c \in Compiles : status'[c] \in {"completed", "skipped_unchanged"} => status'[c] = status[c]
    BY <2>4
  <2> HIDE DEF TypeOK, AfterUpload, WriteStatus
  <2> QED
    BY <2>2, <2>5, <2>6, <2>7, NothingDelivered
<1>11. ASSUME NEW r \in Replicas, UploadEnvelope(r) PROVE DeliveredInv'
  BY <1>11 DEF DeliveredInv, HolderUploaded, FingerprintBacked, DeliveredMeansUploaded, Delivered, SameInput, UploadEnvelope
<1>12. ASSUME NEW r \in Replicas, MarkDone(r) PROVE DeliveredInv'
  BY <1>12 DEF DeliveredInv, HolderUploaded, FingerprintBacked, DeliveredMeansUploaded, Delivered, SameInput, MarkDone
<1>13. ASSUME NEW r \in Replicas, WriteFingerprint(r) PROVE DeliveredInv'
  BY <1>13 DEF DeliveredInv, HolderUploaded, FingerprintBacked, DeliveredMeansUploaded, Delivered, SameInput, WriteFingerprint
<1>14. ASSUME NEW r \in Replicas, LeaveCompile(r) \/ RecordCompleted(r) \/ NotifyBriefGen(r) PROVE DeliveredInv'
  <2>1. /\ held[r] \in uploaded \cap Compiles
        /\ UNCHANGED <<uploaded, fingerprint, progress, held>>
        /\ pc[r] \in AfterUpload /\ \A q \in Replicas \ {r} : pc'[q] = pc[q]
    BY <1>14 DEF LeaveCompile, RecordCompleted, NotifyBriefGen, DeliveredInv, HolderUploaded
  <2>2. status' = status \/ status' = [status EXCEPT ![held[r]] = "completed"]
    BY <1>14 DEF LeaveCompile, RecordCompleted, NotifyBriefGen
  <2>3. HolderUploaded' /\ FingerprintBacked'
    BY <2>1 DEF DeliveredInv, HolderUploaded, FingerprintBacked
  <2>4. \A c \in Compiles : Delivered(c)' <=> Delivered(c)
    BY <2>1 DEF Delivered
  <2>5. DeliveredMeansUploaded'
    BY <2>1, <2>2, <2>4 DEF DeliveredInv, DeliveredMeansUploaded
  <2> QED
    BY <2>3, <2>5 DEF DeliveredInv
<1>15. ASSUME NEW r \in Replicas, KillWritesStatus(r) \/ KillDropsMessage(r) \/ KillDropsRequest(r) \/ KillClearsMarker(r) \/ KillExits(r) PROVE DeliveredInv'
  <2>1. UNCHANGED <<uploaded, fingerprint, progress>>
    BY <1>15 DEF KillWritesStatus, KillDropsMessage, KillDropsRequest, KillClearsMarker, KillExits
  <2>2. \A c \in Compiles : status'[c] \in {status[c], "timeout", "out_of_memory", "cancelled"}
    <3>1. CASE KillWritesStatus(r)
      <4>1. PICK k \in killing[r] : status' = [status EXCEPT ![k.of] = KillStage[k.by]]
        BY <3>1 DEF KillWritesStatus
      <4>2. KillStage[k.by] \in {"timeout", "out_of_memory", "cancelled"}
        BY DEF Killers, KillStage
      <4> QED
        BY <4>1, <4>2
    <3>2. CASE ~ KillWritesStatus(r)
      BY <1>15, <3>2 DEF KillDropsMessage, KillDropsRequest, KillClearsMarker, KillExits
    <3> QED
      BY <3>1, <3>2
  <2>3. \A q \in Replicas : pc'[q] = "down" \/ (pc'[q] = pc[q] /\ held'[q] = held[q])
    BY <1>15 DEF KillWritesStatus, KillDropsMessage, KillDropsRequest, KillClearsMarker, KillExits
  <2> QED
    BY <2>1, <2>2, <2>3, NothingDelivered
<1>22. ASSUME NEW r \in Replicas, KillWritesPage(r) PROVE DeliveredInv'
  <2>1. PICK k \in killing[r] : WritePage(k.of, "cancelled") \/ FailPageIfOurs(k.of)
    BY <1>22 DEF KillWritesPage
  <2>2. k.of \in Compiles
    OBVIOUS
  <2>3. \A d \in Deals : progress'[d].is = "done" => progress'[d] = progress[d]
    BY <2>1, <2>2, PageNotDone
  <2> QED
    BY <1>22, <2>3, NothingDelivered DEF KillWritesPage
<1>16. ASSUME NEW r \in Replicas, MarkInterrupted(r) PROVE DeliveredInv'
  <2>1. /\ UNCHANGED <<uploaded, fingerprint>>
        /\ pc' = [pc EXCEPT ![r] = "down"] /\ held' = [held EXCEPT ![r] = NoOne]
    BY <1>16 DEF MarkInterrupted
  <2>2. \A c \in Compiles : status'[c] \in {status[c], "terminated"}
    BY <1>16 DEF MarkInterrupted
  <2>3. progress' = progress \/ \E c \in Compiles : WritePage(c, "interrupted")
    BY <1>16 DEF MarkInterrupted
  <2>4. \A d \in Deals : progress'[d].is = "done" => progress'[d] = progress[d]
    BY <2>3, PageNotDone
  <2> QED
    BY <2>1, <2>2, <2>4, NothingDelivered
<1>17. ASSUME NEW r \in Replicas, Sigkill(r) \/ Sigterm(r) PROVE DeliveredInv'
  BY <1>17, NothingDelivered DEF Sigkill, Sigterm
<1>18. ASSUME NEW m \in Message, Lapse(m) \/ LapseInUse(m) PROVE DeliveredInv'
  BY <1>18, NothingDelivered DEF Lapse, LapseInUse
<1>19. ASSUME NEW d \in Deals, RequestCancel(d) PROVE DeliveredInv'
  BY <1>19, NothingDelivered DEF RequestCancel
<1>20. CASE UNCHANGED vars
  BY <1>20, NothingDelivered DEF vars
<1> HIDE SetsAssumption, JobAssumption
    DEF TypeOK, AfterUpload, WriteStatus
<1> QED
  BY <1>1, <1>2, <1>3, <1>4, <1>5, <1>6, <1>7, <1>8, <1>9, <1>10, <1>11, <1>12, <1>13, <1>14, <1>15,
     <1>16, <1>17, <1>18, <1>19, <1>20, <1>21, <1>22 DEF Next, Work, Trouble, Kill

\* A page says "done", a status "completed", and a run is skipped as unchanged,
\* only when the envelope they speak of was uploaded -- by the compile itself,
\* or by one of the same deal and documents.
THEOREM DeliveredIsUploaded == Spec => []DeliveredMeansUploaded
<1>1. Init => DeliveredInv
  BY DEF Init, DeliveredInv, HolderUploaded, FingerprintBacked, DeliveredMeansUploaded, AfterUpload
<1>2. TypeOK /\ DeliveredInv /\ [Next]_vars => DeliveredInv'
  BY DeliveredStep
<1>3. DeliveredInv => DeliveredMeansUploaded
  BY DEF DeliveredInv
<1> QED
  BY <1>1, <1>2, <1>3, TypeCorrect, PTL DEF Spec
------------------------------------------------------------------------------
\* The poison queue takes what is sent to it.
PoisonWorks == "poison" \notin Faults

\* A compile about to be dropped without results of its own is accounted for.
AccountInv ==
  /\ DroppedIsAccountedFor
  /\ \A r \in Replicas : pc[r] \in {"ack", "skipped"} /\ held[r] \in Compiles => AccountedFor(held[r])

\* What is on account stays there, and a replica comes to drop a message only
\* with its compile accounted for.
AccountStays ==
  /\ archive \subseteq archive' /\ dead \subseteq dead' /\ uploaded \subseteq uploaded'
  /\ \A r \in Replicas : pc'[r] \in {"ack", "skipped"} =>
       /\ held'[r] = held[r]
       /\ pc[r] = pc'[r] \/ held[r] \notin Compiles \/ AccountedFor(held[r])'

\* Every step keeps the account.
LEMMA StepsKeepAccount ==
  ASSUME PoisonWorks, TypeOK, DeliveredInv, [Next]_vars
  PROVE  AccountStays
<1> USE SetsAssumption, JobAssumption DEF PoisonWorks, TypeOK, AccountStays, WriteStatus
<1>1. ASSUME NEW r \in Replicas, Restart(r) \/ RecoverDeadRun(r) \/ RecoveryDone(r) \/ Receive(r) \/ RunSowDraft(r) \/ CannotDecode(r) \/ GiveUp(r) PROVE AccountStays
  BY <1>1 DEF Restart, RecoverDeadRun, RecoveryDone, Receive, Lease, RunSowDraft, CannotDecode, GiveUp
<1>2. ASSUME NEW r \in Replicas, ForwardToPoisonQueue(r) \/ SkipDeal(r) PROVE AccountStays
  BY <1>2 DEF ForwardToPoisonQueue, SkipDeal, AccountedFor
<1>3. ASSUME NEW r \in Replicas, PassGuards(r) \/ MarkRunning(r) \/ AckSowDraft(r) \/ Ack(r) \/ Settle(r) PROVE AccountStays
  BY <1>3 DEF PassGuards, MarkRunning, AckSowDraft, Ack, Settle
<1>4. ASSUME NEW r \in Replicas, SkipUnchanged(r) PROVE AccountStays
  <2>1. held[r] \in Compiles /\ pc' = [pc EXCEPT ![r] = "skipped"] /\ UNCHANGED <<held, archive, uploaded>>
        /\ dead \subseteq dead'
    BY <1>4 DEF SkipUnchanged, Attempting
  <2>2. fingerprint[DealOf[held[r]]] = DocsOf[held[r]] /\ DocsOf[held[r]] # NoOne
    BY <1>4, <2>1 DEF SkipUnchanged, Unchanged
  <2>3. Delivered(held[r])'
    BY <2>1, <2>2 DEF DeliveredInv, FingerprintBacked, Delivered, SameInput
  <2> QED
    BY <2>1, <2>3 DEF AccountedFor
<1>5. ASSUME NEW r \in Replicas, HandleException(r) PROVE AccountStays
  <2>1. UNCHANGED <<held, archive, uploaded>> /\ dead \subseteq dead'
    BY <1>5 DEF HandleException
  <2>2. CASE At(r, "dead")
    <3>1. pc' = [pc EXCEPT ![r] = "ack"] /\ held[r] \in dead'
      BY <1>5, <2>2 DEF HandleException
    <3> QED
      BY <2>1, <3>1 DEF AccountedFor
  <2>3. CASE ~ At(r, "dead")
    <3>1. pc' = [pc EXCEPT ![r] = "poll"]
      BY <1>5, <2>3 DEF HandleException
    <3> QED
      BY <2>1, <3>1
  <2> QED
    BY <2>2, <2>3
<1>6. ASSUME NEW r \in Replicas, BeginCompile(r) \/ Seed(r) \/ Project(r) \/ Tick(r) \/ UploadEnvelope(r) \/ MarkDone(r) \/ WriteFingerprint(r) PROVE AccountStays
  BY <1>6 DEF BeginCompile, Seed, Project, Tick, UploadEnvelope, MarkDone, WriteFingerprint
<1>7. ASSUME NEW r \in Replicas, LeaveCompile(r) \/ RecordCompleted(r) \/ NotifyBriefGen(r) \/ MarkInterrupted(r) PROVE AccountStays
  BY <1>7 DEF LeaveCompile, RecordCompleted, NotifyBriefGen, MarkInterrupted
<1>8. ASSUME NEW r \in Replicas, Trouble(r) PROVE AccountStays
  BY <1>8 DEF Trouble, ManifestFails, CompileRaises, DeleteFails, WatcherFires, Sigkill, Sigterm
<1>9. ASSUME NEW r \in Replicas, Kill(r) PROVE AccountStays
  <2>1. UNCHANGED <<archive, uploaded>> /\ dead \subseteq dead'
    BY <1>9 DEF Kill, KillWritesStatus, KillWritesPage, KillDropsMessage, KillDropsRequest, KillClearsMarker, KillExits
  <2>2. \A q \in Replicas : pc'[q] = "down" \/ (pc'[q] = pc[q] /\ held'[q] = held[q])
    BY <1>9 DEF Kill, KillWritesStatus, KillWritesPage, KillDropsMessage, KillDropsRequest, KillClearsMarker, KillExits
  <2> QED
    BY <2>1, <2>2
<1>10. ASSUME NEW m \in Message, Lapse(m) \/ LapseInUse(m) PROVE AccountStays
  BY <1>10 DEF Lapse, LapseInUse
<1>11. ASSUME NEW d \in Deals, RequestCancel(d) PROVE AccountStays
  BY <1>11 DEF RequestCancel
<1>12. CASE UNCHANGED vars
  BY <1>12 DEF vars
<1> HIDE SetsAssumption, JobAssumption DEF PoisonWorks, TypeOK, AccountStays, WriteStatus
<1> QED
  BY <1>1, <1>2, <1>3, <1>4, <1>5, <1>6, <1>7, <1>8, <1>9, <1>10, <1>11, <1>12 DEF Next, Work

\* Every step keeps what is dropped accounted for: a message goes from where its
\* compile is, or through a canceller that has recorded the cancellation.
LEMMA AccountStep ==
  ASSUME PoisonWorks, TypeOK, RecordInv, DeliveredInv, AccountInv, [Next]_vars
  PROVE  AccountInv'
<1>1. AccountStays /\ RecordsStay
  BY StepsKeepAccount, StepsKeepRecords
<1>2. \A c \in Compiles : AccountedFor(c) => AccountedFor(c)'
  BY <1>1 DEF AccountStays, RecordsStay, AccountedFor, Delivered
<1>3. ASSUME NEW c \in Compiles, c \in queue, c \notin queue' PROVE AccountedFor(c)
  <2>1. CASE \E r \in Replicas : pc[r] \in Deleting /\ held[r] = c
    <3>1. PICK r \in Replicas : pc[r] \in Deleting /\ held[r] = c
      BY <2>1
    <3>2. pc[r] # "sow_done"
      BY <3>1, SetsAssumption DEF RecordInv, ClosingIsRecorded
    <3>3. pc[r] = "notified" => c \in uploaded
      BY <3>1 DEF DeliveredInv, HolderUploaded, AfterUpload
    <3> QED
      BY <3>1, <3>2, <3>3 DEF Deleting, AccountInv, AccountedFor, Delivered, SameInput
  <2>2. CASE \E r \in Replicas : \E k \in killing[r] : k.at = "message" /\ k.of = c
    BY <2>2, DroppedByCanceller DEF AccountedFor
  <2> QED
    BY <1>1, <1>3, <2>1, <2>2 DEF RecordsStay, Message
<1>4. DroppedIsAccountedFor'
  BY <1>2, <1>3 DEF AccountInv, DroppedIsAccountedFor, AccountedFor, Gone
<1>5. ASSUME NEW r \in Replicas, pc'[r] \in {"ack", "skipped"}, held'[r] \in Compiles
      PROVE  AccountedFor(held[r])'
  <2>1. held'[r] = held[r] /\ (pc[r] = pc'[r] \/ AccountedFor(held[r])')
    BY <1>1, <1>5 DEF AccountStays
  <2>2. pc[r] = pc'[r] => AccountedFor(held[r])
    BY <1>5, <2>1 DEF AccountInv
  <2> QED
    BY <1>2, <1>5, <2>1, <2>2 DEF AccountedFor, Delivered
<1> QED
  BY <1>4, <1>5 DEF AccountInv

\* No compile's message is dropped in silence, whatever is killed, lapses or fails,
\* as long as the poison queue takes what is sent to it: its results are up, or
\* those of the same documents, or it is in the poison queue, cancelled, or of a
\* deal that is dead or skipped.
THEOREM DropsAreAccountedFor ==
  ASSUME PoisonWorks
  PROVE  Spec => []DroppedIsAccountedFor
<1>1. Init => DeliveredInv
  BY DEF Init, DeliveredInv, HolderUploaded, FingerprintBacked, DeliveredMeansUploaded, AfterUpload
<1>2. TypeOK /\ DeliveredInv /\ [Next]_vars => DeliveredInv'
  BY DeliveredStep
<1>3. TypeOK /\ RecordInv /\ [Next]_vars => RecordInv'
  BY RecordStep
<1>4. Init => AccountInv
  BY DEF Init, AccountInv, DroppedIsAccountedFor, Gone, Message
<1>5. TypeOK /\ RecordInv /\ DeliveredInv /\ AccountInv /\ [Next]_vars => AccountInv'
  BY AccountStep
<1>6. AccountInv => DroppedIsAccountedFor
  BY DEF AccountInv
<1> QED
  BY <1>1, <1>2, <1>3, <1>4, <1>5, <1>6, RecordInit, TypeCorrect, PTL DEF Spec
==============================================================================
