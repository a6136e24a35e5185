------------------------- MODULE CompileWorkerProofs -------------------------
(***************************************************************************)
(* What holds of CompileWorker for any number of replicas, messages and    *)
(* faults, whatever lapses, is lost or is killed.                          *)
(***************************************************************************)
EXTENDS CompileWorker, FiniteSetTheorems, TLAPS

USE DEF queueVars, recordVars, artifactVars, mainVars, processVars, Goto, At, Fault, WritePage,
        MarkActive, ClearActive, DeleteHeld, ForgetInflight, ForgetThreads, Exit

\* The values the actions write are stages and page states.
LEMMA StageFacts ==
  /\ Hopeless \subseteq Stage /\ Terminal \subseteq Stage
  /\ {"running", "cancelled", "killed", "timeout", "out_of_memory", "exhausted_retries", "exception",
      "dead_deal", "terminated", "completed", "skipped_unchanged"} \subseteq Stage
  /\ {"running", "done", "failed", "interrupted", "cancelled"} \subseteq PageState
  /\ NoMarker \in [replica : Replicas \cup {NoOne}, boot : Nat]
  BY DEF Stage, Terminal, Hopeless, PageState, NoMarker

\* Writing a status, or failing a page, keeps their types.
LEMMA WriteStatusType ==
  ASSUME TypeOK, NEW c \in Compiles, NEW stage \in Stage, WriteStatus(c, stage)
  PROVE  /\ status' \in [Compiles -> Stage]
         /\ runIndex' \in SUBSET Compiles
         /\ doomed' \in SUBSET Compiles
         /\ dead' \in SUBSET Compiles
         /\ skipped' \in SUBSET Compiles
  BY DEF TypeOK, WriteStatus

\* Failing the page of a compile keeps the pages well typed.
LEMMA FailPageType ==
  ASSUME TypeOK, NEW c \in Compiles, FailPageIfOurs(c)
  PROVE  progress' \in [Deals -> [of : Compiles \cup {NoOne}, is : PageState]]
<1>1. WritePage(c, "failed") => progress' \in [Deals -> [of : Compiles \cup {NoOne}, is : PageState]]
  BY StageFacts, JobAssumption DEF TypeOK
<1> QED
  BY <1>1 DEF FailPageIfOurs, TypeOK

\* Writing a page of a compile keeps the pages well typed.
LEMMA WritePageType ==
  ASSUME TypeOK, NEW c \in Compiles, NEW says \in PageState, WritePage(c, says)
  PROVE  progress' \in [Deals -> [of : Compiles \cup {NoOne}, is : PageState]]
  BY JobAssumption DEF TypeOK

\* A thread that is not about to exit has a next step, and only the canceller
\* comes to the message.
LEMMA KillOrderFacts ==
  ASSUME NEW by \in Killers, NEW step \in DOMAIN KillOrder[by]
  PROVE  /\ KillOrder[by][step] \in KillStep
         /\ KillOrder[by][step] = "exit" \/ KillOrder[by][step] \in DOMAIN KillOrder[by]
         /\ step = "message" => by = "canceller"
<1>1. CASE by = "watchdog"
  <2>1. KillOrder[by] = [status |-> "page", page |-> "marker", marker |-> "exit"]
    BY <1>1 DEF KillOrder
  <2> QED
    BY <1>1, <2>1 DEF KillStep
<1>2. CASE by = "guard"
  <2>1. KillOrder[by] = [page |-> "status", status |-> "marker", marker |-> "exit"]
    BY <1>2 DEF KillOrder
  <2> QED
    BY <1>2, <2>1 DEF KillStep
<1>3. CASE by = "canceller"
  <2>1. KillOrder[by] = [status |-> "page", page |-> "message", message |-> "request",
                         request |-> "marker", marker |-> "exit"]
    BY <1>3 DEF KillOrder
  <2> QED
    BY <1>3, <2>1 DEF KillStep
<1> QED
  BY <1>1, <1>2, <1>3 DEF Killers

\* A thread that ends a process goes from step to step of its own.
LEMMA TakesType ==
  ASSUME TypeOK, NEW r \in Replicas, NEW k \in killing[r], NEW step, step # "exit", Takes(r, k, step)
  PROVE  /\ k.of \in Compiles /\ k.by \in Killers /\ pc[r] # "down"
         /\ killing' \in [Replicas -> SUBSET [by : Killers, of : Compiles, receive : Nat, at : KillStep]]
         /\ \A q \in Replicas : pc[q] = "down" => killing'[q] = {}
         /\ \A q \in Replicas : \A j \in killing'[q] : j.at = "exit" \/ j.at \in DOMAIN KillOrder[j.by]
<1>1. k \in [by : Killers, of : Compiles, receive : Nat, at : KillStep] /\ k.at = step
  BY DEF TypeOK, Takes
<1>2. step \in DOMAIN KillOrder[k.by]
  BY <1>1 DEF TypeOK
<1>3. DEFINE next == [k EXCEPT !.at = KillOrder[k.by][step]]
<1>4. next.by = k.by /\ next.of = k.of /\ next.receive = k.receive /\ next.at = KillOrder[k.by][step]
      /\ (KillOrder[k.by][step] \in KillStep => next \in [by : Killers, of : Compiles, receive : Nat, at : KillStep])
  BY <1>1
<1>5. killing' = [killing EXCEPT ![r] = (@ \ {k}) \cup {next}]
  BY DEF Takes
<1> HIDE DEF next
<1>6. /\ \A q \in Replicas : q # r => killing'[q] = killing[q]
      /\ killing'[r] = (killing[r] \ {k}) \cup {next}
      /\ killing' = [q \in Replicas |-> killing'[q]]
  BY <1>5 DEF TypeOK
<1>7. /\ next \in [by : Killers, of : Compiles, receive : Nat, at : KillStep]
      /\ next.at = "exit" \/ next.at \in DOMAIN KillOrder[next.by]
  BY <1>1, <1>2, <1>4, KillOrderFacts
<1>8. pc[r] # "down"
  BY DEF TypeOK
<1> QED
  BY <1>1, <1>6, <1>7, <1>8 DEF TypeOK

\* The initial state is well typed.
LEMMA InitTypeOK == Init => TypeOK
  BY SetsAssumption DEF Init, TypeOK, Message, Stage, PageState, NoMarker, Place, Busy, Attempting, Watched

\* Every step keeps the types.
LEMMA TypeStep == TypeOK /\ [Next]_vars => TypeOK'
<1> SUFFICES ASSUME TypeOK, [Next]_vars PROVE TypeOK'
  OBVIOUS
<1> USE SetsAssumption, JobAssumption, StageFacts, WriteStatusType DEF TypeOK, Place, Busy, Attempting, Watched
<1>1. ASSUME NEW r \in Replicas, Restart(r) PROVE TypeOK'
  BY <1>1 DEF Restart
<1>2. ASSUME NEW r \in Replicas, RecoverDeadRun(r) PROVE TypeOK'
  <2>1. PICK c \in Compiles :
          /\ listed' = [listed EXCEPT ![r] = @ \ {c}]
          /\ \/ FailPageIfOurs(c) /\ WriteStatus(c, "killed") /\ ClearActive(c)
             \/ UNCHANGED <<recordVars, progress, marker>>
    BY <1>2 DEF RecoverDeadRun
  <2>2. CASE FailPageIfOurs(c) /\ WriteStatus(c, "killed") /\ ClearActive(c)
    BY <1>2, <2>1, <2>2, FailPageType DEF RecoverDeadRun
  <2>3. CASE UNCHANGED <<recordVars, progress, marker>>
    BY <1>2, <2>1, <2>3 DEF RecoverDeadRun
  <2> QED
    BY <2>1, <2>2, <2>3
<1>3. ASSUME NEW r \in Replicas, RecoveryDone(r) PROVE TypeOK'
  <2>1. faults' \in Nat /\ (listed' = listed \/ listed' = [listed EXCEPT ![r] = {}])
    BY <1>3 DEF RecoveryDone
  <2> QED
    BY <1>3, <2>1 DEF RecoveryDone
<1>4. ASSUME NEW r \in Replicas, Receive(r) PROVE TypeOK'
  BY <1>4 DEF Receive, Lease, Visible
<1>5. ASSUME NEW r \in Replicas, RunSowDraft(r) PROVE TypeOK'
  <2>1. CASE Goto(r, "sow_done")
    BY <1>5, <2>1 DEF RunSowDraft
  <2>2. CASE Goto(r, "poll")
    BY <1>5, <2>2 DEF RunSowDraft
  <2> QED
    BY <1>5, <2>1, <2>2 DEF RunSowDraft
<1>6. ASSUME NEW r \in Replicas, AckSowDraft(r) PROVE TypeOK'
  BY <1>6 DEF AckSowDraft
<1>7. ASSUME NEW r \in Replicas, CannotDecode(r) PROVE TypeOK'
  BY <1>7 DEF CannotDecode
<1>8. ASSUME NEW r \in Replicas, GiveUp(r) PROVE TypeOK'
  <2>1. held[r] \in Compiles /\ FailPageIfOurs(held[r]) /\ pc[r] = "dispatch"
    BY <1>8 DEF GiveUp
  <2>2. PICK stage \in Stage : WriteStatus(held[r], stage)
    BY <1>8 DEF GiveUp
  <2> QED
    BY <1>8, <2>1, <2>2, FailPageType DEF GiveUp
<1>9. ASSUME NEW r \in Replicas, ForwardToPoisonQueue(r) PROVE TypeOK'
  BY <1>9 DEF ForwardToPoisonQueue
<1>10. ASSUME NEW r \in Replicas, SkipDeal(r) PROVE TypeOK'
  BY <1>10 DEF SkipDeal
<1>11. ASSUME NEW r \in Replicas, PassGuards(r) PROVE TypeOK'
  BY <1>11 DEF PassGuards
<1>12. ASSUME NEW r \in Replicas, Ack(r) PROVE TypeOK'
  BY <1>12 DEF Ack
<1>13. ASSUME NEW r \in Replicas, MarkRunning(r) PROVE TypeOK'
  BY <1>13 DEF MarkRunning
<1>14. ASSUME NEW r \in Replicas, SkipUnchanged(r) PROVE TypeOK'
  BY <1>14 DEF SkipUnchanged
<1>15. ASSUME NEW r \in Replicas, BeginCompile(r) PROVE TypeOK'
  BY <1>15 DEF BeginCompile
<1>16. ASSUME NEW r \in Replicas, HandleException(r) PROVE TypeOK'
  BY <1>16 DEF HandleException
<1>17. ASSUME NEW r \in Replicas, Seed(r) PROVE TypeOK'
  BY <1>17 DEF Seed
<1>18. ASSUME NEW r \in Replicas, Project(r) PROVE TypeOK'
  BY <1>18 DEF Project
<1>19. ASSUME NEW r \in Replicas, UploadEnvelope(r) PROVE TypeOK'
  BY <1>19 DEF UploadEnvelope
<1>20. ASSUME NEW r \in Replicas, MarkDone(r) PROVE TypeOK'
  BY <1>20 DEF MarkDone
<1>21. ASSUME NEW r \in Replicas, WriteFingerprint(r) PROVE TypeOK'
  BY <1>21 DEF WriteFingerprint
<1>22. ASSUME NEW r \in Replicas, LeaveCompile(r) PROVE TypeOK'
  BY <1>22 DEF LeaveCompile
<1>23. ASSUME NEW r \in Replicas, RecordCompleted(r) PROVE TypeOK'
  BY <1>23 DEF RecordCompleted
<1>24. ASSUME NEW r \in Replicas, NotifyBriefGen(r) PROVE TypeOK'
  BY <1>24 DEF NotifyBriefGen
<1>25. ASSUME NEW r \in Replicas, Settle(r) PROVE TypeOK'
  BY <1>25 DEF Settle
<1>26. ASSUME NEW r \in Replicas, KillWritesStatus(r) \/ KillWritesPage(r) PROVE TypeOK'
  <2>1. CASE KillWritesStatus(r)
    <3>1. PICK k \in killing[r] : /\ Takes(r, k, "status") /\ WriteStatus(k.of, KillStage[k.by])
                                  /\ cancelled' \in {cancelled, cancelled \cup {k.of}}
      BY <2>1 DEF KillWritesStatus
    <3>2. k.of \in Compiles /\ KillStage[k.by] \in Stage
      BY <3>1, TakesType DEF Killers, KillStage
    <3> QED
      BY <2>1, <3>1, <3>2, TakesType DEF KillWritesStatus
  <2>2. CASE KillWritesPage(r)
    <3>1. PICK k \in killing[r] : /\ Takes(r, k, "page")
                                  /\ WritePage(k.of, "cancelled") \/ FailPageIfOurs(k.of)
      BY <2>2 DEF KillWritesPage
    <3>2. k.of \in Compiles
      BY <3>1, TakesType
    <3>3. progress' \in [Deals -> [of : Compiles \cup {NoOne}, is : PageState]]
      BY <3>1, <3>2, FailPageType, WritePageType DEF PageState
    <3> QED
      BY <2>2, <3>1, <3>3, TakesType DEF KillWritesPage
  <2> QED
    BY <1>26, <2>1, <2>2
<1>27. ASSUME NEW r \in Replicas, KillDropsMessage(r) \/ KillDropsRequest(r) \/ KillClearsMarker(r) PROVE TypeOK'
  <2>1. CASE KillDropsMessage(r)
    <3>1. PICK k \in killing[r] : Takes(r, k, "message")
      BY <2>1 DEF KillDropsMessage
    <3>2. queue' \subseteq queue /\ hidden' \subseteq hidden /\ faults' \in Nat
      BY <2>1 DEF KillDropsMessage
    <3> QED
      BY <2>1, <3>1, <3>2, TakesType DEF KillDropsMessage
  <2>2. CASE KillDropsRequest(r)
    BY <2>2, TakesType DEF KillDropsRequest
  <2>3. CASE KillClearsMarker(r)
    BY <2>3, TakesType DEF KillClearsMarker
  <2> QED
    BY <1>27, <2>1, <2>2, <2>3
<1>39. ASSUME NEW r \in Replicas, KillExits(r) PROVE TypeOK'
  BY <1>39 DEF KillExits
<1>28. ASSUME NEW r \in Replicas, MarkInterrupted(r) PROVE TypeOK'
  <2>1. CASE job[r] = NoOne
    BY <1>28, <2>1 DEF MarkInterrupted
  <2>2. CASE job[r] # NoOne
    <3>1. job[r] \in Compiles /\ WriteStatus(job[r], "terminated")
      BY <1>28, <2>2 DEF MarkInterrupted
    <3>2. ClearActive(job[r]) /\ WritePage(job[r], "interrupted") /\ Exit(r)
          /\ UNCHANGED <<queueVars, artifactVars, request, starts, cancelled, faults>>
      BY <1>28, <2>2 DEF MarkInterrupted
    <3> QED
      BY <3>1, <3>2
  <2> QED
    BY <2>1, <2>2
<1>29. ASSUME NEW r \in Replicas, ManifestFails(r) PROVE TypeOK'
  <2>1. CASE Goto(r, "failed")
    BY <1>29, <2>1 DEF ManifestFails
  <2>2. CASE Goto(r, "dead")
    BY <1>29, <2>2 DEF ManifestFails
  <2> QED
    BY <1>29, <2>1, <2>2 DEF ManifestFails
<1>30. ASSUME NEW r \in Replicas, CompileRaises(r) PROVE TypeOK'
  <2>1. CASE Goto(r, "failed")
    BY <1>30, <2>1 DEF CompileRaises
  <2>2. CASE Goto(r, "dead")
    BY <1>30, <2>2 DEF CompileRaises
  <2> QED
    BY <1>30, <2>1, <2>2 DEF CompileRaises
<1>31. ASSUME NEW r \in Replicas, DeleteFails(r) PROVE TypeOK'
  <2>1. CASE pc[r] \in {"notified", "skipped"} /\ Goto(r, "failed")
    BY <1>31, <2>1 DEF DeleteFails
  <2>2. CASE pc[r] \in {"ack", "sow_done"} /\ Goto(r, "poll")
    BY <1>31, <2>2 DEF DeleteFails
  <2> QED
    BY <1>31, <2>1, <2>2 DEF DeleteFails
<1>32. ASSUME NEW r \in Replicas, WatcherFires(r) PROVE TypeOK'
  <2>1. /\ pc[r] \in Watched /\ faults' \in Nat
        /\ UNCHANGED <<queueVars, recordVars, progress, marker, artifactVars, request, mainVars, pc, starts, cancelled>>
    BY <1>32 DEF WatcherFires
  <2>2. PICK by \in Killers :
          killing' = [killing EXCEPT ![r] = @ \cup
            {[by |-> by, of |-> held[r], receive |-> seen[r], at |-> KillBegins[by]]}]
    BY <1>32 DEF WatcherFires, Killers
  <2>3. DEFINE k == [by |-> by, of |-> held[r], receive |-> seen[r], at |-> KillBegins[by]]
  <2>4. /\ k \in [by : Killers, of : Compiles, receive : Nat, at : KillStep]
        /\ k.at \in DOMAIN KillOrder[k.by]
    BY <2>1 DEF Killers, KillBegins, KillStep, KillOrder
  <2>5. killing' = [killing EXCEPT ![r] = @ \cup {k}]
    BY <2>2
  <2> HIDE DEF k
  <2>6. \A q \in Replicas : killing'[q] = IF q = r THEN killing[r] \cup {k} ELSE killing[q]
    BY <2>5
  <2> QED
    BY <2>1, <2>4, <2>5, <2>6
<1>33. ASSUME NEW r \in Replicas, Sigkill(r) PROVE TypeOK'
  BY <1>33 DEF Sigkill
<1>34. ASSUME NEW r \in Replicas, Sigterm(r) PROVE TypeOK'
  <2>1. CASE held[r] = NoOne
    <3>1. Exit(r) /\ UNCHANGED <<queueVars, recordVars, progress, marker, artifactVars, request, starts, cancelled>>
      BY <1>34, <2>1 DEF Sigterm
    <3>2. faults' \in Nat
      BY <1>34 DEF Sigterm
    <3> QED
      BY <3>1, <3>2
  <2>2. CASE held[r] # NoOne
    <3>1. /\ pc[r] # "down" /\ pc' = [pc EXCEPT ![r] = "releasing"] /\ hidden' \subseteq hidden /\ faults' \in Nat
          /\ UNCHANGED <<queue, lessee, dequeued, archive, recordVars, progress, marker, artifactVars, request,
                         processVars, starts, cancelled>>
      BY <1>34, <2>2 DEF Sigterm
    <3> QED
      BY <3>1
  <2> QED
    BY <2>1, <2>2
<1>35. ASSUME NEW r \in Replicas, Tick(r) PROVE TypeOK'
  BY <1>35 DEF Tick
<1>36. ASSUME NEW m \in Message, Lapse(m) \/ LapseInUse(m) PROVE TypeOK'
  BY <1>36 DEF Lapse, LapseInUse
<1>37. ASSUME NEW d \in Deals, RequestCancel(d) PROVE TypeOK'
  BY <1>37 DEF RequestCancel
<1>38. CASE UNCHANGED vars
  BY <1>38 DEF vars
<1> QED
  BY <1>1, <1>2, <1>3, <1>4, <1>5, <1>6, <1>7, <1>8, <1>9, <1>10, <1>11, <1>12, <1>13, <1>14, <1>15, <1>16, <1>17, <1>18, <1>19,
     <1>20, <1>21, <1>22, <1>23, <1>24, <1>25, <1>26, <1>27, <1>28, <1>29, <1>30, <1>31, <1>32, <1>33, <1>34, <1>35, <1>36,
     <1>37, <1>38, <1>39
     DEF Next, Work, Trouble, Kill

\* CompileWorker is well typed: whatever happens, the loop's variables, blobs and
\* queues hold values of their kinds, and a process at work holds a message.
THEOREM TypeCorrect == Spec => []TypeOK
<1>1. TypeOK /\ [Next]_vars => TypeOK'
  BY TypeStep
<1> QED
  BY <1>1, InitTypeOK, PTL DEF Spec
------------------------------------------------------------------------------
\* The deliveries of c that may still become an attempt: each receive brings one,
\* with a dequeue_count of its own, and MarkRunning uses one up.
Pending(c) ==
  {r \in Replicas : pc[r] \in {"dispatch", "start"} /\ held[r] = c /\ seen[r] <= MaxDequeue}

BudgetInv ==
  /\ \A r \in Replicas : pc[r] = "start" => seen[r] <= MaxDequeue
  /\ \A c \in Compiles : /\ starts[c] + Cardinality(Pending(c)) <= dequeued[c]
                          /\ starts[c] + Cardinality(Pending(c)) <= MaxDequeue

\* Any other step makes no delivery and no attempt, and keeps what a replica at
\* the guards holds.
Onward ==
  /\ UNCHANGED <<starts, dequeued>>
  /\ \A q \in Replicas :
       pc'[q] \in {"dispatch", "start"} =>
         /\ pc[q] \in {"dispatch", "start"} /\ held'[q] = held[q] /\ seen'[q] = seen[q]
         /\ pc'[q] = "start" => pc[q] = "start" \/ seen[q] <= MaxDequeue

\* Whatever step is neither a receive nor a start goes onward.
LEMMA OtherStepsGoOnward ==
  ASSUME TypeOK, [Next]_vars, \A r \in Replicas : ~ Receive(r) /\ ~ MarkRunning(r)
  PROVE  Onward
<1> USE BoundsAssumption DEF TypeOK, Onward
<1>1. ASSUME NEW r \in Replicas, Restart(r) \/ RecoverDeadRun(r) \/ RecoveryDone(r) PROVE Onward
  BY <1>1 DEF Restart, RecoverDeadRun, RecoveryDone
<1>2. ASSUME NEW r \in Replicas, RunSowDraft(r) \/ AckSowDraft(r) \/ CannotDecode(r) \/ GiveUp(r) PROVE Onward
  BY <1>2 DEF RunSowDraft, AckSowDraft, CannotDecode, GiveUp
<1>3. ASSUME NEW r \in Replicas, ForwardToPoisonQueue(r) \/ SkipDeal(r) \/ Ack(r) PROVE Onward
  BY <1>3 DEF ForwardToPoisonQueue, SkipDeal, Ack
<1>4. ASSUME NEW r \in Replicas, PassGuards(r) PROVE Onward
  BY <1>4 DEF PassGuards, Exhausted
<1>5. ASSUME NEW r \in Replicas, SkipUnchanged(r) \/ BeginCompile(r) \/ HandleException(r) \/ Seed(r) PROVE Onward
  BY <1>5 DEF SkipUnchanged, BeginCompile, HandleException, Seed
<1>6. ASSUME NEW r \in Replicas, Project(r) \/ UploadEnvelope(r) \/ MarkDone(r) \/ WriteFingerprint(r) \/ LeaveCompile(r) PROVE Onward
  BY <1>6 DEF Project, UploadEnvelope, MarkDone, WriteFingerprint, LeaveCompile
<1>7. ASSUME NEW r \in Replicas, RecordCompleted(r) \/ NotifyBriefGen(r) \/ Settle(r) PROVE Onward
  BY <1>7 DEF RecordCompleted, NotifyBriefGen, Settle
<1>8. ASSUME NEW r \in Replicas, MarkInterrupted(r) \/ Tick(r) PROVE Onward
  BY <1>8 DEF MarkInterrupted, Tick
<1>9. ASSUME NEW r \in Replicas, Trouble(r) PROVE Onward
  BY <1>9 DEF Trouble, ManifestFails, CompileRaises, DeleteFails, WatcherFires, Sigkill, Sigterm
<1>13. ASSUME NEW r \in Replicas, Kill(r) PROVE Onward
  BY <1>13 DEF Kill, KillWritesStatus, KillWritesPage, KillDropsMessage, KillDropsRequest, KillClearsMarker, KillExits
<1>10. ASSUME NEW m \in Message, Lapse(m) \/ LapseInUse(m) PROVE Onward
  BY <1>10 DEF Lapse, LapseInUse
<1>11. ASSUME NEW d \in Deals, RequestCancel(d) PROVE Onward
  BY <1>11 DEF RequestCancel
<1>12. CASE UNCHANGED vars
  BY <1>12 DEF vars
<1> QED
  BY <1>1, <1>2, <1>3, <1>4, <1>5, <1>6, <1>7, <1>8, <1>9, <1>10, <1>11, <1>12, <1>13 DEF Next, Work

\* Any set of replicas has a size, and taking one out or putting one in changes
\* it by one.
LEMMA ReplicaCounts ==
  ASSUME NEW S, S \subseteq Replicas
  PROVE  /\ IsFiniteSet(S) /\ Cardinality(S) \in Nat
         /\ \A T : T \subseteq S => Cardinality(T) <= Cardinality(S)
         /\ \A x \in S : Cardinality(S \ {x}) = Cardinality(S) - 1
         /\ \A x : Cardinality(S \cup {x}) <= Cardinality(S) + 1
<1>1. IsFiniteSet(S) /\ Cardinality(S) \in Nat
  BY SetsAssumption, FS_Subset, FS_CardinalityType
<1>2. \A T : T \subseteq S => Cardinality(T) <= Cardinality(S)
  BY <1>1, FS_Subset
<1>3. \A x \in S : Cardinality(S \ {x}) = Cardinality(S) - 1
  BY <1>1, FS_RemoveElement
<1>4. \A x : Cardinality(S \cup {x}) <= Cardinality(S) + 1
  BY <1>1, FS_AddElement
<1> QED
  BY <1>1, <1>2, <1>3, <1>4

\* Every step keeps the budget of deliveries and attempts.
LEMMA BudgetStep == TypeOK /\ BudgetInv /\ [Next]_vars => BudgetInv'
<1> SUFFICES ASSUME TypeOK, BudgetInv, [Next]_vars PROVE BudgetInv'
  OBVIOUS
<1>1. \A c \in Compiles : Pending(c) \subseteq Replicas /\ Pending(c)' \subseteq Replicas
  BY DEF Pending
<1>2. ASSUME NEW r \in Replicas, Receive(r) PROVE BudgetInv'
  <2>1. PICK m \in Message : /\ dequeued' = [dequeued EXCEPT ![m] = @ + 1]
                            /\ held' = [held EXCEPT ![r] = m]
                            /\ seen' = [seen EXCEPT ![r] = dequeued[m] + 1]
                            /\ pc' = [pc EXCEPT ![r] = "dispatch"]
                            /\ pc[r] = "poll" /\ UNCHANGED starts
    BY <1>2 DEF Receive, Lease, Visible, TypeOK
  <2>2. \A q \in Replicas : pc'[q] = "start" => seen'[q] <= MaxDequeue
    BY <2>1 DEF BudgetInv, TypeOK
  <2>3. ASSUME NEW c \in Compiles
        PROVE  /\ starts'[c] + Cardinality(Pending(c)') <= dequeued'[c]
               /\ starts'[c] + Cardinality(Pending(c)') <= MaxDequeue
    <3>1. starts'[c] = starts[c] /\ starts[c] \in Nat /\ dequeued[c] \in Nat /\ dequeued'[c] \in Nat
          /\ dequeued[c] <= dequeued'[c]
      BY <2>1 DEF TypeOK, Message
    <3>2. /\ Cardinality(Pending(c)) \in Nat /\ Cardinality(Pending(c)') \in Nat
          /\ \A T : T \subseteq Pending(c) => Cardinality(T) <= Cardinality(Pending(c))
          /\ \A x : Cardinality(Pending(c) \cup {x}) <= Cardinality(Pending(c)) + 1
      BY <1>1, ReplicaCounts
    <3>3. CASE c = m /\ dequeued[m] + 1 <= MaxDequeue
      \* one delivery more, and one receive more
      <4>1. Pending(c)' = Pending(c) \cup {r}
        BY <2>1, <3>3 DEF Pending, TypeOK
      <4>2. Cardinality(Pending(c)') <= Cardinality(Pending(c)) + 1
        BY <3>2, <4>1
      <4>3. dequeued'[c] = dequeued[c] + 1
        BY <2>1, <3>3 DEF TypeOK
      <4> QED
        BY <3>1, <3>2, <3>3, <4>2, <4>3, BoundsAssumption DEF BudgetInv
    <3>4. CASE ~ (c = m /\ dequeued[m] + 1 <= MaxDequeue)
      <4>1. Pending(c)' \subseteq Pending(c)
        BY <2>1, <3>4 DEF Pending, TypeOK
      <4>2. Cardinality(Pending(c)') <= Cardinality(Pending(c))
        BY <3>2, <4>1
      <4> QED
        BY <3>1, <3>2, <4>2, BoundsAssumption DEF BudgetInv
    <3> QED
      BY <3>3, <3>4
  <2> QED
    BY <2>2, <2>3 DEF BudgetInv
<1>3. ASSUME NEW r \in Replicas, MarkRunning(r) PROVE BudgetInv'
  <2>1. /\ pc[r] = "start" /\ held[r] \in Compiles /\ seen[r] <= MaxDequeue
        /\ pc' = [pc EXCEPT ![r] = "manifest"]
        /\ starts' = [starts EXCEPT ![held[r]] = @ + 1]
        /\ UNCHANGED <<held, seen, dequeued>>
    BY <1>3 DEF MarkRunning, BudgetInv, TypeOK
  <2>2. \A q \in Replicas : pc'[q] = "start" => seen'[q] <= MaxDequeue
    BY <2>1 DEF BudgetInv, TypeOK
  <2>3. ASSUME NEW c \in Compiles
        PROVE  starts'[c] + Cardinality(Pending(c)') <= starts[c] + Cardinality(Pending(c))
               /\ starts'[c] + Cardinality(Pending(c)') \in Nat
    <3>1. starts[c] \in Nat /\ Cardinality(Pending(c)) \in Nat /\ Cardinality(Pending(c)') \in Nat
      BY <1>1, ReplicaCounts DEF TypeOK
    <3>2. CASE c = held[r]
      <4>1. r \in Pending(c) /\ Pending(c)' = Pending(c) \ {r}
        BY <2>1, <3>2 DEF Pending, TypeOK
      <4>2. Cardinality(Pending(c)') = Cardinality(Pending(c)) - 1
        BY <1>1, <4>1, ReplicaCounts
      <4>3. starts'[c] = starts[c] + 1
        BY <2>1, <3>2 DEF TypeOK
      <4> QED
        BY <3>1, <4>2, <4>3
    <3>3. CASE c # held[r]
      <4>1. Pending(c)' = Pending(c)
        BY <2>1, <3>3 DEF Pending, TypeOK
      <4>2. starts'[c] = starts[c]
        BY <2>1, <3>3 DEF TypeOK
      <4> QED
        BY <3>1, <4>1, <4>2
    <3> QED
      BY <3>2, <3>3
  <2>4. \A c \in Compiles : /\ dequeued'[c] = dequeued[c] /\ dequeued[c] \in Nat
                            /\ starts[c] + Cardinality(Pending(c)) \in Nat
    <3>1. \A c \in Compiles : dequeued'[c] = dequeued[c] /\ dequeued[c] \in Nat /\ starts[c] \in Nat
      BY <2>1 DEF TypeOK, Message
    <3>2. \A c \in Compiles : Cardinality(Pending(c)) \in Nat
      BY <1>1, ReplicaCounts
    <3> QED
      BY <3>1, <3>2
  <2>5. ASSUME NEW c \in Compiles
        PROVE  /\ starts'[c] + Cardinality(Pending(c)') <= dequeued'[c]
               /\ starts'[c] + Cardinality(Pending(c)') <= MaxDequeue
    BY <2>3, <2>4, BoundsAssumption DEF BudgetInv
  <2> QED
    BY <2>2, <2>5 DEF BudgetInv
<1>4. CASE \A r \in Replicas : ~ Receive(r) /\ ~ MarkRunning(r)
  <2>1. Onward
    BY <1>4, OtherStepsGoOnward
  <2>2. \A c \in Compiles : Pending(c)' \subseteq Pending(c)
    BY <2>1 DEF Onward, Pending
  <2>3. \A c \in Compiles : Cardinality(Pending(c)') <= Cardinality(Pending(c))
                            /\ Cardinality(Pending(c)) \in Nat /\ Cardinality(Pending(c)') \in Nat
    BY <1>1, <2>2, ReplicaCounts
  <2>4. \A r \in Replicas : pc'[r] = "start" => seen'[r] <= MaxDequeue
    BY <2>1 DEF Onward, BudgetInv
  <2>5. ASSUME NEW c \in Compiles
        PROVE  /\ starts'[c] + Cardinality(Pending(c)') <= dequeued'[c]
               /\ starts'[c] + Cardinality(Pending(c)') <= MaxDequeue
    <3>1. starts'[c] = starts[c] /\ dequeued'[c] = dequeued[c] /\ starts[c] \in Nat /\ dequeued[c] \in Nat
      BY <2>1 DEF Onward, TypeOK, Message
    <3> QED
      BY <2>3, <3>1, BoundsAssumption DEF BudgetInv
  <2> QED
    BY <2>4, <2>5 DEF BudgetInv
<1> QED
  BY <1>2, <1>3, <1>4

\* The budget holds at the start, with nothing received yet.
LEMMA BudgetInit == Init => BudgetInv
<1> SUFFICES ASSUME Init PROVE BudgetInv
  OBVIOUS
<1>1. \A c \in Compiles : Pending(c) = {}
  BY DEF Pending, Init
<1>2. \A c \in Compiles : starts[c] = 0 /\ dequeued[c] = 0
  BY DEF Init, Message
<1>3. \A r \in Replicas : pc[r] # "start"
  BY DEF Init
<1>4. Cardinality({}) = 0
  BY FS_EmptySet
<1>5. MaxDequeue \in Nat
  BY BoundsAssumption
<1>6. \A c \in Compiles : Cardinality(Pending(c)) = 0 /\ dequeued[c] = 0 /\ starts[c] = 0
  BY <1>1, <1>2, <1>4
<1> QED
  BY <1>3, <1>5, <1>6 DEF BudgetInv

\* The budget bounds the attempts.
LEMMA BudgetBounds == TypeOK /\ BudgetInv => AttemptsBounded
<1> SUFFICES ASSUME TypeOK, BudgetInv, NEW c \in Compiles PROVE starts[c] <= MaxDequeue
  BY DEF AttemptsBounded
<1>1. Pending(c) \subseteq Replicas
  BY DEF Pending
<1>2. Cardinality(Pending(c)) \in Nat /\ starts[c] \in Nat
  BY <1>1, ReplicaCounts DEF TypeOK
<1> QED
  BY <1>2, BoundsAssumption DEF BudgetInv

\* No compile is started more than MAX_DEQUEUE_COUNT times: each attempt uses up
\* a delivery, and only the first MAX_DEQUEUE_COUNT deliveries pass the guard.
\* Leases may run out under a working replica, and replicas may die anywhere.
THEOREM AttemptsAreBounded == Spec => []AttemptsBounded
<1>1. TypeOK /\ BudgetInv /\ [Next]_vars => BudgetInv'
  BY BudgetStep
<1>2. TypeOK /\ BudgetInv => AttemptsBounded
  BY BudgetBounds
<1> QED
  BY <1>1, <1>2, BudgetInit, TypeCorrect, PTL DEF Spec
------------------------------------------------------------------------------
\* A message is deleted only from places that are reached with its outcome on
\* record, and nothing takes an outcome off the record.
Closing == {"archive", "ack", "skipped", "recorded", "notified"}

ClosingIsRecorded ==
  \A r \in Replicas : /\ pc[r] \in Closing /\ held[r] \in Compiles => Recorded(held[r])
                      /\ pc[r] = "sow_done" => held[r] \in SowDrafts

\* A canceller past its first step has put the cancellation on record.
CancelIsRecorded ==
  \A r \in Replicas : \A k \in killing[r] :
    k.by = "canceller" /\ k.at # "status" => k.of \in cancelled

RecordInv == OutcomeRecorded /\ ClosingIsRecorded /\ CancelIsRecorded

\* What a step may do to the queues and the records.
Deleting == {"sow_done", "ack", "skipped", "notified"}

RecordsStay ==
  /\ runIndex \subseteq runIndex' /\ cancelled \subseteq cancelled'
  /\ \A m \in Message : m \in queue /\ m \notin queue' =>
       \E r \in Replicas : \/ pc[r] \in Deleting /\ held[r] = m
                           \/ \E k \in killing[r] : k.at = "message" /\ k.of = m

\* No step takes an outcome off the record, and only a replica that
\* acknowledges or cancels a message deletes it.
LEMMA StepsKeepRecords == TypeOK /\ [Next]_vars => RecordsStay
<1> SUFFICES ASSUME TypeOK, [Next]_vars PROVE RecordsStay
  OBVIOUS
<1> USE DEF TypeOK, RecordsStay, WriteStatus, Deleting
<1>1. ASSUME NEW r \in Replicas, Restart(r) \/ RecoverDeadRun(r) \/ RecoveryDone(r) \/ Receive(r) PROVE RecordsStay
  BY <1>1 DEF Restart, RecoverDeadRun, RecoveryDone, Receive, Lease
<1>2. ASSUME NEW r \in Replicas, RunSowDraft(r) \/ CannotDecode(r) \/ GiveUp(r) PROVE RecordsStay
  BY <1>2 DEF RunSowDraft, CannotDecode, GiveUp
<1>3. ASSUME NEW r \in Replicas, ForwardToPoisonQueue(r) \/ SkipDeal(r) \/ PassGuards(r) \/ MarkRunning(r) PROVE RecordsStay
  BY <1>3 DEF ForwardToPoisonQueue, SkipDeal, PassGuards, MarkRunning
<1>4. ASSUME NEW r \in Replicas, AckSowDraft(r) \/ Ack(r) \/ Settle(r) PROVE RecordsStay
  BY <1>4 DEF AckSowDraft, Ack, Settle
<1>5. ASSUME NEW r \in Replicas, SkipUnchanged(r) \/ BeginCompile(r) \/ HandleException(r) \/ Seed(r) PROVE RecordsStay
  BY <1>5 DEF SkipUnchanged, BeginCompile, HandleException, Seed
<1>6. ASSUME NEW r \in Replicas, Project(r) \/ UploadEnvelope(r) \/ MarkDone(r) \/ WriteFingerprint(r) \/ LeaveCompile(r) PROVE RecordsStay
  BY <1>6 DEF Project, UploadEnvelope, MarkDone, WriteFingerprint, LeaveCompile
<1>7. ASSUME NEW r \in Replicas, RecordCompleted(r) \/ NotifyBriefGen(r) PROVE RecordsStay
  BY <1>7 DEF RecordCompleted, NotifyBriefGen
<1>8. ASSUME NEW r \in Replicas, MarkInterrupted(r) \/ Tick(r) PROVE RecordsStay
  BY <1>8 DEF MarkInterrupted, Tick
<1>9. ASSUME NEW r \in Replicas, Trouble(r) PROVE RecordsStay
  BY <1>9 DEF Trouble, ManifestFails, CompileRaises, DeleteFails, WatcherFires, Sigkill, Sigterm
<1>13. ASSUME NEW r \in Replicas, Kill(r) PROVE RecordsStay
  <2>1. CASE KillDropsMessage(r)
    BY <2>1 DEF KillDropsMessage, Takes
  <2>2. CASE ~ KillDropsMessage(r)
    BY <1>13, <2>2 DEF Kill, KillWritesStatus, KillWritesPage, KillDropsRequest, KillClearsMarker, KillExits
  <2> QED
    BY <2>1, <2>2
<1>10. ASSUME NEW m \in Message, Lapse(m) \/ LapseInUse(m) PROVE RecordsStay
  BY <1>10 DEF Lapse, LapseInUse
<1>11. ASSUME NEW d \in Deals, RequestCancel(d) PROVE RecordsStay
  BY <1>11 DEF RequestCancel
<1>12. CASE UNCHANGED vars
  BY <1>12 DEF vars
<1> QED
  BY <1>1, <1>2, <1>3, <1>4, <1>5, <1>6, <1>7, <1>8, <1>9, <1>10, <1>11, <1>12, <1>13 DEF Next, Work

\* A replica gets to a place it deletes from only with the outcome on record.
LEMMA ClosingStep == TypeOK /\ RecordInv /\ [Next]_vars => ClosingIsRecorded'
<1> SUFFICES ASSUME TypeOK, RecordInv, [Next]_vars PROVE ClosingIsRecorded'
  OBVIOUS
<1> USE SetsAssumption DEF TypeOK, RecordInv, ClosingIsRecorded, Closing, Recorded, WriteStatus, Terminal, Hopeless
<1>1. ASSUME NEW r \in Replicas, Restart(r) \/ RecoverDeadRun(r) \/ RecoveryDone(r) \/ Receive(r) PROVE ClosingIsRecorded'
  BY <1>1 DEF Restart, RecoverDeadRun, RecoveryDone, Receive, Lease
<1>2. ASSUME NEW r \in Replicas, RunSowDraft(r) \/ CannotDecode(r) PROVE ClosingIsRecorded'
  BY <1>2 DEF RunSowDraft, CannotDecode
<1>21. ASSUME NEW r \in Replicas, GiveUp(r) PROVE ClosingIsRecorded'
  BY <1>21 DEF GiveUp, CannotSucceed
<1>3. ASSUME NEW r \in Replicas, ForwardToPoisonQueue(r) \/ SkipDeal(r) \/ PassGuards(r) \/ MarkRunning(r) PROVE ClosingIsRecorded'
  BY <1>3 DEF ForwardToPoisonQueue, SkipDeal, PassGuards, MarkRunning
<1>4. ASSUME NEW r \in Replicas, AckSowDraft(r) \/ Ack(r) \/ Settle(r) PROVE ClosingIsRecorded'
  BY <1>4 DEF AckSowDraft, Ack, Settle
<1>5. ASSUME NEW r \in Replicas, SkipUnchanged(r) \/ BeginCompile(r) \/ HandleException(r) \/ Seed(r) PROVE ClosingIsRecorded'
  BY <1>5 DEF SkipUnchanged, BeginCompile, HandleException, Seed
<1>6. ASSUME NEW r \in Replicas, Project(r) \/ UploadEnvelope(r) \/ MarkDone(r) \/ WriteFingerprint(r) \/ LeaveCompile(r) PROVE ClosingIsRecorded'
  BY <1>6 DEF Project, UploadEnvelope, MarkDone, WriteFingerprint, LeaveCompile
<1>7. ASSUME NEW r \in Replicas, RecordCompleted(r) \/ NotifyBriefGen(r) PROVE ClosingIsRecorded'
  BY <1>7 DEF RecordCompleted, NotifyBriefGen
<1>8. ASSUME NEW r \in Replicas, MarkInterrupted(r) \/ Tick(r) PROVE ClosingIsRecorded'
  BY <1>8 DEF MarkInterrupted, Tick
<1>9. ASSUME NEW r \in Replicas, Trouble(r) PROVE ClosingIsRecorded'
  BY <1>9 DEF Trouble, ManifestFails, CompileRaises, DeleteFails, WatcherFires, Sigkill, Sigterm
<1>13. ASSUME NEW r \in Replicas, Kill(r) PROVE ClosingIsRecorded'
  <2>1. /\ runIndex \subseteq runIndex' /\ cancelled \subseteq cancelled'
        /\ \A q \in Replicas : (pc'[q] = pc[q] /\ held'[q] = held[q]) \/ pc'[q] = "down"
    BY <1>13 DEF Kill, KillWritesStatus, KillWritesPage, KillDropsMessage, KillDropsRequest, KillClearsMarker, KillExits
  <2> QED
    BY <2>1
<1>10. ASSUME NEW m \in Message, Lapse(m) \/ LapseInUse(m) PROVE ClosingIsRecorded'
  BY <1>10 DEF Lapse, LapseInUse
<1>11. ASSUME NEW d \in Deals, RequestCancel(d) PROVE ClosingIsRecorded'
  BY <1>11 DEF RequestCancel
<1>12. CASE UNCHANGED vars
  BY <1>12 DEF vars
<1> QED
  BY <1>1, <1>2, <1>21, <1>3, <1>4, <1>5, <1>6, <1>7, <1>8, <1>9, <1>10, <1>11, <1>12, <1>13 DEF Next, Work

\* The threads that end a process come and go by steps of their own; every other
\* step leaves them alone, or ends them.
ThreadSteps(r) ==
  \/ WatcherFires(r) \/ KillWritesStatus(r) \/ KillWritesPage(r) \/ KillDropsMessage(r)
  \/ KillDropsRequest(r) \/ KillClearsMarker(r)

NoMoreThreads == \A q \in Replicas : killing'[q] \subseteq killing[q]

\* A step that is none of theirs brings no thread.
LEMMA ThreadsStay ==
  ASSUME TypeOK, [Next]_vars, \A r \in Replicas : ~ ThreadSteps(r)
  PROVE  NoMoreThreads
<1> USE DEF TypeOK, NoMoreThreads
<1>1. ASSUME NEW r \in Replicas, Restart(r) \/ RecoverDeadRun(r) \/ RecoveryDone(r) \/ Receive(r) \/ RunSowDraft(r) \/ AckSowDraft(r) \/ CannotDecode(r) \/ GiveUp(r) \/ ForwardToPoisonQueue(r) \/ SkipDeal(r) PROVE NoMoreThreads
  BY <1>1 DEF Restart, RecoverDeadRun, RecoveryDone, Receive, RunSowDraft, AckSowDraft, CannotDecode, GiveUp, ForwardToPoisonQueue, SkipDeal
<1>2. ASSUME NEW r \in Replicas, PassGuards(r) \/ Ack(r) \/ MarkRunning(r) \/ SkipUnchanged(r) \/ BeginCompile(r) \/ HandleException(r) \/ Seed(r) \/ Project(r) \/ UploadEnvelope(r) \/ MarkDone(r) \/ WriteFingerprint(r) PROVE NoMoreThreads
  BY <1>2 DEF PassGuards, Ack, MarkRunning, SkipUnchanged, BeginCompile, HandleException, Seed, Project, UploadEnvelope, MarkDone, WriteFingerprint
<1>3. ASSUME NEW r \in Replicas, LeaveCompile(r) \/ RecordCompleted(r) \/ NotifyBriefGen(r) \/ Settle(r) \/ MarkInterrupted(r) \/ Tick(r) PROVE NoMoreThreads
  BY <1>3 DEF LeaveCompile, RecordCompleted, NotifyBriefGen, Settle, MarkInterrupted, Tick
<1>4. ASSUME NEW r \in Replicas, ManifestFails(r) \/ CompileRaises(r) \/ DeleteFails(r) \/ Sigkill(r) \/ Sigterm(r) \/ KillExits(r) PROVE NoMoreThreads
  BY <1>4 DEF ManifestFails, CompileRaises, DeleteFails, Sigkill, Sigterm, KillExits
<1>5. ASSUME NEW m \in Message, Lapse(m) \/ LapseInUse(m) PROVE NoMoreThreads
  BY <1>5 DEF Lapse, LapseInUse
<1>6. ASSUME NEW d \in Deals, RequestCancel(d) PROVE NoMoreThreads
  BY <1>6 DEF RequestCancel
<1>7. CASE UNCHANGED vars
  BY <1>7 DEF vars
<1> HIDE DEF TypeOK, NoMoreThreads
<1> QED
  BY <1>1, <1>2, <1>3, <1>4, <1>5, <1>6, <1>7 DEF ThreadSteps, Next, Work, Trouble, Kill

\* A thread j of process q is as its watcher made it, or as k was a step before.
NewThread(q, j) ==
  pc[q] \in Watched /\ held[q] = j.of /\ seen[q] = j.receive /\ j.at = KillBegins[j.by]
MovedFrom(q, k, j) ==
  /\ j.of = k.of /\ j.by = k.by /\ j.receive = k.receive
  /\ k.at = "status" => KillWritesStatus(q) /\ Takes(q, k, "status")

\* A thread comes to be with its first step, and moves on by taking the step it is at.
LEMMA ThreadsMove ==
  ASSUME TypeOK, [Next]_vars
  PROVE  \A q \in Replicas : \A j \in killing'[q] :
           j \in killing[q] \/ NewThread(q, j) \/ \E k \in killing[q] : MovedFrom(q, k, j)
<1> SUFFICES ASSUME NEW q \in Replicas, NEW j \in killing'[q], j \notin killing[q]
             PROVE  NewThread(q, j) \/ \E k \in killing[q] : MovedFrom(q, k, j)
  OBVIOUS
<1>1. ASSUME NEW r \in Replicas, WatcherFires(r) PROVE NewThread(q, j)
  <2>1. PICK by \in Killers :
          killing' = [killing EXCEPT ![r] = @ \cup
            {[by |-> by, of |-> held[r], receive |-> seen[r], at |-> KillBegins[by]]}]
    BY <1>1 DEF WatcherFires, Killers
  <2>2. q = r /\ j = [by |-> by, of |-> held[r], receive |-> seen[r], at |-> KillBegins[by]]
    BY <2>1 DEF TypeOK
  <2> QED
    BY <1>1, <2>2 DEF WatcherFires, NewThread
<1>2. ASSUME NEW r \in Replicas, NEW k \in killing[r], NEW step, Takes(r, k, step),
             step = "status" => KillWritesStatus(r)
      PROVE  \E l \in killing[q] : MovedFrom(q, l, j)
  <2>1. q = r /\ j = [k EXCEPT !.at = KillOrder[k.by][step]] /\ k.at = step
    BY <1>2 DEF Takes, TypeOK
  <2>2. k \in [by : Killers, of : Compiles, receive : Nat, at : KillStep]
    BY DEF TypeOK
  <2>3. j.of = k.of /\ j.by = k.by /\ j.receive = k.receive
    BY <2>1, <2>2
  <2>4. MovedFrom(q, k, j)
    BY <1>2, <2>1, <2>3 DEF MovedFrom
  <2> QED
    BY <2>1, <2>4
<1>3. ASSUME NEW r \in Replicas, KillWritesStatus(r) PROVE \E k \in killing[q] : MovedFrom(q, k, j)
  <2>1. PICK k \in killing[r] : Takes(r, k, "status")
    BY <1>3 DEF KillWritesStatus
  <2> QED
    BY <1>2, <1>3, <2>1
<1>4. ASSUME NEW r \in Replicas, KillWritesPage(r) \/ KillDropsMessage(r) \/ KillDropsRequest(r) \/ KillClearsMarker(r)
      PROVE  \E k \in killing[q] : MovedFrom(q, k, j)
  <2>1. PICK k \in killing[r] : \E step \in {"page", "message", "request", "marker"} : Takes(r, k, step)
    BY <1>4 DEF KillWritesPage, KillDropsMessage, KillDropsRequest, KillClearsMarker
  <2>2. PICK step \in {"page", "message", "request", "marker"} : Takes(r, k, step)
    BY <2>1
  <2> QED
    BY <1>2, <2>2
<1>5. CASE \A r \in Replicas : ~ ThreadSteps(r)
  BY <1>5, ThreadsStay DEF NoMoreThreads
<1> QED
  BY <1>1, <1>3, <1>4, <1>5 DEF ThreadSteps

\* A canceller gets past its first step only by recording the cancellation.
LEMMA CancelStep == TypeOK /\ RecordInv /\ [Next]_vars => CancelIsRecorded'
<1> SUFFICES ASSUME TypeOK, RecordInv, [Next]_vars,
                    NEW q \in Replicas, NEW j \in killing'[q], j.by = "canceller", j.at # "status"
             PROVE  j.of \in cancelled'
  BY DEF CancelIsRecorded
<1>1. cancelled \subseteq cancelled'
  BY StepsKeepRecords DEF RecordsStay
<1>2. CASE j \in killing[q]
  BY <1>1, <1>2 DEF RecordInv, CancelIsRecorded
<1>3. CASE j \notin killing[q]
  <2>0. ~ NewThread(q, j)
    BY DEF NewThread, KillBegins
  <2>1. PICK k \in killing[q] : MovedFrom(q, k, j)
    BY <1>3, <2>0, ThreadsMove
  <2>2. CASE k.at # "status"
    BY <1>1, <2>1, <2>2 DEF RecordInv, CancelIsRecorded, MovedFrom
  <2>3. CASE k.at = "status"
    <3>1. KillWritesStatus(q) /\ Takes(q, k, "status")
      BY <2>1, <2>3 DEF MovedFrom
    <3>2. PICK l \in killing[q] : /\ Takes(q, l, "status")
                                  /\ cancelled' = IF l.by = "canceller" THEN cancelled \cup {l.of} ELSE cancelled
      BY <3>1 DEF KillWritesStatus
    \* the threads it left behind are the same, so it is this one's step
    <3>3. l.of = k.of /\ l.by = k.by
      <4>1. k \in [by : Killers, of : Compiles, receive : Nat, at : KillStep]
            /\ l \in [by : Killers, of : Compiles, receive : Nat, at : KillStep]
        BY DEF TypeOK
      <4>2. killing'[q] = (killing[q] \ {l}) \cup {[l EXCEPT !.at = KillOrder[l.by]["status"]]}
        BY <3>2 DEF Takes, TypeOK
      <4>3. j = [l EXCEPT !.at = KillOrder[l.by]["status"]]
        BY <1>3, <4>2
      <4> QED
        BY <2>1, <4>1, <4>3 DEF MovedFrom
    <3> QED
      BY <2>1, <3>2, <3>3 DEF MovedFrom
  <2> QED
    BY <2>2, <2>3
<1> QED
  BY <1>2, <1>3

\* A canceller deletes the message only of a compile it has recorded as cancelled.
LEMMA DroppedByCanceller ==
  ASSUME TypeOK, RecordInv, NEW r \in Replicas, NEW k \in killing[r], k.at = "message"
  PROVE  k.of \in cancelled
<1>1. k.by \in Killers /\ "message" \in DOMAIN KillOrder[k.by]
  BY DEF TypeOK
<1>2. k.by = "canceller"
  BY <1>1, KillOrderFacts
<1> QED
  BY <1>2 DEF RecordInv, CancelIsRecorded

\* Every step keeps the records ahead of the deletes.
LEMMA RecordStep == TypeOK /\ RecordInv /\ [Next]_vars => RecordInv'
<1> SUFFICES ASSUME TypeOK, RecordInv, [Next]_vars PROVE RecordInv'
  OBVIOUS
<1>1. RecordsStay /\ ClosingIsRecorded' /\ CancelIsRecorded'
  BY StepsKeepRecords, ClosingStep, CancelStep
<1>2. \A c \in Compiles : Recorded(c) => Recorded(c)'
  BY <1>1 DEF RecordsStay, Recorded
<1>3. ASSUME NEW c \in Compiles, c \in queue /\ c \notin queue' PROVE Recorded(c)
  <2>1. CASE \E r \in Replicas : pc[r] \in Deleting /\ held[r] = c
    BY <2>1, SetsAssumption DEF RecordInv, ClosingIsRecorded, Deleting, Closing
  <2>2. CASE \E r \in Replicas : \E k \in killing[r] : k.at = "message" /\ k.of = c
    BY <2>2, DroppedByCanceller DEF Recorded
  <2> QED
    BY <1>1, <1>3, <2>1, <2>2 DEF RecordsStay, Message
<1>4. OutcomeRecorded'
  BY <1>2, <1>3 DEF RecordInv, OutcomeRecorded, Gone
<1> QED
  BY <1>1, <1>4 DEF RecordInv

\* The records hold at the start, when every message is there.
LEMMA RecordInit == Init => RecordInv
  BY DEF Init, RecordInv, ClosingIsRecorded, CancelIsRecorded, OutcomeRecorded, Gone, Closing, Message

\* A compile's message leaves the queues only with its outcome on record, be the
\* lease lost, the process killed or the request cancelled in between.
THEOREM OutcomesAreRecorded == Spec => []OutcomeRecorded
<1>1. Init => RecordInv
  BY RecordInit
<1>2. TypeOK /\ RecordInv /\ [Next]_vars => RecordInv'
  BY RecordStep
<1>3. RecordInv => OutcomeRecorded
  BY DEF RecordInv
<1> QED
  BY <1>1, <1>2, <1>3, TypeCorrect, PTL DEF Spec
------------------------------------------------------------------------------
\* The steps of the ledger, seen from the worker.
OnRecord == {c \in Compiles : Recorded(c)}

Attempted == \E c \in Compiles :
  starts' = [starts EXCEPT ![c] = @ + 1] /\ UNCHANGED <<queue, runIndex, cancelled>>
Noted == \E c \in Compiles :
  /\ runIndex' \in {runIndex, runIndex \cup {c}} /\ cancelled' \in {cancelled, cancelled \cup {c}}
  /\ UNCHANGED <<queue, starts>>
Dropped == \E m \in Message :
  queue' = queue \ {m} /\ UNCHANGED <<starts, runIndex, cancelled>>
LedgerEffect == Attempted \/ Noted \/ Dropped \/ UNCHANGED <<queue, starts, runIndex, cancelled>>

\* Every step starts a compile, records an outcome, drops a message or none of these.
LEMMA StepsAreLedgerEffects == TypeOK /\ [Next]_vars => LedgerEffect
<1> SUFFICES ASSUME TypeOK, [Next]_vars PROVE LedgerEffect
  OBVIOUS
<1> USE DEF TypeOK, LedgerEffect, Noted, Dropped, WriteStatus
<1>1. ASSUME NEW r \in Replicas, Restart(r) \/ RecoverDeadRun(r) \/ RecoveryDone(r) \/ Receive(r) PROVE LedgerEffect
  BY <1>1 DEF Restart, RecoverDeadRun, RecoveryDone, Receive, Lease
<1>2. ASSUME NEW r \in Replicas, RunSowDraft(r) \/ CannotDecode(r) \/ GiveUp(r) PROVE LedgerEffect
  BY <1>2 DEF RunSowDraft, CannotDecode, GiveUp
<1>3. ASSUME NEW r \in Replicas, ForwardToPoisonQueue(r) \/ SkipDeal(r) \/ PassGuards(r) PROVE LedgerEffect
  BY <1>3 DEF ForwardToPoisonQueue, SkipDeal, PassGuards
<1>31. ASSUME NEW r \in Replicas, MarkRunning(r) PROVE LedgerEffect
  BY <1>31 DEF MarkRunning, Attempted, Terminal, Hopeless
<1>4. ASSUME NEW r \in Replicas, AckSowDraft(r) \/ Ack(r) \/ Settle(r) PROVE LedgerEffect
  BY <1>4 DEF AckSowDraft, Ack, Settle, Busy, Attempting
<1>5. ASSUME NEW r \in Replicas, SkipUnchanged(r) \/ BeginCompile(r) \/ HandleException(r) \/ Seed(r) PROVE LedgerEffect
  BY <1>5 DEF SkipUnchanged, BeginCompile, HandleException, Seed, Attempting, Watched
<1>6. ASSUME NEW r \in Replicas, Project(r) \/ UploadEnvelope(r) \/ MarkDone(r) \/ WriteFingerprint(r) \/ LeaveCompile(r) PROVE LedgerEffect
  BY <1>6 DEF Project, UploadEnvelope, MarkDone, WriteFingerprint, LeaveCompile, Attempting, Watched
<1>7. ASSUME NEW r \in Replicas, RecordCompleted(r) \/ NotifyBriefGen(r) PROVE LedgerEffect
  BY <1>7 DEF RecordCompleted, NotifyBriefGen, Attempting
<1>8. ASSUME NEW r \in Replicas, MarkInterrupted(r) \/ Tick(r) PROVE LedgerEffect
  BY <1>8 DEF MarkInterrupted, Tick, Attempting
<1>9. ASSUME NEW r \in Replicas, Trouble(r) PROVE LedgerEffect
  BY <1>9 DEF Trouble, ManifestFails, CompileRaises, DeleteFails, WatcherFires, Sigkill, Sigterm, Attempting
<1>13. ASSUME NEW r \in Replicas, Kill(r) PROVE LedgerEffect
  <2>1. CASE KillWritesStatus(r)
    <3>1. PICK k \in killing[r] : /\ Takes(r, k, "status") /\ WriteStatus(k.of, KillStage[k.by])
                                  /\ cancelled' \in {cancelled, cancelled \cup {k.of}}
      BY <2>1 DEF KillWritesStatus
    <3>2. k.of \in Compiles
      BY <3>1
    <3> QED
      BY <2>1, <3>1, <3>2 DEF KillWritesStatus
  <2>2. CASE KillDropsMessage(r)
    <3>1. PICK k \in killing[r] : queue' = queue \ {k.of} \/ queue' = queue
      BY <2>2 DEF KillDropsMessage
    <3>2. k.of \in Message
      BY <3>1 DEF Message
    <3> QED
      BY <2>2, <3>1, <3>2 DEF KillDropsMessage
  <2>3. CASE KillWritesPage(r) \/ KillDropsRequest(r) \/ KillClearsMarker(r) \/ KillExits(r)
    BY <2>3 DEF KillWritesPage, KillDropsRequest, KillClearsMarker, KillExits
  <2> QED
    BY <1>13, <2>1, <2>2, <2>3 DEF Kill
<1>10. ASSUME NEW m \in Message, Lapse(m) \/ LapseInUse(m) PROVE LedgerEffect
  BY <1>10 DEF Lapse, LapseInUse
<1>11. ASSUME NEW d \in Deals, RequestCancel(d) PROVE LedgerEffect
  BY <1>11 DEF RequestCancel
<1>12. CASE UNCHANGED vars
  BY <1>12 DEF vars
<1> QED
  BY <1>1, <1>2, <1>3, <1>31, <1>4, <1>5, <1>6, <1>7, <1>8, <1>9, <1>10, <1>11, <1>12, <1>13 DEF Next, Work

\* Every step of the worker is a step of the ledger, or leaves it alone.
LEMMA LedgerStep ==
  TypeOK /\ BudgetInv' /\ TypeOK' /\ RecordInv /\ [Next]_vars => [Ledger!Next]_(Ledger!ledgerVars)
<1> SUFFICES ASSUME TypeOK, BudgetInv', TypeOK', RecordInv, [Next]_vars
             PROVE  Ledger!Next \/ UNCHANGED Ledger!ledgerVars
  OBVIOUS
<1> DEFINE outstanding == queue \cap Compiles
<1>1. LedgerEffect
  BY StepsAreLedgerEffects
<1>2. CASE Attempted
  <2>1. PICK c \in Compiles : starts' = [starts EXCEPT ![c] = @ + 1] /\ UNCHANGED <<queue, runIndex, cancelled>>
    BY <1>2 DEF Attempted
  <2>2. starts'[c] = starts[c] + 1 /\ starts[c] \in Nat
    BY <2>1 DEF TypeOK
  <2>3. AttemptsBounded'
    BY BudgetBounds, PTL
  <2>4. starts[c] < MaxDequeue
    BY <2>2, <2>3, BoundsAssumption DEF AttemptsBounded
  <2>5. OnRecord' = OnRecord /\ outstanding' = outstanding
    BY <2>1 DEF OnRecord, Recorded
  <2> QED
    BY <2>1, <2>4, <2>5 DEF Ledger!Next, Ledger!Attempt, OnRecord
<1>3. CASE Noted
  <2>1. PICK c \in Compiles : /\ runIndex' \in {runIndex, runIndex \cup {c}}
                             /\ cancelled' \in {cancelled, cancelled \cup {c}}
                             /\ UNCHANGED <<queue, starts>>
    BY <1>3 DEF Noted
  <2>2. outstanding' = outstanding /\ OnRecord' \in {OnRecord, OnRecord \cup {c}}
    BY <2>1 DEF OnRecord, Recorded
  <2> QED
    BY <2>1, <2>2 DEF Ledger!Next, Ledger!Record, Ledger!ledgerVars, OnRecord
<1>4. CASE Dropped
  <2>1. PICK m \in Message : queue' = queue \ {m} /\ UNCHANGED <<starts, runIndex, cancelled>>
    BY <1>4 DEF Dropped
  <2>2. OnRecord' = OnRecord
    BY <2>1 DEF OnRecord, Recorded
  <2>3. CASE m \in queue \cap Compiles
    <3>1. Recorded(m)
      <4>1. RecordInv'
        BY RecordStep
      <4>2. Recorded(m)'
        BY <2>1, <2>3, <4>1 DEF RecordInv, OutcomeRecorded, Gone
      <4> QED
        BY <2>1, <4>2 DEF Recorded
    <3>2. outstanding' = outstanding \ {m} /\ m \in OnRecord
      BY <2>1, <2>3, <3>1 DEF OnRecord
    <3> QED
      BY <2>1, <2>2, <2>3, <3>2 DEF Ledger!Next, Ledger!Settle, OnRecord
  <2>4. CASE m \notin queue \cap Compiles
    <3>1. outstanding' = outstanding
      BY <2>1, <2>4
    <3> QED
      BY <2>1, <2>2, <3>1 DEF Ledger!ledgerVars, OnRecord
  <2> QED
    BY <2>3, <2>4
<1>5. CASE UNCHANGED <<queue, starts, runIndex, cancelled>>
  BY <1>5 DEF Ledger!ledgerVars, Recorded
<1> QED
  BY <1>1, <1>2, <1>3, <1>4, <1>5 DEF LedgerEffect

\* The worker implements the ledger: attempts are bounded, and a message is gone
\* only after its outcome was put on record.
THEOREM WorkerImplementsLedger == Spec => LedgerSpec
<1>1. Init => Ledger!Init
  BY DEF Init, Ledger!Init, Message
<1>2. Init => RecordInv
  BY RecordInit
<1>3. TypeOK /\ RecordInv /\ [Next]_vars => RecordInv'
  BY RecordStep
<1>4. TypeOK /\ BudgetInv /\ [Next]_vars => BudgetInv'
  BY BudgetStep
<1> QED
  BY <1>1, <1>2, <1>3, <1>4, BudgetInit, TypeCorrect, LedgerStep, PTL DEF Spec, LedgerSpec, Ledger!Spec
==============================================================================
