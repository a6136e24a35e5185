-------------------------- MODULE DealArtifactsProofs --------------------------
(***************************************************************************)
(* What holds of DealArtifacts for any replicas, compiles and drafts of a  *)
(* deal, and whichever artifacts follow its fingerprint.                   *)
(***************************************************************************)
EXTENDS DealArtifacts, SequenceTheorems, TLAPS

\* The steps of a compile: where the first ones, those in between and the last are.
LEMMA StepsByIndex ==
  LET n == Len(BestEffort) IN
    /\ n \in Nat /\ DOMAIN Steps = 1..(n + 5) /\ DOMAIN BestEffort = 1..n
    /\ Steps[1] = "manifest" /\ Steps[2] = "envelope" /\ Steps[3] = "idempotency"
    /\ \A i \in 1..n : /\ Steps[i + 3] = BestEffort[i]
                       /\ BestEffort[i] \in {"scope", "sow", "trace", "atoms", "result"}
    /\ Steps[n + 4] = "notify" /\ Steps[n + 5] = "ack"
<1> DEFINE n == Len(BestEffort)
           first == <<"manifest", "envelope", "idempotency">>
           last == <<"notify", "ack">>
           Words == {"manifest", "envelope", "idempotency", "scope", "sow", "trace", "atoms", "result",
                     "notify", "ack"}
<1>1. BestEffort \in Seq(Words) /\ n \in Nat /\ DOMAIN BestEffort = 1..n
      /\ \A i \in 1..n : BestEffort[i] \in {"scope", "sow", "trace", "atoms", "result"}
  BY TasksAssumption
<1>2. first \in Seq(Words) /\ Len(first) = 3 /\ last \in Seq(Words) /\ Len(last) = 2
      /\ first[1] = "manifest" /\ first[2] = "envelope" /\ first[3] = "idempotency"
      /\ last[1] = "notify" /\ last[2] = "ack"
  OBVIOUS
<1>3. Steps = (first \o BestEffort) \o last
  BY DEF Steps
<1> HIDE DEF first, last, Words
<1>4. /\ first \o BestEffort \in Seq(Words) /\ Len(first \o BestEffort) = n + 3
      /\ \A i \in 1..(n + 3) : (first \o BestEffort)[i] = IF i <= 3 THEN first[i] ELSE BestEffort[i - 3]
  <2>1. /\ first \o BestEffort \in Seq(Words) /\ Len(first \o BestEffort) = Len(first) + Len(BestEffort)
        /\ \A i \in 1..(Len(first) + Len(BestEffort)) :
             (first \o BestEffort)[i] = IF i <= Len(first) THEN first[i] ELSE BestEffort[i - Len(first)]
    BY <1>1, <1>2, ConcatProperties, ZenonT(30)
  <2> QED
    BY <1>1, <1>2, <2>1
<1>5. /\ Steps \in Seq(Words) /\ Len(Steps) = n + 5
      /\ \A i \in 1..(n + 5) :
           Steps[i] = IF i <= n + 3 THEN (first \o BestEffort)[i] ELSE last[i - (n + 3)]
  <2> DEFINE start == first \o BestEffort
  <2>1. start \in Seq(Words) /\ Len(start) = n + 3
    BY <1>4
  <2> HIDE DEF start
  <2>2. /\ start \o last \in Seq(Words) /\ Len(start \o last) = Len(start) + Len(last)
        /\ \A i \in 1..(Len(start) + Len(last)) :
             (start \o last)[i] = IF i <= Len(start) THEN start[i] ELSE last[i - Len(start)]
    BY <1>2, <2>1, ConcatProperties, Zenon
  <2>3. /\ start \o last \in Seq(Words) /\ Len(start \o last) = n + 5
        /\ \A i \in 1..(n + 5) : (start \o last)[i] = IF i <= n + 3 THEN start[i] ELSE last[i - (n + 3)]
    BY <1>1, <1>2, <2>1, <2>2
  <2> QED
    BY <1>3, <2>3 DEF start
<1> HIDE DEF n
<1>6. /\ Steps[1] = "manifest" /\ Steps[2] = "envelope" /\ Steps[3] = "idempotency"
      /\ Steps[n + 4] = "notify" /\ Steps[n + 5] = "ack"
  BY <1>1, <1>2, <1>4, <1>5
<1>7. \A i \in 1..n : Steps[i + 3] = BestEffort[i]
  BY <1>1, <1>4, <1>5
<1> QED
  BY <1>1, <1>5, <1>6, <1>7 DEF n

\* What a compile writes, and the steps it takes: each artifact is a step.
LEMMA StepsOfCompile ==
  /\ Sidecars \subseteq {"idempotency", "scope", "sow", "trace", "atoms", "result"}
  /\ "idempotency" \in Sidecars /\ Artifact = {"envelope"} \cup Sidecars
  /\ ToSet(Steps) = {"manifest", "notify", "ack"} \cup Artifact
<1> DEFINE n == Len(BestEffort)
<1>1. ToSet(BestEffort) = {BestEffort[i] : i \in 1..n}
  BY StepsByIndex DEF ToSet
<1>2. ToSet(Steps) = {Steps[i] : i \in 1..(n + 5)}
  BY StepsByIndex DEF ToSet
<1>3. Sidecars \subseteq {"idempotency", "scope", "sow", "trace", "atoms", "result"}
      /\ "idempotency" \in Sidecars /\ Artifact = {"envelope"} \cup Sidecars
  BY <1>1, StepsByIndex DEF Sidecars, Artifact
<1>4. ASSUME NEW i \in 1..(n + 5) PROVE Steps[i] \in {"manifest", "notify", "ack"} \cup Artifact
  <2>1. i \in {1, 2, 3, n + 4, n + 5} \/ (i - 3 \in 1..n /\ i = (i - 3) + 3)
    BY StepsByIndex
  <2>2. ASSUME i - 3 \in 1..n, i = (i - 3) + 3 PROVE Steps[i] \in Artifact
    <3>1. Steps[i] = BestEffort[i - 3]
      BY <2>2, StepsByIndex
    <3> QED
      BY <1>1, <2>2, <3>1 DEF Artifact, Sidecars
  <2> QED
    BY <2>1, <2>2, <1>3, StepsByIndex
<1>5. ASSUME NEW a \in {"manifest", "notify", "ack"} \cup Artifact PROVE \E i \in 1..(n + 5) : Steps[i] = a
  <2>1. a \in {"manifest", "envelope", "idempotency", "notify", "ack"} \/ a \in ToSet(BestEffort)
    BY DEF Artifact, Sidecars
  <2>2. CASE a \in ToSet(BestEffort)
    <3>1. PICK j \in 1..n : BestEffort[j] = a
      BY <1>1, <2>2
    <3>2. Steps[j + 3] = a /\ j + 3 \in 1..(n + 5)
      BY <3>1, StepsByIndex
    <3> QED
      BY <3>2
  <2>3. {1, 2, 3, n + 4, n + 5} \subseteq 1..(n + 5)
    BY StepsByIndex
  <2> QED
    BY <2>1, <2>2, <2>3, StepsByIndex
<1>6. ToSet(Steps) \subseteq {"manifest", "notify", "ack"} \cup Artifact
  BY <1>2, <1>4
<1>7. {"manifest", "notify", "ack"} \cup Artifact \subseteq ToSet(Steps)
  BY <1>2, <1>5
<1> QED
  BY <1>3, <1>6, <1>7

\* A step of a compile but the last is followed by one; the envelope is written
\* right after the skip check, and by no other way.
LEMMA NextOfCompile ==
  ASSUME NEW s \in ToSet(Steps) \ {"ack"}
  PROVE  /\ StepAfter(Steps, s) \in ToSet(Steps) \ {"manifest"}
         /\ StepAfter(Steps, s) = "envelope" <=> s = "manifest"
<1> DEFINE n == Len(BestEffort)
           i == CHOOSE j \in DOMAIN Steps : Steps[j] = s
<1>1. i \in 1..(n + 5) /\ Steps[i] = s
  <2>1. \E j \in DOMAIN Steps : Steps[j] = s
    BY DEF ToSet
  <2> QED
    BY <2>1, StepsByIndex
<1>2. StepAfter(Steps, s) = Steps[i + 1]
  BY DEF StepAfter
<1> HIDE DEF i
<1>3. i # n + 5 /\ i + 1 \in 2..(n + 5) /\ n \in Nat
  BY <1>1, StepsByIndex
<1>4. \A k \in 3..(n + 5) : Steps[k] \notin {"manifest", "envelope"}
  <2>1. \A k \in 3..(n + 5) : k \in {3, n + 4, n + 5} \/ (k - 3 \in 1..n /\ k = (k - 3) + 3)
    BY <1>3
  <2>2. ASSUME NEW k \in 3..(n + 5), k - 3 \in 1..n, k = (k - 3) + 3
        PROVE  Steps[k] \in {"scope", "sow", "trace", "atoms", "result"}
    BY <2>2, StepsByIndex
  <2> QED
    BY <2>1, <2>2, StepsByIndex
<1>5. Steps[i + 1] \in ToSet(Steps)
  BY <1>3, StepsByIndex DEF ToSet
<1>6. Steps[i + 1] # "manifest" /\ (Steps[i + 1] = "envelope" <=> i = 1)
  <2>1. CASE i = 1
    BY <2>1, StepsByIndex
  <2>2. CASE i # 1
    <3>1. i + 1 \in 3..(n + 5)
      BY <1>1, <1>3, <2>2
    <3> QED
      BY <1>4, <2>2, <3>1
  <2> QED
    BY <2>1, <2>2
<1>7. s = "manifest" <=> i = 1
  BY <1>1, <1>4, StepsByIndex
<1> QED
  BY <1>2, <1>5, <1>6, <1>7

\* The steps of a draft, and that one but the last is followed by one.
LEMMA StepsOfDraft ==
  /\ ToSet(DraftSteps) = {"running", "read", "write", "handoff_read", "handoff_write", "done", "ack"}
  /\ \A s \in ToSet(DraftSteps) \ {"ack"} : StepAfter(DraftSteps, s) \in ToSet(DraftSteps)
<1>1. DOMAIN DraftSteps = 1..7
  BY DEF DraftSteps
<1>2. ToSet(DraftSteps) = {"running", "read", "write", "handoff_read", "handoff_write", "done", "ack"}
  <2>1. ToSet(DraftSteps) = {DraftSteps[i] : i \in 1..7}
    BY <1>1 DEF ToSet
  <2>2. 1..7 = {1, 2, 3, 4, 5, 6, 7}
    OBVIOUS
  <2> QED
    BY <2>1, <2>2 DEF DraftSteps
<1>3. ASSUME NEW s \in ToSet(DraftSteps) \ {"ack"} PROVE StepAfter(DraftSteps, s) \in ToSet(DraftSteps)
  <2> DEFINE i == CHOOSE j \in DOMAIN DraftSteps : DraftSteps[j] = s
  <2>1. \E j \in DOMAIN DraftSteps : DraftSteps[j] = s
    BY DEF ToSet
  <2>2. i \in 1..7 /\ DraftSteps[i] = s
    BY <2>1, <1>1
  <2>3. StepAfter(DraftSteps, s) = DraftSteps[i + 1]
    BY DEF StepAfter
  <2> HIDE DEF i
  <2>4. i + 1 \in 1..7
    BY <2>2 DEF DraftSteps
  <2> QED
    BY <2>3, <2>4, <1>1 DEF ToSet
<1> QED
  BY <1>2, <1>3
------------------------------------------------------------------------------
USE DEF artifactVars, queueVars, Fault, Go, On, Continue, Idle, DraftSays

AnyStep == ToSet(Steps) \cup ToSet(DraftSteps) \cup {"failed", "poll"}

\* A replica at work has a task, and a step that task takes.
AtWork(t, s) ==
  /\ t \in Compiles => s \in ToSet(Steps)
  /\ t \in Drafts => s \in ToSet(DraftSteps) \cup {"failed"}
  /\ t \notin Task => s = "poll"

\* The types without the steps.
DealTypes ==
  /\ blob \in [Artifact -> Compiles \cup {Nobody}]
  /\ handoff \in Compiles \cup {Nobody} /\ copy \in [Replicas -> Compiles \cup {Nobody}]
  /\ draftStatus \in [of : Drafts \cup {Nobody}, is : {"none", "running", "done", "failed"}]
  /\ notified \in BOOLEAN
  /\ visible \subseteq Task /\ lessee \in [Task -> Replicas \cup {Nobody}]
  /\ task \in [Replicas -> Task \cup {Nobody}] /\ at \in [Replicas -> AnyStep]
  /\ \A t \in visible : lessee[t] = Nobody
  /\ stored \subseteq Compiles /\ faults \in 0..MaxFaults

DealInv == DealTypes /\ \A r \in Replicas : AtWork(task[r], at[r])

\* Who is past the envelope has written it, and no sidecar is of another compile.
BackedInv ==
  /\ SidecarsBacked
  /\ \A r \in Replicas : task[r] \in Compiles /\ at[r] \in Sidecars \cup {"notify"} => task[r] \in stored
------------------------------------------------------------------------------
\* Every step keeps the types, and each replica at a step of its task.
LEMMA DealStep ==
  ASSUME DealInv, [Next]_vars
  PROVE  DealInv'
<1>1. Task = Compiles \cup Drafts /\ Compiles \cap Drafts = {} /\ Nobody \notin Task \cup Replicas /\ MaxFaults \in Nat
  BY TasksAssumption DEF Task
<1>2. \A s \in ToSet(Steps) \ {"ack"} : StepAfter(Steps, s) \in ToSet(Steps)
  BY NextOfCompile
<1>3. /\ ToSet(DraftSteps) = {"running", "read", "write", "handoff_read", "handoff_write", "done", "ack"}
      /\ \A s \in ToSet(DraftSteps) \ {"ack"} : StepAfter(DraftSteps, s) \in ToSet(DraftSteps)
  BY StepsOfDraft
<1>4. AnyStep = ToSet(Steps) \cup ToSet(DraftSteps) \cup {"failed", "poll"}
  BY DEF AnyStep
<1> USE <1>1, <1>2, <1>3, <1>4, StepsOfCompile DEF DealInv, DealTypes, AtWork
<1>11. ASSUME NEW r \in Replicas, SkipUnchanged(r) PROVE DealInv'
  BY <1>11 DEF SkipUnchanged
<1>12. ASSUME NEW r \in Replicas, Compile(r) PROVE DealInv'
  BY <1>12 DEF Compile
<1>13. ASSUME NEW r \in Replicas, Notify(r) PROVE DealInv'
  <2>1. notified' = TRUE \/ notified' = notified
    BY <1>13 DEF Notify
  <2>2. notified' \in BOOLEAN
    BY <2>1
  <2>3. faults' \in 0..MaxFaults
    BY <1>13 DEF Notify
  <2>4. /\ at' = [at EXCEPT ![r] = StepAfter(Steps, "notify")] /\ at[r] = "notify" /\ task[r] \in Compiles
        /\ UNCHANGED <<artifactVars, queueVars, task, copy, stored>>
    BY <1>13 DEF Notify
  <2> QED
    BY <2>2, <2>3, <2>4
<1>14. ASSUME NEW r \in Replicas, Acknowledge(r) PROVE DealInv'
  BY <1>14 DEF Acknowledge
<1>15. ASSUME NEW r \in Replicas, DraftBegins(r) PROVE DealInv'
  BY <1>15 DEF DraftBegins
<1>16. ASSUME NEW r \in Replicas, DraftReads(r) PROVE DealInv'
  BY <1>16 DEF DraftReads
<1>17. ASSUME NEW r \in Replicas, DraftWrites(r) PROVE DealInv'
  BY <1>17 DEF DraftWrites
<1>18. ASSUME NEW r \in Replicas, DraftReadsHandoff(r) PROVE DealInv'
  BY <1>18 DEF DraftReadsHandoff
<1>19. ASSUME NEW r \in Replicas, DraftWritesHandoff(r) PROVE DealInv'
  BY <1>19 DEF DraftWritesHandoff
<1>20. ASSUME NEW r \in Replicas, DraftDone(r) PROVE DealInv'
  BY <1>20 DEF DraftDone
<1>21. ASSUME NEW r \in Replicas, DraftFails(r) PROVE DealInv'
  BY <1>21 DEF DraftFails
<1>22. ASSUME NEW r \in Replicas, DraftRaises(r) PROVE DealInv'
  BY <1>22 DEF DraftRaises
<1>23. ASSUME NEW r \in Replicas, Abandon(r) PROVE DealInv'
  BY <1>23 DEF Abandon
<1>24. ASSUME NEW r \in Replicas, NEW t \in Task, Receive(r, t) PROVE DealInv'
  BY <1>24 DEF Receive
<1>25. ASSUME NEW r \in Replicas, NEW a \in Artifact, Store(r, a) PROVE DealInv'
  BY <1>25 DEF Store
<1>26. ASSUME NEW r \in Replicas, NEW a \in Artifact, StoreFails(r, a) PROVE DealInv'
  BY <1>26 DEF StoreFails
<1>27. ASSUME NEW t \in Task, Lapse(t) PROVE DealInv'
  BY <1>27 DEF Lapse
<1>28. ASSUME NEW c \in Compiles, GiveUp(c) PROVE DealInv'
  BY <1>28 DEF GiveUp
<1>29. CASE BriefGen
  BY <1>29 DEF BriefGen
<1>30. CASE UNCHANGED vars
  BY <1>30 DEF vars
<1> HIDE <1>1, <1>2, <1>3, <1>4, StepsOfCompile DEF DealInv, DealTypes, AtWork
<1> QED
  BY <1>11, <1>12, <1>13, <1>14, <1>15, <1>16, <1>17, <1>18, <1>19, <1>20, <1>21, <1>22, <1>23, <1>24, <1>25, <1>26, <1>27, <1>28, <1>29, <1>30
     DEF Next, Run

\* The initial state is well typed: every replica polls.
LEMMA DealInit == Init => DealInv
<1> SUFFICES ASSUME Init PROVE DealInv
  OBVIOUS
<1>1. Nobody \notin Task /\ Task = Compiles \cup Drafts /\ 0 \in 0..MaxFaults
  BY TasksAssumption DEF Task
<1>2. \A r \in Replicas : AtWork(task[r], at[r])
  BY <1>1 DEF Init, AtWork
<1>3. DealTypes
  BY <1>1 DEF Init, DealTypes, AnyStep
<1> QED
  BY <1>2, <1>3 DEF DealInv

\* DealArtifacts is well typed: a replica takes only the steps of its own task.
THEOREM DealTypeCorrect == Spec => []TypeOK
<1>1. ASSUME DealInv PROVE TypeOK
  <2>1. Compiles \cap Drafts = {} /\ Task = Compiles \cup Drafts
    BY TasksAssumption DEF Task
  <2>2. ASSUME NEW r \in Replicas
        PROVE  CASE task[r] \in Compiles -> at[r] \in ToSet(Steps)
                 [] task[r] \in Drafts   -> at[r] \in ToSet(DraftSteps) \cup {"failed"}
                 [] OTHER                -> at[r] = "poll"
    <3>1. AtWork(task[r], at[r])
      BY <1>1 DEF DealInv
    <3> QED
      BY <2>1, <3>1 DEF AtWork
  <2> QED
    BY <1>1, <2>2 DEF DealInv, DealTypes, TypeOK
<1> QED
  BY <1>1, DealInit, DealStep, PTL DEF Spec
------------------------------------------------------------------------------
\* Every step keeps the envelope before its sidecars.
LEMMA BackedStep ==
  ASSUME DealInv, BackedInv, [Next]_vars
  PROVE  BackedInv'
<1>1. Task = Compiles \cup Drafts /\ Compiles \cap Drafts = {} /\ Nobody \notin Task \cup Replicas
  BY TasksAssumption DEF Task
<1>2. \A s \in ToSet(Steps) \ {"ack"} :
        /\ StepAfter(Steps, s) \in ToSet(Steps) \ {"manifest"}
        /\ StepAfter(Steps, s) = "envelope" <=> s = "manifest"
  BY NextOfCompile
<1>3. ToSet(DraftSteps) = {"running", "read", "write", "handoff_read", "handoff_write", "done", "ack"}
  BY StepsOfDraft
<1> USE <1>1, <1>2, <1>3, StepsOfCompile DEF DealInv, DealTypes, AtWork, BackedInv, SidecarsBacked
<1>11. ASSUME NEW r \in Replicas, SkipUnchanged(r) PROVE BackedInv'
  BY <1>11 DEF SkipUnchanged
<1>12. ASSUME NEW r \in Replicas, Compile(r) PROVE BackedInv'
  BY <1>12 DEF Compile
<1>13. ASSUME NEW r \in Replicas, Notify(r) PROVE BackedInv'
  BY <1>13 DEF Notify
<1>14. ASSUME NEW r \in Replicas, Acknowledge(r) PROVE BackedInv'
  BY <1>14 DEF Acknowledge
<1>15. ASSUME NEW r \in Replicas, DraftBegins(r) PROVE BackedInv'
  BY <1>15 DEF DraftBegins
<1>16. ASSUME NEW r \in Replicas, DraftReads(r) PROVE BackedInv'
  BY <1>16 DEF DraftReads
<1>17. ASSUME NEW r \in Replicas, DraftWrites(r) PROVE BackedInv'
  BY <1>17 DEF DraftWrites
<1>18. ASSUME NEW r \in Replicas, DraftReadsHandoff(r) PROVE BackedInv'
  BY <1>18 DEF DraftReadsHandoff
<1>19. ASSUME NEW r \in Replicas, DraftWritesHandoff(r) PROVE BackedInv'
  BY <1>19 DEF DraftWritesHandoff
<1>20. ASSUME NEW r \in Replicas, DraftDone(r) PROVE BackedInv'
  BY <1>20 DEF DraftDone
<1>21. ASSUME NEW r \in Replicas, DraftFails(r) PROVE BackedInv'
  BY <1>21 DEF DraftFails
<1>22. ASSUME NEW r \in Replicas, DraftRaises(r) PROVE BackedInv'
  BY <1>22 DEF DraftRaises
<1>23. ASSUME NEW r \in Replicas, Abandon(r) PROVE BackedInv'
  BY <1>23 DEF Abandon
<1>24. ASSUME NEW r \in Replicas, NEW t \in Task, Receive(r, t) PROVE BackedInv'
  BY <1>24 DEF Receive
<1>25. ASSUME NEW r \in Replicas, NEW a \in Artifact, Store(r, a) PROVE BackedInv'
  BY <1>25 DEF Store
<1>26. ASSUME NEW r \in Replicas, NEW a \in Artifact, StoreFails(r, a) PROVE BackedInv'
  BY <1>26 DEF StoreFails
<1>27. ASSUME NEW t \in Task, Lapse(t) PROVE BackedInv'
  BY <1>27 DEF Lapse
<1>28. ASSUME NEW c \in Compiles, GiveUp(c) PROVE BackedInv'
  BY <1>28 DEF GiveUp
<1>29. CASE BriefGen
  BY <1>29 DEF BriefGen
<1>30. CASE UNCHANGED vars
  BY <1>30 DEF vars
<1> HIDE <1>1, <1>2, <1>3, StepsOfCompile DEF DealInv, DealTypes, AtWork, BackedInv, SidecarsBacked
<1> QED
  BY <1>11, <1>12, <1>13, <1>14, <1>15, <1>16, <1>17, <1>18, <1>19, <1>20, <1>21, <1>22, <1>23, <1>24, <1>25, <1>26, <1>27, <1>28, <1>29, <1>30
     DEF Next, Run

\* Nothing is stored at first.
LEMMA BackedInit == Init => BackedInv
<1>1. "poll" \notin Sidecars /\ Sidecars \subseteq Artifact
  BY StepsOfCompile
<1> QED
  BY <1>1 DEF Init, BackedInv, SidecarsBacked

\* Of every compile seen in an artifact that is read together with the envelope,
\* the envelope had been written, however compiles and drafts of the deal
\* interleave and wherever they were killed.
THEOREM EnvelopeComesFirst == Spec => []SidecarsBacked
<1>1. Init => BackedInv
  BY BackedInit
<1>2. DealInv /\ BackedInv /\ [Next]_vars => BackedInv'
  BY BackedStep
<1>3. BackedInv => SidecarsBacked
  BY DEF BackedInv
<1> QED
  BY <1>1, <1>2, <1>3, DealInit, DealStep, PTL DEF Spec

\* A compile is skipped only when the same documents in the same scope have been
\* compiled and their envelope stored: the fingerprint it goes by is a sidecar.
THEOREM SkipsAreCompiled == Spec => SkippedWasCompiled
<1>1. Init => BackedInv
  BY BackedInit
<1>2. DealInv /\ BackedInv /\ [Next]_vars => BackedInv'
  BY BackedStep
<1>3. ASSUME DealInv, BackedInv, [Next]_vars
      PROVE  \A r \in Replicas : at[r] = "manifest" /\ at'[r] = "ack" =>
               \E c \in stored : DocsOf[c] = DocsOf[task[r]] /\ ScopeOf[c] = ScopeOf[task[r]]
  <2> SUFFICES ASSUME NEW r \in Replicas, at[r] = "manifest", at'[r] = "ack"
               PROVE  \E c \in stored : DocsOf[c] = DocsOf[task[r]] /\ ScopeOf[c] = ScopeOf[task[r]]
    OBVIOUS
  <2>1. Artifact \subseteq {"envelope", "idempotency", "scope", "sow", "trace", "atoms", "result"}
    BY StepsOfCompile
  <2>2. ToSet(DraftSteps) = {"running", "read", "write", "handoff_read", "handoff_write", "done", "ack"}
    BY StepsOfDraft
  <2>3. ToSet(Steps) \cap {"running", "read", "write", "handoff_read", "handoff_write", "done"} = {}
        /\ "manifest" \in ToSet(Steps)
    BY StepsOfCompile
  <2>4. StepAfter(Steps, "manifest") = "envelope"
    BY <2>3, NextOfCompile
  <2>5. task[r] \in Compiles /\ at \in [Replicas -> AnyStep]
    BY <1>3, <2>2, TasksAssumption DEF DealInv, DealTypes, AtWork, Task
  <2>6. ~ Compile(r)
    BY <2>4, <2>5 DEF Compile
  <2>7. SkipUnchanged(r)
    <3> USE <1>3, <2>1, <2>5 DEF AnyStep
    <3>1. ASSUME NEW q \in Replicas, Notify(q) PROVE FALSE
      BY <3>1 DEF Notify
    <3>2. ASSUME NEW q \in Replicas, Acknowledge(q) PROVE FALSE
      BY <3>2 DEF Acknowledge
    <3>3. ASSUME NEW q \in Replicas, DraftBegins(q) PROVE FALSE
      BY <3>3 DEF DraftBegins
    <3>4. ASSUME NEW q \in Replicas, DraftReads(q) PROVE FALSE
      BY <3>4 DEF DraftReads
    <3>5. ASSUME NEW q \in Replicas, DraftWrites(q) PROVE FALSE
      BY <3>5 DEF DraftWrites
    <3>6. ASSUME NEW q \in Replicas, DraftReadsHandoff(q) PROVE FALSE
      BY <3>6 DEF DraftReadsHandoff
    <3>7. ASSUME NEW q \in Replicas, DraftWritesHandoff(q) PROVE FALSE
      BY <3>7 DEF DraftWritesHandoff
    <3>8. ASSUME NEW q \in Replicas, DraftDone(q) PROVE FALSE
      BY <3>8 DEF DraftDone
    <3>9. ASSUME NEW q \in Replicas, DraftFails(q) PROVE FALSE
      BY <3>9 DEF DraftFails
    <3>10. ASSUME NEW q \in Replicas, DraftRaises(q) PROVE FALSE
      BY <3>10 DEF DraftRaises
    <3>11. ASSUME NEW q \in Replicas, Abandon(q) PROVE FALSE
      BY <3>11 DEF Abandon
    <3>12. ASSUME NEW q \in Replicas, NEW t \in Task, Receive(q, t) PROVE FALSE
      BY <3>12 DEF Receive
    <3>13. ASSUME NEW q \in Replicas, NEW a \in Artifact, Store(q, a) PROVE FALSE
      BY <3>13 DEF Store
    <3>14. ASSUME NEW q \in Replicas, NEW a \in Artifact, StoreFails(q, a) PROVE FALSE
      BY <3>14 DEF StoreFails
    <3>15. ASSUME NEW q \in Replicas, SkipUnchanged(q) \/ Compile(q) PROVE q = r
      BY <3>15 DEF SkipUnchanged, Compile
    <3>16. at' # at
      OBVIOUS
    <3> QED
      BY <2>6, <3>1, <3>2, <3>3, <3>4, <3>5, <3>6, <3>7, <3>8, <3>9, <3>10, <3>11, <3>12, <3>13, <3>14, <3>15, <3>16
         DEF Next, Run, Lapse, GiveUp, BriefGen, vars
  <2>8. PICK f \in Compiles : /\ blob["idempotency"] = f
                            /\ DocsOf[f] = DocsOf[task[r]] /\ ScopeOf[f] = ScopeOf[task[r]]
    BY <2>7 DEF SkipUnchanged, Unchanged
  <2>9. blob["idempotency"] \in stored \cup {Nobody}
    BY <1>3, StepsOfCompile DEF BackedInv, SidecarsBacked
  <2>10. f \in stored
    BY <2>8, <2>9, TasksAssumption DEF Task
  <2> QED
    BY <2>8, <2>10
<1> QED
  BY <1>1, <1>2, <1>3, DealInit, DealStep, PTL DEF Spec, SkippedWasCompiled
==============================================================================
