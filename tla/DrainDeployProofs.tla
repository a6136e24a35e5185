--------------------------- MODULE DrainDeployProofs ---------------------------
(***************************************************************************)
(* What holds of DrainDeploy for any number of replicas, messages and      *)
(* deploys side by side, whatever goes wrong.                              *)
(***************************************************************************)
EXTENDS DrainDeploy, TLAPS

USE DEF workerVars, deployVars, historyVars, Fault, Go, Step, Unmark, Finished

\* No two replicas have the same message, and no deploy sleeps past its deadline.
HeldOnce ==
  /\ \A r, s \in Replicas : held[r] = held[s] /\ held[r] # Nothing => r = s
  /\ \A d \in Deploys : deploy[d] = "asleep" => rounds[d] < Deadline

DrainTypeInv == TypeOK /\ HeldOnce

\* A compile has its marker from before its stages, and while it is in them the
\* marker is fresh.
MarkedWhileStaging ==
  \A r \in Replicas : /\ at[r] \in {"preparing", "staging"} => held[r] \in marked
                      /\ at[r] = "staging" => age[held[r]] < Fresh

\* Without a sentinel nothing is taken under one; under a sentinel that can be
\* read, a replica that has taken a message does not get past the gate again.
OnceUnderSentinel ==
  \A r \in Replicas : /\ ~ sentinel => taken[r] = 0
                      /\ "read" \notin trouble => taken[r] <= 1
                      /\ "read" \notin trouble /\ at[r] = "receive" => taken[r] = 0

\* No marker is younger than the last sign of life of a compile.
QuietSince == \A m \in Messages : quiet <= age[m]

\* Old replicas are waited for by the deploy that rolled them, and a deploy that
\* drains has its sentinel, unless that was given up.
DrainUpheld ==
  /\ \A r \in Replicas : replica[r] = "dying" /\ "wait" \notin trouble =>
       \E d \in Deploys : deploy[d] = "wait"
  /\ ~ robbed /\ forced = {} =>
       \A d \in Deploys : deploy[d] \in Draining => sentinel
------------------------------------------------------------------------------
\* Every step keeps the types, and what is held apart.
LEMMA DrainTypeStep ==
  ASSUME DrainTypeInv, [Next]_vars
  PROVE  DrainTypeInv'
<1> USE DeployAssumption DEF DrainTypeInv, TypeOK, AsItDoes, HeldOnce, Place, Working, DeployPlace, Draining
<1>1. ASSUME NEW r \in Replicas, Gate(r) PROVE DrainTypeInv'
  BY <1>1 DEF Gate
<1>2. ASSUME NEW r \in Replicas, Receive(r) PROVE DrainTypeInv'
  BY <1>2 DEF Receive
<1>3. ASSUME NEW r \in Replicas, Start(r) PROVE DrainTypeInv'
  BY <1>3 DEF Start
<1>4. ASSUME NEW r \in Replicas, Touch(r) PROVE DrainTypeInv'
  BY <1>4 DEF Touch
<1>5. ASSUME NEW r \in Replicas, Finish(r) PROVE DrainTypeInv'
  BY <1>5 DEF Finish
<1>19. ASSUME NEW r \in Replicas, Project(r) PROVE DrainTypeInv'
  BY <1>19 DEF Project
<1>6. ASSUME NEW r \in Replicas, Settle(r) PROVE DrainTypeInv'
  BY <1>6 DEF Settle
<1>7. ASSUME NEW r \in Replicas, Crash(r) PROVE DrainTypeInv'
  BY <1>7 DEF Crash
<1>8. ASSUME NEW r \in Replicas, Terminate(r) PROVE DrainTypeInv'
  BY <1>8 DEF Terminate
<1>9. ASSUME NEW r \in Replicas, Provision(r) PROVE DrainTypeInv'
  BY <1>9 DEF Provision
<1>10. ASSUME NEW d \in Deploys, StepFails(d) PROVE DrainTypeInv'
  BY <1>10 DEF StepFails
<1>11. ASSUME NEW d \in Deploys, ForceRoll(d) PROVE DrainTypeInv'
  BY <1>11 DEF ForceRoll
<1>12. ASSUME NEW d \in Deploys, WriteSentinel(d) PROVE DrainTypeInv'
  BY <1>12 DEF WriteSentinel
<1>13. ASSUME NEW d \in Deploys, Count(d) PROVE DrainTypeInv'
  BY <1>13 DEF Count
<1>14. ASSUME NEW d \in Deploys, Roll(d) PROVE DrainTypeInv'
  BY <1>14 DEF Roll
<1>15. ASSUME NEW d \in Deploys, OldOnesGone(d) PROVE DrainTypeInv'
  BY <1>15 DEF OldOnesGone
<1>16. ASSUME NEW d \in Deploys, Remove(d) PROVE DrainTypeInv'
  <2>1. robbed' \in BOOLEAN
    BY <1>16 DEF Remove
  <2>2. /\ sentinel' \in BOOLEAN /\ taken' \in [Replicas -> 0..2] /\ trouble' \subseteq Faults
        /\ deploy' = [deploy EXCEPT ![d] = "over"] /\ rounds' = [rounds EXCEPT ![d] = 0]
        /\ UNCHANGED <<queue, age, marked, replica, at, held, forced, quiet>>
    <3>1. CASE sentinel' = FALSE /\ taken' = [r \in Replicas |-> 0] /\ UNCHANGED trouble
      <4>1. sentinel' \in BOOLEAN
        BY <3>1
      <4>2. taken' \in [Replicas -> 0..2] /\ trouble' \subseteq Faults
        BY <3>1
      <4>3. /\ deploy' = [deploy EXCEPT ![d] = "over"] /\ rounds' = [rounds EXCEPT ![d] = 0]
            /\ UNCHANGED <<queue, age, marked, replica, at, held, forced, quiet>>
        BY <1>16 DEF Remove
      <4> QED
        BY <4>1, <4>2, <4>3
    <3>2. CASE Fault("remove") /\ UNCHANGED <<sentinel, taken, robbed>>
      BY <1>16, <3>2 DEF Remove
    <3> QED
      BY <1>16, <3>1, <3>2 DEF Remove
  <2> QED
    BY <2>1, <2>2
<1>17. CASE Pass
  BY <1>17 DEF Pass
<1>18. CASE UNCHANGED vars
  BY <1>18 DEF vars
<1> HIDE DeployAssumption DEF DrainTypeInv, TypeOK, AsItDoes, HeldOnce, Place, Working, DeployPlace, Draining
<1> QED
  BY <1>1, <1>2, <1>3, <1>4, <1>5, <1>6, <1>7, <1>8, <1>9, <1>10, <1>11, <1>12, <1>13, <1>14, <1>15, <1>16, <1>17, <1>18, <1>19
     DEF Next, Worker, Deploy

\* The initial state is well typed, and nothing is held in it.
LEMMA DrainTypeInit == Init => DrainTypeInv
<1> SUFFICES ASSUME Init PROVE DrainTypeInv
  OBVIOUS
<1>1. /\ age \in [Messages -> 0..Fresh] /\ rounds \in [Deploys -> 0..Deadline]
      /\ taken \in [Replicas -> 0..2] /\ quiet \in 0..Fresh
  BY DeployAssumption DEF Init
<1>3. /\ replica \in [Replicas -> {"current", "dying", "none"}]
      /\ at \in [Replicas -> Place] /\ held \in [Replicas -> Messages \cup {Nothing}]
      /\ deploy \in [Deploys -> DeployPlace]   BY DEF Init, Place, Working, DeployPlace
<1>4. /\ sentinel \in BOOLEAN /\ queue \subseteq Messages /\ marked \subseteq Messages
      /\ robbed \in BOOLEAN /\ forced \subseteq Deploys /\ trouble \subseteq Faults
  BY DEF Init
<1>5. AsItDoes
  BY DeployAssumption DEF Init, AsItDoes, Working
<1>6. TypeOK
  BY <1>1, <1>3, <1>4, <1>5 DEF TypeOK
<1>2. HeldOnce
  BY DEF Init, HeldOnce
<1> QED
  BY <1>2, <1>6 DEF DrainTypeInv

\* DrainDeploy is well typed: a replica has a message exactly where its code has
\* one, and no message is both held and in the queue.
THEOREM DrainTypeCorrect == Spec => []TypeOK
<1>1. DrainTypeInv => TypeOK
  BY DEF DrainTypeInv
<1> QED
  BY <1>1, DrainTypeInit, DrainTypeStep, PTL DEF Spec
------------------------------------------------------------------------------
\* Every step keeps the markers of compiles in their stages fresh.
LEMMA MarkerStep ==
  ASSUME DrainTypeInv, MarkedWhileStaging, [Next]_vars
  PROVE  MarkedWhileStaging'
<1> USE DeployAssumption DEF DrainTypeInv, TypeOK, AsItDoes, HeldOnce, Working, MarkedWhileStaging
<1>1. ASSUME NEW r \in Replicas, Gate(r) PROVE MarkedWhileStaging'
  BY <1>1 DEF Gate
<1>2. ASSUME NEW r \in Replicas, Receive(r) PROVE MarkedWhileStaging'
  BY <1>2 DEF Receive
<1>3. ASSUME NEW r \in Replicas, Start(r) PROVE MarkedWhileStaging'
  BY <1>3 DEF Start
<1>4. ASSUME NEW r \in Replicas, Touch(r) PROVE MarkedWhileStaging'
  BY <1>4 DEF Touch
<1>5. ASSUME NEW r \in Replicas, Finish(r) PROVE MarkedWhileStaging'
  BY <1>5 DEF Finish
<1>19. ASSUME NEW r \in Replicas, Project(r) PROVE MarkedWhileStaging'
  BY <1>19 DEF Project
<1>6. ASSUME NEW r \in Replicas, Settle(r) PROVE MarkedWhileStaging'
  BY <1>6 DEF Settle
<1>7. ASSUME NEW r \in Replicas, Crash(r) PROVE MarkedWhileStaging'
  BY <1>7 DEF Crash
<1>8. ASSUME NEW r \in Replicas, Terminate(r) PROVE MarkedWhileStaging'
  BY <1>8 DEF Terminate
<1>9. ASSUME NEW r \in Replicas, Provision(r) PROVE MarkedWhileStaging'
  BY <1>9 DEF Provision
<1>10. ASSUME NEW d \in Deploys, StepFails(d) PROVE MarkedWhileStaging'
  BY <1>10 DEF StepFails
<1>11. ASSUME NEW d \in Deploys, ForceRoll(d) PROVE MarkedWhileStaging'
  BY <1>11 DEF ForceRoll
<1>12. ASSUME NEW d \in Deploys, WriteSentinel(d) PROVE MarkedWhileStaging'
  BY <1>12 DEF WriteSentinel
<1>13. ASSUME NEW d \in Deploys, Count(d) PROVE MarkedWhileStaging'
  BY <1>13 DEF Count
<1>14. ASSUME NEW d \in Deploys, Roll(d) PROVE MarkedWhileStaging'
  BY <1>14 DEF Roll
<1>15. ASSUME NEW d \in Deploys, OldOnesGone(d) PROVE MarkedWhileStaging'
  BY <1>15 DEF OldOnesGone
<1>16. ASSUME NEW d \in Deploys, Remove(d) PROVE MarkedWhileStaging'
  BY <1>16 DEF Remove
<1>17. CASE Pass
  BY <1>17 DEF Pass, Staging
<1>18. CASE UNCHANGED vars
  BY <1>18 DEF vars
<1> HIDE DeployAssumption DEF DrainTypeInv, TypeOK, AsItDoes, HeldOnce, Working, MarkedWhileStaging
<1> QED
  BY <1>1, <1>2, <1>3, <1>4, <1>5, <1>6, <1>7, <1>8, <1>9, <1>10, <1>11, <1>12, <1>13, <1>14, <1>15, <1>16, <1>17, <1>18, <1>19
     DEF Next, Worker, Deploy

\* A deploy goes on from its drain to its roll only when no compile is in its
\* stages, on whichever replica, and whatever another deploy does meanwhile.
THEOREM DrainSparesStages == Spec => RollSparesStages
<1>1. Init => MarkedWhileStaging
  BY DEF Init, MarkedWhileStaging
<1>2. DrainTypeInv /\ MarkedWhileStaging /\ [Next]_vars => MarkedWhileStaging'
  BY MarkerStep
<1>3. ASSUME DrainTypeInv, MarkedWhileStaging, [Next]_vars
      PROVE  \A d \in Deploys : deploy[d] = "count" /\ deploy'[d] = "roll" => Staging = {}
  <2> USE DeployAssumption DEF DrainTypeInv, TypeOK, AsItDoes
  <2>1. ASSUME NEW d \in Deploys, deploy[d] = "count", deploy'[d] = "roll" PROVE Count(d)
    BY <1>3, <2>1 DEF Next, Worker, Deploy, Gate, Receive, Start, Touch, Project, Finish, Settle, Crash, Terminate,
       Provision, StepFails, ForceRoll, WriteSentinel, Count, Roll, OldOnesGone, Remove, Pass, vars
  <2>2. ASSUME NEW d \in Deploys, deploy[d] = "count", deploy'[d] = "roll" PROVE Live = {}
    BY <1>3, <2>1, <2>2 DEF Count
  <2>3. ASSUME NEW r \in Replicas, at[r] = "staging" PROVE held[r] \in Live
    BY <1>3, <2>3 DEF MarkedWhileStaging, Live
  <2> QED
    BY <2>2, <2>3 DEF Staging
<1> QED
  BY <1>1, <1>2, <1>3, DrainTypeInit, DrainTypeStep, PTL DEF Spec, RollSparesStages
------------------------------------------------------------------------------
\* Every step keeps what was taken under the sentinel apart from the gate.
LEMMA SentinelStep ==
  ASSUME DrainTypeInv, OnceUnderSentinel, [Next]_vars
  PROVE  OnceUnderSentinel'
<1> USE DeployAssumption DEF DrainTypeInv, TypeOK, AsItDoes, OnceUnderSentinel
<1>1. ASSUME NEW r \in Replicas, Gate(r) PROVE OnceUnderSentinel'
  BY <1>1 DEF Gate
<1>2. ASSUME NEW r \in Replicas, Receive(r) PROVE OnceUnderSentinel'
  BY <1>2 DEF Receive
<1>3. ASSUME NEW r \in Replicas, Start(r) PROVE OnceUnderSentinel'
  BY <1>3 DEF Start
<1>4. ASSUME NEW r \in Replicas, Touch(r) PROVE OnceUnderSentinel'
  BY <1>4 DEF Touch
<1>5. ASSUME NEW r \in Replicas, Finish(r) PROVE OnceUnderSentinel'
  BY <1>5 DEF Finish
<1>19. ASSUME NEW r \in Replicas, Project(r) PROVE OnceUnderSentinel'
  BY <1>19 DEF Project
<1>6. ASSUME NEW r \in Replicas, Settle(r) PROVE OnceUnderSentinel'
  BY <1>6 DEF Settle
<1>7. ASSUME NEW r \in Replicas, Crash(r) PROVE OnceUnderSentinel'
  BY <1>7 DEF Crash
<1>8. ASSUME NEW r \in Replicas, Terminate(r) PROVE OnceUnderSentinel'
  BY <1>8 DEF Terminate
<1>9. ASSUME NEW r \in Replicas, Provision(r) PROVE OnceUnderSentinel'
  BY <1>9 DEF Provision
<1>10. ASSUME NEW d \in Deploys, StepFails(d) PROVE OnceUnderSentinel'
  BY <1>10 DEF StepFails
<1>11. ASSUME NEW d \in Deploys, ForceRoll(d) PROVE OnceUnderSentinel'
  BY <1>11 DEF ForceRoll
<1>12. ASSUME NEW d \in Deploys, WriteSentinel(d) PROVE OnceUnderSentinel'
  BY <1>12 DEF WriteSentinel
<1>13. ASSUME NEW d \in Deploys, Count(d) PROVE OnceUnderSentinel'
  BY <1>13 DEF Count
<1>14. ASSUME NEW d \in Deploys, Roll(d) PROVE OnceUnderSentinel'
  BY <1>14 DEF Roll
<1>15. ASSUME NEW d \in Deploys, OldOnesGone(d) PROVE OnceUnderSentinel'
  BY <1>15 DEF OldOnesGone
<1>16. ASSUME NEW d \in Deploys, Remove(d) PROVE OnceUnderSentinel'
  BY <1>16 DEF Remove
<1>17. CASE Pass
  BY <1>17 DEF Pass
<1>18. CASE UNCHANGED vars
  BY <1>18 DEF vars
<1> HIDE DeployAssumption DEF DrainTypeInv, TypeOK, AsItDoes, OnceUnderSentinel
<1> QED
  BY <1>1, <1>2, <1>3, <1>4, <1>5, <1>6, <1>7, <1>8, <1>9, <1>10, <1>11, <1>12, <1>13, <1>14, <1>15, <1>16, <1>17, <1>18, <1>19
     DEF Next, Worker, Deploy

\* Under one sentinel a replica takes at most the message it was on its way to,
\* unless it could not read the sentinel.
THEOREM DrainTakesOneMore == Spec => []OneMoreEach
<1>1. Init => OnceUnderSentinel
  BY DEF Init, OnceUnderSentinel
<1>2. DrainTypeInv /\ OnceUnderSentinel /\ [Next]_vars => OnceUnderSentinel'
  BY SentinelStep
<1>3. DrainTypeInv /\ OnceUnderSentinel => OneMoreEach
  BY DEF DrainTypeInv, TypeOK, AsItDoes, OnceUnderSentinel, OneMoreEach
<1> QED
  BY <1>1, <1>2, <1>3, DrainTypeInit, DrainTypeStep, PTL DEF Spec
------------------------------------------------------------------------------
\* Every step keeps the markers no younger than the last sign of life.
LEMMA QuietStep ==
  ASSUME DrainTypeInv, QuietSince, [Next]_vars
  PROVE  QuietSince'
<1> USE DeployAssumption DEF DrainTypeInv, TypeOK, AsItDoes, QuietSince
<1>1. ASSUME NEW r \in Replicas, Gate(r) PROVE QuietSince'
  BY <1>1 DEF Gate
<1>2. ASSUME NEW r \in Replicas, Receive(r) PROVE QuietSince'
  BY <1>2 DEF Receive
<1>3. ASSUME NEW r \in Replicas, Start(r) PROVE QuietSince'
  BY <1>3 DEF Start
<1>4. ASSUME NEW r \in Replicas, Touch(r) PROVE QuietSince'
  BY <1>4 DEF Touch
<1>5. ASSUME NEW r \in Replicas, Finish(r) PROVE QuietSince'
  BY <1>5 DEF Finish
<1>19. ASSUME NEW r \in Replicas, Project(r) PROVE QuietSince'
  BY <1>19 DEF Project
<1>6. ASSUME NEW r \in Replicas, Settle(r) PROVE QuietSince'
  BY <1>6 DEF Settle
<1>7. ASSUME NEW r \in Replicas, Crash(r) PROVE QuietSince'
  BY <1>7 DEF Crash
<1>8. ASSUME NEW r \in Replicas, Terminate(r) PROVE QuietSince'
  BY <1>8 DEF Terminate
<1>9. ASSUME NEW r \in Replicas, Provision(r) PROVE QuietSince'
  BY <1>9 DEF Provision
<1>10. ASSUME NEW d \in Deploys, StepFails(d) PROVE QuietSince'
  BY <1>10 DEF StepFails
<1>11. ASSUME NEW d \in Deploys, ForceRoll(d) PROVE QuietSince'
  BY <1>11 DEF ForceRoll
<1>12. ASSUME NEW d \in Deploys, WriteSentinel(d) PROVE QuietSince'
  BY <1>12 DEF WriteSentinel
<1>13. ASSUME NEW d \in Deploys, Count(d) PROVE QuietSince'
  BY <1>13 DEF Count
<1>14. ASSUME NEW d \in Deploys, Roll(d) PROVE QuietSince'
  BY <1>14 DEF Roll
<1>15. ASSUME NEW d \in Deploys, OldOnesGone(d) PROVE QuietSince'
  BY <1>15 DEF OldOnesGone
<1>16. ASSUME NEW d \in Deploys, Remove(d) PROVE QuietSince'
  BY <1>16 DEF Remove
<1>17. CASE Pass
  BY <1>17 DEF Pass
<1>18. CASE UNCHANGED vars
  BY <1>18 DEF vars
<1> HIDE DeployAssumption DEF DrainTypeInv, TypeOK, AsItDoes, QuietSince
<1> QED
  BY <1>1, <1>2, <1>3, <1>4, <1>5, <1>6, <1>7, <1>8, <1>9, <1>10, <1>11, <1>12, <1>13, <1>14, <1>15, <1>16, <1>17, <1>18, <1>19
     DEF Next, Worker, Deploy

\* A deploy gives up on its drain only when a compile gave a sign of life within
\* the last Fresh rounds: a marker that nobody touches does not hold it.
THEOREM DrainHeldByLive == Spec => OnlyLiveHolds
<1>1. Init => QuietSince
  BY DeployAssumption DEF Init, QuietSince
<1>2. DrainTypeInv /\ QuietSince /\ [Next]_vars => QuietSince'
  BY QuietStep
<1>3. ASSUME DrainTypeInv, QuietSince, [Next]_vars
      PROVE  \A d \in Deploys : deploy[d] = "count" /\ deploy'[d] = "late" => quiet < Fresh
  <2> USE DeployAssumption DEF DrainTypeInv, TypeOK, AsItDoes
  <2>1. ASSUME NEW d \in Deploys, deploy[d] = "count", deploy'[d] = "late" PROVE Count(d)
    BY <1>3, <2>1 DEF Next, Worker, Deploy, Gate, Receive, Start, Touch, Project, Finish, Settle, Crash, Terminate,
       Provision, StepFails, ForceRoll, WriteSentinel, Count, Roll, OldOnesGone, Remove, Pass, vars
  <2>2. ASSUME NEW d \in Deploys, deploy[d] = "count", deploy'[d] = "late" PROVE quiet < Fresh
    <3>1. Live # {}
      BY <1>3, <2>1, <2>2 DEF Count
    <3>2. PICK m \in Messages : age[m] < Fresh
      BY <1>3, <3>1 DEF Live
    <3> QED
      BY <1>3, <3>2 DEF QuietSince
  <2> QED
    BY <2>2
<1> QED
  BY <1>1, <1>2, <1>3, DrainTypeInit, DrainTypeStep, PTL DEF Spec, OnlyLiveHolds
------------------------------------------------------------------------------
\* Every step keeps the drain up for as long as old replicas are waited for.
LEMMA UpholdStep ==
  ASSUME DrainTypeInv, DrainUpheld, [Next]_vars
  PROVE  DrainUpheld'
<1> USE DeployAssumption DEF DrainTypeInv, TypeOK, AsItDoes, DrainUpheld, Draining
<1>1. ASSUME NEW r \in Replicas, Gate(r) PROVE DrainUpheld'
  BY <1>1 DEF Gate
<1>2. ASSUME NEW r \in Replicas, Receive(r) PROVE DrainUpheld'
  BY <1>2 DEF Receive
<1>3. ASSUME NEW r \in Replicas, Start(r) PROVE DrainUpheld'
  BY <1>3 DEF Start
<1>4. ASSUME NEW r \in Replicas, Touch(r) PROVE DrainUpheld'
  BY <1>4 DEF Touch
<1>5. ASSUME NEW r \in Replicas, Finish(r) PROVE DrainUpheld'
  BY <1>5 DEF Finish
<1>19. ASSUME NEW r \in Replicas, Project(r) PROVE DrainUpheld'
  BY <1>19 DEF Project
<1>6. ASSUME NEW r \in Replicas, Settle(r) PROVE DrainUpheld'
  BY <1>6 DEF Settle
<1>7. ASSUME NEW r \in Replicas, Crash(r) PROVE DrainUpheld'
  BY <1>7 DEF Crash
<1>8. ASSUME NEW r \in Replicas, Terminate(r) PROVE DrainUpheld'
  BY <1>8 DEF Terminate
<1>9. ASSUME NEW r \in Replicas, Provision(r) PROVE DrainUpheld'
  BY <1>9 DEF Provision
<1>10. ASSUME NEW d \in Deploys, StepFails(d) PROVE DrainUpheld'
  BY <1>10 DEF StepFails
<1>11. ASSUME NEW d \in Deploys, ForceRoll(d) PROVE DrainUpheld'
  BY <1>11 DEF ForceRoll
<1>12. ASSUME NEW d \in Deploys, WriteSentinel(d) PROVE DrainUpheld'
  BY <1>12 DEF WriteSentinel
<1>13. ASSUME NEW d \in Deploys, Count(d) PROVE DrainUpheld'
  BY <1>13 DEF Count
<1>14. ASSUME NEW d \in Deploys, Roll(d) PROVE DrainUpheld'
  BY <1>14 DEF Roll
<1>15. ASSUME NEW d \in Deploys, OldOnesGone(d) PROVE DrainUpheld'
  BY <1>15 DEF OldOnesGone
<1>16. ASSUME NEW d \in Deploys, Remove(d) PROVE DrainUpheld'
  BY <1>16 DEF Remove
<1>17. CASE Pass
  BY <1>17 DEF Pass
<1>18. CASE UNCHANGED vars
  BY <1>18 DEF vars
<1> HIDE DeployAssumption DEF DrainTypeInv, TypeOK, AsItDoes, DrainUpheld, Draining
<1> QED
  BY <1>1, <1>2, <1>3, <1>4, <1>5, <1>6, <1>7, <1>8, <1>9, <1>10, <1>11, <1>12, <1>13, <1>14, <1>15, <1>16, <1>17, <1>18, <1>19
     DEF Next, Worker, Deploy

\* An old replica takes no message after the roll, unless a fault, a forced roll or
\* another deploy undid the drain: the deploy that rolled it is still waiting, and
\* its sentinel is up.
THEOREM DyingIsDrained == Spec => DyingTakesNothing
<1>1. Init => DrainUpheld
  BY DEF Init, DrainUpheld, Draining
<1>2. DrainTypeInv /\ DrainUpheld /\ [Next]_vars => DrainUpheld'
  BY UpholdStep
<1>3. ASSUME DrainTypeInv, DrainUpheld, [Next]_vars
      PROVE  \A r \in Replicas :
               at[r] = "poll" /\ at'[r] = "receive" /\ replica[r] = "dying"
                 => robbed \/ forced # {} \/ trouble' \cap {"read", "wait"} # {}
  <2> USE DEF DrainTypeInv, TypeOK, AsItDoes
  <2>1. ASSUME NEW r \in Replicas, at[r] = "poll", at'[r] = "receive" PROVE Gate(r)
    BY <1>3, <2>1 DEF Next, Worker, Deploy, Gate, Receive, Start, Touch, Project, Finish, Settle, Crash, Terminate,
       Provision, StepFails, ForceRoll, WriteSentinel, Count, Roll, OldOnesGone, Remove, Pass, vars
  <2>2. ASSUME NEW r \in Replicas, at[r] = "poll", at'[r] = "receive", replica[r] = "dying"
        PROVE  robbed \/ forced # {} \/ trouble' \cap {"read", "wait"} # {}
    <3>1. CASE sentinel
      BY <2>1, <2>2, <3>1 DEF Gate
    <3>2. CASE ~ sentinel
      <4>1. trouble \subseteq trouble'
        BY <2>1, <2>2 DEF Gate
      <4>2. robbed \/ forced # {} \/ "wait" \in trouble
        BY <1>3, <2>2, <3>2 DEF DrainUpheld, Draining
      <4> QED
        BY <4>1, <4>2
    <3> QED
      BY <3>1, <3>2
  <2> QED
    BY <2>2
<1> QED
  BY <1>1, <1>2, <1>3, DrainTypeInit, DrainTypeStep, PTL DEF Spec, DyingTakesNothing
===============================================================================
