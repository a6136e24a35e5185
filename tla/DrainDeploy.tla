------------------------------ MODULE DrainDeploy ------------------------------
(***************************************************************************)
(* A rolling deploy of the warm worker (.github/workflows/deploy-dev.yml)  *)
(* and the worker's drain gate (src/parser_os_worker/drain.py, main.py).   *)
(* The deploy writes a sentinel that keeps replicas from taking the next   *)
(* message, waits until no marker of a running compile is fresh, rolls,    *)
(* waits for the old replicas to go, and removes the sentinel whatever     *)
(* happened.  Nothing keeps two deploys from running side by side.         *)
(*                                                                         *)
(* Time passes in rounds, the 60 seconds between two looks at the markers. *)
(* A compile touches its marker every few seconds from the first report of *)
(* a parser stage to the end of the last one, and neither while it reads   *)
(* its documents nor while it projects, renders and uploads.               *)
(***************************************************************************)
EXTENDS Naturals, FiniteSets

CONSTANTS
  Replicas, Messages, Deploys, Nothing,
  Skipped,     \* deploys whose guard says to leave the deployment alone
  Fresh,       \* FRESH_SEC, in rounds
  Deadline,    \* the 60 minutes, in rounds
  Faults,      \* what may go wrong, each once
  MaxFaults    \* and how much of it in all

FaultKinds == {"read", "wait", "remove", "crash"}

ASSUME DeployAssumption ==
  /\ Skipped \subseteq Deploys /\ Nothing \notin Messages /\ IsFiniteSet(Messages)
  /\ Fresh \in Nat \ {0} /\ Deadline \in Nat /\ Fresh < Deadline
  /\ Faults \subseteq FaultKinds /\ MaxFaults \in Nat

VARIABLES
  sentinel,   \* control/parser-os-worker.drain exists
  queue,      \* messages that can be received
  age,        \* rounds since each message's marker was written; Fresh and older is Fresh
  marked,     \* the messages that have a marker
  replica,    \* what each replica is to the current revision
  at, held,   \* where it is, and the message it has
  deploy,     \* where each deploy is
  rounds,     \* how often it has found compiles running
  taken,      \* history: messages a replica has taken under the same sentinel
  quiet,      \* history: rounds since a compile last gave a sign of life
  forced,     \* deploys with force_roll
  robbed,     \* history: a sentinel has been removed from under a deploy
  trouble     \* history: what has gone wrong

workerVars == <<queue, age, marked, replica, at, held, taken>>
deployVars == <<sentinel, deploy, rounds, forced>>
historyVars == <<robbed, trouble>>
vars == <<workerVars, deployVars, historyVars, quiet>>

Draining == {"count", "asleep", "roll", "wait"}
DeployPlace == Draining \cup {"begin", "late", "remove", "over"}
Working == {"preparing", "staging", "projecting"}
Place == Working \cup {"off", "poll", "receive", "held", "closing"}

\* A replica has a message where its code has one, and only a replica that is up
\* does anything.
AsItDoes ==
  \A r \in Replicas : /\ at[r] = "off" <=> replica[r] = "none"
                      /\ at[r] \in Working \cup {"held", "closing"} <=> held[r] # Nothing
                      /\ held[r] \notin queue

\* The types, and the replicas in agreement with their code.
TypeOK ==
  /\ sentinel \in BOOLEAN
  /\ queue \subseteq Messages /\ marked \subseteq Messages
  /\ age \in [Messages -> 0..Fresh]
  /\ replica \in [Replicas -> {"current", "dying", "none"}]
  /\ at \in [Replicas -> Place] /\ held \in [Replicas -> Messages \cup {Nothing}]
  /\ deploy \in [Deploys -> DeployPlace] /\ rounds \in [Deploys -> 0..Deadline]
  /\ taken \in [Replicas -> 0..2] /\ quiet \in 0..Fresh
  /\ robbed \in BOOLEAN /\ forced \subseteq Deploys /\ trouble \subseteq Faults
  /\ AsItDoes
------------------------------------------------------------------------------
Init ==
  /\ sentinel = FALSE /\ queue = Messages /\ marked = {} /\ age = [m \in Messages |-> Fresh]
  /\ replica = [r \in Replicas |-> "current"]
  /\ at = [r \in Replicas |-> "poll"] /\ held = [r \in Replicas |-> Nothing]
  /\ deploy = [d \in Deploys |-> "begin"] /\ rounds = [d \in Deploys |-> 0]
  /\ taken = [r \in Replicas |-> 0] /\ quiet = Fresh
  /\ robbed = FALSE /\ forced = {} /\ trouble = {}

Fault(kind) ==
  /\ kind \in Faults \ trouble /\ Cardinality(trouble) < MaxFaults
  /\ trouble' = trouble \cup {kind}
Go(r, place) == at' = [at EXCEPT ![r] = place]
\* What the replicas are in the parser's stages with.
Staging == {held[r] : r \in {s \in Replicas : at[s] = "staging"}}

Unmark(r) ==
  /\ marked' = marked \ {held[r]}
  /\ age' = [m \in Messages |-> IF m = held[r] THEN Fresh ELSE age[m]]

\* bug: the sentinel is looked for and the poll goes on.
GateOpen(r) ==
  /\ at[r] = "poll"
  /\ Go(r, "receive")
  /\ UNCHANGED <<queue, age, marked, replica, held, taken, deployVars, historyVars, quiet>>

\* drain_requested: an unreadable sentinel is none.
Gate(r) ==
  /\ at[r] = "poll"
  /\ \/ ~ sentinel /\ UNCHANGED trouble
     \/ sentinel /\ Fault("read")
  /\ Go(r, "receive")
  /\ UNCHANGED <<queue, age, marked, replica, held, taken, deployVars, robbed, quiet>>

Receive(r) ==
  /\ at[r] = "receive"
  /\ \/ \E m \in queue :
          /\ queue' = queue \ {m}
          /\ held' = [held EXCEPT ![r] = m]
          /\ taken' = [taken EXCEPT ![r] = IF sentinel /\ @ < 2 THEN @ + 1 ELSE @]
          /\ Go(r, "held")
     \/ queue = {} /\ Go(r, "poll") /\ UNCHANGED <<queue, held, taken>>
  /\ UNCHANGED <<age, marked, replica, deployVars, historyVars, quiet>>

\* A compile writes its marker some steps after it was received...
Start(r) ==
  /\ at[r] = "held"
  /\ marked' = marked \cup {held[r]} /\ age' = [age EXCEPT ![held[r]] = 0]
  /\ Go(r, "preparing")
  /\ quiet' = 0
  /\ UNCHANGED <<queue, replica, held, taken, deployVars, historyVars>>

\* ...and again when a stage reports, and with every tick of the heartbeat that
\* runs from the first report on...
Touch(r) ==
  /\ at[r] \in {"preparing", "staging"}
  /\ age' = [age EXCEPT ![held[r]] = 0]
  /\ quiet' = 0
  /\ Go(r, "staging")
  /\ UNCHANGED <<queue, marked, replica, held, taken, deployVars, historyVars>>

\* ...and is stopped when the stages are over...
Project(r) ==
  /\ at[r] = "staging"
  /\ Go(r, "projecting")
  /\ UNCHANGED <<queue, age, marked, replica, held, taken, deployVars, historyVars, quiet>>

\* ...and deletes it, however it ended, before it tells brief generation and
\* acknowledges.
Finish(r) ==
  /\ at[r] \in Working
  /\ Unmark(r)
  /\ Go(r, "closing")
  /\ UNCHANGED <<queue, replica, held, taken, deployVars, historyVars, quiet>>

\* A SOW draft, or what is given up on, has no marker; a run that is skipped as
\* unchanged, or has no manifest, leaves its own.
Settle(r) ==
  /\ at[r] \in {"closing", "held", "preparing"}
  /\ held' = [held EXCEPT ![r] = Nothing]
  /\ Go(r, "poll")
  /\ UNCHANGED <<queue, age, marked, replica, taken, deployVars, historyVars, quiet>>

\* A process dies and another takes its place; its message comes again, or not.
Crash(r) ==
  /\ at[r] # "off" /\ Fault("crash")
  /\ held' = [held EXCEPT ![r] = Nothing]
  /\ queue' \in {queue, queue \cup ({held[r]} \ {Nothing})}
  /\ Go(r, "poll")
  /\ UNCHANGED <<age, marked, replica, taken, deployVars, robbed, quiet>>

\* bug: the message is handed back and kept.
TerminateHolding(r) ==
  /\ replica[r] = "dying"
  /\ replica' = [replica EXCEPT ![r] = "none"]
  /\ queue' = queue \cup ({held[r]} \ {Nothing})
  /\ Unmark(r)
  /\ Go(r, "off")
  /\ UNCHANGED <<held, taken, deployVars, historyVars, quiet>>

\* The platform ends the replicas of an old revision: SIGTERM hands the message
\* back and deletes the marker.
Terminate(r) ==
  /\ replica[r] = "dying"
  /\ replica' = [replica EXCEPT ![r] = "none"]
  /\ queue' = queue \cup ({held[r]} \ {Nothing})
  /\ Unmark(r)
  /\ held' = [held EXCEPT ![r] = Nothing]
  /\ Go(r, "off")
  /\ UNCHANGED <<taken, deployVars, historyVars, quiet>>

\* It also starts replicas of the current one.
Provision(r) ==
  /\ replica[r] = "none"
  /\ replica' = [replica EXCEPT ![r] = "current"]
  /\ Go(r, "poll")
  /\ UNCHANGED <<queue, age, marked, held, taken, deployVars, historyVars, quiet>>
------------------------------------------------------------------------------
Step(d, place) == deploy' = [deploy EXCEPT ![d] = place]

\* bug: a step that fails ends the run, as it does without if: always().
StepEndsRun(d) ==
  /\ deploy[d] \in {"begin", "count", "roll"}
  /\ Step(d, "over")
  /\ UNCHANGED <<workerVars, sentinel, rounds, forced, historyVars, quiet>>

\* A step fails, or the guard skips them: only the last one remains.
StepFails(d) ==
  /\ deploy[d] \in {"begin", "count", "roll"}
  /\ Step(d, "remove")
  /\ UNCHANGED <<workerVars, sentinel, rounds, forced, historyVars, quiet>>

ForceRoll(d) ==
  /\ deploy[d] = "begin" /\ d \notin Skipped
  /\ forced' = forced \cup {d}
  /\ Step(d, "roll")
  /\ UNCHANGED <<workerVars, sentinel, rounds, historyVars, quiet>>

WriteSentinel(d) ==
  /\ deploy[d] = "begin" /\ d \notin Skipped
  /\ sentinel' = TRUE
  /\ Step(d, "count")
  /\ UNCHANGED <<workerVars, rounds, forced, historyVars, quiet>>

\* bug: markers are counted however long nobody has touched them.
LiveForEver == marked
\* bug: one compile stands for all, as one replica's log once did.
LiveOnOne == {m \in marked : age[m] < Fresh /\ m = CHOOSE n \in Messages : TRUE}

\* live_compiles
Live == {m \in marked : age[m] < Fresh}

Count(d) ==
  /\ deploy[d] = "count"
  /\ Step(d, IF Live = {} THEN "roll" ELSE IF rounds[d] = Deadline THEN "late" ELSE "asleep")
  /\ UNCHANGED <<workerVars, sentinel, rounds, forced, historyVars, quiet>>

\* The next 60 seconds: the heartbeat touches the marker in time.
Pass ==
  /\ \A m \in Staging : age[m] + 1 < Fresh
  /\ age' = [m \in Messages |-> IF age[m] < Fresh THEN age[m] + 1 ELSE Fresh]
  /\ quiet' = IF quiet < Fresh THEN quiet + 1 ELSE Fresh
  /\ deploy' = [d \in Deploys |-> IF deploy[d] = "asleep" THEN "count" ELSE deploy[d]]
  /\ rounds' = [d \in Deploys |-> IF deploy[d] = "asleep" THEN rounds[d] + 1 ELSE rounds[d]]
  /\ UNCHANGED <<queue, marked, replica, at, held, taken, sentinel, forced, historyVars>>

Roll(d) ==
  /\ deploy[d] = "roll"
  /\ replica' = [r \in Replicas |-> IF replica[r] = "current" THEN "dying" ELSE replica[r]]
  /\ Step(d, "wait")
  /\ UNCHANGED <<queue, age, marked, at, held, taken, sentinel, rounds, forced, historyVars,
                 quiet>>

\* bug: the drain is lifted when the update returns.
RolledOut(d) ==
  /\ deploy[d] = "wait"
  /\ Step(d, "remove")
  /\ UNCHANGED <<workerVars, sentinel, rounds, forced, historyVars, quiet>>

\* Until the old revisions have no replicas, or five minutes.
OldOnesGone(d) ==
  /\ deploy[d] = "wait"
  /\ \/ (\A r \in Replicas : replica[r] # "dying") /\ UNCHANGED trouble
     \/ Fault("wait")
  /\ Step(d, "remove")
  /\ UNCHANGED <<workerVars, sentinel, rounds, forced, robbed, quiet>>

\* What a deploy has seen is forgotten with it.
Finished(d) ==
  /\ Step(d, "over")
  /\ rounds' = [rounds EXCEPT ![d] = 0]

\* if: always(), and whosever sentinel it is.
Remove(d) ==
  /\ deploy[d] \in {"late", "remove"}
  /\ \/ /\ sentinel' = FALSE
        /\ robbed' = (robbed \/ \E e \in Deploys : deploy[e] \in Draining)
        /\ taken' = [r \in Replicas |-> 0]
        /\ UNCHANGED trouble
     \/ /\ Fault("remove")
        /\ UNCHANGED <<sentinel, taken, robbed>>
  /\ Finished(d)
  /\ UNCHANGED <<queue, age, marked, replica, at, held, forced, quiet>>

Worker(r) ==
  \/ Gate(r) \/ Receive(r) \/ Start(r) \/ Touch(r) \/ Project(r) \/ Finish(r) \/ Settle(r)
Deploy(d) ==
  \/ StepFails(d) \/ ForceRoll(d) \/ WriteSentinel(d) \/ Count(d) \/ Roll(d) \/ OldOnesGone(d)
  \/ Remove(d)

Next ==
  \/ \E r \in Replicas : Worker(r) \/ Crash(r) \/ Terminate(r) \/ Provision(r)
  \/ \E d \in Deploys : Deploy(d)
  \/ Pass

Spec == Init /\ [][Next]_vars

\* A deploy goes on, time passes, the platform ends what it rolls; of the worker
\* nothing is asked but that its heartbeats run.
FairSpec ==
  /\ Spec
  /\ WF_vars(Pass)
  /\ \A d \in Deploys : WF_vars(Deploy(d))
  /\ \A r \in Replicas : WF_vars(at[r] = "staging" /\ Touch(r)) /\ WF_vars(Terminate(r))
------------------------------------------------------------------------------
\* Under a sentinel a replica takes at most the one message it was on its way to
\* (main.py:2464-2465 "finishes the message it already holds and then takes no
\* new one"), unless it could not read it.
OneMoreEach == \A r \in Replicas : taken[r] > 1 => "read" \in trouble

\* A deploy that drains goes on to its roll only when no compile is in its stages,
\* on whichever replica (deploy-dev.yml:302-308).
RollSparesStages ==
  [][\A d \in Deploys : deploy[d] = "count" /\ deploy'[d] = "roll" => Staging = {}]_vars

\* A deploy gives up on its drain only when a compile was at work until lately: a
\* marker nobody touches does not hold it (deploy-dev.yml:313-314).
OnlyLiveHolds ==
  [][\A d \in Deploys : deploy[d] = "count" /\ deploy'[d] = "late"
       => quiet < Fresh]_vars

\* An old replica takes no message after the roll (deploy-dev.yml:363-369), unless
\* it was past the gate when the drain began, or a fault, a forced roll or another
\* deploy undid the drain.
DyingTakesNothing ==
  [][\A r \in Replicas :
       at[r] = "poll" /\ at'[r] = "receive" /\ replica[r] = "dying"
         => robbed \/ forced # {} \/ trouble' \cap {"read", "wait"} # {}]_vars

\* The drain is lifted in the end, however the deploys ended (deploy-dev.yml:382-384),
\* unless the removal itself failed.
SentinelLifted == <>[](sentinel => "remove" \in trouble)
==============================================================================
