--------------------------- MODULE LeaseTimingProofs ---------------------------
(***************************************************************************)
(* What holds of LeaseTiming for any settings that leave the lease room    *)
(* for the renewals that may fail, any number of replicas and documents.   *)
(***************************************************************************)
EXTENDS LeaseTiming, TLAPS

USE DEF messageVars, renewerVars, Goto, Holds, Stand, Rest, Later, Larger, Smaller

\* The time that the renewals which may still fail in a row would take.
Reserve(r) == Every * (MaxMisses - misses[r])

\* Nobody's timers run while it is idle, and the budget is never overrun.
TimersInv ==
  \A r \in Replicas :
    /\ pc[r] = "idle" => age[r] = 0 /\ ran[r] = 0 /\ wait[r] = 0 /\ misses[r] = 0
    /\ pc[r] \in {"idle", "starting", "giving_up", "returning", "closing"} => call[r] = "off"
    /\ pc[r] \in {"starting", "giving_up", "returning"} => misses[r] = 0
    /\ pc[r] \in {"compiling", "cancelling"} => call[r] # "off"
    /\ ran[r] <= Budget(docs)

\* The replica at work has the only good receipt, in the message object or in an
\* answer it is about to read, and the lease outlasts the renewals that may fail.
Covered(r) ==
  /\ present /\ hiddenFor > 0
  /\ receipt = [by |-> r, at |-> IF call[r] = "renewed" THEN "reply" ELSE "message"]
  /\ pc[r] = "starting" => hiddenFor >= VisibilityTimeout - age[r]
  /\ call[r] = "waiting" => hiddenFor > wait[r] + Reserve(r)
  /\ call[r] = "sent" => hiddenFor > Reserve(r)
  /\ call[r] = "failed" => hiddenFor > Every + Reserve(r)
  /\ call[r] = "renewed" => hiddenFor = VisibilityTimeout

\* A message received once too often is on its way out, unless a termination hands
\* it back, and one whose compile has completed too.
OutgoingInv ==
  /\ present /\ dequeued > MaxDequeue + terminations => \E r \in Replicas : pc[r] = "giving_up"
  /\ present /\ outcome = "completed" => \E r \in Replicas : pc[r] \in {"closing", "releasing"}

TimingInv ==
  /\ TypeOK /\ TimersInv /\ NoOverlap /\ OutgoingInv
  /\ \A r \in Replicas : pc[r] # "idle" => Covered(r)
------------------------------------------------------------------------------
\* The renewal interval and the time the renewer runs at most are whole ticks.
LEMMA RenewerTimes ==
  Every \in Nat \ {0} /\ MaxTotal \in Nat /\ LeaseMax <= MaxTotal
  BY TimesAssumption DEF Every, MaxTotal

\* A share of a time is no longer than the time.
LEMMA ShareIsLess ==
  ASSUME NEW t \in Nat, NEW percent \in 0..100
  PROVE  (t * percent) \div 100 \in Nat /\ (t * percent) \div 100 <= t
<1>1. t * percent \in Nat /\ t * percent <= t * 100
  OBVIOUS
<1> DEFINE p == t * percent
<1>2. p \in Nat /\ p <= t * 100
  BY <1>1
<1> HIDE DEF p
<1>3. p \div 100 \in Nat /\ p \div 100 <= t
  BY <1>2
<1> QED
  BY <1>3 DEF p

\* compile_budget_sec: never less than the floor, never longer than the lease is
\* renewed for, and never shorter for more documents.
THEOREM BudgetWithinLease ==
  ASSUME NEW n \in Nat
  PROVE  /\ Budget(n) \in Nat
         /\ CompileTimeout <= Budget(n) /\ Budget(n) <= LeaseMax
         /\ \A m \in Nat : n <= m => Budget(n) <= Budget(m)
<1>1. Ceiling \in Nat /\ CompileTimeout <= Ceiling /\ Ceiling <= LeaseMax
  BY ShareIsLess, TimesAssumption, SettingsAssumption DEF Ceiling
<1>2. ASSUME NEW m \in Nat, n <= m PROVE PerDoc * n \in Nat /\ PerDoc * m \in Nat /\ PerDoc * n <= PerDoc * m
  BY <1>2, TimesAssumption
<1>3. ASSUME NEW m \in Nat, n <= m PROVE Budget(n) <= Budget(m)
  BY <1>1, <1>2, <1>3, TimesAssumption DEF Budget
<1>4. PerDoc * n \in Nat
  BY TimesAssumption
<1> QED
  BY <1>1, <1>3, <1>4, TimesAssumption DEF Budget

\* What the renewals that may still fail take, and what one failure leaves.
LEMMA Reserves ==
  ASSUME NEW k \in 0..MaxMisses
  PROVE  /\ Every * (MaxMisses - k) \in Nat
         /\ k < MaxMisses => Every * (MaxMisses - (k + 1)) + Every = Every * (MaxMisses - k)
         /\ VisibilityTimeout - Startup > Every + Every * (MaxMisses - 0)
         /\ VisibilityTimeout \in Nat /\ VisibilityTimeout > 0 /\ Startup \in Nat
<1>1. MaxMisses - k \in Nat
  BY TimesAssumption
<1>2. Every * (MaxMisses + 1) = Every + Every * (MaxMisses - 0) /\ Every * (MaxMisses - 0) \in Nat
  BY RenewerTimes, TimesAssumption
<1>3. Every * (MaxMisses - k) \in Nat
  BY <1>1, RenewerTimes
<1>4. ASSUME k < MaxMisses PROVE Every * (MaxMisses - (k + 1)) + Every = Every * (MaxMisses - k)
  <2>1. PICK j \in Nat : MaxMisses - (k + 1) = j
    BY <1>4, TimesAssumption
  <2>2. MaxMisses - k = j + 1
    BY <2>1, TimesAssumption
  <2>3. Every * (j + 1) = Every * j + Every
    BY RenewerTimes
  <2> QED
    BY <2>1, <2>2, <2>3
<1> QED
  BY <1>2, <1>3, <1>4, SettingsAssumption, TimesAssumption, RenewerTimes

\* The initial state satisfies the invariant.
LEMMA TimingInit == Init => TimingInv
<1> SUFFICES ASSUME Init PROVE TimingInv
  OBVIOUS
<1>1. Budget(docs) \in Nat
  BY BudgetWithinLease, TimesAssumption DEF Init
<1>2. TypeOK
  BY RenewerTimes, TimesAssumption DEF Init, TypeOK, Lost, Place, CallState
<1>3. TimersInv /\ NoOverlap /\ OutgoingInv
  BY <1>1, TimesAssumption DEF Init, TimersInv, NoOverlap, OutgoingInv
<1> QED
  BY <1>2, <1>3 DEF TimingInv, Init

\* Every step keeps it.
LEMMA TimingStep ==
  ASSUME TimingInv, [Next]_vars
  PROVE  TimingInv'
<1>1. /\ Every \in Nat /\ MaxTotal \in Nat /\ VisibilityTimeout \in Nat /\ VisibilityTimeout > 0
      /\ Startup \in Nat /\ MaxMisses \in Nat /\ MaxDequeue \in Nat /\ MaxTerminations \in Nat /\ Nobody \notin Replicas
      /\ Every \in Nat \ {0} /\ VisibilityTimeout > Startup
  BY RenewerTimes, TimesAssumption, SettingsAssumption, Reserves
<1>2. Budget(docs) \in Nat /\ Budget(docs) <= MaxTotal /\ Budget(docs) > 0
  BY BudgetWithinLease, RenewerTimes, TimesAssumption, SettingsAssumption DEF TimingInv, TypeOK
<1>3. \A r \in Replicas : Reserve(r) \in Nat
  BY Reserves DEF TimingInv, TypeOK, Reserve
<1>4. \A q, r \in Replicas : pc[q] # "idle" /\ pc[r] # "idle" => q = r
  BY DEF TimingInv, NoOverlap
<1> USE <1>1, <1>2 DEF TypeOK, TimersInv, NoOverlap, OutgoingInv, Covered, Place, CallState
<1>5. ASSUME NEW r \in Replicas, Receive(r) PROVE TimingInv'
  \* nobody is at work on a message that is visible
  <2>1. \A q \in Replicas : pc[q] = "idle"
    BY <1>5 DEF Receive, TimingInv
  <2>2. UNCHANGED <<terminations, docs, misses, call, wait, age, ran, present>> /\ present /\ hiddenFor' = VisibilityTimeout
        /\ receipt' = [by |-> r, at |-> "message"] /\ dequeued' = dequeued + 1
    BY <1>5 DEF Receive
  <2>3. \/ pc' = [pc EXCEPT ![r] = "starting"] /\ dequeued + 1 <= MaxDequeue /\ outcome' = outcome
        \/ pc' = [pc EXCEPT ![r] = "giving_up"] /\ outcome' \in {outcome, "exhausted_retries"}
    BY <1>5 DEF Receive, TimingInv
  <2>4. dequeued <= MaxDequeue + terminations /\ outcome # "completed"
    BY <2>1, <2>2 DEF TimingInv
  <2>5. TypeOK'
    BY <2>2, <2>3, <2>4 DEF TimingInv
  <2>6. TimersInv' /\ NoOverlap' /\ OutgoingInv'
    BY <2>1, <2>2, <2>3, <2>4 DEF TimingInv
  <2>7. Covered(r)'
    BY <2>1, <2>2, <2>3 DEF TimingInv
  <2>8. \A q \in Replicas \ {r} : pc'[q] = "idle"
    BY <2>1, <2>3 DEF TimingInv
  <2> HIDE DEF TypeOK, TimersInv, NoOverlap, OutgoingInv, Covered
  <2> QED
    BY <2>5, <2>6, <2>7, <2>8 DEF TimingInv
<1>6. ASSUME NEW r \in Replicas, Begin(r) PROVE TimingInv'
  <2>1. pc[r] = "starting" /\ Covered(r) /\ call[r] = "off" /\ misses[r] = 0
    BY <1>6 DEF Begin, TimingInv
  <2>2. VisibilityTimeout - Startup > Every + Reserve(r)
    BY <2>1, Reserves DEF TimingInv, Reserve
  <2>3. Reserve(r)' = Reserve(r)
    BY <1>6 DEF Begin, Reserve
  <2>4. hiddenFor > Every + Reserve(r)
    BY <1>3, <2>1, <2>2 DEF TimingInv
  <2>5. TypeOK'
    BY <1>6 DEF Begin, TimingInv
  <2>6. TimersInv' /\ NoOverlap' /\ OutgoingInv'
    BY <1>6, <2>1 DEF Begin, TimingInv
  <2>7. Covered(r)'
    BY <1>6, <1>3, <2>1, <2>3, <2>4 DEF Begin, TimingInv
  <2> QED
    BY <1>6, <1>4, <2>1, <2>5, <2>6, <2>7 DEF Begin, TimingInv
<1>7. ASSUME NEW r \in Replicas, GiveUp(r) PROVE TimingInv'
  <2>1. pc[r] # "idle" /\ Covered(r) /\ \A q \in Replicas \ {r} : pc[q] = "idle"
    BY <1>7, <1>4 DEF GiveUp, TimingInv
  <2>2. UNCHANGED misses => Reserve(r)' = Reserve(r)
    BY DEF Reserve
  <2>3. TypeOK'
    BY <1>7, <2>1 DEF GiveUp, Delete, TimingInv
  <2>4. TimersInv'
    BY <1>7, <2>1 DEF GiveUp, Delete, TimingInv
  <2>5. NoOverlap' /\ OutgoingInv'
    <3>1. NoOverlap'
      BY <1>7, <2>1 DEF GiveUp, TimingInv
    <3>2. OutgoingInv'
      BY <1>7, <2>1 DEF GiveUp, Delete, TimingInv
    <3> QED
      BY <3>1, <3>2
  <2>6. pc'[r] # "idle" => Covered(r)'
    BY <1>7, <1>3, <2>1, <2>2 DEF GiveUp, Delete, TimingInv
  <2>7. \A q \in Replicas \ {r} : pc'[q] = "idle"
    BY <1>7, <2>1 DEF GiveUp, TimingInv
  <2> HIDE DEF TypeOK, TimersInv, NoOverlap, OutgoingInv, Covered
  <2> QED
    BY <2>3, <2>4, <2>5, <2>6, <2>7 DEF TimingInv
<1>8. ASSUME NEW r \in Replicas, LeaveCompile(r) PROVE TimingInv'
  <2>1. pc[r] # "idle" /\ Covered(r) /\ \A q \in Replicas \ {r} : pc[q] = "idle"
    BY <1>8, <1>4 DEF LeaveCompile, TimingInv
  <2>2. UNCHANGED misses => Reserve(r)' = Reserve(r)
    BY DEF Reserve
  <2>3. TypeOK'
    BY <1>8, <2>1 DEF LeaveCompile, Stopped, TimingInv
  <2>4. TimersInv'
    BY <1>8, <2>1 DEF LeaveCompile, Stopped, TimingInv
  <2>5. NoOverlap' /\ OutgoingInv'
    BY <1>8, <2>1 DEF LeaveCompile, Stopped, TimingInv
  <2>6. pc'[r] # "idle" => Covered(r)'
    BY <1>8, <1>3, <2>1, <2>2 DEF LeaveCompile, Stopped, TimingInv
  <2>7. \A q \in Replicas \ {r} : pc'[q] = "idle"
    BY <1>8, <2>1 DEF LeaveCompile, TimingInv
  <2> HIDE DEF TypeOK, TimersInv, NoOverlap, OutgoingInv, Covered
  <2> QED
    BY <2>3, <2>4, <2>5, <2>6, <2>7 DEF TimingInv
<1>9. ASSUME NEW r \in Replicas, Acknowledge(r) PROVE TimingInv'
  <2>1. pc[r] # "idle" /\ Covered(r) /\ \A q \in Replicas \ {r} : pc[q] = "idle"
    BY <1>9, <1>4 DEF Acknowledge, TimingInv
  <2>2. UNCHANGED misses => Reserve(r)' = Reserve(r)
    BY DEF Reserve
  <2>3. TypeOK'
    BY <1>9, <2>1 DEF Acknowledge, Delete, TimingInv
  <2>4. TimersInv'
    BY <1>9, <2>1 DEF Acknowledge, Delete, TimingInv
  <2>5. NoOverlap' /\ OutgoingInv'
    <3>1. NoOverlap'
      BY <1>9, <2>1 DEF Acknowledge, TimingInv
    <3>2. OutgoingInv'
      BY <1>9, <2>1 DEF Acknowledge, Delete, TimingInv
    <3> QED
      BY <3>1, <3>2
  <2>6. pc'[r] # "idle" => Covered(r)'
    BY <1>9, <1>3, <2>1, <2>2 DEF Acknowledge, Delete, TimingInv
  <2>7. \A q \in Replicas \ {r} : pc'[q] = "idle"
    BY <1>9, <2>1 DEF Acknowledge, TimingInv
  <2> HIDE DEF TypeOK, TimersInv, NoOverlap, OutgoingInv, Covered
  <2> QED
    BY <2>3, <2>4, <2>5, <2>6, <2>7 DEF TimingInv
<1>10. ASSUME NEW r \in Replicas, WatchdogFires(r) PROVE TimingInv'
  <2>1. pc[r] # "idle" /\ Covered(r) /\ \A q \in Replicas \ {r} : pc[q] = "idle"
    BY <1>10, <1>4 DEF WatchdogFires, TimingInv
  <2>2. UNCHANGED misses => Reserve(r)' = Reserve(r)
    BY DEF Reserve
  <2>3. TypeOK'
    BY <1>10, <2>1 DEF WatchdogFires, Overdue, Remains, TimingInv
  <2>4. TimersInv'
    BY <1>10, <2>1 DEF WatchdogFires, Overdue, Remains, TimingInv
  <2>5. NoOverlap' /\ OutgoingInv'
    BY <1>10, <2>1 DEF WatchdogFires, Overdue, Remains, TimingInv
  <2>6. pc'[r] # "idle" => Covered(r)'
    BY <1>10, <1>3, <2>1, <2>2 DEF WatchdogFires, Overdue, Remains, TimingInv
  <2>7. \A q \in Replicas \ {r} : pc'[q] = "idle"
    BY <1>10, <2>1 DEF WatchdogFires, TimingInv
  <2> HIDE DEF TypeOK, TimersInv, NoOverlap, OutgoingInv, Covered
  <2> QED
    BY <2>3, <2>4, <2>5, <2>6, <2>7 DEF TimingInv
<1>11. ASSUME NEW r \in Replicas, FinishCancel(r) PROVE TimingInv'
  <2>1. pc[r] # "idle" /\ Covered(r) /\ \A q \in Replicas \ {r} : pc[q] = "idle"
    BY <1>11, <1>4 DEF FinishCancel, TimingInv
  <2>2. UNCHANGED misses => Reserve(r)' = Reserve(r)
    BY DEF Reserve
  <2>3. TypeOK'
    BY <1>11, <2>1 DEF FinishCancel, Delete, TimingInv
  <2>4. TimersInv'
    BY <1>11, <2>1 DEF FinishCancel, Delete, TimingInv
  <2>5. NoOverlap' /\ OutgoingInv'
    BY <1>11, <2>1 DEF FinishCancel, Delete, TimingInv
  <2>6. pc'[r] # "idle" => Covered(r)'
    BY <1>11, <1>3, <2>1, <2>2 DEF FinishCancel, Delete, TimingInv
  <2>7. \A q \in Replicas \ {r} : pc'[q] = "idle"
    BY <1>11, <2>1 DEF FinishCancel, TimingInv
  <2> HIDE DEF TypeOK, TimersInv, NoOverlap, OutgoingInv, Covered
  <2> QED
    BY <2>3, <2>4, <2>5, <2>6, <2>7 DEF TimingInv
<1>12. ASSUME NEW r \in Replicas, Release(r) PROVE TimingInv'
  <2>1. pc[r] # "idle" /\ Covered(r) /\ \A q \in Replicas \ {r} : pc[q] = "idle"
    BY <1>12, <1>4 DEF Release, TimingInv
  <2>2. UNCHANGED misses => Reserve(r)' = Reserve(r)
    BY DEF Reserve
  <2>3. TypeOK'
    BY <1>12, <2>1 DEF Release, Stopped, Lost, TimingInv
  <2>4. TimersInv'
    BY <1>12, <2>1 DEF Release, Stopped, Lost, TimingInv
  <2>5. NoOverlap' /\ OutgoingInv'
    BY <1>12, <2>1 DEF Release, Stopped, Lost, TimingInv
  <2>6. pc'[r] # "idle" => Covered(r)'
    BY <1>12, <1>3, <2>1, <2>2 DEF Release, Stopped, Lost, TimingInv
  <2>7. \A q \in Replicas \ {r} : pc'[q] = "idle"
    BY <1>12, <2>1 DEF Release, TimingInv
  <2> HIDE DEF TypeOK, TimersInv, NoOverlap, OutgoingInv, Covered
  <2> QED
    BY <2>3, <2>4, <2>5, <2>6, <2>7 DEF TimingInv
<1>13. ASSUME NEW r \in Replicas, CompileEnds(r) PROVE TimingInv'
  <2>1. pc[r] # "idle" /\ Covered(r) /\ \A q \in Replicas \ {r} : pc[q] = "idle"
    BY <1>13, <1>4 DEF CompileEnds, TimingInv
  <2>2. UNCHANGED misses => Reserve(r)' = Reserve(r)
    BY DEF Reserve
  <2>3. TypeOK'
    BY <1>13, <2>1 DEF CompileEnds, TimingInv
  <2>4. TimersInv'
    BY <1>13, <2>1 DEF CompileEnds, TimingInv
  <2>5. NoOverlap' /\ OutgoingInv'
    BY <1>13, <2>1 DEF CompileEnds, TimingInv
  <2>6. pc'[r] # "idle" => Covered(r)'
    BY <1>13, <1>3, <2>1, <2>2 DEF CompileEnds, TimingInv
  <2>7. \A q \in Replicas \ {r} : pc'[q] = "idle"
    BY <1>13, <2>1 DEF CompileEnds, TimingInv
  <2> HIDE DEF TypeOK, TimersInv, NoOverlap, OutgoingInv, Covered
  <2> QED
    BY <2>3, <2>4, <2>5, <2>6, <2>7 DEF TimingInv
<1>14. ASSUME NEW r \in Replicas, Cancel(r) PROVE TimingInv'
  <2>1. pc[r] # "idle" /\ Covered(r) /\ \A q \in Replicas \ {r} : pc[q] = "idle"
    BY <1>14, <1>4 DEF Cancel, Remains, TimingInv
  <2>2. UNCHANGED misses => Reserve(r)' = Reserve(r)
    BY DEF Reserve
  <2>3. TypeOK'
    BY <1>14, <2>1 DEF Cancel, Remains, TimingInv
  <2>4. TimersInv'
    BY <1>14, <2>1 DEF Cancel, Remains, TimingInv
  <2>5. NoOverlap' /\ OutgoingInv'
    BY <1>14, <2>1 DEF Cancel, Remains, TimingInv
  <2>6. pc'[r] # "idle" => Covered(r)'
    BY <1>14, <1>3, <2>1, <2>2 DEF Cancel, Remains, TimingInv
  <2>7. \A q \in Replicas \ {r} : pc'[q] = "idle"
    BY <1>14, <2>1 DEF Cancel, Remains, TimingInv
  <2> HIDE DEF TypeOK, TimersInv, NoOverlap, OutgoingInv, Covered
  <2> QED
    BY <2>3, <2>4, <2>5, <2>6, <2>7 DEF TimingInv
<1>15. ASSUME NEW r \in Replicas, Sigterm(r) PROVE TimingInv'
  <2>1. pc[r] # "idle" /\ Covered(r) /\ \A q \in Replicas \ {r} : pc[q] = "idle"
    BY <1>15, <1>4 DEF Sigterm, TimingInv
  <2>2. UNCHANGED misses => Reserve(r)' = Reserve(r)
    BY DEF Reserve
  <2>3. TypeOK'
    BY <1>15, <2>1 DEF Sigterm, TimingInv
  <2>4. TimersInv'
    BY <1>15, <2>1 DEF Sigterm, TimingInv
  <2>5. NoOverlap' /\ OutgoingInv'
    BY <1>15, <2>1 DEF Sigterm, TimingInv
  <2>6. pc'[r] # "idle" => Covered(r)'
    BY <1>15, <1>3, <2>1, <2>2 DEF Sigterm, TimingInv
  <2>7. \A q \in Replicas \ {r} : pc'[q] = "idle"
    BY <1>15, <2>1 DEF Sigterm, TimingInv
  <2> HIDE DEF TypeOK, TimersInv, NoOverlap, OutgoingInv, Covered
  <2> QED
    BY <2>3, <2>4, <2>5, <2>6, <2>7 DEF TimingInv
<1>16. ASSUME NEW r \in Replicas, RenewerWakes(r) PROVE TimingInv'
  <2>1. pc[r] # "idle" /\ Covered(r) /\ \A q \in Replicas \ {r} : pc[q] = "idle"
    BY <1>16, <1>4 DEF RenewerWakes, TimingInv
  <2>2. UNCHANGED misses => Reserve(r)' = Reserve(r)
    BY DEF Reserve
  <2>3. TypeOK'
    BY <1>16, <2>1 DEF RenewerWakes, TimingInv
  <2>4. TimersInv'
    BY <1>16, <2>1 DEF RenewerWakes, TimingInv
  <2>5. NoOverlap' /\ OutgoingInv'
    BY <1>16, <2>1 DEF RenewerWakes, TimingInv
  <2>6. pc'[r] # "idle" => Covered(r)'
    BY <1>16, <1>3, <2>1, <2>2 DEF RenewerWakes, TimingInv
  <2>7. \A q \in Replicas \ {r} : pc'[q] = "idle"
    BY <1>16, <2>1 DEF RenewerWakes, TimingInv
  <2> HIDE DEF TypeOK, TimersInv, NoOverlap, OutgoingInv, Covered
  <2> QED
    BY <2>3, <2>4, <2>5, <2>6, <2>7 DEF TimingInv
<1>17. ASSUME NEW r \in Replicas, Renew(r) PROVE TimingInv'
  <2>1. pc[r] # "idle" /\ Covered(r) /\ \A q \in Replicas \ {r} : pc[q] = "idle"
    BY <1>17, <1>4 DEF Renew, TimingInv
  <2>2. Reserve(r)' = Reserve(r)
    BY <1>17 DEF Renew, Reserve
  <2>3. TypeOK'
    BY <1>17, <2>1 DEF Renew, TimingInv
  <2>4. TimersInv'
    BY <1>17, <2>1 DEF Renew, TimingInv
  <2>5. NoOverlap' /\ OutgoingInv'
    BY <1>17, <2>1 DEF Renew, TimingInv
  <2>6. Covered(r)'
    BY <1>17, <1>3, <2>1, <2>2 DEF Renew, TimingInv
  <2>7. \A q \in Replicas \ {r} : pc'[q] = "idle"
    BY <1>17, <2>1 DEF Renew, TimingInv
  <2> HIDE DEF TypeOK, TimersInv, NoOverlap, OutgoingInv, Covered
  <2> QED
    BY <2>3, <2>4, <2>5, <2>6, <2>7 DEF TimingInv
<1>18. ASSUME NEW r \in Replicas, RenewalFails(r) PROVE TimingInv'
  <2>1. pc[r] # "idle" /\ Covered(r) /\ \A q \in Replicas \ {r} : pc[q] = "idle"
    BY <1>18, <1>4 DEF RenewalFails, TimingInv
  \* the receipt is good, so that it fails for another reason
  <2>2. Reserve(r)' + Every = Reserve(r) /\ Reserve(r)' \in Nat
    <3>1. misses[r] < MaxMisses /\ misses'[r] = misses[r] + 1
      BY <1>18, <2>1 DEF RenewalFails, TimingInv
    <3>2. misses[r] \in 0..MaxMisses /\ misses[r] + 1 \in 0..MaxMisses
      BY <3>1 DEF TimingInv
    <3> QED
      BY <3>1, <3>2, Reserves DEF Reserve
  <2>3. TypeOK'
    BY <1>18, <2>1 DEF RenewalFails, TimingInv
  <2>4. TimersInv'
    BY <1>18, <2>1 DEF RenewalFails, TimingInv
  <2>5. NoOverlap' /\ OutgoingInv'
    BY <1>18, <2>1 DEF RenewalFails, TimingInv
  <2>6. Covered(r)'
    BY <1>18, <1>3, <2>1, <2>2 DEF RenewalFails, TimingInv
  <2>7. \A q \in Replicas \ {r} : pc'[q] = "idle"
    BY <1>18, <2>1 DEF RenewalFails, TimingInv
  <2> HIDE DEF TypeOK, TimersInv, NoOverlap, OutgoingInv, Covered
  <2> QED
    BY <2>3, <2>4, <2>5, <2>6, <2>7 DEF TimingInv
<1>19. ASSUME NEW r \in Replicas, ReadReply(r) PROVE TimingInv'
  <2>1. pc[r] # "idle" /\ Covered(r) /\ \A q \in Replicas \ {r} : pc[q] = "idle"
    BY <1>19, <1>4 DEF ReadReply, TimingInv
  <2>2. Reserve(r)' \in Nat /\ VisibilityTimeout > Every + Reserve(r)'
    <3>1. misses'[r] = 0
      BY <1>19 DEF ReadReply, TimingInv
    <3>2. VisibilityTimeout - Startup > Every + Every * (MaxMisses - 0) /\ Every * (MaxMisses - 0) \in Nat
      BY Reserves
    <3> QED
      BY <3>1, <3>2 DEF Reserve
  <2>3. TypeOK'
    BY <1>19, <2>1 DEF ReadReply, TimingInv
  <2>4. TimersInv'
    BY <1>19, <2>1 DEF ReadReply, TimingInv
  <2>5. NoOverlap' /\ OutgoingInv'
    BY <1>19, <2>1 DEF ReadReply, TimingInv
  <2>6. Covered(r)'
    BY <1>19, <1>3, <2>1, <2>2 DEF ReadReply, TimingInv
  <2>7. \A q \in Replicas \ {r} : pc'[q] = "idle"
    BY <1>19, <2>1 DEF ReadReply, TimingInv
  <2> HIDE DEF TypeOK, TimersInv, NoOverlap, OutgoingInv, Covered
  <2> QED
    BY <2>3, <2>4, <2>5, <2>6, <2>7 DEF TimingInv
<1>20. ASSUME NEW r \in Replicas, ReadFailure(r) PROVE TimingInv'
  <2>1. pc[r] # "idle" /\ Covered(r) /\ \A q \in Replicas \ {r} : pc[q] = "idle"
    BY <1>20, <1>4 DEF ReadFailure, TimingInv
  <2>2. Reserve(r)' = Reserve(r)
    BY <1>20 DEF ReadFailure, Reserve
  <2>3. TypeOK'
    BY <1>20, <2>1 DEF ReadFailure, TimingInv
  <2>4. TimersInv'
    BY <1>20, <2>1 DEF ReadFailure, TimingInv
  <2>5. NoOverlap' /\ OutgoingInv'
    BY <1>20, <2>1 DEF ReadFailure, TimingInv
  <2>6. Covered(r)'
    BY <1>20, <1>3, <2>1, <2>2 DEF ReadFailure, TimingInv
  <2>7. \A q \in Replicas \ {r} : pc'[q] = "idle"
    BY <1>20, <2>1 DEF ReadFailure, TimingInv
  <2> HIDE DEF TypeOK, TimersInv, NoOverlap, OutgoingInv, Covered
  <2> QED
    BY <2>3, <2>4, <2>5, <2>6, <2>7 DEF TimingInv
<1>21. CASE Tick
  <2>1. /\ \A q \in Replicas : ~ Due(q)
        /\ UNCHANGED <<present, receipt, dequeued, terminations, docs, outcome, pc, call, misses>>
    BY <1>21 DEF Tick
  <2>2. /\ hiddenFor' = Later(hiddenFor)
        /\ wait' = [q \in Replicas |-> Later(wait[q])]
        /\ age' = [q \in Replicas |-> IF pc[q] = "starting" THEN age[q] + 1 ELSE age[q]]
        /\ ran' = [q \in Replicas |-> IF pc[q] = "compiling" THEN Smaller(ran[q] + 1, MaxTotal + 1)
                                                             ELSE ran[q]]
    BY <1>21 DEF Tick
  <2>3. ASSUME NEW q \in Replicas
        PROVE  /\ age'[q] \in 0..Startup /\ ran'[q] \in 0..(MaxTotal + 1) /\ wait'[q] \in 0..Every
               /\ ran'[q] <= Budget(docs)
               /\ pc[q] = "idle" => age'[q] = 0 /\ ran'[q] = 0 /\ wait'[q] = 0
    BY <2>1, <2>2 DEF Due, Overdue, TimingInv
  <2>4. TypeOK'
    BY <2>1, <2>2, <2>3 DEF TimingInv
  <2>5. TimersInv' /\ NoOverlap' /\ OutgoingInv'
    BY <2>1, <2>3 DEF TimingInv, Budget
  <2>6. ASSUME NEW r \in Replicas, pc'[r] # "idle" PROVE Covered(r)'
    <3>1. Reserve(r)' = Reserve(r)
      BY <2>1 DEF Reserve
    <3>2. Covered(r) /\ ~ Due(r)
      BY <2>1, <2>6 DEF TimingInv
    <3>3. CASE pc[r] = "starting"
      BY <1>3, <2>1, <2>2, <3>1, <3>2, <3>3 DEF Due, TimingInv
    <3>4. CASE pc[r] = "compiling"
      BY <1>3, <2>1, <2>2, <3>1, <3>2, <3>4 DEF Due, TimingInv
    <3> QED
      BY <2>1, <2>6, <3>2, <3>3, <3>4 DEF Due, TimingInv
  <2> QED
    BY <2>4, <2>5, <2>6 DEF TimingInv
<1>22. CASE UNCHANGED vars
  <2>1. \A r \in Replicas : Reserve(r)' = Reserve(r)
    BY <1>22 DEF vars, Reserve
  <2> QED
    BY <1>22, <2>1 DEF vars, TimingInv, Budget
<1> HIDE DEF TypeOK, TimersInv, NoOverlap, OutgoingInv, Covered, Place, CallState
<1> QED
  BY <1>5, <1>6, <1>7, <1>8, <1>9, <1>10, <1>11, <1>12, <1>13, <1>14, <1>15, <1>16, <1>17, <1>18, <1>19, <1>20, <1>21, <1>22
     DEF Next, Work, Renewing

\* LeaseTiming is well typed: a message is received once too often at most, and once
\* more for every termination, and no renewer outlives the time it is given.
THEOREM TimingTypeCorrect == Spec => []TypeOK
<1>1. TimingInv => TypeOK
  BY DEF TimingInv
<1> QED
  BY <1>1, TimingInit, TimingStep, PTL DEF Spec

\* While a replica is at work the lease is its own, so that no second compile of
\* the message starts on top of it -- whatever its size, and although renewals fail.
THEOREM LeaseIsItsOwn == Spec => []NoOverlap
<1>1. TimingInv => NoOverlap
  BY DEF TimingInv
<1> QED
  BY <1>1, TimingInit, TimingStep, PTL DEF Spec

\* A completed compile's message is gone once its replica is done with it, although
\* every renewal replaces the receipt that the delete needs.
THEOREM CompletedMessageIsGone == Spec => []CompletedIsGone
<1>1. TimingInv => CompletedIsGone
  BY DEF TimingInv, OutgoingInv, CompletedIsGone
<1> QED
  BY <1>1, TimingInit, TimingStep, PTL DEF Spec

\* What a termination hands back can be received at once, a renewal in flight at
\* the time notwithstanding.
THEOREM ReleasedIsVisible == Spec => TerminatedIsVisible
<1>1. ASSUME TimingInv, [Next]_vars
      PROVE  \A r \in Replicas :
                pc[r] \in {"releasing", "returning"} /\ pc'[r] = "idle" => hiddenFor' = 0
  <2> SUFFICES ASSUME NEW r \in Replicas, pc[r] \in {"releasing", "returning"}, pc'[r] = "idle" PROVE hiddenFor' = 0
    OBVIOUS
  <2> USE DEF TimingInv, TypeOK
  <2>1. CASE Tick \/ UNCHANGED vars
    BY <1>1, <2>1 DEF Tick, vars
  <2>2. ASSUME NEW q \in Replicas, Work(q), ~ Release(q) PROVE hiddenFor' = 0
    BY <1>1, <2>2 DEF Work, Receive, GiveUp, Begin, LeaveCompile, Acknowledge, WatchdogFires, FinishCancel
  <2>3. ASSUME NEW q \in Replicas, Renewing(q) \/ CompileEnds(q) \/ Cancel(q) \/ Sigterm(q) PROVE hiddenFor' = 0
    BY <1>1, <2>3 DEF Renewing, RenewerWakes, Renew, RenewalFails, ReadReply, ReadFailure, CompileEnds, Cancel, Sigterm
  <2>4. ASSUME NEW q \in Replicas, Release(q) PROVE hiddenFor' = 0
    <3>1. q = r
      BY <1>1, <2>4 DEF Release
    <3>2. Covered(r) /\ Stopped(r)
      BY <1>1, <2>4, <3>1 DEF Release
    <3> QED
      BY <2>4, <3>1, <3>2 DEF Covered, Release, Stopped
  <2> QED
    BY <1>1, <2>1, <2>2, <2>3, <2>4 DEF Next
<1> QED
  BY <1>1, TimingInit, TimingStep, PTL DEF Spec, TerminatedIsVisible
===============================================================================
