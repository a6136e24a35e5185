------------------------- MODULE CompileProcessProofs -------------------------
(***************************************************************************)
(* What holds of CompileProcess however its threads interleave, whatever   *)
(* goes wrong and however often.                                           *)
(***************************************************************************)
EXTENDS CompileProcess, TLAPS

USE DEF pageVars, queueVars, localVars, At, Go, Fault, WritePage, Mark, Exit, StatusStep, PageStep,
        ClearStep, FailPageIfOurs, Silence, FreeKeepalive

\* A compile on its way in is known to a termination already, and a message that
\* was received once too often is gone.
ProcessInv ==
  /\ TypeOK
  /\ pc["main"] \in {"watch", "keepalive", "remember"} => job \/ pc["canceller"] = "exit"
  /\ attempt = MaxDequeue + 1 => message = "deleted"
  /\ pc["heartbeat"] \in {"off", "armed", "writing", "marking"}

\* From its first report to the end the compile's page does not say done, and the
\* heartbeat is off before it does.
DoneInv ==
  /\ pc["main"] \in {"stages", "mark", "silence", "projection", "projecting", "upload", "done"} =>
       page # [of |-> "ours", is |-> "done"]
  /\ pc["main"] \in {"projection", "projecting", "upload", "done"} => pc["heartbeat"] = "off"
  /\ page = [of |-> "ours", is |-> "done"] => pc["heartbeat"] = "off"

\* A version a killer has read and nobody replaced is of its own compile.
SnapshotInv == \A k \in Killers : snapshot[k] = "current" => page.of = "ours"
------------------------------------------------------------------------------
\* Every step keeps the types, and what a termination knows of.
LEMMA ProcessStep ==
  ASSUME ProcessInv, [Next]_vars
  PROVE  ProcessInv'
<1> USE BoundsAssumption DEF ProcessInv, TypeOK, Killers, Threads, MainPlace, WatcherPlace, Inside, Hopeless, First, After, Stage
<1>1. CASE Restart
  BY <1>1 DEF Restart
<1>2. CASE Recover
  <2>1. page' \in [of : {"nobody", "older", "ours", "newer"},
                is : {"none", "running", "done", "failed", "interrupted", "cancelled"}]
    BY <1>2 DEF Recover
  <2>2. snapshot' \in [Killers -> {"none", "absent", "current", "outdated"}]
    BY <1>2 DEF Recover
  <2>3. /\ status' \in Hopeless \cup {"none", "running", "completed", "exception", "cancelled",
                              "terminated", "exhausted_retries"}
       /\ marker' \in {"none", "bare", "full"} /\ message' \in {"visible", "leased", "deleted"}
       /\ newer' \in {"none", "running", "done"}
    BY <1>2 DEF Recover
  <2>4. attempt' \in 0..(MaxDequeue + 1) /\ faults' \in 0..MaxFaults /\ (attempt' = MaxDequeue + 1 => message' = "deleted")
    BY <1>2 DEF Recover
  <2>5. /\ keepalive' \in BOOLEAN /\ known' \in BOOLEAN /\ job' \in BOOLEAN /\ raised' \in BOOLEAN
       /\ request' \in BOOLEAN /\ lock' \in BOOLEAN /\ silenced' \in BOOLEAN /\ cancelled' \in BOOLEAN
    BY <1>2 DEF Recover
  <2>6. pc' \in [Threads -> MainPlace \cup WatcherPlace]
    BY <1>2 DEF Recover
  <2>7. pc'["main"] \in Inside \cup {"watch", "keepalive", "remember"} => job' \/ pc'["canceller"] = "exit"
    BY <1>2 DEF Recover
  <2>8. pc'["heartbeat"] \in {"off", "armed", "writing", "marking"}
    BY <1>2 DEF Recover
  <2>9. lock' <=> pc'["heartbeat"] \in {"writing", "marking"}
    BY <1>2 DEF Recover
  <2> HIDE DEF Killers, Threads, MainPlace, WatcherPlace, Inside, Hopeless
  <2> QED
    BY <2>1, <2>2, <2>3, <2>4, <2>5, <2>6, <2>7, <2>8, <2>9
<1>3. CASE GiveUp
  BY <1>3 DEF GiveUp
<1>4. CASE Receive
  BY <1>4 DEF Receive
<1>5. CASE StartWatchdog
  BY <1>5 DEF StartWatchdog
<1>6. CASE SendKeepalive
  BY <1>6 DEF SendKeepalive
<1>7. CASE RememberKeepalive
  BY <1>7 DEF RememberKeepalive
<1>8. CASE CompileStatus
  BY <1>8 DEF CompileStatus
<1>9. CASE Seed
  BY <1>9 DEF Seed
<1>10. CASE StageReports
  <2>1. page' \in [of : {"nobody", "older", "ours", "newer"},
                is : {"none", "running", "done", "failed", "interrupted", "cancelled"}]
    BY <1>10 DEF StageReports
  <2>2. snapshot' \in [Killers -> {"none", "absent", "current", "outdated"}]
    BY <1>10 DEF StageReports
  <2>3. /\ status' \in Hopeless \cup {"none", "running", "completed", "exception", "cancelled",
                              "terminated", "exhausted_retries"}
       /\ marker' \in {"none", "bare", "full"} /\ message' \in {"visible", "leased", "deleted"}
       /\ newer' \in {"none", "running", "done"}
    BY <1>10 DEF StageReports
  <2>4. attempt' \in 0..(MaxDequeue + 1) /\ faults' \in 0..MaxFaults /\ (attempt' = MaxDequeue + 1 => message' = "deleted")
    BY <1>10 DEF StageReports
  <2>5. /\ keepalive' \in BOOLEAN /\ known' \in BOOLEAN /\ job' \in BOOLEAN /\ raised' \in BOOLEAN
       /\ request' \in BOOLEAN /\ lock' \in BOOLEAN /\ silenced' \in BOOLEAN /\ cancelled' \in BOOLEAN
    BY <1>10 DEF StageReports
  <2>6. pc' \in [Threads -> MainPlace \cup WatcherPlace]
    BY <1>10 DEF StageReports
  <2>7. pc'["main"] \in Inside \cup {"watch", "keepalive", "remember"} => job' \/ pc'["canceller"] = "exit"
    BY <1>10 DEF StageReports
  <2>8. pc'["heartbeat"] \in {"off", "armed", "writing", "marking"}
    BY <1>10 DEF StageReports
  <2>9. lock' <=> pc'["heartbeat"] \in {"writing", "marking"}
    BY <1>10 DEF StageReports
  <2> HIDE DEF Killers, Threads, MainPlace, WatcherPlace, Inside, Hopeless
  <2> QED
    BY <2>1, <2>2, <2>3, <2>4, <2>5, <2>6, <2>7, <2>8, <2>9
<1>11. CASE StageMarks
  BY <1>11 DEF StageMarks
<1>12. CASE StagesOver
  BY <1>12 DEF StagesOver
<1>13. CASE StagesSilence
  BY <1>13 DEF StagesSilence
<1>14. CASE ProjectionPage
  BY <1>14 DEF ProjectionPage
<1>15. CASE ProjectionStatus
  BY <1>15 DEF ProjectionStatus
<1>16. CASE UploadEnvelope
  BY <1>16 DEF UploadEnvelope
<1>17. CASE DonePage
  BY <1>17 DEF DonePage
<1>18. CASE FinallySilence
  <2>1. page' \in [of : {"nobody", "older", "ours", "newer"},
                is : {"none", "running", "done", "failed", "interrupted", "cancelled"}]
    BY <1>18 DEF FinallySilence
  <2>2. snapshot' \in [Killers -> {"none", "absent", "current", "outdated"}]
    BY <1>18 DEF FinallySilence
  <2>3. /\ status' \in Hopeless \cup {"none", "running", "completed", "exception", "cancelled",
                              "terminated", "exhausted_retries"}
       /\ marker' \in {"none", "bare", "full"} /\ message' \in {"visible", "leased", "deleted"}
       /\ newer' \in {"none", "running", "done"}
    BY <1>18 DEF FinallySilence
  <2>4. attempt' \in 0..(MaxDequeue + 1) /\ faults' \in 0..MaxFaults /\ (attempt' = MaxDequeue + 1 => message' = "deleted")
    BY <1>18 DEF FinallySilence
  <2>5. /\ keepalive' \in BOOLEAN /\ known' \in BOOLEAN /\ job' \in BOOLEAN /\ raised' \in BOOLEAN
       /\ request' \in BOOLEAN /\ lock' \in BOOLEAN /\ silenced' \in BOOLEAN /\ cancelled' \in BOOLEAN
    BY <1>18 DEF FinallySilence
  <2>6. pc' \in [Threads -> MainPlace \cup WatcherPlace]
    BY <1>18 DEF FinallySilence
  <2>7. pc'["main"] \in Inside \cup {"watch", "keepalive", "remember"} => job' \/ pc'["canceller"] = "exit"
    BY <1>18 DEF FinallySilence
  <2>8. pc'["heartbeat"] \in {"off", "armed", "writing", "marking"}
    BY <1>18 DEF FinallySilence
  <2>9. lock' <=> pc'["heartbeat"] \in {"writing", "marking"}
    BY <1>18 DEF FinallySilence
  <2> HIDE DEF Killers, Threads, MainPlace, WatcherPlace, Inside, Hopeless
  <2> QED
    BY <2>1, <2>2, <2>3, <2>4, <2>5, <2>6, <2>7, <2>8, <2>9
<1>19. CASE FinallyClear
  BY <1>19 DEF FinallyClear
<1>20. CASE StopWatchers
  BY <1>20 DEF StopWatchers
<1>21. CASE FinallyFree
  <2>1. page' \in [of : {"nobody", "older", "ours", "newer"},
                is : {"none", "running", "done", "failed", "interrupted", "cancelled"}]
    BY <1>21 DEF FinallyFree
  <2>2. snapshot' \in [Killers -> {"none", "absent", "current", "outdated"}]
    BY <1>21 DEF FinallyFree
  <2>3. /\ status' \in Hopeless \cup {"none", "running", "completed", "exception", "cancelled",
                              "terminated", "exhausted_retries"}
       /\ marker' \in {"none", "bare", "full"} /\ message' \in {"visible", "leased", "deleted"}
       /\ newer' \in {"none", "running", "done"}
    BY <1>21 DEF FinallyFree
  <2>4. attempt' \in 0..(MaxDequeue + 1) /\ faults' \in 0..MaxFaults /\ (attempt' = MaxDequeue + 1 => message' = "deleted")
    BY <1>21 DEF FinallyFree
  <2>5. /\ keepalive' \in BOOLEAN /\ known' \in BOOLEAN /\ job' \in BOOLEAN /\ raised' \in BOOLEAN
       /\ request' \in BOOLEAN /\ lock' \in BOOLEAN /\ silenced' \in BOOLEAN /\ cancelled' \in BOOLEAN
    BY <1>21 DEF FinallyFree
  <2>6. pc' \in [Threads -> MainPlace \cup WatcherPlace]
    BY <1>21 DEF FinallyFree
  <2>7. pc'["main"] \in Inside \cup {"watch", "keepalive", "remember"} => job' \/ pc'["canceller"] = "exit"
    BY <1>21 DEF FinallyFree
  <2>8. pc'["heartbeat"] \in {"off", "armed", "writing", "marking"}
    BY <1>21 DEF FinallyFree
  <2>9. lock' <=> pc'["heartbeat"] \in {"writing", "marking"}
    BY <1>21 DEF FinallyFree
  <2> HIDE DEF Killers, Threads, MainPlace, WatcherPlace, Inside, Hopeless
  <2> QED
    BY <2>1, <2>2, <2>3, <2>4, <2>5, <2>6, <2>7, <2>8, <2>9
<1>22. CASE RecordCompleted
  BY <1>22 DEF RecordCompleted
<1>23. CASE Acknowledge
  <2>1. page' \in [of : {"nobody", "older", "ours", "newer"},
                is : {"none", "running", "done", "failed", "interrupted", "cancelled"}]
    BY <1>23 DEF Acknowledge
  <2>2. snapshot' \in [Killers -> {"none", "absent", "current", "outdated"}]
    BY <1>23 DEF Acknowledge
  <2>3. /\ status' \in Hopeless \cup {"none", "running", "completed", "exception", "cancelled",
                              "terminated", "exhausted_retries"}
       /\ marker' \in {"none", "bare", "full"} /\ message' \in {"visible", "leased", "deleted"}
       /\ newer' \in {"none", "running", "done"}
    BY <1>23 DEF Acknowledge
  <2>4. attempt' \in 0..(MaxDequeue + 1) /\ faults' \in 0..MaxFaults /\ (attempt' = MaxDequeue + 1 => message' = "deleted")
    BY <1>23 DEF Acknowledge
  <2>5. /\ keepalive' \in BOOLEAN /\ known' \in BOOLEAN /\ job' \in BOOLEAN /\ raised' \in BOOLEAN
       /\ request' \in BOOLEAN /\ lock' \in BOOLEAN /\ silenced' \in BOOLEAN /\ cancelled' \in BOOLEAN
    BY <1>23 DEF Acknowledge
  <2>6. pc' \in [Threads -> MainPlace \cup WatcherPlace]
    BY <1>23 DEF Acknowledge
  <2>7. pc'["main"] \in Inside \cup {"watch", "keepalive", "remember"} => job' \/ pc'["canceller"] = "exit"
    BY <1>23 DEF Acknowledge
  <2>8. pc'["heartbeat"] \in {"off", "armed", "writing", "marking"}
    BY <1>23 DEF Acknowledge
  <2>9. lock' <=> pc'["heartbeat"] \in {"writing", "marking"}
    BY <1>23 DEF Acknowledge
  <2> HIDE DEF Killers, Threads, MainPlace, WatcherPlace, Inside, Hopeless
  <2> QED
    BY <2>1, <2>2, <2>3, <2>4, <2>5, <2>6, <2>7, <2>8, <2>9
<1>24. CASE FailPage
  BY <1>24 DEF FailPage
<1>25. CASE RecordException
  BY <1>25 DEF RecordException
<1>26. CASE TermClear
  BY <1>26 DEF TermClear
<1>27. CASE TermPage
  BY <1>27 DEF TermPage
<1>28. CASE TermStatus
  BY <1>28 DEF TermStatus
<1>29. CASE BeatTakes
  BY <1>29 DEF BeatTakes
<1>30. CASE BeatPage
  BY <1>30 DEF BeatPage
<1>31. CASE BeatMarks
  <2>1. page' \in [of : {"nobody", "older", "ours", "newer"},
                is : {"none", "running", "done", "failed", "interrupted", "cancelled"}]
    BY <1>31 DEF BeatMarks
  <2>2. snapshot' \in [Killers -> {"none", "absent", "current", "outdated"}]
    BY <1>31 DEF BeatMarks
  <2>3. /\ status' \in Hopeless \cup {"none", "running", "completed", "exception", "cancelled",
                              "terminated", "exhausted_retries"}
       /\ marker' \in {"none", "bare", "full"} /\ message' \in {"visible", "leased", "deleted"}
       /\ newer' \in {"none", "running", "done"}
    BY <1>31 DEF BeatMarks
  <2>4. attempt' \in 0..(MaxDequeue + 1) /\ faults' \in 0..MaxFaults /\ (attempt' = MaxDequeue + 1 => message' = "deleted")
    BY <1>31 DEF BeatMarks
  <2>5. /\ keepalive' \in BOOLEAN /\ known' \in BOOLEAN /\ job' \in BOOLEAN /\ raised' \in BOOLEAN
       /\ request' \in BOOLEAN /\ lock' \in BOOLEAN /\ silenced' \in BOOLEAN /\ cancelled' \in BOOLEAN
    BY <1>31 DEF BeatMarks
  <2>6. pc' \in [Threads -> MainPlace \cup WatcherPlace]
    BY <1>31 DEF BeatMarks
  <2>7. pc'["main"] \in Inside \cup {"watch", "keepalive", "remember"} => job' \/ pc'["canceller"] = "exit"
    BY <1>31 DEF BeatMarks
  <2>8. pc'["heartbeat"] \in {"off", "armed", "writing", "marking"}
    BY <1>31 DEF BeatMarks
  <2>9. lock' <=> pc'["heartbeat"] \in {"writing", "marking"}
    BY <1>31 DEF BeatMarks
  <2> HIDE DEF Killers, Threads, MainPlace, WatcherPlace, Inside, Hopeless
  <2> QED
    BY <2>1, <2>2, <2>3, <2>4, <2>5, <2>6, <2>7, <2>8, <2>9
<1>32. CASE CancelStatus
  BY <1>32 DEF CancelStatus
<1>33. CASE CancelPage
  BY <1>33 DEF CancelPage
<1>34. CASE CancelMessage
  BY <1>34 DEF CancelMessage
<1>35. CASE CancelRequest
  <2>1. page' \in [of : {"nobody", "older", "ours", "newer"},
                is : {"none", "running", "done", "failed", "interrupted", "cancelled"}]
    BY <1>35 DEF CancelRequest
  <2>2. snapshot' \in [Killers -> {"none", "absent", "current", "outdated"}]
    BY <1>35 DEF CancelRequest
  <2>3. /\ status' \in Hopeless \cup {"none", "running", "completed", "exception", "cancelled",
                              "terminated", "exhausted_retries"}
       /\ marker' \in {"none", "bare", "full"} /\ message' \in {"visible", "leased", "deleted"}
       /\ newer' \in {"none", "running", "done"}
    BY <1>35 DEF CancelRequest
  <2>4. attempt' \in 0..(MaxDequeue + 1) /\ faults' \in 0..MaxFaults /\ (attempt' = MaxDequeue + 1 => message' = "deleted")
    BY <1>35 DEF CancelRequest
  <2>5. /\ keepalive' \in BOOLEAN /\ known' \in BOOLEAN /\ job' \in BOOLEAN /\ raised' \in BOOLEAN
       /\ request' \in BOOLEAN /\ lock' \in BOOLEAN /\ silenced' \in BOOLEAN /\ cancelled' \in BOOLEAN
    BY <1>35 DEF CancelRequest
  <2>6. pc' \in [Threads -> MainPlace \cup WatcherPlace]
    BY <1>35 DEF CancelRequest
  <2>7. pc'["main"] \in Inside \cup {"watch", "keepalive", "remember"} => job' \/ pc'["canceller"] = "exit"
    BY <1>35 DEF CancelRequest
  <2>8. pc'["heartbeat"] \in {"off", "armed", "writing", "marking"}
    BY <1>35 DEF CancelRequest
  <2>9. lock' <=> pc'["heartbeat"] \in {"writing", "marking"}
    BY <1>35 DEF CancelRequest
  <2> HIDE DEF Killers, Threads, MainPlace, WatcherPlace, Inside, Hopeless
  <2> QED
    BY <2>1, <2>2, <2>3, <2>4, <2>5, <2>6, <2>7, <2>8, <2>9
<1>36. CASE CancelClear
  BY <1>36 DEF CancelClear
<1>37. CASE CancelForget
  <2>1. page' \in [of : {"nobody", "older", "ours", "newer"},
                is : {"none", "running", "done", "failed", "interrupted", "cancelled"}]
    BY <1>37 DEF CancelForget
  <2>2. snapshot' \in [Killers -> {"none", "absent", "current", "outdated"}]
    BY <1>37 DEF CancelForget
  <2>3. /\ status' \in Hopeless \cup {"none", "running", "completed", "exception", "cancelled",
                              "terminated", "exhausted_retries"}
       /\ marker' \in {"none", "bare", "full"} /\ message' \in {"visible", "leased", "deleted"}
       /\ newer' \in {"none", "running", "done"}
    BY <1>37 DEF CancelForget
  <2>4. attempt' \in 0..(MaxDequeue + 1) /\ faults' \in 0..MaxFaults /\ (attempt' = MaxDequeue + 1 => message' = "deleted")
    BY <1>37 DEF CancelForget
  <2>5. /\ keepalive' \in BOOLEAN /\ known' \in BOOLEAN /\ job' \in BOOLEAN /\ raised' \in BOOLEAN
       /\ request' \in BOOLEAN /\ lock' \in BOOLEAN /\ silenced' \in BOOLEAN /\ cancelled' \in BOOLEAN
    BY <1>37 DEF CancelForget
  <2>6. pc' \in [Threads -> MainPlace \cup WatcherPlace]
    BY <1>37 DEF CancelForget
  <2>7. pc'["main"] \in Inside \cup {"watch", "keepalive", "remember"} => job' \/ pc'["canceller"] = "exit"
    BY <1>37 DEF CancelForget
  <2>8. pc'["heartbeat"] \in {"off", "armed", "writing", "marking"}
    BY <1>37 DEF CancelForget
  <2>9. lock' <=> pc'["heartbeat"] \in {"writing", "marking"}
    BY <1>37 DEF CancelForget
  <2> HIDE DEF Killers, Threads, MainPlace, WatcherPlace, Inside, Hopeless
  <2> QED
    BY <2>1, <2>2, <2>3, <2>4, <2>5, <2>6, <2>7, <2>8, <2>9
<1>38. CASE Lapse
  BY <1>38 DEF Lapse
<1>39. CASE CompileRaises
  BY <1>39 DEF CompileRaises
<1>40. CASE RequestCancel
  BY <1>40 DEF RequestCancel
<1>41. CASE Sigterm
  <2>1. page' \in [of : {"nobody", "older", "ours", "newer"},
                is : {"none", "running", "done", "failed", "interrupted", "cancelled"}]
    BY <1>41 DEF Sigterm
  <2>2. snapshot' \in [Killers -> {"none", "absent", "current", "outdated"}]
    BY <1>41 DEF Sigterm
  <2>3. /\ status' \in Hopeless \cup {"none", "running", "completed", "exception", "cancelled",
                              "terminated", "exhausted_retries"}
       /\ marker' \in {"none", "bare", "full"} /\ message' \in {"visible", "leased", "deleted"}
       /\ newer' \in {"none", "running", "done"}
    BY <1>41 DEF Sigterm
  <2>4. attempt' \in 0..(MaxDequeue + 1) /\ faults' \in 0..MaxFaults /\ (attempt' = MaxDequeue + 1 => message' = "deleted")
    BY <1>41 DEF Sigterm
  <2>5. /\ keepalive' \in BOOLEAN /\ known' \in BOOLEAN /\ job' \in BOOLEAN /\ raised' \in BOOLEAN
       /\ request' \in BOOLEAN /\ lock' \in BOOLEAN /\ silenced' \in BOOLEAN /\ cancelled' \in BOOLEAN
    BY <1>41 DEF Sigterm
  <2>6. pc' \in [Threads -> MainPlace \cup WatcherPlace]
    BY <1>41 DEF Sigterm
  <2>7. pc'["main"] \in Inside \cup {"watch", "keepalive", "remember"} => job' \/ pc'["canceller"] = "exit"
    BY <1>41 DEF Sigterm
  <2>8. pc'["heartbeat"] \in {"off", "armed", "writing", "marking"}
    BY <1>41 DEF Sigterm
  <2>9. lock' <=> pc'["heartbeat"] \in {"writing", "marking"}
    BY <1>41 DEF Sigterm
  <2> HIDE DEF Killers, Threads, MainPlace, WatcherPlace, Inside, Hopeless
  <2> QED
    BY <2>1, <2>2, <2>3, <2>4, <2>5, <2>6, <2>7, <2>8, <2>9
<1>42. CASE Sigkill
  <2>1. page' \in [of : {"nobody", "older", "ours", "newer"},
                is : {"none", "running", "done", "failed", "interrupted", "cancelled"}]
    BY <1>42 DEF Sigkill
  <2>2. snapshot' \in [Killers -> {"none", "absent", "current", "outdated"}]
    BY <1>42 DEF Sigkill
  <2>3. /\ status' \in Hopeless \cup {"none", "running", "completed", "exception", "cancelled",
                              "terminated", "exhausted_retries"}
       /\ marker' \in {"none", "bare", "full"} /\ message' \in {"visible", "leased", "deleted"}
       /\ newer' \in {"none", "running", "done"}
    BY <1>42 DEF Sigkill
  <2>4. attempt' \in 0..(MaxDequeue + 1) /\ faults' \in 0..MaxFaults /\ (attempt' = MaxDequeue + 1 => message' = "deleted")
    BY <1>42 DEF Sigkill
  <2>5. /\ keepalive' \in BOOLEAN /\ known' \in BOOLEAN /\ job' \in BOOLEAN /\ raised' \in BOOLEAN
       /\ request' \in BOOLEAN /\ lock' \in BOOLEAN /\ silenced' \in BOOLEAN /\ cancelled' \in BOOLEAN
    BY <1>42 DEF Sigkill
  <2>6. pc' \in [Threads -> MainPlace \cup WatcherPlace]
    BY <1>42 DEF Sigkill
  <2>7. pc'["main"] \in Inside \cup {"watch", "keepalive", "remember"} => job' \/ pc'["canceller"] = "exit"
    BY <1>42 DEF Sigkill
  <2>8. pc'["heartbeat"] \in {"off", "armed", "writing", "marking"}
    BY <1>42 DEF Sigkill
  <2>9. lock' <=> pc'["heartbeat"] \in {"writing", "marking"}
    BY <1>42 DEF Sigkill
  <2> HIDE DEF Killers, Threads, MainPlace, WatcherPlace, Inside, Hopeless
  <2> QED
    BY <2>1, <2>2, <2>3, <2>4, <2>5, <2>6, <2>7, <2>8, <2>9
<1>43. CASE NewerWrites
  BY <1>43 DEF NewerWrites
<1>44. ASSUME NEW k \in Killers, Fire(k) PROVE ProcessInv'
  BY <1>44 DEF Fire
<1>45. ASSUME NEW k \in Killers, KillStatus(k) PROVE ProcessInv'
  BY <1>45 DEF KillStatus
<1>46. ASSUME NEW k \in Killers, ReadPage(k) PROVE ProcessInv'
  BY <1>46 DEF ReadPage
<1>47. ASSUME NEW k \in Killers, KillPage(k) PROVE ProcessInv'
  BY <1>47 DEF KillPage
<1>48. ASSUME NEW k \in Killers, KillClear(k) PROVE ProcessInv'
  <2>1. page' \in [of : {"nobody", "older", "ours", "newer"},
                is : {"none", "running", "done", "failed", "interrupted", "cancelled"}]
    BY <1>48 DEF KillClear
  <2>2. snapshot' \in [Killers -> {"none", "absent", "current", "outdated"}]
    BY <1>48 DEF KillClear
  <2>3. /\ status' \in Hopeless \cup {"none", "running", "completed", "exception", "cancelled",
                              "terminated", "exhausted_retries"}
       /\ marker' \in {"none", "bare", "full"} /\ message' \in {"visible", "leased", "deleted"}
       /\ newer' \in {"none", "running", "done"}
    BY <1>48 DEF KillClear
  <2>4. attempt' \in 0..(MaxDequeue + 1) /\ faults' \in 0..MaxFaults /\ (attempt' = MaxDequeue + 1 => message' = "deleted")
    BY <1>48 DEF KillClear
  <2>5. /\ keepalive' \in BOOLEAN /\ known' \in BOOLEAN /\ job' \in BOOLEAN /\ raised' \in BOOLEAN
       /\ request' \in BOOLEAN /\ lock' \in BOOLEAN /\ silenced' \in BOOLEAN /\ cancelled' \in BOOLEAN
    BY <1>48 DEF KillClear
  <2>6. pc' \in [Threads -> MainPlace \cup WatcherPlace]
    BY <1>48 DEF KillClear
  <2>7. pc'["main"] \in Inside \cup {"watch", "keepalive", "remember"} => job' \/ pc'["canceller"] = "exit"
    BY <1>48 DEF KillClear
  <2>8. pc'["heartbeat"] \in {"off", "armed", "writing", "marking"}
    BY <1>48 DEF KillClear
  <2>9. lock' <=> pc'["heartbeat"] \in {"writing", "marking"}
    BY <1>48 DEF KillClear
  <2> HIDE DEF Killers, Threads, MainPlace, WatcherPlace, Inside, Hopeless
  <2> QED
    BY <2>1, <2>2, <2>3, <2>4, <2>5, <2>6, <2>7, <2>8, <2>9
<1>49. ASSUME NEW t \in Threads, Leave(t) PROVE ProcessInv'
  <2>1. page' \in [of : {"nobody", "older", "ours", "newer"},
                is : {"none", "running", "done", "failed", "interrupted", "cancelled"}]
    BY <1>49 DEF Leave
  <2>2. snapshot' \in [Killers -> {"none", "absent", "current", "outdated"}]
    BY <1>49 DEF Leave
  <2>3. /\ status' \in Hopeless \cup {"none", "running", "completed", "exception", "cancelled",
                              "terminated", "exhausted_retries"}
       /\ marker' \in {"none", "bare", "full"} /\ message' \in {"visible", "leased", "deleted"}
       /\ newer' \in {"none", "running", "done"}
    BY <1>49 DEF Leave
  <2>4. attempt' \in 0..(MaxDequeue + 1) /\ faults' \in 0..MaxFaults /\ (attempt' = MaxDequeue + 1 => message' = "deleted")
    BY <1>49 DEF Leave
  <2>5. /\ keepalive' \in BOOLEAN /\ known' \in BOOLEAN /\ job' \in BOOLEAN /\ raised' \in BOOLEAN
       /\ request' \in BOOLEAN /\ lock' \in BOOLEAN /\ silenced' \in BOOLEAN /\ cancelled' \in BOOLEAN
    BY <1>49 DEF Leave
  <2>6. pc' \in [Threads -> MainPlace \cup WatcherPlace]
    BY <1>49 DEF Leave
  <2>7. pc'["main"] \in Inside \cup {"watch", "keepalive", "remember"} => job' \/ pc'["canceller"] = "exit"
    BY <1>49 DEF Leave
  <2>8. pc'["heartbeat"] \in {"off", "armed", "writing", "marking"}
    BY <1>49 DEF Leave
  <2>9. lock' <=> pc'["heartbeat"] \in {"writing", "marking"}
    BY <1>49 DEF Leave
  <2> HIDE DEF Killers, Threads, MainPlace, WatcherPlace, Inside, Hopeless
  <2> QED
    BY <2>1, <2>2, <2>3, <2>4, <2>5, <2>6, <2>7, <2>8, <2>9
<1>50. CASE UNCHANGED vars
  BY <1>50 DEF vars
<1> HIDE BoundsAssumption DEF ProcessInv, TypeOK, Killers, Threads, MainPlace, WatcherPlace, Inside, Hopeless, First, After, Stage
<1> QED
  BY <1>1, <1>2, <1>3, <1>4, <1>5, <1>6, <1>7, <1>8, <1>9, <1>10, <1>11, <1>12, <1>13, <1>14, <1>15, <1>16,
     <1>17, <1>18, <1>19, <1>20, <1>21, <1>22, <1>23, <1>24, <1>25, <1>26, <1>27, <1>28, <1>29, <1>30, <1>31, <1>32,
     <1>33, <1>34, <1>35, <1>36, <1>37, <1>38, <1>39, <1>40, <1>41, <1>42, <1>43, <1>44, <1>45, <1>46, <1>47, <1>48,
     <1>49, <1>50
     DEF Next, Main, Heartbeat, Canceller, Kill, Threads

\* The initial state is well typed.
LEMMA ProcessInit == Init => ProcessInv
<1> SUFFICES ASSUME Init PROVE ProcessInv
  OBVIOUS
<1>1. page \in [of : {"nobody", "older", "ours", "newer"},
                is : {"none", "running", "done", "failed", "interrupted", "cancelled"}]
  BY DEF Init
<1>2. pc \in [Threads -> MainPlace \cup WatcherPlace] /\ pc["main"] = "poll" /\ pc["heartbeat"] = "off"
  BY DEF Init, Threads, MainPlace, WatcherPlace
<1>3. attempt = 0 /\ 0 \in 0..(MaxDequeue + 1) /\ faults = 0 /\ 0 \in 0..MaxFaults /\ 0 # MaxDequeue + 1
  BY BoundsAssumption DEF Init
<1>4. snapshot \in [Killers -> {"none", "absent", "current", "outdated"}]
  BY DEF Init
<1>5. /\ keepalive \in BOOLEAN /\ known \in BOOLEAN /\ job \in BOOLEAN /\ raised \in BOOLEAN
      /\ request \in BOOLEAN /\ lock \in BOOLEAN /\ silenced \in BOOLEAN /\ cancelled \in BOOLEAN
      /\ lock = FALSE
  BY DEF Init
<1>6. status = "none" /\ marker = "none" /\ message = "visible" /\ newer = "none"
  BY DEF Init
<1> QED
  BY <1>1, <1>2, <1>3, <1>4, <1>5, <1>6 DEF ProcessInv, TypeOK, Inside

\* CompileProcess is well typed: a compile at work is one that a termination hands
\* back, until its cancellation is complete, and the lock is held exactly while a
\* tick writes.
THEOREM ProcessTypeCorrect == Spec => []TypeOK
<1>1. ProcessInv => TypeOK
  BY DEF ProcessInv
<1> QED
  BY <1>1, ProcessInit, ProcessStep, PTL DEF Spec
------------------------------------------------------------------------------
\* Every step keeps the heartbeat off before the page says done.
LEMMA DoneStep ==
  ASSUME ProcessInv, DoneInv, [Next]_vars
  PROVE  DoneInv'
<1> USE DEF ProcessInv, TypeOK, Killers, Threads, DoneInv, Inside
<1>1. CASE Restart
  BY <1>1 DEF Restart
<1>2. CASE Recover
  BY <1>2 DEF Recover
<1>3. CASE GiveUp
  BY <1>3 DEF GiveUp
<1>4. CASE Receive
  BY <1>4 DEF Receive
<1>5. CASE StartWatchdog
  BY <1>5 DEF StartWatchdog
<1>6. CASE SendKeepalive
  BY <1>6 DEF SendKeepalive
<1>7. CASE RememberKeepalive
  BY <1>7 DEF RememberKeepalive
<1>8. CASE CompileStatus
  BY <1>8 DEF CompileStatus
<1>9. CASE Seed
  BY <1>9 DEF Seed
<1>10. CASE StageReports
  BY <1>10 DEF StageReports
<1>11. CASE StageMarks
  BY <1>11 DEF StageMarks
<1>12. CASE StagesOver
  BY <1>12 DEF StagesOver
<1>13. CASE StagesSilence
  BY <1>13 DEF StagesSilence
<1>14. CASE ProjectionPage
  BY <1>14 DEF ProjectionPage
<1>15. CASE ProjectionStatus
  BY <1>15 DEF ProjectionStatus
<1>16. CASE UploadEnvelope
  BY <1>16 DEF UploadEnvelope
<1>17. CASE DonePage
  BY <1>17 DEF DonePage
<1>18. CASE FinallySilence
  BY <1>18 DEF FinallySilence
<1>19. CASE FinallyClear
  BY <1>19 DEF FinallyClear
<1>20. CASE StopWatchers
  BY <1>20 DEF StopWatchers
<1>21. CASE FinallyFree
  BY <1>21 DEF FinallyFree
<1>22. CASE RecordCompleted
  BY <1>22 DEF RecordCompleted
<1>23. CASE Acknowledge
  BY <1>23 DEF Acknowledge
<1>24. CASE FailPage
  BY <1>24 DEF FailPage
<1>25. CASE RecordException
  BY <1>25 DEF RecordException
<1>26. CASE TermClear
  BY <1>26 DEF TermClear
<1>27. CASE TermPage
  BY <1>27 DEF TermPage
<1>28. CASE TermStatus
  BY <1>28 DEF TermStatus
<1>29. CASE BeatTakes
  BY <1>29 DEF BeatTakes
<1>30. CASE BeatPage
  BY <1>30 DEF BeatPage
<1>31. CASE BeatMarks
  BY <1>31 DEF BeatMarks
<1>32. CASE CancelStatus
  BY <1>32 DEF CancelStatus
<1>33. CASE CancelPage
  BY <1>33 DEF CancelPage
<1>34. CASE CancelMessage
  BY <1>34 DEF CancelMessage
<1>35. CASE CancelRequest
  BY <1>35 DEF CancelRequest
<1>36. CASE CancelClear
  BY <1>36 DEF CancelClear
<1>37. CASE CancelForget
  BY <1>37 DEF CancelForget
<1>38. CASE Lapse
  BY <1>38 DEF Lapse
<1>39. CASE CompileRaises
  BY <1>39 DEF CompileRaises
<1>40. CASE RequestCancel
  BY <1>40 DEF RequestCancel
<1>41. CASE Sigterm
  BY <1>41 DEF Sigterm
<1>42. CASE Sigkill
  BY <1>42 DEF Sigkill
<1>43. CASE NewerWrites
  BY <1>43 DEF NewerWrites
<1>44. ASSUME NEW k \in Killers, Fire(k) PROVE DoneInv'
  BY <1>44 DEF Fire
<1>45. ASSUME NEW k \in Killers, KillStatus(k) PROVE DoneInv'
  BY <1>45 DEF KillStatus
<1>46. ASSUME NEW k \in Killers, ReadPage(k) PROVE DoneInv'
  BY <1>46 DEF ReadPage
<1>47. ASSUME NEW k \in Killers, KillPage(k) PROVE DoneInv'
  BY <1>47 DEF KillPage
<1>48. ASSUME NEW k \in Killers, KillClear(k) PROVE DoneInv'
  BY <1>48 DEF KillClear
<1>49. ASSUME NEW t \in Threads, Leave(t) PROVE DoneInv'
  BY <1>49 DEF Leave
<1>50. CASE UNCHANGED vars
  BY <1>50 DEF vars
<1> HIDE DEF ProcessInv, TypeOK, Killers, Threads, DoneInv, Inside
<1> QED
  BY <1>1, <1>2, <1>3, <1>4, <1>5, <1>6, <1>7, <1>8, <1>9, <1>10, <1>11, <1>12, <1>13, <1>14, <1>15, <1>16,
     <1>17, <1>18, <1>19, <1>20, <1>21, <1>22, <1>23, <1>24, <1>25, <1>26, <1>27, <1>28, <1>29, <1>30, <1>31, <1>32,
     <1>33, <1>34, <1>35, <1>36, <1>37, <1>38, <1>39, <1>40, <1>41, <1>42, <1>43, <1>44, <1>45, <1>46, <1>47, <1>48,
     <1>49, <1>50
     DEF Next, Main, Heartbeat, Canceller, Kill, Threads

\* Once the page says done of a compile, only the next delivery's compile says
\* running of it again: no tick of a heartbeat follows it.
THEOREM DoneStaysLast == Spec => DoneIsLast
<1>1. Init => DoneInv
  BY DEF Init, DoneInv, Threads
<1>2. ProcessInv /\ DoneInv /\ [Next]_vars => DoneInv'
  BY DoneStep
<1>3. ASSUME ProcessInv, DoneInv, [Next]_vars
      PROVE  page = [of |-> "ours", is |-> "done"] /\ page' = [of |-> "ours", is |-> "running"]
               => pc["main"] = "seed"
  <2> SUFFICES ASSUME page = [of |-> "ours", is |-> "done"], page' = [of |-> "ours", is |-> "running"]
               PROVE  pc["main"] = "seed"
    OBVIOUS
  <2>1. Seed \/ StageReports \/ ProjectionPage \/ BeatPage
    BY <1>3 DEF Next, Main, Heartbeat, Canceller, Kill, vars,
       Restart, Recover, GiveUp, Receive, StartWatchdog, SendKeepalive, RememberKeepalive, CompileStatus, Seed, StageReports, StageMarks, StagesOver, StagesSilence, ProjectionPage, ProjectionStatus, UploadEnvelope, DonePage, FinallySilence, FinallyClear, StopWatchers, FinallyFree, RecordCompleted, Acknowledge, FailPage, RecordException, TermClear, TermPage, TermStatus, BeatTakes, BeatPage, BeatMarks, CancelStatus, CancelPage, CancelMessage, CancelRequest, CancelClear, CancelForget, Lapse, CompileRaises, RequestCancel, Sigterm, Sigkill, NewerWrites, Fire, KillStatus, ReadPage, KillPage, KillClear, Leave
  <2> QED
    BY <1>3, <2>1 DEF DoneInv, Seed, StageReports, ProjectionPage, BeatPage
<1> QED
  BY <1>1, <1>2, <1>3, ProcessInit, ProcessStep, PTL DEF Spec, DoneIsLast
------------------------------------------------------------------------------
\* Every step keeps a current version one of the compile's own.
LEMMA SnapshotStep ==
  ASSUME ProcessInv, SnapshotInv, [Next]_vars
  PROVE  SnapshotInv'
<1> USE DEF ProcessInv, TypeOK, Killers, Threads, SnapshotInv
<1>1. CASE Restart
  BY <1>1 DEF Restart
<1>2. CASE Recover
  BY <1>2 DEF Recover
<1>3. CASE GiveUp
  BY <1>3 DEF GiveUp
<1>4. CASE Receive
  BY <1>4 DEF Receive
<1>5. CASE StartWatchdog
  BY <1>5 DEF StartWatchdog
<1>6. CASE SendKeepalive
  BY <1>6 DEF SendKeepalive
<1>7. CASE RememberKeepalive
  BY <1>7 DEF RememberKeepalive
<1>8. CASE CompileStatus
  BY <1>8 DEF CompileStatus
<1>9. CASE Seed
  BY <1>9 DEF Seed
<1>10. CASE StageReports
  BY <1>10 DEF StageReports
<1>11. CASE StageMarks
  BY <1>11 DEF StageMarks
<1>12. CASE StagesOver
  BY <1>12 DEF StagesOver
<1>13. CASE StagesSilence
  BY <1>13 DEF StagesSilence
<1>14. CASE ProjectionPage
  BY <1>14 DEF ProjectionPage
<1>15. CASE ProjectionStatus
  BY <1>15 DEF ProjectionStatus
<1>16. CASE UploadEnvelope
  BY <1>16 DEF UploadEnvelope
<1>17. CASE DonePage
  BY <1>17 DEF DonePage
<1>18. CASE FinallySilence
  BY <1>18 DEF FinallySilence
<1>19. CASE FinallyClear
  BY <1>19 DEF FinallyClear
<1>20. CASE StopWatchers
  BY <1>20 DEF StopWatchers
<1>21. CASE FinallyFree
  BY <1>21 DEF FinallyFree
<1>22. CASE RecordCompleted
  BY <1>22 DEF RecordCompleted
<1>23. CASE Acknowledge
  BY <1>23 DEF Acknowledge
<1>24. CASE FailPage
  BY <1>24 DEF FailPage
<1>25. CASE RecordException
  BY <1>25 DEF RecordException
<1>26. CASE TermClear
  BY <1>26 DEF TermClear
<1>27. CASE TermPage
  BY <1>27 DEF TermPage
<1>28. CASE TermStatus
  BY <1>28 DEF TermStatus
<1>29. CASE BeatTakes
  BY <1>29 DEF BeatTakes
<1>30. CASE BeatPage
  BY <1>30 DEF BeatPage
<1>31. CASE BeatMarks
  BY <1>31 DEF BeatMarks
<1>32. CASE CancelStatus
  BY <1>32 DEF CancelStatus
<1>33. CASE CancelPage
  BY <1>33 DEF CancelPage
<1>34. CASE CancelMessage
  BY <1>34 DEF CancelMessage
<1>35. CASE CancelRequest
  BY <1>35 DEF CancelRequest
<1>36. CASE CancelClear
  BY <1>36 DEF CancelClear
<1>37. CASE CancelForget
  BY <1>37 DEF CancelForget
<1>38. CASE Lapse
  BY <1>38 DEF Lapse
<1>39. CASE CompileRaises
  BY <1>39 DEF CompileRaises
<1>40. CASE RequestCancel
  BY <1>40 DEF RequestCancel
<1>41. CASE Sigterm
  BY <1>41 DEF Sigterm
<1>42. CASE Sigkill
  BY <1>42 DEF Sigkill
<1>43. CASE NewerWrites
  BY <1>43 DEF NewerWrites
<1>44. ASSUME NEW k \in Killers, Fire(k) PROVE SnapshotInv'
  BY <1>44 DEF Fire
<1>45. ASSUME NEW k \in Killers, KillStatus(k) PROVE SnapshotInv'
  BY <1>45 DEF KillStatus
<1>46. ASSUME NEW k \in Killers, ReadPage(k) PROVE SnapshotInv'
  BY <1>46 DEF ReadPage
<1>47. ASSUME NEW k \in Killers, KillPage(k) PROVE SnapshotInv'
  BY <1>47 DEF KillPage
<1>48. ASSUME NEW k \in Killers, KillClear(k) PROVE SnapshotInv'
  BY <1>48 DEF KillClear
<1>49. ASSUME NEW t \in Threads, Leave(t) PROVE SnapshotInv'
  BY <1>49 DEF Leave
<1>50. CASE UNCHANGED vars
  BY <1>50 DEF vars
<1> HIDE DEF ProcessInv, TypeOK, Killers, Threads, SnapshotInv
<1> QED
  BY <1>1, <1>2, <1>3, <1>4, <1>5, <1>6, <1>7, <1>8, <1>9, <1>10, <1>11, <1>12, <1>13, <1>14, <1>15, <1>16,
     <1>17, <1>18, <1>19, <1>20, <1>21, <1>22, <1>23, <1>24, <1>25, <1>26, <1>27, <1>28, <1>29, <1>30, <1>31, <1>32,
     <1>33, <1>34, <1>35, <1>36, <1>37, <1>38, <1>39, <1>40, <1>41, <1>42, <1>43, <1>44, <1>45, <1>46, <1>47, <1>48,
     <1>49, <1>50
     DEF Next, Main, Heartbeat, Canceller, Kill, Threads

\* A killer that read a page before a newer compile took it over writes nothing:
\* the version it read is no longer there.
THEOREM NewerIsKept == Spec => NewerPageIsKept
<1>1. Init => SnapshotInv
  BY DEF Init, SnapshotInv
<1>2. ProcessInv /\ SnapshotInv /\ [Next]_vars => SnapshotInv'
  BY SnapshotStep
<1>3. ASSUME ProcessInv, SnapshotInv, [Next]_vars
      PROVE  \A k \in Killers :
               pc[k] = "write" /\ pc'[k] # "write" /\ page.of = "newer" /\ snapshot[k] # "absent"
                 => page' = page
  <2> SUFFICES ASSUME NEW k \in Killers, pc[k] = "write", pc'[k] # "write", page.of = "newer",
                      snapshot[k] # "absent"
               PROVE  page' = page
    OBVIOUS
  <2>1. KillPage(k) \/ Sigkill \/ \E t \in Threads : Leave(t)
    BY <1>3 DEF ProcessInv, TypeOK, Killers, Threads, Next, Main, Heartbeat, Canceller, Kill, vars,
       Restart, Recover, GiveUp, Receive, StartWatchdog, SendKeepalive, RememberKeepalive, CompileStatus, Seed, StageReports, StageMarks, StagesOver, StagesSilence, ProjectionPage, ProjectionStatus, UploadEnvelope, DonePage, FinallySilence, FinallyClear, StopWatchers, FinallyFree, RecordCompleted, Acknowledge, FailPage, RecordException, TermClear, TermPage, TermStatus, BeatTakes, BeatPage, BeatMarks, CancelStatus, CancelPage, CancelMessage, CancelRequest, CancelClear, CancelForget, Lapse, CompileRaises, RequestCancel, Sigterm, Sigkill, NewerWrites, Fire, KillStatus, ReadPage, KillPage, KillClear, Leave
  <2>2. snapshot[k] \notin {"absent", "current"}
    BY <1>3 DEF SnapshotInv
  <2> QED
    BY <2>1, <2>2 DEF KillPage, Sigkill, Leave
<1> QED
  BY <1>1, <1>2, <1>3, ProcessInit, ProcessStep, PTL DEF Spec, NewerPageIsKept
==============================================================================
